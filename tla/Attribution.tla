----------------------------- MODULE Attribution -----------------------------
(***************************************************************************)
(* Whose holdings are these?  A capture (portfolio/service.py) reads the   *)
(* balances of the account, then the ledger of orders, and calls what the  *)
(* ledger and the baseline do not explain "unexplained".  The baseline is  *)
(* what the account held before the agent came: the first capture writes   *)
(* it, once.  Each snapshot reports by how much the unexplained changed    *)
(* since the snapshot before, as a change "not made by this agent".        *)
(*                                                                         *)
(* Captures are taken by the runner's ticks, one after the other and never *)
(* beside an order of the tick, and by requests at any moment.  An order   *)
(* moves units of the base asset B against units of the quote asset Q.     *)
(*                                                                         *)
(* A definition commented "Variant" is no part of the specification.       *)
(***************************************************************************)
EXTENDS Integers, Sequences, FiniteSets

CONSTANTS
    Window,       \* the orders list_recent gives
    Size,         \* bound: the units of an order
    Balances,     \* what the account may hold when the agent comes
    MaxOrders,    \* bound: orders
    MaxMoves,     \* bound: what others move
    MaxSnaps,     \* bound: snapshots
    MaxRequests,  \* bound: captures that are requested
    Worlds        \* the environments to consider, each a set of troubles

(***************************************************************************)
(*   move      somebody else moves units in or out                         *)
(*   request   captures are requested beside the ticks                     *)
(*   unknown   reconciliation gives up: the ledger says partial or unknown *)
(*   late      ... and the order goes on trading                           *)
(*   costless  the exchange does not say what a fill cost                  *)
(*   fail      a capture fails half-way                                    *)
(*   legacy    the oldest snapshots are from before there was a baseline   *)
(***************************************************************************)
Troubles == {"move", "request", "unknown", "late", "costless", "fail", "legacy"}

ASSUME WorldsAssumption == Worlds \subseteq SUBSET Troubles
ASSUME BoundsAssumption ==
    /\ {Window, Size} \subseteq Nat \ {0}
    /\ {MaxOrders, MaxMoves, MaxSnaps, MaxRequests} \subseteq Nat

Assets == {"B", "Q"}
Amounts == [Assets -> Int]
ASSUME BalancesAssumption == Balances \subseteq [Assets -> Nat]

Captors == {"tick", "request"}

VARIABLES
    world,      \* the environment of this behaviour; never changes
    account,    \* the balances at the exchange
    moved,      \* what others moved so far; history
    orders,     \* the ledger, the oldest order first, with what really traded
    baseline,   \* attribution_baseline: asset -> quantity, 0 without a row
    snaps,      \* equity_snapshots, the oldest first
    capture,    \* captor -> its capture
    moves, requests   \* what is used up of the bounds

vars == <<world, account, moved, orders, baseline, snaps, capture, moves, requests>>

-----------------------------------------------------------------------------
Has(trouble) == trouble \in world
Zero == [a \in Assets |-> 0]
Plus(x, y) == [a \in Assets |-> x[a] + y[a]]
Minus(x, y) == [a \in Assets |-> x[a] - y[a]]

Total(seq) ==
    LET sum[n \in 0..Len(seq)] == IF n = 0 THEN Zero ELSE Plus(sum[n - 1], seq[n])
    IN sum[Len(seq)]

\* What n units of an order do to the two assets.
Effect(side, n) ==
    IF side = "buy" THEN [Zero EXCEPT !["B"] = n, !["Q"] = -n]
                    ELSE [Zero EXCEPT !["B"] = -n, !["Q"] = n]

\* attributed_holdings: only settled fills count, both assets, and the quote asset
\* only where the cost is known.
Credit(o) ==
    IF o.status \notin {"filled", "partial"} THEN Zero
    ELSE IF o.priced THEN Effect(o.side, o.filled)
    ELSE [Effect(o.side, o.filled) EXCEPT !["Q"] = 0]
Attributed ==
    Total([i \in 1..Len(orders) |->
             IF i > Len(orders) - Window THEN Credit(orders[i]) ELSE Zero])
\* The assets it has an entry for, be it zero.
Named ==
    {a \in Assets :
        \E i \in 1..Len(orders) :
            /\ i > Len(orders) - Window
            /\ orders[i].status \in {"filled", "partial"} /\ orders[i].filled > 0
            /\ a = "B" \/ orders[i].priced}

-----------------------------------------------------------------------------
Idle == [pc |-> "idle", seen |-> Zero, book |-> Zero, named |-> {}, base |-> Zero,
         seeded |-> FALSE, drift |-> Zero, beyond |-> Zero]

Init ==
    /\ world \in Worlds
    /\ account \in Balances
    /\ moved = Zero /\ moves = 0 /\ requests = 0
    /\ orders = <<>>
    /\ baseline = Zero
    /\ snaps = IF Has("legacy")
               THEN <<[gaps |-> account, listed |-> {a \in Assets : account[a] # 0},
                       legacy |-> TRUE, seeded |-> FALSE, drift |-> Zero, beyond |-> Zero]>>
               ELSE <<>>
    /\ capture = [c \in Captors |-> Idle]

At(c, label) == capture[c].pc = label

\* What others moved, and what traded without the ledger vouching for it.
Beyond ==
    Plus(moved, Total([i \in 1..Len(orders) |->
                         Minus(Effect(orders[i].side, orders[i].traded), Credit(orders[i]))]))

\* _fetch_balance: the balances of a moment ...
Fetch(c) ==
    /\ At(c, "idle")
    /\ Len(snaps) < MaxSnaps
    /\ \/ /\ c = "request" /\ Has("request")
          /\ requests < MaxRequests
          /\ requests' = requests + 1
       \/ /\ c = "tick"
          /\ \A i \in 1..Len(orders) : orders[i].status # "open"
          /\ UNCHANGED requests
    /\ capture' = [capture EXCEPT ![c] =
                     [Idle EXCEPT !.pc = "ledger", !.seen = account, !.beyond = Beyond]]
    /\ UNCHANGED <<world, account, moved, orders, baseline, snaps, moves>>
\* ... the ledger of a later one ...
ReadLedger(c) ==
    /\ At(c, "ledger")
    /\ capture' = [capture EXCEPT ![c].pc = "baseline", ![c].book = Attributed,
                                   ![c].named = Named]
    /\ UNCHANGED <<world, account, moved, orders, baseline, snaps, moves, requests>>
\* ... and the baseline.  When there is none, what the oldest snapshot left
\* unexplained becomes the baseline, or what this one would.
LoadBaseline(c) ==
    /\ At(c, "baseline")
    /\ capture' = [capture EXCEPT
                     ![c].pc = IF baseline = Zero THEN "seed" ELSE "compare",
                     ![c].base = IF baseline # Zero THEN baseline
                                 ELSE IF snaps # <<>> THEN snaps[1].gaps
                                 ELSE Minus(capture[c].seen, capture[c].book)]
    /\ UNCHANGED <<world, account, moved, orders, baseline, snaps, moves, requests>>
\* AttributionBaselineRepository.seed: somebody else's baseline is taken as it is.
SeedCheck(c) ==
    /\ At(c, "seed")
    /\ capture' = [capture EXCEPT
                     ![c].pc = IF baseline = Zero THEN "insert" ELSE "compare",
                     ![c].seeded = baseline # Zero \/ capture[c].base # Zero,
                     ![c].base = IF baseline # Zero THEN baseline ELSE @]
    /\ UNCHANGED <<world, account, moved, orders, baseline, snaps, moves, requests>>

Rows(quantities) == {a \in Assets : quantities[a] # 0}
\* Variant: the later one wins.
SeedCommitOver(c) ==
    /\ At(c, "insert")
    /\ baseline' = capture[c].base
    /\ capture' = [capture EXCEPT ![c].pc = "compare"]
    /\ UNCHANGED <<world, account, moved, orders, snaps, moves, requests>>
\* The rows are inserted together; one that exists fails them all and the capture.
SeedCommit(c) ==
    /\ At(c, "insert")
    /\ IF Rows(capture[c].base) \cap Rows(baseline) = {}
       THEN /\ baseline' = [a \in Assets |->
                            IF a \in Rows(capture[c].base) THEN capture[c].base[a]
                                                           ELSE baseline[a]]
            /\ capture' = [capture EXCEPT ![c].pc = "compare"]
       ELSE /\ capture' = [capture EXCEPT ![c] = Idle]
            /\ UNCHANGED baseline
    /\ UNCHANGED <<world, account, moved, orders, snaps, moves, requests>>

\* compare lists the assets of the balances, the ledger and the baseline; _fetch_balance
\* has dropped those the account has none of.
Listed(c) ==
    {a \in Assets : capture[c].seen[a] # 0 \/ capture[c].base[a] # 0 \/ a \in capture[c].named}
Gaps(c) == Minus(Minus(capture[c].seen, capture[c].book), capture[c].base)
\* Variant: every snapshot is taken to know of the baseline.
AdjustedNever(snap, base) == snap.gaps
\* _adjusted_unexplained: what old snapshots list does not know of the baseline.
Adjusted(snap, base) ==
    IF snap.legacy
    THEN [a \in Assets |-> IF a \in snap.listed THEN snap.gaps[a] - base[a] ELSE snap.gaps[a]]
    ELSE snap.gaps

\* unexplained_drift, of what this capture lists, but not by one that wrote the baseline.
Compare(c) ==
    /\ At(c, "compare")
    /\ capture' = [capture EXCEPT
                     ![c].pc = "save",
                     ![c].drift =
                        IF snaps = <<>> \/ capture[c].seeded THEN Zero
                        ELSE LET before == Adjusted(snaps[Len(snaps)], capture[c].base)
                             IN [a \in Assets |->
                                   IF a \in Listed(c) THEN Gaps(c)[a] - before[a] ELSE 0]]
    /\ UNCHANGED <<world, account, moved, orders, baseline, snaps, moves, requests>>
Save(c) ==
    /\ At(c, "save")
    /\ snaps' = Append(snaps, [gaps |-> Gaps(c), listed |-> Listed(c), legacy |-> FALSE,
                               seeded |-> capture[c].seeded, drift |-> capture[c].drift,
                               beyond |-> capture[c].beyond])
    /\ capture' = [capture EXCEPT ![c] = Idle]
    /\ UNCHANGED <<world, account, moved, orders, baseline, moves, requests>>
Fail(c) ==
    /\ Has("fail")
    /\ ~At(c, "idle")
    /\ capture' = [capture EXCEPT ![c] = Idle]
    /\ UNCHANGED <<world, account, moved, orders, baseline, snaps, moves, requests>>

-----------------------------------------------------------------------------
\* The tick's order, after its capture.
Place ==
    /\ Len(orders) < MaxOrders
    /\ At("tick", "idle")
    /\ \A i \in 1..Len(orders) : orders[i].status # "open"
    /\ \E side \in {"buy", "sell"} :
          /\ account[IF side = "buy" THEN "Q" ELSE "B"] >= Size
          /\ orders' = Append(orders, [side |-> side, status |-> "open", traded |-> 0,
                                       filled |-> 0, priced |-> TRUE])
    /\ UNCHANGED <<world, account, moved, baseline, snaps, capture, moves, requests>>
\* A unit trades.
Trade ==
    \E i \in 1..Len(orders) :
        /\ orders[i].traded < Size
        /\ orders[i].status = "open" \/ Has("late")
        /\ orders' = [orders EXCEPT ![i].traded = @ + 1]
        /\ account' = Plus(account, Effect(orders[i].side, 1))
        /\ account' \in [Assets -> Nat]
        /\ UNCHANGED <<world, moved, baseline, snaps, capture, moves, requests>>
\* apply_final, mark_failed: what the tick saw last of its order.
Settled(o) ==
    {status \in {"filled", "partial", "unknown"} :
        /\ status = "filled" <=> o.traded = Size
        /\ status = "partial" => o.traded > 0}
    \cup IF Has("unknown") THEN {"unknown"} ELSE {}
\* Variant: an order that is recorded is taken to have traded all it asked for.
RecordTrusting ==
    \E i \in 1..Len(orders) :
        /\ orders[i].status = "open"
        /\ orders[i].traded = Size \/ Has("unknown")
        /\ \E status \in Settled(orders[i]), priced \in {TRUE, ~Has("costless")} :
              orders' = [orders EXCEPT ![i].status = status, ![i].filled = Size,
                                       ![i].priced = priced]
        /\ UNCHANGED <<world, account, moved, baseline, snaps, capture, moves, requests>>
Record ==
    \E i \in 1..Len(orders) :
        /\ orders[i].status = "open"
        /\ orders[i].traded = Size \/ Has("unknown")
        /\ \E status \in Settled(orders[i]), priced \in {TRUE, ~Has("costless")} :
              orders' = [orders EXCEPT ![i].status = status, ![i].filled = orders[i].traded,
                                       ![i].priced = priced]
        /\ UNCHANGED <<world, account, moved, baseline, snaps, capture, moves, requests>>

Move ==
    /\ Has("move")
    /\ moves < MaxMoves
    /\ moves' = moves + 1
    /\ \E a \in Assets, n \in {-1, 1} :
          /\ account' = [account EXCEPT ![a] = @ + n]
          /\ account'[a] >= 0
          /\ moved' = [moved EXCEPT ![a] = @ + n]
    /\ UNCHANGED <<world, orders, baseline, snaps, capture, requests>>

Next ==
    \/ \E c \in Captors :
          \/ Fetch(c) \/ ReadLedger(c) \/ LoadBaseline(c) \/ SeedCheck(c) \/ SeedCommit(c)
          \/ Compare(c) \/ Save(c) \/ Fail(c)
    \/ Place \/ Trade \/ Record \/ Move

Spec == Init /\ [][Next]_vars

-----------------------------------------------------------------------------
(***************************************************************************)
(* Properties.                                                             *)
(***************************************************************************)
FreeOf(troubles) == world \cap troubles = {}

Labels == {"idle", "ledger", "baseline", "seed", "insert", "compare", "save"}
TypeOK ==
    /\ world \in Worlds
    /\ account \in [Assets -> Nat]
    /\ moved \in Amounts /\ moves \in 0..MaxMoves /\ requests \in 0..MaxRequests
    /\ orders \in Seq([side : {"buy", "sell"}, status : {"open", "filled", "partial", "unknown"},
                       traded : 0..Size, filled : 0..Size, priced : BOOLEAN])
    /\ \A i \in 1..Len(orders) : orders[i].filled <= orders[i].traded
    /\ baseline \in Amounts
    /\ snaps \in Seq([gaps : Amounts, listed : SUBSET Assets, legacy : BOOLEAN,
                      seeded : BOOLEAN, drift : Amounts, beyond : Amounts])
    /\ capture \in [Captors -> [pc : Labels, seen : Amounts, book : Amounts,
                                named : SUBSET Assets, base : Amounts, seeded : BOOLEAN,
                                drift : Amounts, beyond : Amounts]]

\* The baseline is a beginning and is never rewritten (AttributionBaselineRepository),
\* not even by two first captures that overlap.
BaselineIsKept == [][\A a \in Assets : baseline[a] # 0 => baseline'[a] = baseline[a]]_vars

\* What a snapshot reports as not made by this agent is exactly that (service.py: the
\* change is the signal), for every asset it lists: what others moved between the two
\* readings of the account, and what orders traded that the ledger does not vouch for.
\* Nothing is reported twice, also across captures that failed and the snapshots from
\* before the baseline; as long as captures do not overlap with each other or with an
\* order and the ledger fits in the window, or nothing happens at all.  Not reported
\* is an asset that is not listed any more, though others have just taken the last of
\* it, and what they moved between the old snapshots and the one that wrote the
\* baseline.
DriftIsNotOurs ==
    (FreeOf({"request"}) /\ Len(orders) <= Window) \/ (orders = <<>> /\ moves = 0) =>
        \A i \in 2..Len(snaps) :
            \/ snaps[i].seeded /\ snaps[i - 1].legacy
            \/ \A a \in snaps[i].listed :
                  snaps[i].drift[a] = snaps[i].beyond[a] - snaps[i - 1].beyond[a]
=============================================================================

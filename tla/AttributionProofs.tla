-------------------------- MODULE AttributionProofs --------------------------
(***************************************************************************)
(* Proofs about Attribution, for every account, ledger, window, number of  *)
(* captures and set of environments: types, a baseline that is written     *)
(* once, and reports of exactly what the ledger cannot vouch for.          *)
(*                                                                         *)
(* What the account held before the agent came, the balances less what     *)
(* others moved and what orders traded, never changes (StartKept).  The    *)
(* invariant ties everything that is stored to it.  That a total over the  *)
(* ledger changes by what one entry changes by is proved by induction over *)
(* its length (UpTo).                                                      *)
(***************************************************************************)
EXTENDS Attribution, Induction

\* What is added up, the first n entries of seq.
Sums(seq) ==
    CHOOSE sum : sum = [n \in 0..Len(seq) |->
                          IF n = 0 THEN Zero ELSE Plus(sum[n - 1], seq[n])]

OrderRecords == [side : {"buy", "sell"}, status : {"open", "filled", "partial", "unknown"},
                 traded : 0..Size, filled : 0..Size, priced : BOOLEAN]
SnapRecords == [gaps : Amounts, listed : SUBSET Assets, legacy : BOOLEAN, seeded : BOOLEAN,
                drift : Amounts, beyond : Amounts]
CaptureRecords == [pc : Labels, seen : Amounts, book : Amounts, named : SUBSET Assets,
                   base : Amounts, seeded : BOOLEAN, drift : Amounts, beyond : Amounts]

\* The ledger, entry by entry: what really traded, what the ledger vouches for, what it
\* does not, and what it says to a capture.
Bought(ledger) == [i \in 1..Len(ledger) |-> Effect(ledger[i].side, ledger[i].traded)]
Credited(ledger) == [i \in 1..Len(ledger) |-> Credit(ledger[i])]
Unvouched(ledger) == [i \in 1..Len(ledger) |->
                        Minus(Effect(ledger[i].side, ledger[i].traded), Credit(ledger[i]))]
Recent(ledger) == [i \in 1..Len(ledger) |->
                     IF i > Len(ledger) - Window THEN Credit(ledger[i]) ELSE Zero]

\* What the account held before the agent came.
Start == Minus(Minus(account, moved), Total(Bought(orders)))

-----------------------------------------------------------------------------
(***************************************************************************)
(* The invariant, in parts.                                                *)
(***************************************************************************)
NoOrderOpen == \A i \in 1..Len(orders) : orders[i].status # "open"

\* What the schedule keeps apart: the tick's capture and its order, the requests and
\* the worlds without them.
Scheduled ==
    /\ moves = 0 => moved = Zero
    /\ ~At("tick", "idle") => NoOrderOpen
    /\ FreeOf({"request"}) => capture["request"] = Idle
    /\ \A c \in Captors :
          capture[c].pc \in {"idle", "ledger", "baseline", "seed"} => ~capture[c].seeded

\* Where captures do not overlap and the ledger fits in the window.
Apart == FreeOf({"request"}) /\ Len(orders) <= Window
Tick == capture["tick"]
Last == snaps[Len(snaps)]
Based == {"compare", "save"}
\* The ledger, as the tick's capture has read it or is about to.
Book == IF Tick.pc = "ledger" THEN Attributed ELSE Tick.book
\* What a capture takes for the baseline when there is none.
Beginning == IF snaps # <<>> THEN snaps[1].gaps ELSE Minus(Tick.seen, Tick.book)

\* The balances that were read, less what the ledger explains or does not vouch for,
\* are those of the beginning.
TickReads == Tick.pc # "idle" => Minus(Tick.seen, Plus(Tick.beyond, Book)) = Start
\* A baseline that is missing is only missing for want of something to write.
TickBegins ==
    /\ Tick.pc \in {"seed", "insert"} => baseline = Zero /\ Tick.base = Beginning
    /\ Tick.pc = "insert" => Tick.seeded = (Tick.base # Zero)
    /\ Tick.pc \in Based => Tick.base = baseline /\ (baseline = Zero => Beginning = Zero)
\* The capture that writes the baseline follows no snapshot that knew it.
TickReports ==
    /\ Tick.pc \in Based /\ Tick.seeded => snaps = <<>> \/ Last.legacy
    /\ Tick.pc = "save" /\ ~Tick.seeded /\ snaps # <<>> =>
          \A a \in Listed("tick") : Tick.drift[a] = Tick.beyond[a] - Last.beyond[a]
\* What a snapshot left unexplained is what the ledger did not vouch for, and the
\* beginning, from which the baseline is taken off as soon as there is one.  There is
\* none of what a snapshot from before it does not list.
SnapsExplain ==
    /\ \A i \in 1..Len(snaps) :
          snaps[i].gaps = Minus(Plus(Start, snaps[i].beyond),
                                IF snaps[i].legacy THEN Zero ELSE baseline)
    /\ baseline = Zero /\ snaps # <<>> /\ snaps[1].gaps # Zero =>
          Len(snaps) = 1 /\ snaps[1].legacy
    /\ \A i \in 1..Len(snaps) : snaps[i].legacy =>
          \A a \in Assets \ snaps[i].listed : snaps[i].gaps[a] = 0 /\ baseline[a] = 0
\* What DriftIsNotOurs says of the reports.
Reports ==
    \A i \in 2..Len(snaps) :
        \/ snaps[i].seeded /\ snaps[i - 1].legacy
        \/ \A a \in snaps[i].listed :
              snaps[i].drift[a] = snaps[i].beyond[a] - snaps[i - 1].beyond[a]
Explains == TickReads /\ TickBegins /\ TickReports /\ SnapsExplain /\ Reports

\* Nothing has been ordered or moved: whatever captures overlap, each sees the account
\* as it was, takes it for the baseline, and has nothing to report.
Quiet == orders = <<>> /\ moves = 0
StillCapture(c) ==
    /\ capture[c].book = Zero /\ capture[c].beyond = Zero /\ capture[c].drift = Zero
    /\ capture[c].pc # "idle" => capture[c].seen = account
    /\ capture[c].pc \in {"seed", "insert", "compare", "save"} => capture[c].base = account
    /\ capture[c].pc \in Based => baseline = account
StillSnaps ==
    \A i \in 1..Len(snaps) :
        /\ snaps[i].drift = Zero /\ snaps[i].beyond = Zero
        /\ snaps[i].gaps = IF snaps[i].legacy THEN account ELSE Zero
        /\ snaps[i].legacy => \A a \in Assets \ snaps[i].listed : account[a] = 0
        /\ ~snaps[i].legacy => baseline = account
Still ==
    /\ baseline \in {Zero, account}
    /\ \A c \in Captors : StillCapture(c)
    /\ StillSnaps

IInv == TypeOK /\ Scheduled /\ (Apart => Explains) /\ (Quiet => Still)

\* What a capture may do next.
CaptureSteps(c) ==
    \/ Fetch(c) \/ ReadLedger(c) \/ LoadBaseline(c) \/ SeedCheck(c) \/ SeedCommit(c)
    \/ Compare(c) \/ Save(c) \/ Fail(c)

-----------------------------------------------------------------------------
(***************************************************************************)
(* Totals.                                                                 *)
(***************************************************************************)
\* The sums of the first entries, 0, 1, ... of them.
LEMMA TotalIsSum ==
    ASSUME NEW seq
    PROVE  Total(seq) = Sums(seq)[Len(seq)]
  BY DEF Total, Sums

\* The recursion has a solution.
LEMMA SumsDefined ==
    ASSUME NEW seq, Len(seq) \in Nat
    PROVE  Sums(seq) = [n \in 0..Len(seq) |->
                          IF n = 0 THEN Zero ELSE Plus(Sums(seq)[n - 1], seq[n])]
  <1> DEFINE IsSum(f, m) == f = [n \in 0..m |-> IF n = 0 THEN Zero ELSE Plus(f[n - 1], seq[n])]
             T == {m \in 0..Len(seq) : \E f : IsSum(f, m)}
  <1>1. 0 \in T
    <2>1. IsSum([n \in 0..0 |-> Zero], 0)
      OBVIOUS
    <2> HIDE DEF IsSum
    <2> QED
      BY <2>1
  <1>2. ASSUME NEW m \in 1..Len(seq), m - 1 \in T
        PROVE  m \in T
    <2>1. PICK f : IsSum(f, m - 1)
      BY <1>2
    <2> DEFINE g == [n \in 0..m |-> IF n = m THEN Plus(f[m - 1], seq[m]) ELSE f[n]]
    <2>2. \A n \in 0..m : g[n] = IF n = 0 THEN Zero ELSE Plus(g[n - 1], seq[n])
      <3> SUFFICES ASSUME NEW n \in 0..m
                   PROVE  g[n] = IF n = 0 THEN Zero ELSE Plus(g[n - 1], seq[n])
        OBVIOUS
      <3>1. CASE n = m
        BY <3>1
      <3>2. CASE n # m
        <4>1. n \in 0..m - 1
          BY <3>2
        <4>2. f[n] = IF n = 0 THEN Zero ELSE Plus(f[n - 1], seq[n])
          BY <2>1, <4>1
        <4> QED
          BY <3>2, <4>1, <4>2
      <3> QED
        BY <3>1, <3>2
    <2>3. IsSum(g, m)
      BY <2>2
    <2> HIDE DEF IsSum, g
    <2> QED
      BY <2>3
  <1>3. T = 0..Len(seq)
    <2> HIDE DEF T
    <2>1. T \in SUBSET (0..Len(seq))
      BY DEF T
    <2> QED
      BY <1>1, <1>2, <2>1, UpTo
  <1>4. \E f : IsSum(f, Len(seq))
    BY <1>3
  <1> QED
    BY <1>4 DEF Sums

\* Amounts are added asset by asset.
LEMMA AmountsType ==
    /\ Zero \in Amounts
    /\ \A x, y \in Amounts : Plus(x, y) \in Amounts /\ Minus(x, y) \in Amounts
  BY DEF Amounts, Zero, Plus, Minus

\* Amounts are the same when they are of each asset.
LEMMA SameAmount ==
    ASSUME NEW x \in Amounts, NEW y \in Amounts, \A a \in Assets : x[a] = y[a]
    PROVE  x = y
  BY DEF Amounts

\* The sums of the first entries.
LEMMA SumsSteps ==
    ASSUME NEW seq \in Seq(Amounts)
    PROVE  /\ Sums(seq)[0] = Zero
           /\ \A n \in 1..Len(seq) : Sums(seq)[n] = Plus(Sums(seq)[n - 1], seq[n])
           /\ \A n \in 0..Len(seq) : Sums(seq)[n] \in Amounts
  <1>1. /\ Sums(seq)[0] = Zero
        /\ \A n \in 1..Len(seq) : Sums(seq)[n] = Plus(Sums(seq)[n - 1], seq[n])
    BY SumsDefined
  <1> DEFINE T == {n \in 0..Len(seq) : Sums(seq)[n] \in Amounts}
  <1>2. 0 \in T
    BY <1>1, AmountsType
  <1>3. ASSUME NEW n \in 1..Len(seq), n - 1 \in T
        PROVE  n \in T
    BY <1>1, <1>3, AmountsType
  <1>4. T = 0..Len(seq)
    <2> HIDE DEF T
    <2>1. T \in SUBSET (0..Len(seq))
      BY DEF T
    <2> QED
      BY <1>2, <1>3, <2>1, UpTo
  <1> QED
    BY <1>1, <1>4

LEMMA TotalType ==
    ASSUME NEW seq \in Seq(Amounts)
    PROVE  Total(seq) \in Amounts
  BY SumsSteps, TotalIsSum

\* Entry by entry, the totals of two ledgers add up to the total of both.
LEMMA TotalOfBoth ==
    ASSUME NEW s \in Seq(Amounts), NEW t \in Seq(Amounts), NEW u \in Seq(Amounts),
           Len(t) = Len(s), Len(u) = Len(s),
           \A n \in 1..Len(s) : u[n] = Plus(s[n], t[n])
    PROVE  Total(u) = Plus(Total(s), Total(t))
  <1> DEFINE T == {n \in 0..Len(s) : Sums(u)[n] = Plus(Sums(s)[n], Sums(t)[n])}
  <1>1. 0 \in T
    <2>1. Plus(Zero, Zero) = Zero
      BY DEF Plus, Zero
    <2>2. Sums(s)[0] = Zero /\ Sums(t)[0] = Zero /\ Sums(u)[0] = Zero
      BY SumsSteps
    <2> QED
      BY <2>1, <2>2
  <1>2. ASSUME NEW n \in 1..Len(s), n - 1 \in T
        PROVE  n \in T
    <2>1. s[n] \in Amounts /\ t[n] \in Amounts
      OBVIOUS
    <2>2. /\ Sums(s)[n - 1] \in Amounts /\ Sums(s)[n] = Plus(Sums(s)[n - 1], s[n])
          /\ Sums(t)[n - 1] \in Amounts /\ Sums(t)[n] = Plus(Sums(t)[n - 1], t[n])
          /\ Sums(u)[n] = Plus(Sums(u)[n - 1], Plus(s[n], t[n]))
      BY SumsSteps
    <2>3. Sums(u)[n - 1] = Plus(Sums(s)[n - 1], Sums(t)[n - 1])
      BY <1>2
    <2> DEFINE v == Sums(s)[n - 1]
               w == Sums(t)[n - 1]
    <2>4. v \in Amounts /\ w \in Amounts
      BY <2>2
    <2> HIDE DEF v, w
    <2>5. Plus(Plus(v, w), Plus(s[n], t[n])) = Plus(Plus(v, s[n]), Plus(w, t[n]))
      BY SMTT(20), <2>1, <2>4 DEF Amounts, Plus
    <2>6. Sums(u)[n] = Plus(Sums(s)[n], Sums(t)[n])
      BY <2>2, <2>3, <2>5 DEF v, w
    <2> QED
      BY <2>6
  <1>3. T = 0..Len(s)
    <2> HIDE DEF T
    <2>1. T \in SUBSET (0..Len(s))
      BY DEF T
    <2> QED
      BY <1>1, <1>2, <2>1, UpTo
  <1>4. Sums(u)[Len(s)] = Plus(Sums(s)[Len(s)], Sums(t)[Len(s)])
    <2>1. Len(s) \in 0..Len(s)
      OBVIOUS
    <2> QED
      BY <1>3, <2>1
  <1>5. Total(s) = Sums(s)[Len(s)] /\ Total(t) = Sums(t)[Len(s)] /\ Total(u) = Sums(u)[Len(s)]
    BY TotalIsSum
  <1> QED
    BY <1>4, <1>5

\* An entry that changes changes the total by as much.
LEMMA TotalChanges ==
    ASSUME NEW s \in Seq(Amounts), NEW t \in Seq(Amounts), Len(t) = Len(s),
           NEW i \in 1..Len(s), \A n \in 1..Len(s) : n # i => t[n] = s[n]
    PROVE  Total(t) = Plus(Total(s), Minus(t[i], s[i]))
  <1> DEFINE T == {n \in 0..Len(s) :
                     Sums(t)[n] = IF n < i THEN Sums(s)[n]
                                  ELSE Plus(Sums(s)[n], Minus(t[i], s[i]))}
  <1>1. 0 \in T
    BY SumsSteps
  <1>2. ASSUME NEW n \in 1..Len(s), n - 1 \in T
        PROVE  n \in T
    <2>1. s[n] \in Amounts /\ t[n] \in Amounts /\ s[i] \in Amounts /\ t[i] \in Amounts
      OBVIOUS
    <2>2. /\ Sums(s)[n - 1] \in Amounts /\ Sums(s)[n] = Plus(Sums(s)[n - 1], s[n])
          /\ Sums(t)[n] = Plus(Sums(t)[n - 1], t[n])
      BY SumsSteps
    <2>3. CASE n < i
      BY <1>2, <2>2, <2>3
    <2>4. CASE n = i
      <3>1. Sums(t)[n] = Plus(Sums(s)[n - 1], t[i])
        BY <1>2, <2>2, <2>4
      <3>2. ASSUME NEW x \in Amounts, NEW y \in Amounts, NEW z \in Amounts
            PROVE  Plus(x, y) = Plus(Plus(x, z), Minus(y, z))
        BY DEF Amounts, Plus, Minus
      <3>3. Plus(Sums(s)[n - 1], t[i])
              = Plus(Plus(Sums(s)[n - 1], s[i]), Minus(t[i], s[i]))
        BY <2>1, <2>2, <3>2
      <3> QED
        BY <2>2, <2>4, <3>1, <3>3
    <2>5. CASE n > i
      <3>1. Sums(t)[n] = Plus(Plus(Sums(s)[n - 1], Minus(t[i], s[i])), s[n])
        BY <1>2, <2>2, <2>5
      <3>2. ASSUME NEW x \in Amounts, NEW y \in Amounts, NEW z \in Amounts
            PROVE  Plus(Plus(x, z), y) = Plus(Plus(x, y), z)
        BY DEF Amounts, Plus
      <3>3. Minus(t[i], s[i]) \in Amounts
        BY <2>1, AmountsType
      <3>4. Plus(Plus(Sums(s)[n - 1], Minus(t[i], s[i])), s[n])
              = Plus(Plus(Sums(s)[n - 1], s[n]), Minus(t[i], s[i]))
        BY <2>1, <2>2, <3>2, <3>3
      <3> QED
        BY <2>2, <2>5, <3>1, <3>4
    <2> QED
      BY <2>3, <2>4, <2>5
  <1>3. T = 0..Len(s)
    <2> HIDE DEF T
    <2>1. T \in SUBSET (0..Len(s))
      BY DEF T
    <2> QED
      BY <1>1, <1>2, <2>1, UpTo
  <1> QED
    BY SMTT(20), <1>3, TotalIsSum

\* Entries that say nothing add nothing, and neither does one at the end.
LEMMA TotalOfNothing ==
    ASSUME NEW s \in Seq(Amounts), \A n \in 1..Len(s) : s[n] = Zero
    PROVE  Total(s) = Zero
  <1> DEFINE T == {n \in 0..Len(s) : Sums(s)[n] = Zero}
  <1>1. 0 \in T
    BY SumsSteps
  <1>2. ASSUME NEW n \in 1..Len(s), n - 1 \in T
        PROVE  n \in T
    <2>1. Plus(Zero, Zero) = Zero
      BY DEF Plus, Zero
    <2> QED
      BY <1>2, <2>1, SumsSteps
  <1>3. T = 0..Len(s)
    <2> HIDE DEF T
    <2>1. T \in SUBSET (0..Len(s))
      BY DEF T
    <2> QED
      BY <1>1, <1>2, <2>1, UpTo
  <1> QED
    BY <1>3, TotalIsSum

\* One entry more adds what it says.
LEMMA TotalGrows ==
    ASSUME NEW s \in Seq(Amounts), NEW t \in Seq(Amounts), Len(t) = Len(s) + 1,
           \A n \in 1..Len(s) : t[n] = s[n]
    PROVE  Total(t) = Plus(Total(s), t[Len(t)])
  <1> DEFINE T == {n \in 0..Len(s) : Sums(t)[n] = Sums(s)[n]}
  <1>1. 0 \in T
    BY SumsSteps
  <1>2. ASSUME NEW n \in 1..Len(s), n - 1 \in T
        PROVE  n \in T
    <2>1. n \in 1..Len(t) /\ t[n] = s[n]
      OBVIOUS
    <2> QED
      BY <1>2, <2>1, SumsSteps
  <1>3. T = 0..Len(s)
    <2> HIDE DEF T
    <2>1. T \in SUBSET (0..Len(s))
      BY DEF T
    <2> QED
      BY <1>1, <1>2, <2>1, UpTo
  <1>4. Len(t) \in 1..Len(t) /\ Len(t) - 1 = Len(s)
    OBVIOUS
  <1>5. Sums(t)[Len(t)] = Plus(Sums(t)[Len(s)], t[Len(t)])
    BY <1>4, SumsSteps
  <1>6. Sums(t)[Len(s)] = Sums(s)[Len(s)]
    BY <1>3
  <1> QED
    BY <1>5, <1>6, TotalIsSum

-----------------------------------------------------------------------------
(***************************************************************************)
(* Types.                                                                  *)
(***************************************************************************)
\* Types of what is read off the ledger.
LEMMA EffectType ==
    ASSUME NEW side, NEW n \in Int
    PROVE  Effect(side, n) \in Amounts
  BY DEF Effect, Amounts, Zero, Assets

\* A credit is an amount.
LEMMA CreditType ==
    ASSUME NEW o \in OrderRecords
    PROVE  Credit(o) \in Amounts
  <1>1. o.filled \in Int
    BY DEF OrderRecords
  <1>2. Effect(o.side, o.filled) \in Amounts
    BY <1>1, EffectType
  <1>3. ASSUME NEW x \in Amounts
        PROVE  [x EXCEPT !["Q"] = 0] \in Amounts
    BY DEF Amounts, Assets
  <1> QED
    BY <1>2, <1>3, AmountsType DEF Credit

\* The ledger, entry by entry.
LEMMA LedgerTypes ==
    ASSUME NEW ledger \in Seq(OrderRecords)
    PROVE  /\ Bought(ledger) \in Seq(Amounts) /\ Credited(ledger) \in Seq(Amounts)
           /\ Unvouched(ledger) \in Seq(Amounts) /\ Recent(ledger) \in Seq(Amounts)
  <1>1. ASSUME NEW i \in 1..Len(ledger)
        PROVE  /\ Credit(ledger[i]) \in Amounts
               /\ Effect(ledger[i].side, ledger[i].traded) \in Amounts
               /\ Minus(Effect(ledger[i].side, ledger[i].traded), Credit(ledger[i])) \in Amounts
    <2>1. ledger[i] \in OrderRecords
      OBVIOUS
    <2>2. ledger[i].traded \in Int
      BY <2>1 DEF OrderRecords
    <2> QED
      BY <2>1, <2>2, CreditType, EffectType, AmountsType
  <1>2. Bought(ledger) \in Seq(Amounts)
    BY <1>1 DEF Bought
  <1>3. Credited(ledger) \in Seq(Amounts)
    BY <1>1 DEF Credited
  <1>4. Unvouched(ledger) \in Seq(Amounts)
    BY <1>1 DEF Unvouched
  <1>5. Recent(ledger) \in Seq(Amounts)
    BY <1>1, AmountsType DEF Recent
  <1> QED
    BY <1>2, <1>3, <1>4, <1>5

\* What the ledger vouches for, and what it does not, are amounts.
LEMMA LedgerTotals ==
    ASSUME orders \in Seq(OrderRecords)
    PROVE  /\ Attributed = Total(Recent(orders)) /\ Attributed \in Amounts
           /\ Beyond = Plus(moved, Total(Unvouched(orders)))
           /\ moved \in Amounts => Beyond \in Amounts
  <1>1. Attributed = Total(Recent(orders)) /\ Beyond = Plus(moved, Total(Unvouched(orders)))
    BY DEF Attributed, Recent, Beyond, Unvouched
  <1> QED
    BY <1>1, LedgerTypes, TotalType, AmountsType

\* TypeOK holds at the start.
LEMMA TypeStart == Init => TypeOK
  <1> SUFFICES ASSUME Init
               PROVE  TypeOK
    OBVIOUS
  <1>1. account \in [Assets -> Nat] /\ account \in Amounts
    BY BalancesAssumption DEF Init, Amounts
  <1>2. world \in Worlds /\ moved \in Amounts /\ baseline \in Amounts
        /\ moves \in 0..MaxMoves /\ requests \in 0..MaxRequests
    BY BoundsAssumption, AmountsType DEF Init
  <1>3. snaps \in Seq(SnapRecords)
    <2>1. [gaps |-> account, listed |-> {a \in Assets : account[a] # 0}, legacy |-> TRUE,
           seeded |-> FALSE, drift |-> Zero, beyond |-> Zero] \in SnapRecords
      BY <1>1, AmountsType DEF SnapRecords
    <2> QED
      BY <2>1 DEF Init
  <1>4. capture \in [Captors -> CaptureRecords]
    <2>1. Idle \in CaptureRecords
      BY AmountsType DEF Idle, CaptureRecords, Labels
    <2> QED
      BY <2>1 DEF Init
  <1>5. orders = <<>>
    BY DEF Init
  <1> QED
    BY <1>1, <1>2, <1>3, <1>4, <1>5 DEF TypeOK, SnapRecords, CaptureRecords

\* A snapshot seen from a baseline.
LEMMA AdjustedType ==
    ASSUME NEW s \in SnapRecords, NEW base \in Amounts
    PROVE  Adjusted(s, base) \in Amounts
  <1>1. s.gaps \in [Assets -> Int] /\ base \in [Assets -> Int]
    BY DEF SnapRecords, Amounts
  <1>2. [a \in Assets |-> IF a \in s.listed THEN s.gaps[a] - base[a] ELSE s.gaps[a]]
           \in [Assets -> Int]
    BY <1>1
  <1> QED
    BY <1>1, <1>2 DEF Adjusted, Amounts

\* A capture writes its record, the baseline or the snapshots.
LEMMA CaptureTypes ==
    ASSUME TypeOK, NEW c \in Captors,
           \/ Fetch(c) \/ ReadLedger(c) \/ LoadBaseline(c) \/ SeedCheck(c) \/ SeedCommit(c)
           \/ Compare(c) \/ Save(c) \/ Fail(c)
    PROVE  TypeOK'
  <1> DEFINE r == capture[c]
  <1>1. /\ r \in CaptureRecords /\ Idle \in CaptureRecords
        /\ baseline \in Amounts /\ account \in Amounts
        /\ snaps \in Seq(SnapRecords)
        /\ capture \in [Captors -> CaptureRecords]
        /\ orders \in Seq(OrderRecords)
    BY AmountsType DEF TypeOK, SnapRecords, CaptureRecords, OrderRecords, Idle, Labels, Amounts
  <1>2. Beyond \in Amounts /\ Attributed \in Amounts
    BY <1>1, LedgerTotals DEF TypeOK
  <1>3. UNCHANGED <<world, account, moved, orders, moves>>
    BY DEF Fetch, ReadLedger, LoadBaseline, SeedCheck, SeedCommit, Compare, Save, Fail
  <1>4. requests' \in 0..MaxRequests
    BY BoundsAssumption DEF TypeOK, Fetch, ReadLedger, LoadBaseline, SeedCheck, SeedCommit, Compare, Save, Fail
  <1>5. r.seen \in Amounts /\ r.book \in Amounts /\ r.base \in Amounts /\ r.drift \in Amounts
        /\ r.beyond \in Amounts /\ Minus(r.seen, r.book) \in Amounts /\ Gaps(c) \in Amounts
    BY <1>1, AmountsType DEF CaptureRecords, Gaps
  <1>6. ASSUME NEW i \in 1..Len(snaps)
        PROVE  snaps[i] \in SnapRecords /\ snaps[i].gaps \in Amounts
    <2>1. snaps[i] \in SnapRecords
      BY <1>1, <1>6
    <2> QED
      BY <2>1 DEF SnapRecords
  <1>7. baseline' \in Amounts
    <2>1. CASE SeedCommit(c)
      BY <1>5, <1>1, <2>1 DEF SeedCommit, Amounts
    <2>2. CASE ~SeedCommit(c)
      BY <1>1, <2>2 DEF Fetch, ReadLedger, LoadBaseline, SeedCheck, Compare, Save, Fail
    <2> QED
      BY <2>1, <2>2
  <1>8. snaps' \in Seq(SnapRecords)
    <2>1. CASE Save(c)
      <3>1. [gaps |-> Gaps(c), listed |-> Listed(c), legacy |-> FALSE, seeded |-> r.seeded,
             drift |-> r.drift, beyond |-> r.beyond] \in SnapRecords
        BY <1>1, <1>5 DEF SnapRecords, CaptureRecords, Listed
      <3> QED
        BY <1>1, <2>1, <3>1 DEF Save
    <2>2. CASE ~Save(c)
      BY <1>1, <2>2 DEF Fetch, ReadLedger, LoadBaseline, SeedCheck, SeedCommit, Compare, Fail
    <2> QED
      BY <2>1, <2>2
  <1>9. \E s \in CaptureRecords : capture' = [capture EXCEPT ![c] = s]
    <2> HIDE DEF r
    <2>1. CASE Fetch(c)
      <3>1. [Idle EXCEPT !.pc = "ledger", !.seen = account, !.beyond = Beyond] \in CaptureRecords
        BY <1>1, <1>2 DEF CaptureRecords, Labels
      <3> QED
        BY <2>1, <3>1 DEF Fetch
    <2>2. CASE ReadLedger(c)
      <3>1. [r EXCEPT !.pc = "baseline", !.book = Attributed, !.named = Named] \in CaptureRecords
        BY <1>1, <1>2 DEF CaptureRecords, Labels, Named
      <3> QED
        BY <1>1, <2>2, <3>1 DEF ReadLedger, r
    <2>3. CASE LoadBaseline(c)
      <3> DEFINE base == IF baseline # Zero THEN baseline
                         ELSE IF snaps # <<>> THEN snaps[1].gaps ELSE Minus(r.seen, r.book)
                 next == IF baseline = Zero THEN "seed" ELSE "compare"
      <3>1. base \in Amounts
        BY <1>1, <1>5, <1>6
      <3>2. next \in Labels
        BY DEF Labels
      <3>3. capture' = [capture EXCEPT ![c] = [r EXCEPT !.pc = next, !.base = base]]
        BY <1>1, <2>3 DEF LoadBaseline, r
      <3> HIDE DEF base, next
      <3>4. [r EXCEPT !.pc = next, !.base = base] \in CaptureRecords
        BY <1>1, <3>1, <3>2 DEF CaptureRecords
      <3> QED
        BY <3>3, <3>4
    <2>4. CASE SeedCheck(c)
      <3> DEFINE base == IF baseline # Zero THEN baseline ELSE r.base
                 next == IF baseline = Zero THEN "insert" ELSE "compare"
                 seeded == baseline # Zero \/ r.base # Zero
      <3>1. base \in Amounts /\ next \in Labels /\ seeded \in BOOLEAN
        BY <1>1, <1>5 DEF Labels
      <3>3. capture' = [capture EXCEPT ![c] = [r EXCEPT !.pc = next, !.seeded = seeded, !.base = base]]
        BY <1>1, <2>4 DEF SeedCheck, r
      <3> HIDE DEF base, next, seeded
      <3>4. [r EXCEPT !.pc = next, !.seeded = seeded, !.base = base] \in CaptureRecords
        BY <1>1, <3>1 DEF CaptureRecords
      <3> QED
        BY <3>3, <3>4
    <2>5. CASE SeedCommit(c)
      <3>1. [r EXCEPT !.pc = "compare"] \in CaptureRecords
        BY <1>1 DEF CaptureRecords, Labels
      <3> QED
        BY <1>1, <2>5, <3>1 DEF SeedCommit, r
    <2>6. CASE Compare(c)
      <3> DEFINE drift == IF snaps = <<>> \/ r.seeded THEN Zero
                          ELSE LET before == Adjusted(snaps[Len(snaps)], r.base)
                               IN [a \in Assets |->
                                     IF a \in Listed(c) THEN Gaps(c)[a] - before[a] ELSE 0]
      <3>1. drift \in Amounts
        <4>1. CASE snaps = <<>>
          BY <4>1, AmountsType
        <4>2. CASE snaps # <<>>
          <5>1. Len(snaps) \in 1..Len(snaps)
            BY <1>1, <4>2
          <5>2. Adjusted(snaps[Len(snaps)], r.base) \in Amounts
            BY <1>5, <1>6, <5>1, AdjustedType
          <5>3. ASSUME NEW x \in Amounts, NEW y \in Amounts
                PROVE  [a \in Assets |-> IF a \in Listed(c) THEN x[a] - y[a] ELSE 0] \in Amounts
            BY DEF Amounts
          <5> QED
            BY <1>5, <4>2, <5>2, <5>3, AmountsType
        <4> QED
          BY <4>1, <4>2
      <3>2. capture' = [capture EXCEPT ![c] = [r EXCEPT !.pc = "save", !.drift = drift]]
        BY <1>1, <2>6 DEF Compare, r
      <3> HIDE DEF drift
      <3>3. [r EXCEPT !.pc = "save", !.drift = drift] \in CaptureRecords
        BY <1>1, <3>1 DEF CaptureRecords, Labels
      <3> QED
        BY <3>2, <3>3
    <2>7. CASE Save(c) \/ Fail(c)
      BY <1>1, <2>7 DEF Save, Fail
    <2> QED
      BY <2>1, <2>2, <2>3, <2>4, <2>5, <2>6, <2>7
  <1>10. capture' \in [Captors -> CaptureRecords]
    BY <1>1, <1>9
  <1> QED
    BY <1>3, <1>4, <1>7, <1>8, <1>10 DEF TypeOK, SnapRecords, CaptureRecords

\* What the tick saw last is written of an order.
LEMMA RecordedType ==
    ASSUME NEW x \in OrderRecords, NEW status \in {"filled", "partial", "unknown"},
           NEW priced \in BOOLEAN
    PROVE  LET y == [x EXCEPT !.status = status, !.filled = x.traded, !.priced = priced]
           IN y \in OrderRecords /\ y.filled <= y.traded
  <1>1. x.traded \in 0..Size /\ Size \in Nat
    BY BoundsAssumption DEF OrderRecords
  <1> DEFINE y == [x EXCEPT !.status = status, !.filled = x.traded, !.priced = priced]
  <1>2. y \in OrderRecords
    BY DEF OrderRecords
  <1>3. y.filled = x.traded /\ y.traded = x.traded
    BY DEF OrderRecords
  <1> HIDE DEF y
  <1> QED
    BY <1>1, <1>2, <1>3 DEF y

\* An order stays well formed, whatever is written of it.
LEMMA OrderTypes ==
    ASSUME TypeOK, Place \/ Trade \/ Record
    PROVE  /\ orders' \in Seq(OrderRecords)
           /\ \A i \in 1..Len(orders') : orders'[i].filled <= orders'[i].traded
  <1>1. /\ orders \in Seq(OrderRecords) /\ Len(orders) \in Nat
        /\ \A i \in 1..Len(orders) : orders[i].filled <= orders[i].traded
    BY DEF TypeOK, OrderRecords
  <1>2. Size \in Nat
    BY BoundsAssumption
  <1>3. CASE Place
    <2>1. PICK side \in {"buy", "sell"} :
             orders' = Append(orders, [side |-> side, status |-> "open", traded |-> 0,
                                       filled |-> 0, priced |-> TRUE])
      BY <1>3 DEF Place
    <2> DEFINE new == [side |-> side, status |-> "open", traded |-> 0,
                       filled |-> 0, priced |-> TRUE]
    <2>2. new \in OrderRecords /\ new.filled <= new.traded
      BY <1>2 DEF OrderRecords
    <2> HIDE DEF new
    <2>3. orders' = Append(orders, new)
      BY <2>1 DEF new
    <2> QED
      BY <1>1, <2>2, <2>3
  <1>4. ASSUME NEW i \in 1..Len(orders), NEW o \in OrderRecords, o.filled <= o.traded,
               orders' = [orders EXCEPT ![i] = o]
        PROVE  /\ orders' \in Seq(OrderRecords)
               /\ \A j \in 1..Len(orders') : orders'[j].filled <= orders'[j].traded
    BY <1>1, <1>4
  <1>5. ASSUME NEW i \in 1..Len(orders)
        PROVE  /\ orders[i] \in OrderRecords
               /\ orders[i].traded \in 0..Size /\ orders[i].filled <= orders[i].traded
    <2>1. orders[i] \in OrderRecords
      BY <1>1
    <2> QED
      BY <1>1, <2>1 DEF OrderRecords
  <1>6. CASE Trade
    <2>1. PICK i \in 1..Len(orders) : /\ orders[i].traded < Size
                                      /\ orders' = [orders EXCEPT ![i].traded = @ + 1]
      BY <1>6 DEF Trade
    <2> DEFINE o == [orders[i] EXCEPT !.traded = @ + 1]
    <2>2. o \in OrderRecords /\ o.filled <= o.traded
      BY <1>2, <1>5, <2>1 DEF OrderRecords
    <2>3. orders' = [orders EXCEPT ![i] = o]
      BY <2>1
    <2> HIDE DEF o
    <2> QED
      BY <1>4, <2>2, <2>3
  <1>7. CASE Record
    <2>0. PICK i \in 1..Len(orders) :
             \E status \in Settled(orders[i]), priced \in {TRUE, ~Has("costless")} :
                orders' = [orders EXCEPT ![i].status = status, ![i].filled = orders[i].traded,
                                         ![i].priced = priced]
      BY <1>7 DEF Record
    <2>1. PICK status \in Settled(orders[i]), priced \in {TRUE, ~Has("costless")} :
             orders' = [orders EXCEPT ![i].status = status, ![i].filled = orders[i].traded,
                                      ![i].priced = priced]
      BY <2>0
    <2> DEFINE o == [orders[i] EXCEPT !.status = status, !.filled = orders[i].traded,
                                      !.priced = priced]
    <2>2. status \in {"filled", "partial", "unknown"} /\ priced \in BOOLEAN
      BY <2>1 DEF Settled
    <2>3. o \in OrderRecords /\ o.filled <= o.traded
      BY <1>5, <2>2, RecordedType
    <2>4. orders' = [orders EXCEPT ![i] = o]
      BY <1>1, <2>1
    <2> HIDE DEF o
    <2> QED
      BY <1>4, <2>3, <2>4
  <1> QED
    BY <1>3, <1>6, <1>7

\* Orders and movements write the ledger and the account.
LEMMA LedgerStepTypes ==
    ASSUME TypeOK, Place \/ Trade \/ Record \/ Move
    PROVE  TypeOK'
  <1>1. UNCHANGED <<world, baseline, snaps, capture, requests>>
    BY DEF Place, Trade, Record, Move
  <1>2. /\ orders' \in Seq(OrderRecords)
        /\ \A i \in 1..Len(orders') : orders'[i].filled <= orders'[i].traded
    <2>1. CASE Move
      BY <2>1 DEF Move, TypeOK, OrderRecords
    <2> QED
      BY <2>1, OrderTypes
  <1>3. account' \in [Assets -> Nat] /\ moved' \in Amounts /\ moves' \in 0..MaxMoves
    <2>1. CASE Place \/ Record
      BY <2>1 DEF Place, Record, TypeOK
    <2>2. CASE Trade
      BY <2>2 DEF Trade, TypeOK
    <2>3. CASE Move
      <3>1. PICK a \in Assets, n \in {-1, 1} :
              /\ account' = [account EXCEPT ![a] = @ + n] /\ account'[a] >= 0
              /\ moved' = [moved EXCEPT ![a] = @ + n]
              /\ moves < MaxMoves /\ moves' = moves + 1
        BY <2>3 DEF Move
      <3>2. n \in Int /\ account \in [Assets -> Nat] /\ moved \in [Assets -> Int]
            /\ moves \in 0..MaxMoves /\ MaxMoves \in Nat
        BY BoundsAssumption DEF TypeOK, Amounts
      <3>3. account' \in [Assets -> Nat]
        BY <3>1, <3>2
      <3>4. moved' \in Amounts
        BY <3>1, <3>2 DEF Amounts
      <3>5. moves' \in 0..MaxMoves
        BY <3>1, <3>2
      <3> QED
        BY <3>3, <3>4, <3>5
    <2> QED
      BY <2>1, <2>2, <2>3
  <1> QED
    BY <1>1, <1>2, <1>3 DEF TypeOK, OrderRecords

\* No step breaks TypeOK.
LEMMA TypeStep == TypeOK /\ [Next]_vars => TypeOK'
  <1>1. CASE UNCHANGED vars
    BY <1>1 DEF vars, TypeOK
  <1> QED
    BY <1>1, CaptureTypes, LedgerStepTypes DEF Next

\* Account, ledger, baseline, snapshots and captures keep their types, no account goes
\* below nothing, and no order is recorded to have filled more than it traded, for
\* every account, size, window and bound.
THEOREM TypeCorrect == Spec => []TypeOK
  BY TypeStart, TypeStep, PTL DEF Spec

-----------------------------------------------------------------------------
(***************************************************************************)
(* What never changes, and what the schedule keeps apart.                  *)
(***************************************************************************)
\* What the ledger vouches for, and what it does not, is all that traded.
LEMMA Vouched ==
    ASSUME TypeOK, Len(orders) <= Window
    PROVE  Plus(Beyond, Attributed) = Plus(moved, Total(Bought(orders)))
  <1>1. orders \in Seq(OrderRecords) /\ moved \in Amounts /\ Len(orders) \in Nat /\ Window \in Nat
    BY BoundsAssumption DEF TypeOK, OrderRecords
  <1>2. Recent(orders) = Credited(orders)
    BY <1>1 DEF Recent, Credited
  <1>3. ASSUME NEW i \in 1..Len(orders)
        PROVE  Bought(orders)[i] = Plus(Credited(orders)[i], Unvouched(orders)[i])
    <2>1. orders[i] \in OrderRecords /\ orders[i].traded \in Int
      <3>1. orders[i] \in OrderRecords
        BY <1>1
      <3> QED
        BY <3>1 DEF OrderRecords
    <2>2. ASSUME NEW x \in Amounts, NEW y \in Amounts
          PROVE  x = Plus(y, Minus(x, y))
      BY DEF Amounts, Plus, Minus
    <2> QED
      BY <2>1, <2>2, EffectType, CreditType DEF Bought, Credited, Unvouched
  <1>4. Total(Bought(orders)) = Plus(Total(Credited(orders)), Total(Unvouched(orders)))
    <2>1. Len(Bought(orders)) = Len(orders) /\ Len(Credited(orders)) = Len(orders) /\ Len(Unvouched(orders)) = Len(orders)
      BY <1>1 DEF Bought, Credited, Unvouched
    <2>2. Bought(orders) \in Seq(Amounts) /\ Credited(orders) \in Seq(Amounts) /\ Unvouched(orders) \in Seq(Amounts)
      BY <1>1, LedgerTypes
    <2> QED
      BY <1>3, <2>1, <2>2, TotalOfBoth
  <1>5. ASSUME NEW x \in Amounts, NEW y \in Amounts, NEW z \in Amounts
        PROVE  Plus(Plus(x, y), z) = Plus(x, Plus(z, y))
    BY DEF Amounts, Plus
  <1>6. Total(Credited(orders)) \in Amounts /\ Total(Unvouched(orders)) \in Amounts
    BY <1>1, LedgerTypes, TotalType
  <1> QED
    BY <1>1, <1>2, <1>4, <1>5, <1>6, LedgerTotals

\* No unit, and one unit more.
LEMMA EffectOfNothing ==
    ASSUME NEW side
    PROVE  Effect(side, 0) = Zero
  <1> SUFFICES ASSUME NEW a \in Assets
               PROVE  Effect(side, 0)[a] = 0
    BY EffectType, SameAmount, AmountsType DEF Zero
  <1>1. ASSUME NEW n \in Int, n <= 0, n >= 0
        PROVE  Effect(side, n)[a] = 0
    <2>1. -n = 0
      BY <1>1
    <2>2. CASE side = "buy"
      BY <1>1, <2>1, <2>2 DEF Effect, Zero, Assets
    <2>3. CASE side # "buy"
      BY <1>1, <2>1, <2>3 DEF Effect, Zero, Assets
    <2> QED
      BY <2>2, <2>3
  <1> QED
    BY <1>1
LEMMA EffectOfOneMore ==
    ASSUME NEW side, NEW n \in Int
    PROVE  Minus(Effect(side, n + 1), Effect(side, n)) = Effect(side, 1)
  <1>1. CASE side = "buy"
    BY <1>1 DEF Effect, Minus, Zero, Assets
  <1>2. CASE side # "buy"
    BY <1>2 DEF Effect, Minus, Zero, Assets
  <1> QED
    BY <1>1, <1>2

\* Nothing but what others move and what orders trade reaches the account.
LEMMA StartKept ==
    ASSUME TypeOK, TypeOK', [Next]_vars
    PROVE  Start' = Start
  <1>1. /\ orders \in Seq(OrderRecords) /\ Len(orders) \in Nat
        /\ orders' \in Seq(OrderRecords)
        /\ account \in Amounts /\ moved \in Amounts /\ account' \in Amounts /\ moved' \in Amounts
    BY DEF TypeOK, OrderRecords, Amounts
  <1>2. Bought(orders) \in Seq(Amounts) /\ Bought(orders') \in Seq(Amounts) /\ Len(Bought(orders)) = Len(orders)
    BY <1>1, LedgerTypes DEF Bought
  <1>3. Total(Bought(orders)) \in Amounts
    BY <1>2, TotalType
  <1>4. CASE UNCHANGED <<account, moved, orders>>
    BY <1>4 DEF Start, Bought
  <1>5. CASE Place
    <2>1. PICK side : orders' = Append(orders, [side |-> side, status |-> "open", traded |-> 0,
                                                filled |-> 0, priced |-> TRUE])
      BY <1>5 DEF Place
    <2>2. UNCHANGED <<account, moved>>
      BY <1>5 DEF Place
    <2>3. Bought(orders') = Append(Bought(orders), Effect(side, 0))
      BY <1>1, <2>1 DEF Bought
    <2>4. Effect(side, 0) = Zero
      BY EffectOfNothing
    <2>5. Total(Bought(orders')) = Plus(Total(Bought(orders)), Zero)
      <3>1. /\ Len(Bought(orders')) = Len(Bought(orders)) + 1 /\ Bought(orders')[Len(Bought(orders'))] = Zero
            /\ \A n \in 1..Len(Bought(orders)) : Bought(orders')[n] = Bought(orders)[n]
        BY <1>1, <1>2, <2>3, <2>4
      <3> QED
        BY <1>2, <3>1, TotalGrows
    <2>6. Plus(Total(Bought(orders)), Zero) = Total(Bought(orders))
      BY <1>3 DEF Amounts, Plus, Zero
    <2> QED
      BY <2>2, <2>5, <2>6 DEF Start
  <1>6. CASE Trade
    <2>1. PICK i \in 1..Len(orders) : /\ orders' = [orders EXCEPT ![i].traded = @ + 1]
                                      /\ account' = Plus(account, Effect(orders[i].side, 1))
                                      /\ moved' = moved
      BY <1>6 DEF Trade
    <2>2. orders[i] \in OrderRecords /\ orders[i].traded \in Int
      <3>1. orders[i] \in OrderRecords
        BY <1>1
      <3> QED
        BY <3>1 DEF OrderRecords
    <2>3. orders'[i].side = orders[i].side /\ orders'[i].traded = orders[i].traded + 1
      BY <1>1, <2>1, <2>2 DEF OrderRecords
    <2>4. Minus(Effect(orders[i].side, orders[i].traded + 1), Effect(orders[i].side, orders[i].traded))
            = Effect(orders[i].side, 1)
      BY <2>2, EffectOfOneMore
    <2>5. Len(orders') = Len(orders) /\ \A n \in 1..Len(orders) : n # i => orders'[n] = orders[n]
      BY <1>1, <2>1
    <2>6. Minus(Bought(orders')[i], Bought(orders)[i]) = Effect(orders[i].side, 1)
      BY <1>1, <2>3, <2>4, <2>5 DEF Bought
    <2>7. \A n \in 1..Len(Bought(orders)) : n # i => Bought(orders')[n] = Bought(orders)[n]
      BY <1>1, <1>2, <2>5 DEF Bought
    <2>8. Total(Bought(orders')) = Plus(Total(Bought(orders)), Effect(orders[i].side, 1))
      <3>1. Len(Bought(orders')) = Len(Bought(orders)) /\ i \in 1..Len(Bought(orders))
        BY <1>1, <1>2, <2>5 DEF Bought
      <3> QED
        BY <1>2, <2>6, <2>7, <3>1, TotalChanges
    <2>9. ASSUME NEW x \in Amounts, NEW y \in Amounts, NEW z \in Amounts, NEW e \in Amounts
          PROVE  Minus(Minus(Plus(x, e), y), Plus(z, e)) = Minus(Minus(x, y), z)
      BY DEF Amounts, Plus, Minus
    <2> QED
      BY <1>1, <1>3, <2>1, <2>8, <2>9, EffectType DEF Start
  <1>7. CASE Record
    <2>1. PICK i \in 1..Len(orders) :
             \E status \in Settled(orders[i]), priced \in {TRUE, ~Has("costless")} :
                orders' = [orders EXCEPT ![i].status = status, ![i].filled = orders[i].traded,
                                         ![i].priced = priced]
      BY <1>7 DEF Record
    <2>2. orders[i] \in OrderRecords
      BY <1>1
    <2>3. orders'[i].side = orders[i].side /\ orders'[i].traded = orders[i].traded
      BY <1>1, <2>1, <2>2 DEF OrderRecords
    <2>4. Len(orders') = Len(orders) /\ \A n \in 1..Len(orders) : n # i => orders'[n] = orders[n]
      BY <1>1, <2>1
    <2>5. Bought(orders') = Bought(orders)
      BY <2>3, <2>4 DEF Bought
    <2> QED
      BY <1>7, <2>5 DEF Record, Start
  <1>8. CASE Move
    <2>1. PICK a \in Assets, n \in {-1, 1} :
            /\ account' = [account EXCEPT ![a] = @ + n]
            /\ moved' = [moved EXCEPT ![a] = @ + n]
      BY <1>8 DEF Move
    <2>2. Bought(orders') = Bought(orders)
      BY <1>8 DEF Move, Bought
    <2>3. Minus(account', moved') = Minus(account, moved)
      BY <1>1, <2>1 DEF Amounts, Minus
    <2> QED
      BY <2>2, <2>3 DEF Start
  <1>9. ASSUME NEW c \in Captors,
           \/ Fetch(c) \/ ReadLedger(c) \/ LoadBaseline(c) \/ SeedCheck(c) \/ SeedCommit(c)
           \/ Compare(c) \/ Save(c) \/ Fail(c)
        PROVE UNCHANGED <<account, moved, orders>>
    BY <1>9 DEF Fetch, ReadLedger, LoadBaseline, SeedCheck, SeedCommit, Compare, Save, Fail
  <1> QED
    BY <1>4, <1>5, <1>6, <1>7, <1>8, <1>9 DEF Next, vars

\* What trades after the ledger gave an order up is not in the ledger.
LEMMA LedgerReads ==
    ASSUME TypeOK, Trade \/ UNCHANGED orders
    PROVE  Attributed' = Attributed
  <1>1. Attributed = Total(Recent(orders)) /\ Attributed' = Total(Recent(orders'))
    BY DEF Attributed, Recent
  <1>2. CASE UNCHANGED orders
    BY <1>1, <1>2
  <1>3. CASE Trade
    <2>1. PICK i \in 1..Len(orders) : orders' = [orders EXCEPT ![i].traded = @ + 1]
      BY <1>3 DEF Trade
    <2>2. orders \in Seq(OrderRecords) /\ Len(orders) \in Nat
      BY DEF TypeOK, OrderRecords
    <2>3. orders[i] \in OrderRecords
      BY <2>2
    <2>4. Credit(orders'[i]) = Credit(orders[i])
      <3>1. /\ orders'[i].side = orders[i].side /\ orders'[i].status = orders[i].status
            /\ orders'[i].filled = orders[i].filled /\ orders'[i].priced = orders[i].priced
        BY <2>1, <2>2, <2>3 DEF OrderRecords
      <3> QED
        BY <3>1 DEF Credit
    <2>5. Len(orders') = Len(orders) /\ \A n \in 1..Len(orders) : n # i => orders'[n] = orders[n]
      BY <2>1, <2>2
    <2>6. Recent(orders') = Recent(orders)
      BY <2>4, <2>5 DEF Recent
    <2> QED
      BY <1>1, <2>6
  <1> QED
    BY <1>2, <1>3

\* A capture touches neither account nor ledger, nor the other capture.
LEMMA CaptureFrame ==
    ASSUME NEW c \in Captors, CaptureSteps(c), TypeOK
    PROVE  /\ UNCHANGED <<world, account, moved, orders, moves>>
           /\ \A d \in Captors : d # c => capture'[d] = capture[d]
           /\ capture[c].pc = "idle" => Fetch(c)
  <1>1. capture = [d \in Captors |-> capture[d]]
    BY DEF TypeOK
  <1>2. CASE Fetch(c)
    BY <1>1, <1>2 DEF Fetch
  <1>3. CASE ReadLedger(c) \/ LoadBaseline(c) \/ SeedCheck(c)
    BY <1>1, <1>3 DEF ReadLedger, LoadBaseline, SeedCheck, At
  <1>4. CASE SeedCommit(c)
    BY <1>1, <1>4 DEF SeedCommit, At
  <1>5. CASE Compare(c) \/ Save(c) \/ Fail(c)
    BY <1>1, <1>5 DEF Compare, Save, Fail, At
  <1> QED
    BY <1>2, <1>3, <1>4, <1>5 DEF CaptureSteps

\* Scheduled holds at the start, and no step breaks it.
LEMMA ScheduledStart == Init => Scheduled
  BY DEF Init, Scheduled, At, Idle, Captors

\* A capture of the tick only starts when no order is open, and no order is placed or
\* recorded beside it.
LEMMA ScheduledStep ==
    ASSUME TypeOK, TypeOK', Scheduled, [Next]_vars
    PROVE  Scheduled'
  <1>1. CASE UNCHANGED vars
    BY <1>1 DEF vars, Scheduled, At, NoOrderOpen, FreeOf
  <1>2. ASSUME NEW c \in Captors, CaptureSteps(c)
        PROVE  Scheduled'
    <2>1. /\ UNCHANGED <<world, account, moved, orders, moves>>
          /\ \A d \in Captors : d # c => capture'[d] = capture[d]
          /\ capture[c].pc = "idle" => Fetch(c)
      BY <1>2, CaptureFrame
    <2>2. (moves = 0 => moved = Zero)'
      BY <2>1 DEF Scheduled
    <2>3. (~At("tick", "idle") => NoOrderOpen)'
      <3>1. c = "tick" /\ At(c, "idle") => NoOrderOpen
        BY <2>1 DEF Fetch, At, NoOrderOpen
      <3>2. "tick" \in Captors
        BY DEF Captors
      <3> QED
        BY <2>1, <3>1, <3>2 DEF Scheduled, At, NoOrderOpen
    <2>4. (FreeOf({"request"}) => capture["request"] = Idle)'
      <3>1. FreeOf({"request"}) => c # "request"
        BY <2>1 DEF Fetch, Scheduled, Idle, FreeOf, Has
      <3>2. "request" \in Captors
        BY DEF Captors
      <3> QED
        BY <2>1, <3>1, <3>2 DEF Scheduled, FreeOf
    <2>5. capture'[c].pc \in {"idle", "ledger", "baseline", "seed"} => ~capture'[c].seeded
      <3>1. capture = [d \in Captors |-> capture[d]] /\ capture[c] \in CaptureRecords
        BY DEF TypeOK, CaptureRecords
      <3>2. CASE Fetch(c)
        <4>1. capture'[c].seeded = FALSE
          BY <3>1, <3>2 DEF Fetch, Idle
        <4> QED
          BY <4>1
      <3>3. CASE ReadLedger(c) \/ LoadBaseline(c)
        <4>1. capture'[c].seeded = capture[c].seeded
          BY <3>1, <3>3 DEF ReadLedger, LoadBaseline, CaptureRecords
        <4>2. capture[c].pc \in {"ledger", "baseline"}
          BY <3>3 DEF ReadLedger, LoadBaseline, At
        <4> QED
          BY <4>1, <4>2 DEF Scheduled
      <3>4. CASE SeedCheck(c)
        <4>1. capture'[c].pc \in {"insert", "compare"}
          BY <3>1, <3>4 DEF SeedCheck, CaptureRecords
        <4> QED
          BY <4>1
      <3>5. CASE SeedCommit(c)
        <4>1. capture'[c] = Idle \/ capture'[c].pc = "compare"
          BY <3>1, <3>5 DEF SeedCommit, CaptureRecords
        <4> QED
          BY <4>1 DEF Idle
      <3>6. CASE Compare(c)
        <4>1. capture'[c].pc = "save"
          BY <3>1, <3>6 DEF Compare, CaptureRecords
        <4> QED
          BY <4>1
      <3>7. CASE Save(c) \/ Fail(c)
        <4>1. capture'[c] = Idle
          BY <3>1, <3>7 DEF Save, Fail
        <4> QED
          BY <4>1 DEF Idle
      <3> QED
        BY <1>2, <3>2, <3>3, <3>4, <3>5, <3>6, <3>7 DEF CaptureSteps
    <2>6. (\A d \in Captors : capture[d].pc \in {"idle", "ledger", "baseline", "seed"}
                                => ~capture[d].seeded)'
      BY <2>1, <2>5 DEF Scheduled
    <2> QED
      BY <2>2, <2>3, <2>4, <2>6 DEF Scheduled
  <1>3. CASE Place \/ Trade \/ Record \/ Move
    <2>1. UNCHANGED <<world, capture>>
      BY <1>3 DEF Place, Trade, Record, Move
    <2>2. (moves = 0 => moved = Zero)'
      <3>1. CASE Move
        BY <3>1, BoundsAssumption DEF Move, TypeOK
      <3>2. CASE ~Move
        BY <1>3, <3>2 DEF Place, Trade, Record, Scheduled
      <3> QED
        BY <3>1, <3>2
    <2>3. (~At("tick", "idle") => NoOrderOpen)'
      <3> SUFFICES ASSUME ~At("tick", "idle")
                   PROVE  NoOrderOpen'
        BY <2>1 DEF At
      <3>1. NoOrderOpen /\ ~Place /\ ~Record
        BY DEF Scheduled, NoOrderOpen, Place, Record
      <3>2. CASE Move
        BY <3>1, <3>2 DEF Move, NoOrderOpen
      <3>3. CASE Trade
        <4>1. PICK i \in 1..Len(orders) : orders' = [orders EXCEPT ![i].traded = @ + 1]
          BY <3>3 DEF Trade
        <4>2. orders \in Seq(OrderRecords)
          BY DEF TypeOK, OrderRecords
        <4>3. orders[i] \in OrderRecords
          BY <4>2
        <4>4. \A n \in 1..Len(orders) : orders'[n].status = orders[n].status
          BY <4>1, <4>2, <4>3 DEF OrderRecords
        <4> QED
          BY <3>1, <4>1, <4>2, <4>4 DEF NoOrderOpen
      <3> QED
        BY <1>3, <3>1, <3>2, <3>3
    <2> QED
      BY <2>1, <2>2, <2>3 DEF Scheduled, FreeOf
  <1> QED
    BY <1>1, <1>2, <1>3 DEF Next, CaptureSteps

-----------------------------------------------------------------------------
(***************************************************************************)
(* Captures that nothing overlaps.                                         *)
(***************************************************************************)
\* The same facts of the types, by name.
LEMMA Typings ==
    ASSUME TypeOK
    PROVE  /\ Tick \in CaptureRecords /\ capture \in [Captors -> CaptureRecords]
           /\ "tick" \in Captors
           /\ Tick.seen \in Amounts /\ Tick.book \in Amounts /\ Tick.base \in Amounts
           /\ Tick.drift \in Amounts /\ Tick.beyond \in Amounts
           /\ account \in Amounts /\ moved \in Amounts /\ baseline \in Amounts
           /\ snaps \in Seq(SnapRecords) /\ Len(snaps) \in Nat
           /\ \A i \in 1..Len(snaps) :
                 snaps[i].gaps \in Amounts /\ snaps[i].beyond \in Amounts
           /\ Listed("tick") \subseteq Assets
           /\ orders \in Seq(OrderRecords) /\ Len(orders) \in Nat
           /\ Attributed \in Amounts /\ Beyond \in Amounts /\ Start \in Amounts
  <1>1. /\ capture \in [Captors -> CaptureRecords] /\ snaps \in Seq(SnapRecords)
        /\ Len(snaps) \in Nat
        /\ orders \in Seq(OrderRecords) /\ Len(orders) \in Nat
        /\ account \in Amounts /\ moved \in Amounts /\ baseline \in Amounts
    BY DEF TypeOK, CaptureRecords, SnapRecords, OrderRecords, Amounts
  <1>2. "tick" \in Captors
    BY DEF Captors
  <1>3. Tick \in CaptureRecords
    BY <1>1, <1>2 DEF Tick
  <1>4. /\ Tick.seen \in Amounts /\ Tick.book \in Amounts /\ Tick.base \in Amounts
        /\ Tick.drift \in Amounts /\ Tick.beyond \in Amounts
    BY <1>3 DEF CaptureRecords
  <1>5. ASSUME NEW i \in 1..Len(snaps)
        PROVE  snaps[i].gaps \in Amounts /\ snaps[i].beyond \in Amounts
    <2>1. snaps[i] \in SnapRecords
      BY <1>1
    <2> QED
      BY <2>1 DEF SnapRecords
  <1>6. Attributed \in Amounts /\ Beyond \in Amounts
    BY <1>1, LedgerTotals
  <1>7. Start \in Amounts
    BY <1>1, LedgerTypes, TotalType, AmountsType DEF Start
  <1>8. Listed("tick") \subseteq Assets
    BY DEF Listed
  <1> QED
    BY <1>1, <1>2, <1>3, <1>4, <1>5, <1>6, <1>7, <1>8

\* The balances are of now, and so is what the ledger does not vouch for.
LEMMA FetchExplains ==
    ASSUME TypeOK, TypeOK', Apart, Explains, Start' = Start, Fetch("tick")
    PROVE  Explains'
  <1>1. /\ Tick'.pc = "ledger" /\ Tick'.seen = account /\ Tick'.beyond = Beyond
        /\ UNCHANGED <<orders, baseline, snaps>>
    BY Typings DEF Fetch, Tick, Idle
  <1>2. Attributed' = Attributed
    BY <1>1, LedgerReads
  <1>3. TickReads'
    <2>1. Plus(Beyond, Attributed) = Plus(moved, Total(Bought(orders)))
      BY Vouched DEF Apart
    <2>2. ASSUME NEW x \in Amounts, NEW y \in Amounts, NEW z \in Amounts
          PROVE  Minus(x, Plus(y, z)) = Minus(Minus(x, y), z)
      BY DEF Amounts, Plus, Minus
    <2>3. Total(Bought(orders)) \in Amounts
      BY Typings, LedgerTypes, TotalType
    <2>4. Minus(account, Plus(Beyond, Attributed)) = Start
      BY <2>1, <2>2, <2>3, Typings DEF Start
    <2> QED
      BY <1>1, <1>2, <2>4 DEF TickReads, Book
  <1> QED
    BY <1>1, <1>3 DEF Explains, TickBegins, TickReports, SnapsExplain, Reports, Based

\* The ledger that is read is the one of then.
LEMMA ReadLedgerExplains ==
    ASSUME TypeOK, TypeOK', Explains, Start' = Start, ReadLedger("tick")
    PROVE  Explains'
  <1>1. /\ Tick.pc = "ledger" /\ Tick'.pc = "baseline" /\ Tick'.book = Attributed
        /\ Tick'.seen = Tick.seen /\ Tick'.beyond = Tick.beyond
        /\ UNCHANGED <<orders, baseline, snaps>>
    BY Typings DEF ReadLedger, Tick, At, CaptureRecords
  <1>2. TickReads'
    BY <1>1 DEF Explains, TickReads, Book
  <1> QED
    BY <1>1, <1>2 DEF Explains, TickBegins, TickReports, SnapsExplain, Reports, Based

\* A baseline that is there is taken, one that is not begins with the oldest snapshot.
LEMMA LoadBaselineExplains ==
    ASSUME TypeOK, TypeOK', Scheduled, Explains, Start' = Start, LoadBaseline("tick")
    PROVE  Explains'
  <1>1. /\ Tick.pc = "baseline" /\ Tick'.pc = IF baseline = Zero THEN "seed" ELSE "compare"
        /\ Tick'.base = IF baseline # Zero THEN baseline
                        ELSE IF snaps # <<>> THEN snaps[1].gaps
                        ELSE Minus(Tick.seen, Tick.book)
        /\ Tick'.seen = Tick.seen /\ Tick'.beyond = Tick.beyond /\ Tick'.book = Tick.book
        /\ Tick'.seeded = Tick.seeded
        /\ UNCHANGED <<orders, baseline, snaps>>
    BY Typings DEF LoadBaseline, Tick, At, CaptureRecords
  <1>2. ~Tick.seeded
    BY <1>1, Typings DEF Scheduled, Tick
  <1>3. TickReads'
    BY <1>1 DEF Explains, TickReads, Book
  <1>4. TickBegins'
    BY <1>1 DEF TickBegins, Beginning, Based
  <1>5. TickReports'
    BY <1>1, <1>2 DEF TickReports, Based
  <1> QED
    BY <1>1, <1>3, <1>4, <1>5 DEF Explains, SnapsExplain, Reports

\* Nobody else has written one meanwhile.
LEMMA SeedCheckExplains ==
    ASSUME TypeOK, TypeOK', Explains, Start' = Start, SeedCheck("tick")
    PROVE  Explains'
  <1>1. /\ Tick.pc = "seed" /\ Tick'.pc = IF baseline = Zero THEN "insert" ELSE "compare"
        /\ Tick'.base = IF baseline # Zero THEN baseline ELSE Tick.base
        /\ Tick'.seeded = (baseline # Zero \/ Tick.base # Zero)
        /\ Tick'.seen = Tick.seen /\ Tick'.beyond = Tick.beyond /\ Tick'.book = Tick.book
        /\ UNCHANGED <<orders, baseline, snaps>>
    BY Typings DEF SeedCheck, Tick, At, CaptureRecords
  <1>2. baseline = Zero /\ Tick.base = Beginning
    BY <1>1 DEF Explains, TickBegins
  <1>3. TickReads'
    BY <1>1, <1>2 DEF Explains, TickReads, Book
  <1>4. TickBegins'
    BY <1>1, <1>2 DEF TickBegins, Beginning, Based
  <1>5. TickReports'
    BY <1>1, <1>2 DEF TickReports, Based
  <1> QED
    BY <1>1, <1>3, <1>4, <1>5 DEF Explains, SnapsExplain, Reports

\* The baseline is written before a snapshot was taken that should have known it.
LEMMA SeedCommitExplains ==
    ASSUME TypeOK, TypeOK', Explains, Start' = Start, SeedCommit("tick")
    PROVE  Explains'
  <1>1. Tick.pc = "insert"
    BY DEF SeedCommit, Tick, At
  <1>2. /\ baseline = Zero /\ Tick.base = Beginning /\ Tick.seeded = (Tick.base # Zero)
    BY <1>1 DEF Explains, TickBegins
  <1>3. Rows(baseline) = {}
    BY <1>2 DEF Rows, Zero
  <1>4. baseline' = Tick.base
    <2>1. baseline' = [a \in Assets |-> IF a \in Rows(Tick.base) THEN Tick.base[a] ELSE baseline[a]]
      BY <1>3 DEF SeedCommit, Tick
    <2>2. \A a \in Assets : baseline'[a] = Tick.base[a]
      BY <1>2, <2>1 DEF Rows, Zero
    <2>3. baseline' \in Amounts
      BY DEF TypeOK
    <2> QED
      BY <2>2, <2>3, SameAmount, Typings
  <1>5. /\ Tick'.pc = "compare" /\ Tick'.base = Tick.base /\ Tick'.seeded = Tick.seeded
        /\ Tick'.seen = Tick.seen /\ Tick'.beyond = Tick.beyond /\ Tick'.book = Tick.book
        /\ UNCHANGED <<orders, snaps>>
    BY <1>3, Typings DEF SeedCommit, Tick, CaptureRecords
  <1>6. Tick.base # Zero => snaps = <<>> \/ (Len(snaps) = 1 /\ snaps[1].legacy)
    BY <1>2 DEF Explains, SnapsExplain, Beginning
  <1>7. TickReads'
    BY <1>1, <1>5 DEF Explains, TickReads, Book
  <1>8. TickBegins'
    BY <1>2, <1>4, <1>5 DEF TickBegins, Beginning, Based
  <1>9. TickReports'
    BY <1>2, <1>5, <1>6 DEF TickReports, Based, Last
  <1>10. SnapsExplain'
    <2>1. CASE Tick.base = Zero
      BY <1>2, <1>4, <1>5, <2>1 DEF Explains, SnapsExplain
    <2>2. CASE Tick.base # Zero
      <3>1. \A i \in 1..Len(snaps) : snaps[i].legacy /\ i = 1
        BY <1>6, <2>2
      <3>2. snaps # <<>> => baseline' = snaps[1].gaps
        BY <1>2, <1>4 DEF Beginning
      <3>3. \A i \in 1..Len(snaps) :
              \A a \in Assets \ snaps[i].listed : snaps[i].gaps[a] = 0 /\ baseline'[a] = 0
        BY <3>1, <3>2, Typings DEF Explains, SnapsExplain
      <3> QED
        BY <1>4, <1>5, <2>2, <3>1, <3>3 DEF Explains, SnapsExplain
    <2> QED
      BY <2>1, <2>2
  <1> QED
    BY <1>5, <1>7, <1>8, <1>9, <1>10 DEF Explains, Reports

\* What a capture leaves unexplained, and what it reports when the snapshot before
\* knows of the baseline.
LEMMA Unexplained ==
    ASSUME NEW seen \in Amounts, NEW book \in Amounts, NEW base \in Amounts,
           NEW beyond \in Amounts
    PROVE  Minus(Minus(seen, book), base)
             = Minus(Plus(Minus(seen, Plus(beyond, book)), beyond), base)
  BY DEF Amounts, Plus, Minus

LEMMA Differences ==
    ASSUME NEW start \in Amounts, NEW base \in Amounts, NEW beyond \in Amounts,
           NEW before \in Amounts
    PROVE  \A a \in Assets :
              Minus(Plus(start, beyond), base)[a] - Minus(Plus(start, before), base)[a]
                = beyond[a] - before[a]
  BY DEF Amounts, Plus, Minus

\* Seen from the baseline, an old snapshot is like the others.
LEMMA AdjustedIs ==
    ASSUME TypeOK, Explains, snaps # <<>>
    PROVE  \A a \in Assets : Adjusted(Last, baseline)[a]
                              = Minus(Plus(Start, Last.beyond), baseline)[a]
  <1>1. /\ Len(snaps) \in 1..Len(snaps) /\ Start \in Amounts /\ baseline \in Amounts
        /\ Last.gaps \in Amounts /\ Last.beyond \in Amounts
    BY Typings DEF Last
  <1>2. /\ Last.gaps = Minus(Plus(Start, Last.beyond), IF Last.legacy THEN Zero ELSE baseline)
        /\ Last.legacy => \A a \in Assets \ Last.listed : Last.gaps[a] = 0 /\ baseline[a] = 0
    BY <1>1 DEF Explains, SnapsExplain, Last
  <1>3. ASSUME NEW x \in Amounts, NEW y \in Amounts, NEW a \in Assets
        PROVE  /\ Minus(x, Zero)[a] = x[a] /\ Minus(x, y)[a] = x[a] - y[a]
               /\ y[a] = 0 => Minus(x, y)[a] = x[a]
    BY DEF Amounts, Minus, Zero
  <1>4. Plus(Start, Last.beyond) \in Amounts
    BY <1>1, AmountsType
  <1>5. CASE Last.legacy
    <2> SUFFICES ASSUME NEW a \in Assets
                 PROVE  Adjusted(Last, baseline)[a]
                          = Minus(Plus(Start, Last.beyond), baseline)[a]
      OBVIOUS
    <2>1. Last.gaps[a] = Plus(Start, Last.beyond)[a]
      BY <1>1, <1>2, <1>3, <1>4, <1>5
    <2>2. Adjusted(Last, baseline)[a]
            = IF a \in Last.listed THEN Last.gaps[a] - baseline[a] ELSE Last.gaps[a]
      BY <1>5 DEF Adjusted
    <2> QED
      BY <1>1, <1>2, <1>3, <1>4, <1>5, <2>1, <2>2
  <1>6. CASE ~Last.legacy
    BY <1>2, <1>6 DEF Adjusted
  <1> QED
    BY <1>5, <1>6

\* What is reported is the change of what the ledger does not vouch for.
LEMMA CompareExplains ==
    ASSUME TypeOK, TypeOK', Explains, Start' = Start, Compare("tick")
    PROVE  Explains'
  <1>0. /\ Tick.seen \in Amounts /\ Tick.book \in Amounts /\ Tick.base \in Amounts
        /\ Tick.beyond \in Amounts /\ Start \in Amounts /\ baseline \in Amounts
    BY Typings
  <1>1. /\ Tick.pc = "compare" /\ Tick'.pc = "save"
        /\ Tick'.drift = IF snaps = <<>> \/ Tick.seeded THEN Zero
                         ELSE LET before == Adjusted(Last, Tick.base)
                              IN [a \in Assets |->
                                    IF a \in Listed("tick") THEN Gaps("tick")[a] - before[a] ELSE 0]
        /\ Tick'.base = Tick.base /\ Tick'.named = Tick.named /\ Tick'.seeded = Tick.seeded
        /\ Tick'.seen = Tick.seen /\ Tick'.beyond = Tick.beyond /\ Tick'.book = Tick.book
        /\ UNCHANGED <<orders, baseline, snaps>>
    BY Typings DEF Compare, Tick, At, CaptureRecords, Last
  <1>2. /\ Tick.base = baseline
        /\ Minus(Tick.seen, Plus(Tick.beyond, Tick.book)) = Start
    BY <1>1 DEF Explains, TickBegins, TickReads, Book, Based
  <1>3. TickReports'
    <2>0. Listed("tick")' = Listed("tick")
      BY <1>1 DEF Listed, Tick
    <2>1. (Tick'.seeded => snaps = <<>> \/ Last.legacy) /\ Last' = Last
      BY <1>1 DEF Explains, TickReports, Based, Last
    <2> SUFFICES ASSUME snaps # <<>>, ~Tick.seeded, NEW a \in Listed("tick")
                 PROVE  Tick'.drift[a] = Tick.beyond[a] - Last.beyond[a]
      BY <1>1, <2>0, <2>1 DEF TickReports
    <2>2. a \in Assets /\ Len(snaps) \in 1..Len(snaps) /\ Last.beyond \in Amounts
      BY Typings DEF Last
    <2>3. Tick'.drift[a] = Gaps("tick")[a] - Adjusted(Last, baseline)[a]
      BY <1>1, <1>2, <2>2
    <2>4. Gaps("tick") = Minus(Plus(Start, Tick.beyond), baseline)
      <3>1. Minus(Minus(Tick.seen, Tick.book), Tick.base)
              = Minus(Plus(Minus(Tick.seen, Plus(Tick.beyond, Tick.book)), Tick.beyond), Tick.base)
        BY <1>0, Unexplained
      <3> QED
        BY <1>2, <3>1 DEF Gaps, Tick
    <2>5. Adjusted(Last, baseline)[a] = Minus(Plus(Start, Last.beyond), baseline)[a]
      BY <2>2, AdjustedIs
    <2>6. \A b \in Assets :
            Minus(Plus(Start, Tick.beyond), baseline)[b]
                - Minus(Plus(Start, Last.beyond), baseline)[b]
              = Tick.beyond[b] - Last.beyond[b]
      <3>1. /\ Start \in Amounts /\ baseline \in Amounts
            /\ Tick.beyond \in Amounts /\ Last.beyond \in Amounts
        BY <1>0, <2>2
      <3> QED
        BY ONLY <3>1, Differences, SMTT(30)
    <2> QED
      BY <2>2, <2>3, <2>4, <2>5, <2>6
  <1>4. TickReads'
    BY <1>1 DEF Explains, TickReads, Book
  <1>5. TickBegins'
    BY <1>1 DEF Explains, TickBegins, Beginning, Based
  <1> QED
    BY <1>1, <1>3, <1>4, <1>5 DEF Explains, SnapsExplain, Reports

\* A snapshot stores what the capture has computed.
LEMMA SaveExplains ==
    ASSUME TypeOK, TypeOK', Explains, Start' = Start, Save("tick")
    PROVE  Explains'
  <1> DEFINE new == [gaps |-> Gaps("tick"), listed |-> Listed("tick"), legacy |-> FALSE,
                     seeded |-> Tick.seeded, drift |-> Tick.drift, beyond |-> Tick.beyond]
  <1>1. /\ Tick.pc = "save" /\ Tick'.pc = "idle"
        /\ snaps' = Append(snaps, new)
        /\ UNCHANGED <<orders, baseline>>
    BY Typings DEF Save, Tick, At, Idle
  <1>2. /\ new.gaps = Minus(Minus(Tick.seen, Tick.book), Tick.base) /\ new.drift = Tick.drift
        /\ new.beyond = Tick.beyond /\ ~new.legacy /\ new.seeded = Tick.seeded
        /\ new.listed = Listed("tick")
    BY DEF Gaps, Tick
  <1> HIDE DEF new
  <1>0. /\ Tick.seen \in Amounts /\ Tick.book \in Amounts /\ Tick.base \in Amounts
        /\ Tick.beyond \in Amounts /\ Start \in Amounts /\ baseline \in Amounts
    BY Typings
  <1>3. /\ Tick.base = baseline /\ (baseline = Zero => Beginning = Zero)
        /\ Minus(Tick.seen, Plus(Tick.beyond, Tick.book)) = Start
    BY <1>1 DEF Explains, TickBegins, TickReads, Book, Based
  <1>4. /\ Len(snaps') = Len(snaps) + 1 /\ snaps'[Len(snaps) + 1] = new
        /\ \A i \in 1..Len(snaps) : snaps'[i] = snaps[i]
    BY <1>1, Typings
  <1>5. new.gaps = Minus(Plus(Start, new.beyond), baseline)
    <2>1. Minus(Minus(Tick.seen, Tick.book), Tick.base)
            = Minus(Plus(Minus(Tick.seen, Plus(Tick.beyond, Tick.book)), Tick.beyond), Tick.base)
      BY <1>0, Unexplained
    <2> QED
      BY <1>2, <1>3, <2>1
  <1>6. SnapsExplain'
    <2>1. ASSUME NEW i \in 1..Len(snaps')
          PROVE  snaps'[i].gaps = Minus(Plus(Start, snaps'[i].beyond),
                                        IF snaps'[i].legacy THEN Zero ELSE baseline)
      <3>1. i \in 1..Len(snaps) \/ i = Len(snaps) + 1
        BY <1>4, Typings
      <3> QED
        BY <1>2, <1>4, <1>5, <3>1 DEF Explains, SnapsExplain
    <2>2. ASSUME baseline = Zero
          PROVE  snaps'[1].gaps = Zero
      <3>1. CASE snaps = <<>>
        <4>1. snaps'[1] = new
          BY <1>1, <3>1
        <4>2. Minus(Tick.seen, Tick.book) = Zero
          BY <1>3, <2>2, <3>1 DEF Beginning
        <4>3. Minus(Zero, Zero) = Zero
          BY DEF Minus, Zero
        <4> QED
          BY <1>2, <1>3, <2>2, <4>1, <4>2, <4>3
      <3>2. CASE snaps # <<>>
        BY <1>3, <1>4, <2>2, <3>2, Typings DEF Beginning
      <3> QED
        BY <3>1, <3>2
    <2>3. ASSUME NEW i \in 1..Len(snaps'), snaps'[i].legacy
          PROVE  \A a \in Assets \ snaps'[i].listed :
                    snaps'[i].gaps[a] = 0 /\ baseline[a] = 0
      <3>1. i \in 1..Len(snaps) \/ i = Len(snaps) + 1
        BY <1>4, Typings
      <3> QED
        BY <1>2, <1>4, <2>3, <3>1 DEF Explains, SnapsExplain
    <2> QED
      BY <1>1, <2>1, <2>2, <2>3 DEF SnapsExplain
  <1>7. Reports'
    <2> SUFFICES ASSUME NEW i \in 2..Len(snaps')
                 PROVE  \/ snaps'[i].seeded /\ snaps'[i - 1].legacy
                        \/ \A a \in snaps'[i].listed :
                              snaps'[i].drift[a] = snaps'[i].beyond[a] - snaps'[i - 1].beyond[a]
      BY DEF Reports
    <2>1. CASE i \in 2..Len(snaps)
      BY <1>4, <2>1, Typings DEF Explains, Reports
    <2>2. CASE i = Len(snaps) + 1
      <3>1. snaps # <<>> /\ Len(snaps) \in 1..Len(snaps) /\ i - 1 = Len(snaps)
        BY <1>4, <2>2, Typings
      <3>2. \/ Tick.seeded /\ Last.legacy
            \/ \A a \in Listed("tick") : Tick.drift[a] = Tick.beyond[a] - Last.beyond[a]
        BY <1>1, <3>1 DEF Explains, TickReports, Based
      <3> QED
        BY <1>2, <1>4, <2>2, <3>1, <3>2 DEF Last
    <2> QED
      BY <1>4, <2>1, <2>2, Typings
  <1> QED
    BY <1>1, <1>6, <1>7 DEF Explains, TickReads, TickBegins, TickReports, Based

\* A capture that fails leaves nothing.
LEMMA FailExplains ==
    ASSUME TypeOK, TypeOK', Explains, Start' = Start, Fail("tick")
    PROVE  Explains'
  <1>1. Tick' = Idle /\ UNCHANGED <<baseline, snaps>>
    BY Typings DEF Fail, Tick
  <1> QED
    BY <1>1 DEF Explains, TickReads, TickBegins, TickReports, SnapsExplain, Reports, Based, Idle

\* What happens beside a capture changes nothing that it has read.
LEMMA LedgerStepExplains ==
    ASSUME TypeOK, TypeOK', Scheduled, Explains, Start' = Start,
           Place \/ Trade \/ Record \/ Move \/ UNCHANGED vars
    PROVE  Explains'
  <1>1. UNCHANGED <<baseline, snaps, capture>> /\ Tick' = Tick
    BY DEF Place, Trade, Record, Move, vars, Tick
  <1>2. TickReads'
    <2>1. CASE Tick.pc = "idle"
      BY <1>1, <2>1 DEF TickReads
    <2>2. CASE Tick.pc # "idle"
      <3>1. ~Place /\ ~Record
        BY <2>2 DEF Scheduled, NoOrderOpen, Place, Record, At, Tick
      <3>2. Trade \/ UNCHANGED orders
        BY <3>1 DEF Move, vars
      <3> QED
        BY <1>1, <3>2, LedgerReads DEF Explains, TickReads, Book
    <2> QED
      BY <2>1, <2>2
  <1> QED
    BY <1>1, <1>2
    DEF Explains, TickBegins, TickReports, SnapsExplain, Reports, Beginning, Last, Listed

\* At the start there is nothing to explain, but for the snapshots from before.
LEMMA ExplainsStart == TypeOK /\ Init => Explains
  <1> SUFFICES ASSUME TypeOK, Init
               PROVE  Explains
    OBVIOUS
  <1>1. Tick.pc = "idle" /\ baseline = Zero /\ Len(snaps) <= 1
    BY DEF Init, Tick, Captors, Idle
  <1>2. Start = account
    <2>1. Total(Bought(orders)) = Zero
      <3>1. orders \in Seq(OrderRecords) /\ Len(Bought(orders)) = 0
        BY Typings DEF Init, Bought
      <3> QED
        BY <3>1, LedgerTypes, TotalOfNothing
    <2>2. ASSUME NEW x \in Amounts
          PROVE  Minus(Minus(x, Zero), Zero) = x
      BY DEF Amounts, Minus, Zero
    <2> QED
      BY <2>1, <2>2, Typings DEF Init, Start
  <1>3. SnapsExplain
    <2>1. CASE Has("legacy")
      <3>1. snaps = <<[gaps |-> account, listed |-> {a \in Assets : account[a] # 0},
                       legacy |-> TRUE, seeded |-> FALSE, drift |-> Zero, beyond |-> Zero]>>
        BY <2>1 DEF Init
      <3>2. ASSUME NEW x \in Amounts
            PROVE  x = Minus(Plus(x, Zero), Zero)
        BY DEF Amounts, Plus, Minus, Zero
      <3>3. account = Minus(Plus(account, Zero), Zero)
        BY <3>2, Typings
      <3>4. \A a \in Assets : baseline[a] = 0
        BY <1>1 DEF Zero
      <3> QED
        BY <1>2, <3>1, <3>3, <3>4 DEF SnapsExplain
    <2>2. CASE ~Has("legacy")
      BY <2>2 DEF Init, SnapsExplain
    <2> QED
      BY <2>1, <2>2
  <1>4. Reports
    BY <1>1, Typings DEF Reports
  <1> QED
    BY <1>1, <1>3, <1>4 DEF Explains, TickReads, TickBegins, TickReports, Based

\* Orders are placed and written of, never taken out of the ledger.
LEMMA LedgerGrows ==
    ASSUME TypeOK
    PROVE  /\ Place => Len(orders') = Len(orders) + 1
           /\ Trade \/ Record => Len(orders') = Len(orders) /\ Len(orders) > 0
  <1>1. orders \in Seq(OrderRecords) /\ Len(orders) \in Nat
    BY Typings
  <1>2. ASSUME Place
        PROVE  Len(orders') = Len(orders) + 1
    <2>1. PICK side \in {"buy", "sell"} :
             orders' = Append(orders, [side |-> side, status |-> "open", traded |-> 0,
                                       filled |-> 0, priced |-> TRUE])
      BY <1>2 DEF Place
    <2> QED
      BY <1>1, <2>1
  <1>3. ASSUME Trade
        PROVE  Len(orders') = Len(orders) /\ Len(orders) > 0
    <2>1. PICK i \in 1..Len(orders) : orders' = [orders EXCEPT ![i].traded = @ + 1]
      BY <1>3 DEF Trade
    <2> QED
      BY <1>1, <2>1
  <1>4. ASSUME Record
        PROVE  Len(orders') = Len(orders) /\ Len(orders) > 0
    <2>1. PICK i \in 1..Len(orders) :
             \E status \in Settled(orders[i]), priced \in {TRUE, ~Has("costless")} :
                orders' = [orders EXCEPT ![i].status = status, ![i].filled = orders[i].traded,
                                         ![i].priced = priced]
      BY <1>4 DEF Record
    <2> QED
      BY <1>1, <2>1
  <1> QED
    BY <1>2, <1>3, <1>4

\* No step breaks it.
LEMMA ExplainsStep ==
    ASSUME TypeOK, TypeOK', Scheduled, [Next]_vars, Apart => Explains
    PROVE  (Apart => Explains)'
  <1> SUFFICES ASSUME Apart'
               PROVE  Explains'
    OBVIOUS
  <1>1. Start' = Start
    BY StartKept
  <1>2. CASE Place \/ Trade \/ Record \/ Move \/ UNCHANGED vars
    <2>1. world' = world
      BY <1>2 DEF Place, Trade, Record, Move, vars
    <2>2. Len(orders) <= Len(orders')
      BY <1>2, Typings, LedgerGrows DEF Move, vars
    <2>3. Apart
      <3>1. Len(orders) \in Nat /\ Len(orders') \in Nat /\ Window \in Nat
        BY BoundsAssumption, Typings DEF TypeOK
      <3> QED
        BY <2>1, <2>2, <3>1 DEF Apart, FreeOf
    <2> QED
      BY <1>1, <1>2, <2>3, LedgerStepExplains
  <1>3. ASSUME NEW c \in Captors, CaptureSteps(c)
        PROVE  Explains'
    <2>1. /\ UNCHANGED <<world, account, moved, orders, moves>>
          /\ capture[c].pc = "idle" => Fetch(c)
      BY <1>3, CaptureFrame
    <2>2. Apart
      BY <2>1 DEF Apart, FreeOf
    <2>3. c = "tick"
      <3>1. capture["request"].pc = "idle" /\ ~Has("request")
        BY <2>2 DEF Scheduled, Apart, Idle, FreeOf, Has
      <3>2. c # "request"
        BY <2>1, <3>1 DEF Fetch
      <3> QED
        BY <3>2 DEF Captors
    <2> QED
      BY <1>1, <1>3, <2>2, <2>3, FetchExplains, ReadLedgerExplains, LoadBaselineExplains,
         SeedCheckExplains, SeedCommitExplains, CompareExplains, SaveExplains, FailExplains
      DEF CaptureSteps
  <1> QED
    BY <1>2, <1>3 DEF Next, CaptureSteps

-----------------------------------------------------------------------------
(***************************************************************************)
(* Captures that overlap while nothing happens.                            *)
(***************************************************************************)
\* Nothing taken off or added.
LEMMA Nothing ==
    /\ Minus(Zero, Zero) = Zero /\ Plus(Zero, Zero) = Zero
    /\ \A x \in Amounts : Minus(x, x) = Zero /\ Minus(x, Zero) = x
  <1>1. /\ Minus(Zero, Zero) = Zero /\ Plus(Zero, Zero) = Zero
    BY DEF Minus, Plus, Zero
  <1>2. \A x \in Amounts : Minus(x, x) = Zero
    BY DEF Minus, Zero, Amounts
  <1>3. \A x \in Amounts : Minus(x, Zero) = x
    BY DEF Minus, Zero, Amounts
  <1> QED
    BY <1>1, <1>2, <1>3

\* An empty ledger explains nothing, and nothing trades beyond it.
LEMMA EmptyLedger ==
    ASSUME orders = <<>>
    PROVE  Attributed = Zero /\ (moved = Zero => Beyond = Zero)
  <1>1. orders \in Seq(OrderRecords) /\ Len(orders) = 0
    OBVIOUS
  <1>2. Len(Recent(orders)) = 0 /\ Len(Unvouched(orders)) = 0
    BY <1>1 DEF Recent, Unvouched
  <1>3. ASSUME NEW s \in Seq(Amounts), Len(s) = 0
        PROVE  Total(s) = Zero
    <2>1. \A n \in 1..Len(s) : s[n] = Zero
      BY <1>3
    <2> QED
      BY <2>1, TotalOfNothing
  <1>4. Recent(orders) \in Seq(Amounts) /\ Unvouched(orders) \in Seq(Amounts)
    BY <1>1, LedgerTypes
  <1> QED
    BY <1>1, <1>2, <1>3, <1>4, LedgerTotals, Nothing

\* Still holds at the start, and as long as nothing happens no step breaks it.
LEMMA StillStart == TypeOK /\ Init => Still
  <1> SUFFICES ASSUME TypeOK, Init
               PROVE  Still
    OBVIOUS
  <1>1. \A c \in Captors : StillCapture(c)
    BY DEF Init, StillCapture, Idle, Based
  <1>2. StillSnaps
    BY DEF Init, StillSnaps
  <1> QED
    BY <1>1, <1>2 DEF Still, Init

\* A capture that starts from a baseline, or without one, comes to the same.
LEMMA StillCaptureStep ==
    ASSUME TypeOK, TypeOK', Scheduled, Quiet, Still, NEW c \in Captors, CaptureSteps(c)
    PROVE  Still'
  <1> DEFINE r == capture[c]
             u == capture'[c]
  <1>1. /\ UNCHANGED <<account, orders, moved>>
        /\ \A d \in Captors : d # c => capture'[d] = capture[d]
    BY CaptureFrame
  <1>2. /\ r \in CaptureRecords /\ capture \in [Captors -> CaptureRecords]
        /\ r.base \in Amounts /\ account \in Amounts /\ baseline \in Amounts
        /\ snaps \in Seq(SnapRecords) /\ Len(snaps) \in Nat
    <2>1. capture \in [Captors -> CaptureRecords]
      BY Typings
    <2>2. r \in CaptureRecords
      BY <2>1
    <2> QED
      BY <2>1, <2>2, Typings DEF CaptureRecords
  <1>3. Attributed = Zero /\ Beyond = Zero
    BY EmptyLedger DEF Quiet, Scheduled
  <1>4. StillCapture(c) /\ baseline \in {Zero, account} /\ StillSnaps
    BY DEF Still
  <1>5. snaps # <<>> => 1 \in 1..Len(snaps) /\ Len(snaps) \in 1..Len(snaps)
    BY <1>2
  <1> HIDE DEF r, u
  <1>6. ASSUME baseline' = baseline, snaps' = snaps, StillCapture(c)'
        PROVE  Still'
    BY <1>1, <1>6 DEF Still, StillCapture, StillSnaps
  <1>7. CASE Fetch(c)
    <2>1. /\ u.pc = "ledger" /\ u.seen = account /\ u.book = Zero /\ u.drift = Zero
          /\ u.beyond = Beyond
      BY <1>2, <1>7 DEF Fetch, Idle, u
    <2>2. baseline' = baseline /\ snaps' = snaps
      BY <1>7 DEF Fetch
    <2> QED
      BY <1>1, <1>3, <1>6, <2>1, <2>2 DEF StillCapture, Based, u
  <1>8. CASE ReadLedger(c)
    <2>1. /\ u.pc = "baseline" /\ u.seen = r.seen /\ u.book = Attributed /\ u.drift = r.drift
          /\ u.beyond = r.beyond /\ r.pc = "ledger"
      BY <1>2, <1>8 DEF ReadLedger, At, CaptureRecords, r, u
    <2>2. baseline' = baseline /\ snaps' = snaps
      BY <1>8 DEF ReadLedger
    <2> QED
      BY <1>1, <1>3, <1>4, <1>6, <2>1, <2>2 DEF StillCapture, Based, r, u
  <1>9. CASE LoadBaseline(c)
    <2>1. /\ u.pc = IF baseline = Zero THEN "seed" ELSE "compare"
          /\ u.base = IF baseline # Zero THEN baseline
                      ELSE IF snaps # <<>> THEN snaps[1].gaps ELSE Minus(r.seen, r.book)
          /\ u.seen = r.seen /\ u.book = r.book /\ u.drift = r.drift
          /\ u.beyond = r.beyond /\ r.pc = "baseline"
      BY <1>2, <1>9 DEF LoadBaseline, At, CaptureRecords, r, u
    <2>2. baseline' = baseline /\ snaps' = snaps
      BY <1>9 DEF LoadBaseline
    <2>3. r.seen = account /\ r.book = Zero /\ r.drift = Zero /\ r.beyond = Zero
      BY <1>4, <2>1 DEF StillCapture, r
    <2>4. u.base = account
      <3>1. CASE baseline # Zero
        BY <1>4, <2>1, <3>1
      <3>2. CASE baseline = Zero /\ snaps # <<>>
        BY <1>4, <1>5, <2>1, <3>2 DEF StillSnaps
      <3>3. CASE baseline = Zero /\ snaps = <<>>
        BY <1>2, <2>1, <2>3, <3>3, Nothing
      <3> QED
        BY <3>1, <3>2, <3>3
    <2> QED
      BY <1>1, <1>4, <1>6, <2>1, <2>2, <2>3, <2>4 DEF StillCapture, Based, u
  <1>10. CASE SeedCheck(c)
    <2>1. /\ u.pc = IF baseline = Zero THEN "insert" ELSE "compare"
          /\ u.base = IF baseline # Zero THEN baseline ELSE r.base
          /\ u.seen = r.seen /\ u.book = r.book /\ u.drift = r.drift
          /\ u.beyond = r.beyond /\ r.pc = "seed"
      BY <1>2, <1>10 DEF SeedCheck, At, CaptureRecords, r, u
    <2>2. baseline' = baseline /\ snaps' = snaps
      BY <1>10 DEF SeedCheck
    <2> QED
      BY <1>1, <1>4, <1>6, <2>1, <2>2 DEF StillCapture, Based, r, u
  <1>11. CASE SeedCommit(c)
    <2>1. r.pc = "insert" /\ r.base = account
      BY <1>4, <1>11 DEF SeedCommit, At, StillCapture, r
    <2>2. CASE Rows(r.base) \cap Rows(baseline) = {}
      <3>1. /\ baseline' = [a \in Assets |-> IF a \in Rows(r.base) THEN r.base[a] ELSE baseline[a]]
            /\ u.pc = "compare" /\ u.base = r.base /\ u.seen = r.seen /\ u.book = r.book
            /\ u.drift = r.drift /\ u.beyond = r.beyond /\ snaps' = snaps
        BY <1>2, <1>11, <2>2 DEF SeedCommit, CaptureRecords, r, u
      <3>2. baseline' = account
        <4>1. CASE baseline = Zero
          <5>1. \A a \in Assets : baseline'[a] = account[a]
            BY <2>1, <3>1, <4>1 DEF Rows, Zero
          <5> QED
            BY <1>2, <5>1, SameAmount DEF TypeOK
        <4>2. CASE baseline = account
          <5>1. \A a \in Assets : baseline'[a] = account[a]
            BY <2>1, <3>1, <4>2
          <5> QED
            BY <1>2, <5>1, SameAmount DEF TypeOK
        <4> QED
          BY <1>4, <4>1, <4>2
      <3>3. StillCapture(c)'
        BY <1>1, <1>4, <2>1, <3>1, <3>2 DEF StillCapture, Based, r, u
      <3>4. \A d \in Captors : StillCapture(d)'
        BY <1>1, <3>2, <3>3 DEF Still, StillCapture
      <3>5. StillSnaps'
        BY <1>1, <1>4, <3>1, <3>2 DEF StillSnaps
      <3> QED
        BY <1>1, <3>2, <3>4, <3>5 DEF Still
    <2>3. CASE Rows(r.base) \cap Rows(baseline) # {}
      <3>1. u = Idle /\ baseline' = baseline /\ snaps' = snaps
        BY <1>2, <1>11, <2>3 DEF SeedCommit, r, u
      <3> QED
        BY <1>6, <3>1 DEF StillCapture, Based, Idle, u
    <2> QED
      BY <2>2, <2>3
  <1>12. CASE Compare(c)
    <2>1. /\ u.pc = "save" /\ u.base = r.base /\ u.seen = r.seen /\ u.book = r.book
          /\ u.drift = IF snaps = <<>> \/ r.seeded THEN Zero
                       ELSE LET before == Adjusted(snaps[Len(snaps)], r.base)
                            IN [a \in Assets |->
                                  IF a \in Listed(c) THEN Gaps(c)[a] - before[a] ELSE 0]
          /\ u.beyond = r.beyond /\ r.pc = "compare"
      BY <1>2, <1>12 DEF Compare, At, CaptureRecords, r, u
    <2>2. baseline' = baseline /\ snaps' = snaps
      BY <1>12 DEF Compare
    <2>3. /\ r.seen = account /\ r.book = Zero /\ r.beyond = Zero /\ r.base = account
          /\ baseline = account
      BY <1>4, <2>1 DEF StillCapture, Based, r
    <2>4. Gaps(c) = Zero
      BY <1>2, <2>3, Nothing DEF Gaps, r
    <2>5. snaps # <<>> => \A a \in Assets : Adjusted(snaps[Len(snaps)], account)[a] = 0
      <3>1. \A a \in Assets : account[a] \in Int /\ Zero[a] = 0
        BY <1>2 DEF Amounts, Zero
      <3> QED
        BY <1>4, <1>5, <3>1 DEF StillSnaps, Adjusted
    <2>6. u.drift = Zero
      BY <2>1, <2>3, <2>4, <2>5 DEF Zero
    <2> QED
      BY <1>1, <1>6, <2>1, <2>2, <2>3, <2>6 DEF StillCapture, Based, u
  <1>13. CASE Save(c)
    <2> DEFINE new == [gaps |-> Gaps(c), listed |-> Listed(c), legacy |-> FALSE,
                       seeded |-> r.seeded, drift |-> r.drift, beyond |-> r.beyond]
    <2>1. /\ u = Idle /\ snaps' = Append(snaps, new) /\ baseline' = baseline /\ r.pc = "save"
      BY <1>2, <1>13 DEF Save, At, r, u
    <2>2. /\ r.seen = account /\ r.book = Zero /\ r.beyond = Zero /\ r.base = account
          /\ r.drift = Zero /\ baseline = account
      BY <1>4, <2>1 DEF StillCapture, Based, r
    <2>3. Gaps(c) = Zero
      BY <1>2, <2>2, Nothing DEF Gaps, r
    <2>4. new.gaps = Zero /\ new.drift = Zero /\ new.beyond = Zero /\ ~new.legacy
      BY <2>2, <2>3
    <2> HIDE DEF new
    <2>5. \A i \in 1..Len(snaps') : snaps'[i] = new \/ (i \in 1..Len(snaps) /\ snaps'[i] = snaps[i])
      BY <1>2, <2>1
    <2>6. StillSnaps'
      BY <1>1, <1>4, <2>1, <2>2, <2>4, <2>5 DEF StillSnaps
    <2>7. StillCapture(c)'
      BY <2>1 DEF StillCapture, Based, Idle, u
    <2>8. \A d \in Captors : StillCapture(d)'
      BY <1>1, <2>1, <2>7 DEF Still, StillCapture
    <2> QED
      BY <1>1, <1>4, <2>1, <2>6, <2>8 DEF Still
  <1>14. CASE Fail(c)
    <2>1. u = Idle /\ baseline' = baseline /\ snaps' = snaps
      BY <1>2, <1>14 DEF Fail, u
    <2> QED
      BY <1>6, <2>1 DEF StillCapture, Based, Idle, u
  <1> QED
    BY <1>7, <1>8, <1>9, <1>10, <1>11, <1>12, <1>13, <1>14 DEF CaptureSteps

\* Whatever happens ends the quiet.
LEMMA StillStep ==
    ASSUME TypeOK, TypeOK', Scheduled, [Next]_vars, Quiet => Still
    PROVE  (Quiet => Still)'
  <1> SUFFICES ASSUME Quiet'
               PROVE  Still'
    OBVIOUS
  <1>1. CASE UNCHANGED vars
    BY <1>1 DEF vars, Quiet, Still, StillCapture, StillSnaps
  <1>2. CASE Place \/ Trade \/ Record \/ Move
    <2>1. Len(orders') = 0 /\ moves' = 0 /\ Len(orders) \in Nat /\ moves \in Nat
      BY BoundsAssumption, Typings DEF TypeOK, Quiet
    <2>2. ~Place /\ ~Trade /\ ~Record
      BY <2>1, LedgerGrows
    <2>3. ~Move
      BY <2>1 DEF Move
    <2> QED
      BY <1>2, <2>2, <2>3
  <1>3. ASSUME NEW c \in Captors, CaptureSteps(c)
        PROVE  Still'
    <2>1. Quiet
      BY <1>3, CaptureFrame DEF Quiet
    <2> QED
      BY <1>3, <2>1, StillCaptureStep
  <1> QED
    BY <1>1, <1>2, <1>3 DEF Next, CaptureSteps

-----------------------------------------------------------------------------
(***************************************************************************)
(* The theorems.                                                           *)
(***************************************************************************)
\* Either way the reports are right.
LEMMA ReportsInv == IInv => DriftIsNotOurs
  <1> SUFFICES ASSUME IInv, NEW i \in 2..Len(snaps), Apart \/ Quiet
               PROVE  \/ snaps[i].seeded /\ snaps[i - 1].legacy
                      \/ \A a \in snaps[i].listed :
                            snaps[i].drift[a] = snaps[i].beyond[a] - snaps[i - 1].beyond[a]
    BY DEF DriftIsNotOurs, Apart, Quiet
  <1>1. CASE Apart
    BY <1>1 DEF IInv, Explains, Reports
  <1>2. CASE Quiet
    <2>1. i \in 1..Len(snaps) /\ i - 1 \in 1..Len(snaps)
      BY Typings DEF IInv
    <2>2. snaps[i].drift = Zero /\ snaps[i].beyond = Zero /\ snaps[i - 1].beyond = Zero
      BY <1>2, <2>1 DEF IInv, Still, StillSnaps
    <2>3. snaps[i].listed \subseteq Assets
      <3>1. snaps[i] \in SnapRecords
        BY <2>1, Typings DEF IInv
      <3> QED
        BY <3>1 DEF SnapRecords
    <2> QED
      BY <2>2, <2>3 DEF Zero
  <1> QED
    BY <1>1, <1>2

\* The inductive invariant holds.
THEOREM Invariant == Spec => []IInv
  <1>1. Init => IInv
    BY TypeStart, ScheduledStart, ExplainsStart, StillStart DEF IInv
  <1>2. IInv /\ [Next]_vars => IInv'
    BY TypeStep, ScheduledStep, ExplainsStep, StillStep DEF IInv
  <1> QED
    BY <1>1, <1>2, PTL DEF Spec

\* What a snapshot reports of an asset it lists as not made by this agent is what others
\* moved and what orders traded without the ledger vouching for it since the snapshot
\* before, no more and no less, for every window, size of orders and number of captures,
\* also across captures that fail, snapshots from before the baseline and movements in
\* the middle of a capture (service.py, attribution.py); but for the capture that writes
\* the baseline after such snapshots, which reports nothing.
THEOREM DriftReported == Spec => []DriftIsNotOurs
  BY Invariant, ReportsInv, PTL

\* An insertion that succeeds meets no row that exists.
LEMMA InsertKeeps ==
    ASSUME NEW c \in Captors, SeedCommit(c), NEW a \in Assets, baseline[a] # 0
    PROVE  baseline'[a] = baseline[a]
  <1>1. CASE Rows(capture[c].base) \cap Rows(baseline) = {}
    <2>1. a \notin Rows(capture[c].base)
      BY <1>1 DEF Rows
    <2> QED
      BY <1>1, <2>1 DEF SeedCommit
  <1>2. CASE Rows(capture[c].base) \cap Rows(baseline) # {}
    BY <1>2 DEF SeedCommit
  <1> QED
    BY <1>1, <1>2

\* Nobody else writes the baseline.
LEMMA OnlySeedCommit ==
    ASSUME [Next]_vars, \A c \in Captors : ~SeedCommit(c)
    PROVE  baseline' = baseline
  <1>1. CASE UNCHANGED vars
    BY <1>1 DEF vars
  <1>2. ASSUME NEW c \in Captors,
               \/ Fetch(c) \/ ReadLedger(c) \/ LoadBaseline(c) \/ SeedCheck(c)
               \/ Compare(c) \/ Save(c) \/ Fail(c)
        PROVE  baseline' = baseline
    BY <1>2 DEF Fetch, ReadLedger, LoadBaseline, SeedCheck, Compare, Save, Fail
  <1>3. CASE Place \/ Trade \/ Record \/ Move
    BY <1>3 DEF Place, Trade, Record, Move
  <1> QED
    BY <1>1, <1>2, <1>3 DEF Next

\* A row of the baseline is never rewritten, also when first captures overlap, fail
\* half-way or follow snapshots from before the baseline
\* (AttributionBaselineRepository.seed).
THEOREM BaselineKept == Spec => BaselineIsKept
  <1>1. ASSUME [Next]_vars, NEW a \in Assets, baseline[a] # 0
        PROVE  baseline'[a] = baseline[a]
    <2>1. CASE \E c \in Captors : SeedCommit(c)
      BY <1>1, <2>1, InsertKeeps
    <2>2. CASE \A c \in Captors : ~SeedCommit(c)
      BY <1>1, <2>2, OnlySeedCommit
    <2> QED
      BY <2>1, <2>2
  <1>2. [Next]_vars => [\A a \in Assets : baseline[a] # 0 => baseline'[a] = baseline[a]]_vars
    BY <1>1
  <1> QED
    BY <1>2, PTL DEF Spec, BaselineIsKept
=============================================================================

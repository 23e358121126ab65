--------------------------- MODULE OrderExecution ---------------------------
(***************************************************************************)
(* One order, from the decision that asks for it to the ledger's verdict:  *)
(* run_execute_agent with the functions it awaits, the rows it writes      *)
(* (order_logs, trade_logs) and the exchange on the other side.            *)
(*                                                                         *)
(* Everything here belongs to ONE decision, that is to one trade id and    *)
(* the client order id derived from it.  Executions of different decisions *)
(* touch different rows and different client order ids, so one decision is *)
(* the whole interaction.  The same decision may be executed again (after  *)
(* a crash, or because its lookup failed); executions of one decision do   *)
(* not overlap.  Each action is what runs between two awaits that matter.  *)
(*                                                                         *)
(* A definition commented "Variant" is no part of the specification: it is *)
(* a plausible slip in the code the definition after it models, kept to    *)
(* show that a property would notice it.                                   *)
(***************************************************************************)
EXTENDS Naturals

CONSTANTS
    Attempts,   \* _RECONCILE_ATTEMPTS: how often reconcile asks the exchange
    MaxRuns,    \* bound: how often the decision is executed
    FaultSets   \* the environments to consider, each a set of faults

(***************************************************************************)
(* What an environment may do beyond answering late, wrongly or not at     *)
(* all, which it may always do:                                            *)
(*   crash    the process dies between two steps                           *)
(*   connect  load_markets fails while the connection is opened            *)
(*   db       a write to the local database raises                         *)
(*   close    closing the exchange session raises                          *)
(*   late     a request of a dead process is still on the wire when the    *)
(*            next execution begins                                        *)
(***************************************************************************)
FaultKinds == {"crash", "connect", "db", "close", "late"}

ASSUME AttemptsAssumption == Attempts \in Nat \ {0}
ASSUME MaxRunsAssumption  == MaxRuns \in Nat
ASSUME FaultSetsAssumption == FaultSets \subseteq SUBSET FaultKinds

VARIABLES
    faults,   \* the environment of this behaviour; never changes
    row,      \* the order_logs row of the client order id
    trade,    \* status of the trade_logs row
    ex,       \* the order the exchange holds under the client order id
    placed,   \* how many orders the exchange accepted under it
    wire,     \* "busy": a create request is on it that nobody waits for
    pc,       \* where the current execution stands; "idle" between executions
    upd,      \* its OrderUpdate
    last,     \* the last OrderUpdate seen by reconcile
    tries,    \* polls made by reconcile
    verdict,  \* the status _record_failure is about to write
    runs      \* executions begun

local == <<upd, last, tries, verdict>>
vars == <<faults, row, trade, ex, placed, wire, pc, local, runs>>

-----------------------------------------------------------------------------
Terminal == {"filled", "partial", "canceled", "rejected", "unknown"}
RowStatus == {"none", "pending", "submitted"} \cup Terminal
Fills == {"absent", "zero", "part", "full"}
Ids == {"absent", "known"}   \* the exchange's order id, in an answer or a row
Wires == {"clear", "busy"}

IsTerminal(status) == status \in Terminal

\* The states an order can have at the exchange; "closed" is a full fill.
NoOrder == [st |-> "none", fill |-> "zero"]
Orders ==
    [st : {"open", "canceled"}, fill : {"zero", "part"}]
        \cup {[st |-> "closed", fill |-> "full"], [st |-> "rejected", fill |-> "zero"]}

\* What an open order may turn into.
After(o) ==
    {p \in Orders : /\ p.st \in {"open", "closed", "canceled"}
                    /\ o.fill = "part" => p.fill # "zero"
                    /\ p.st = "canceled" => p.fill = o.fill}

Silence == [status |-> "none", id |-> "absent", fill |-> "absent"]
Updates == [status : {"none", "submitted"} \cup Terminal, id : Ids, fill : Fills]

\* _CCXT_STATUS_MAP, with the default for a status it does not know.
CcxtStatus(st) ==
    CASE st = "closed"   -> "filled"
      [] st = "canceled" -> "canceled"
      [] st = "rejected" -> "rejected"
      [] OTHER           -> "submitted"

\* Variant: "closed" is believed without a quantity.
ResolveStatusTrusting(mapped, fill) == mapped
\* resolve_status: "closed" without a quantity is no evidence of a fill.
ResolveStatus(mapped, fill) ==
    IF mapped = "filled" /\ fill \in {"absent", "zero"} THEN "submitted" ELSE mapped

\* Every OrderUpdate normalize_order can make of an answer about order o: any
\* field of the answer may be missing, and its quantity may lag behind at zero.
Reports(o) ==
    {[status |-> ResolveStatus(CcxtStatus(st), fill), id |-> id, fill |-> fill] :
        st \in {o.st, "missing"}, fill \in {o.fill, "zero", "absent"}, id \in Ids}

\* _exhausted: reconcile gives up on what it saw last.
Exhausted(u) ==
    [u EXCEPT !.status = IF u.fill \in {"part", "full"} THEN "partial" ELSE "unknown"]

\* _TRADE_STATUS, how an order status is written on the decision's record.
TradeStatus(status) ==
    IF status \in {"filled", "partial", "unknown"} THEN status ELSE "failed"

-----------------------------------------------------------------------------
Init ==
    /\ faults \in FaultSets
    /\ row = [status |-> "none", id |-> "absent", fill |-> "absent"]
    /\ trade = "submitted"
    /\ ex = NoOrder
    /\ placed = 0
    /\ wire = "clear"
    /\ pc = "idle"
    /\ upd = Silence
    /\ last = Silence
    /\ tries = 0
    /\ verdict = "unknown"
    /\ runs = 0

Fails(kind) == kind \in faults
InFlight == wire = "busy"
Ledger == <<faults, row, trade>>
Exchange == <<ex, placed, wire>>

Forget == upd' = Silence /\ last' = Silence /\ tries' = 0 /\ UNCHANGED verdict
Halt == pc' = "idle" /\ Forget

\* The outer exception handler of run_execute_agent takes over.
OuterHandler(status) == pc' = "errrow" /\ verdict' = status /\ UNCHANGED <<upd, last, tries>>

\* Variant: a terminal row is executed again.
BeginForgetful ==
    /\ pc = "idle"
    /\ runs < MaxRuns
    /\ Fails("late") \/ ~InFlight
    /\ runs' = runs + 1
    /\ pc' = IF row.status = "none" THEN "create" ELSE "connect"
    /\ UNCHANGED <<Ledger, Exchange, local>>
\* run_execute_agent is called.  A terminal row is returned as it stands.
Begin ==
    /\ pc = "idle"
    /\ runs < MaxRuns
    /\ Fails("late") \/ ~InFlight
    /\ runs' = runs + 1
    /\ pc' = IF IsTerminal(row.status) THEN "idle"
             ELSE IF row.status = "none" THEN "create" ELSE "connect"
    /\ UNCHANGED <<Ledger, Exchange, local>>

\* Variant: the row is written after the answer.
CreatePendingSkipped ==
    /\ pc = "create"
    /\ pc' = "connect"
    /\ UNCHANGED <<Ledger, Exchange, local, runs>>
\* create_pending, before anything is sent.
CreatePending ==
    /\ pc = "create"
    /\ row' = [row EXCEPT !.status = "pending"]
    /\ pc' = "connect"
    /\ UNCHANGED <<faults, trade, Exchange, local, runs>>

\* async with SpotDemoExchange: nothing of this run was committed when it fails.
Connect ==
    /\ pc = "connect"
    /\ pc' = "probe" /\ UNCHANGED local
    /\ UNCHANGED <<Ledger, Exchange, runs>>
ConnectFails ==
    /\ pc = "connect"
    /\ Fails("connect")
    /\ OuterHandler("rejected")
    /\ UNCHANGED <<Ledger, Exchange, runs>>

\* Variant: the exchange is not asked.
ProbeUnknownCarefree ==
    /\ pc = "probe"
    /\ pc' = "place"
    /\ UNCHANGED <<Ledger, Exchange, local, runs>>
\* _find_existing_order: the exchange does not know the client order id ...
ProbeUnknown ==
    /\ pc = "probe"
    /\ placed = 0
    /\ pc' = "place"
    /\ UNCHANGED <<Ledger, Exchange, local, runs>>
\* ... or it does, and the order is claimed instead of placed again ...
ProbeFound ==
    /\ pc = "probe"
    /\ placed > 0
    /\ upd' \in Reports(ex)
    /\ pc' = "mark"
    /\ UNCHANGED <<Ledger, Exchange, last, tries, verdict, runs>>
\* ... or it cannot be asked: record_error keeps the status, nothing is placed.
ProbeFails ==
    /\ pc = "probe"
    /\ \/ pc' = "leave" /\ UNCHANGED local
       \/ Fails("db") /\ OuterHandler("rejected")
    /\ UNCHANGED <<Ledger, Exchange, runs>>

\* create_order answers: the exchange has the order, in whatever state.
PlaceAcked ==
    /\ pc = "place"
    /\ placed' = placed + 1
    /\ ex' \in Orders
    /\ upd' \in Reports(ex')
    /\ pc' = "mark"
    /\ UNCHANGED <<Ledger, wire, last, tries, verdict, runs>>

\* create_order raises an ExchangeError: refused, nothing exists.
PlaceRefused ==
    /\ pc = "place"
    /\ verdict' = "rejected"
    /\ pc' = "failrow"
    /\ UNCHANGED <<Ledger, Exchange, upd, last, tries, runs>>

\* Variant: a timeout is filed as a refusal.
PlaceUnansweredAsRefused ==
    /\ pc = "place"
    /\ wire' \in Wires
    /\ verdict' = "rejected"
    /\ pc' = "failrow"
    /\ UNCHANGED <<Ledger, ex, placed, upd, last, tries, runs>>
\* create_order raises a NetworkError: the request is lost or still on its way.
PlaceUnanswered ==
    /\ pc = "place"
    /\ wire' \in Wires
    /\ verdict' = "unknown"
    /\ pc' = "failrow"
    /\ UNCHANGED <<Ledger, ex, placed, upd, last, tries, runs>>

\* mark_submitted, then straight to the end, to reconcile, or, when the answer
\* carried no exchange order id to ask about, to "unknown".
MarkSubmitted ==
    /\ pc = "mark"
    /\ row' = [row EXCEPT !.status = "submitted", !.id = upd.id]
    /\ \/ IsTerminal(upd.status) /\ pc' = "close" /\ UNCHANGED upd
       \/ ~IsTerminal(upd.status) /\ upd.id = "known" /\ pc' = "poll" /\ UNCHANGED upd
       \/ ~IsTerminal(upd.status) /\ upd.id = "absent" /\ pc' = "close"
            /\ upd' = [upd EXCEPT !.status = "unknown"]
    /\ UNCHANGED <<faults, trade, Exchange, last, tries, verdict, runs>>
MarkSubmittedFails ==
    /\ pc = "mark"
    /\ Fails("db")
    /\ OuterHandler("unknown")
    /\ UNCHANGED <<Ledger, Exchange, runs>>

\* Variant: the attempts are not counted.
PollUncounted ==
    /\ pc = "poll"
    /\ tries < Attempts
    /\ \/ last' = last /\ UNCHANGED <<pc, upd, tries>>
       \/ /\ last' \in Reports(ex)
          /\ IF IsTerminal(last'.status)
             THEN pc' = "close" /\ upd' = last' /\ UNCHANGED tries
             ELSE UNCHANGED <<pc, upd, tries>>
    /\ UNCHANGED <<Ledger, Exchange, verdict, runs>>
\* reconcile: one fetch_order, which may fail; a terminal answer ends it.
Poll ==
    /\ pc = "poll"
    /\ tries < Attempts
    /\ tries' = tries + 1
    /\ \/ last' = last /\ UNCHANGED <<pc, upd>>
       \/ /\ last' \in Reports(ex)
          /\ IF IsTerminal(last'.status)
             THEN pc' = "close" /\ upd' = last'
             ELSE UNCHANGED <<pc, upd>>
    /\ UNCHANGED <<Ledger, Exchange, verdict, runs>>
\* Variant: one poll too many.
PollsExhaustedLate ==
    /\ pc = "poll"
    /\ tries = Attempts
    /\ tries' = tries + 1
    /\ upd' = Exhausted(last)
    /\ pc' = "close"
    /\ UNCHANGED <<Ledger, Exchange, last, verdict, runs>>
\* _exhausted: out of attempts.
PollsExhausted ==
    /\ pc = "poll"
    /\ tries = Attempts
    /\ upd' = Exhausted(last)
    /\ pc' = "close"
    /\ UNCHANGED <<Ledger, Exchange, last, tries, verdict, runs>>

\* __aexit__ after the order was committed, and after an early return.
Close ==
    /\ pc \in {"close", "leave"}
    /\ IF pc = "close" THEN pc' = "apply" /\ UNCHANGED local ELSE Halt
    /\ UNCHANGED <<Ledger, Exchange, runs>>
CloseFails ==
    /\ pc \in {"close", "leave"}
    /\ Fails("close")
    /\ OuterHandler(IF pc = "close" THEN "unknown" ELSE "rejected")
    /\ UNCHANGED <<Ledger, Exchange, runs>>

\* apply_final: the ledger takes the update, then _settle writes the decision.
ApplyFinal ==
    /\ pc = "apply"
    /\ row' = upd
    /\ pc' = "settle"
    /\ UNCHANGED <<faults, trade, Exchange, local, runs>>
\* Variant: "unknown" is flattened into a failure.
SettleOptimistic ==
    /\ pc = "settle"
    /\ trade' = IF row.status = "unknown" THEN "failed" ELSE TradeStatus(row.status)
    /\ Halt
    /\ UNCHANGED <<faults, row, Exchange, runs>>
Settle ==
    /\ pc = "settle"
    /\ trade' = TradeStatus(row.status)
    /\ Halt
    /\ UNCHANGED <<faults, row, Exchange, runs>>

\* _record_failure: mark_failed and then _mark_trade.  "failrow"/"failtrade" run
\* inside the try block, "errrow"/"errtrade" in its outer handler.
MarkFailed ==
    /\ pc \in {"failrow", "errrow"}
    /\ row' = [row EXCEPT !.status = verdict]
    /\ pc' = IF pc = "failrow" THEN "failtrade" ELSE "errtrade"
    /\ UNCHANGED <<faults, trade, Exchange, local, runs>>
MarkTrade ==
    /\ pc \in {"failtrade", "errtrade"}
    /\ trade' = TradeStatus(verdict)
    /\ IF pc = "failtrade" THEN pc' = "leave" /\ UNCHANGED local ELSE Halt
    /\ UNCHANGED <<faults, row, Exchange, runs>>
RecordFailureFails ==
    /\ pc \in {"failrow", "failtrade"}
    /\ Fails("db")
    /\ OuterHandler("rejected")
    /\ UNCHANGED <<Ledger, Exchange, runs>>

\* A database error outside the try block leaves run_execute_agent.
Abort ==
    /\ pc \in {"create", "apply", "settle", "errrow", "errtrade"}
    /\ Fails("db")
    /\ Halt
    /\ UNCHANGED <<Ledger, Exchange, runs>>

\* The process dies; the request it had just sent may outlive it.
Crash ==
    /\ pc # "idle"
    /\ Fails("crash")
    /\ Halt
    /\ wire' \in IF pc = "place" THEN Wires ELSE {wire}
    /\ UNCHANGED <<Ledger, ex, placed, runs>>

\* The exchange on its own: works an open order, takes a request it had not
\* answered, or never gets it.
Work ==
    /\ ex.st = "open"
    /\ ex' \in After(ex)
    /\ UNCHANGED <<Ledger, placed, wire, pc, local, runs>>
LateArrival ==
    /\ InFlight
    /\ wire' = "clear"
    /\ placed' = placed + 1
    /\ ex' \in Orders
    /\ UNCHANGED <<Ledger, pc, local, runs>>
LateLoss ==
    /\ InFlight
    /\ wire' = "clear"
    /\ UNCHANGED <<Ledger, ex, placed, pc, local, runs>>

RunStep ==
    \/ CreatePending \/ Connect \/ ConnectFails
    \/ ProbeUnknown \/ ProbeFound \/ ProbeFails
    \/ PlaceAcked \/ PlaceRefused \/ PlaceUnanswered
    \/ MarkSubmitted \/ MarkSubmittedFails
    \/ Poll \/ PollsExhausted
    \/ Close \/ CloseFails
    \/ ApplyFinal \/ Settle
    \/ MarkFailed \/ MarkTrade \/ RecordFailureFails \/ Abort

Next ==
    \/ Begin
    \/ RunStep
    \/ Crash
    \/ Work \/ LateArrival \/ LateLoss

\* A started coroutine keeps being scheduled, and every call it awaits ends: the
\* exchange client and the database driver time out.  Nobody has to call it.
Spec == Init /\ [][Next]_vars /\ WF_vars(RunStep)

-----------------------------------------------------------------------------
(***************************************************************************)
(* Properties.                                                             *)
(***************************************************************************)

TypeOK ==
    /\ faults \in FaultSets
    /\ row \in [status : RowStatus, id : Ids, fill : Fills]
    /\ trade \in {"submitted", "filled", "partial", "unknown", "failed"}
    /\ ex \in Orders \cup {NoOrder}
    /\ placed \in Nat
    /\ wire \in Wires
    /\ pc \in {"idle", "create", "connect", "probe", "place", "mark", "poll", "close",
              "apply", "settle", "failrow", "failtrade", "errrow", "errtrade", "leave"}
    /\ upd \in Updates
    /\ last \in Updates
    /\ tries \in 0..Attempts
    /\ verdict \in {"rejected", "unknown"}
    /\ runs \in 0..MaxRuns

\* The environments in which an earlier execution cannot be misjudged: its
\* request is settled, its writes land, its session closes, and no execution
\* that follows a crash fails before it could ask the exchange.
Candid ==
    /\ faults \cap {"db", "close", "late"} = {}
    /\ ~({"crash", "connect"} \subseteq faults)

\* However often the decision is executed, crashed and executed again, the
\* exchange never accepts two orders under its client order id, as long as a
\* dead process leaves no request on the wire (the lookup before every
\* submission, execute_agent.py _find_existing_order; the exchange itself
\* does not deduplicate market orders).
AtMostOneOrder == "late" \in faults \/ placed <= 1

\* Nothing reaches the exchange, or is under way to it, that the ledger has no
\* row for (create_pending commits before create_order is sent).
LedgerBeforeExchange == placed > 0 \/ InFlight => row.status # "none"

\* A row says "filled" only when the exchange closed the order, and then it
\* carries the quantity (resolve_status, reconcile, apply_final), whatever
\* was lost, crashed or executed again on the way.
FilledIsEvidenced ==
    row.status = "filled" =>
        "late" \in faults \/ (ex.st = "closed" /\ row.fill = "full")

\* A row says "rejected" only when no order of this decision exists or can
\* still come to exist: "rejected" is what invites a new attempt.
RejectedIsDefinite ==
    row.status = "rejected" => ~InFlight /\ (placed = 0 \/ ex.st = "rejected")
RejectedMeansNothingPlaced == Candid => RejectedIsDefinite

\* A terminal status never changes again, whichever execution, handler or
\* late answer comes after it and whatever fails (orders.py TERMINAL_STATUSES).
\* There is one exception: after a timeout was filed as "unknown", _mark_trade or
\* the closing session may fail, and the outer handler, for which nothing was
\* committed, writes "rejected" over it.  What the exchange reported stands.
TerminalIsFinal ==
    [][IsTerminal(row.status) =>
          \/ row' = row
          \/ /\ faults \cap {"db", "close"} # {}
             /\ row.status = "unknown"
             /\ row' = [row EXCEPT !.status = "rejected"]]_vars

\* Between executions, an order the exchange works or has filled is one the
\* daily budget counts (count_maybe_reached_since), also when its answer was
\* lost or the lookup failed.
Counted == {"submitted", "filled", "partial", "unknown"}
ReachedIsCounted ==
    faults \cap {"crash", "db", "close"} = {} /\ pc = "idle" =>
        ((placed > 0 /\ ex.st \in {"open", "closed"}) \/ InFlight => row.status \in Counted)

\* The decision's own record tells the same story as its order: once the row is
\* terminal and the execution is over, trade_logs carries the status
\* _TRADE_STATUS gives it (_settle, _record_failure).
TradeFollowsOrder ==
    faults \cap {"crash", "db"} = {} /\ pc = "idle" /\ IsTerminal(row.status) =>
        trade = TradeStatus(row.status)

\* An execution ends: no answer the exchange gives or withholds keeps a tick in
\* reconcile or in a failure path for ever.
ExecutionEnds == pc # "idle" ~> pc = "idle"

\* In a candid environment the executions implement the promise: what the
\* ledger says and what the exchange holds change only as OrderPromise allows.
\* An order the exchange itself rejected counts as none.
Promise == INSTANCE OrderPromise WITH
    orders <- IF Candid /\ ex.st # "rejected" THEN placed ELSE 0,
    verdict <- IF Candid /\ IsTerminal(row.status) THEN row.status ELSE "open"

ImplementsPromise == Promise!Spec

=============================================================================

------------------------ MODULE OrderExecutionProofs ------------------------
(***************************************************************************)
(* What OrderExecution guarantees for every number of polls, every number  *)
(* of executions and every set of environments.  One inductive invariant,  *)
(* in named parts, carries all the safety theorems.                        *)
(***************************************************************************)
EXTENDS OrderExecution, TLAPS

\* An order can only be asked for after the ledger has its row, and a terminal
\* row is never executed again.
Phases ==
    /\ pc \in {"idle", "create"} \/ row.status # "none"
    /\ placed > 0 \/ InFlight => row.status # "none"
    /\ pc \in {"create", "connect", "probe", "place", "mark", "poll", "close", "apply",
               "failrow"} => ~IsTerminal(row.status)
    /\ pc \in {"close", "apply"} => IsTerminal(upd.status)
    /\ pc = "settle" => IsTerminal(row.status)
    /\ pc \in {"mark", "poll", "close", "apply"} => placed > 0
    /\ placed = 0 <=> ex.st = "none"

\* The environments where no request of one execution can reach the exchange
\* during another.
Lone == "late" \notin faults \/ faults \cap {"crash", "db", "close"} = {}

\* Alone, an execution that may still place an order is the only source of one.
Alone ==
    Lone =>
        /\ placed <= 1
        /\ InFlight => placed = 0
        /\ pc \in {"create", "connect", "probe", "place", "mark", "poll", "close", "apply",
                   "settle"} => ~InFlight
        /\ pc = "place" => placed = 0

\* What an update or a row says of the order is still true of it.
Grounded(u) ==
    /\ u.status = "filled" => ex.st = "closed" /\ u.fill = "full"
    /\ u.status = "canceled" => ex.st = "canceled"
    /\ u.status = "partial" => ex.st \in {"open", "closed", "canceled"}
Grounds ==
    Lone =>
        /\ Grounded(row)
        /\ Grounded(upd)
        /\ upd.status = "rejected" => ex.st = "rejected"
        /\ last.fill \in {"part", "full"} => ex.st \in {"open", "closed", "canceled"}

\* Without a crash or a failing write or close, an execution that leaves its row
\* open has sent nothing.
Quiet ==
    faults \cap {"crash", "db", "close"} = {} =>
        (pc \in {"idle", "leave", "create", "connect", "probe", "errrow"}
            /\ ~IsTerminal(row.status) => placed = 0 /\ ~InFlight)

\* The outer handler, without failing writes or closes, is reached only by a
\* failing connection, with the row still open; with them it can meet a terminal
\* row, but only one that a failed submission left, and files a refusal.
Handlers ==
    /\ faults \cap {"db", "close"} = {} /\ pc \in {"errrow", "errtrade"} =>
        /\ "connect" \in faults
        /\ verdict = "rejected"
        /\ pc = "errrow" => ~IsTerminal(row.status)
    /\ pc \in {"failtrade", "leave", "errrow"} /\ IsTerminal(row.status) =>
        row.status \in {"rejected", "unknown"}
    /\ pc = "errrow" /\ IsTerminal(row.status) => verdict = "rejected"

\* A refusal is only filed about an order that does not exist and cannot come to.
Honest ==
    faults \cap {"db", "close"} = {} /\ Lone /\ ~({"crash", "connect"} \subseteq faults) =>
        /\ pc \in {"failrow", "errrow"} /\ verdict = "rejected" => placed = 0 /\ ~InFlight
        /\ RejectedIsDefinite
        /\ InFlight => ~IsTerminal(row.status) \/ row.status = "unknown"

\* The decision's record follows the row.
Recorded ==
    faults \cap {"crash", "db"} = {} =>
        /\ pc \in {"idle", "leave"} /\ IsTerminal(row.status) => trade = TradeStatus(row.status)
        /\ pc \in {"failtrade", "errtrade"} => row.status = verdict

IInv == TypeOK /\ Phases /\ Alone /\ Grounds /\ Quiet /\ Handlers /\ Honest /\ Recorded

-----------------------------------------------------------------------------
\* An answer about an order says nothing that is not so.
LEMMA ReportsAreGrounded ==
    ASSUME NEW o \in Orders, NEW u \in Reports(o)
    PROVE  /\ u \in Updates
           /\ u.status \in {"submitted", "filled", "canceled", "rejected"}
           /\ u.status = "filled" => o.st = "closed" /\ u.fill = "full"
           /\ u.status = "canceled" => o.st = "canceled"
           /\ u.status = "rejected" => o.st = "rejected"
           /\ u.fill \in {"absent", "zero", o.fill}
  BY DEF Orders, Reports, Updates, CcxtStatus, ResolveStatus, Ids, Fills, Terminal

\* Giving up yields a terminal update, and "partial" only with a quantity seen.
LEMMA ExhaustedIsTerminal ==
    ASSUME NEW u \in Updates
    PROVE  /\ Exhausted(u) \in Updates
           /\ Exhausted(u).status \in {"partial", "unknown"}
           /\ Exhausted(u).status = "partial" => u.fill \in {"part", "full"}
           /\ Exhausted(u).fill = u.fill
  BY DEF Exhausted, Updates, Terminal, Ids, Fills

\* Every step keeps the variables in their types.
LEMMA TypeOKPreserved ==
    ASSUME IInv, Next
    PROVE  TypeOK'
  <1> USE DEF IInv, TypeOK, Terminal, RowStatus, Fills, Ids, Wires, InFlight, Orders, NoOrder, Updates, Silence, TradeStatus, Ledger, Exchange, local
  <1>1. CASE Begin
    BY <1>1, MaxRunsAssumption DEF Begin, Fails
  <1>2. CASE CreatePending
    BY <1>2 DEF CreatePending
  <1>3. CASE Connect
    BY <1>3 DEF Connect
  <1>4. CASE ConnectFails
    BY <1>4 DEF ConnectFails, OuterHandler, Fails
  <1>5. CASE ProbeUnknown
    BY <1>5 DEF ProbeUnknown
  <1>6. CASE ProbeFound
    <2>1. ex \in Orders
      BY <1>6 DEF ProbeFound, Phases
    <2>2. upd' \in Updates
      BY <1>6, <2>1, ReportsAreGrounded DEF ProbeFound
    <2> QED
      BY <1>6, <2>2 DEF ProbeFound
  <1>7. CASE ProbeFails
    BY <1>7 DEF ProbeFails, OuterHandler, Fails
  <1>8. CASE PlaceAcked
    BY <1>8, ReportsAreGrounded DEF PlaceAcked
  <1>9. CASE PlaceRefused
    BY <1>9 DEF PlaceRefused
  <1>10. CASE PlaceUnanswered
    BY <1>10 DEF PlaceUnanswered
  <1>11. CASE MarkSubmitted
    <2>1. upd' \in Updates
      BY <1>11 DEF MarkSubmitted
    <2>2. row' \in [status : RowStatus, id : Ids, fill : Fills]
      BY <1>11 DEF MarkSubmitted
    <2> QED
      BY <1>11, <2>1, <2>2 DEF MarkSubmitted
  <1>12. CASE MarkSubmittedFails
    BY <1>12 DEF MarkSubmittedFails, OuterHandler, Fails
  <1>13. CASE Poll
    <2>1. ex \in Orders
      BY <1>13 DEF Poll, Phases
    <2>2. last' \in Updates
      BY <1>13, <2>1, ReportsAreGrounded DEF Poll
    <2>3. upd' \in Updates
      BY <1>13, <2>2 DEF Poll
    <2> QED
      BY <1>13, <2>2, <2>3, AttemptsAssumption DEF Poll
  <1>14. CASE PollsExhausted
    BY <1>14, ExhaustedIsTerminal, AttemptsAssumption DEF PollsExhausted
  <1>15. CASE Close
    BY <1>15, AttemptsAssumption DEF Close, Halt, Forget
  <1>16. CASE CloseFails
    BY <1>16 DEF CloseFails, OuterHandler, Fails
  <1>17. CASE ApplyFinal
    BY <1>17 DEF ApplyFinal
  <1>18. CASE Settle
    BY <1>18, AttemptsAssumption DEF Settle, Halt, Forget
  <1>19. CASE MarkFailed
    BY <1>19 DEF MarkFailed
  <1>20. CASE MarkTrade
    BY <1>20, AttemptsAssumption DEF MarkTrade, Halt, Forget
  <1>21. CASE RecordFailureFails
    BY <1>21 DEF RecordFailureFails, OuterHandler, Fails
  <1>22. CASE Abort
    BY <1>22, AttemptsAssumption DEF Abort, Halt, Forget, Fails
  <1>23. CASE Crash
    BY <1>23, AttemptsAssumption DEF Crash, Halt, Forget, Fails
  <1>24. CASE Work
    BY <1>24 DEF Work, After
  <1>25. CASE LateArrival
    BY <1>25 DEF LateArrival
  <1>26. CASE LateLoss
    BY <1>26 DEF LateLoss
  <1>27. QED
    BY <1>1, <1>2, <1>3, <1>4, <1>5, <1>6, <1>7, <1>8, <1>9, <1>10, <1>11, <1>12, <1>13, <1>14, <1>15, <1>16, <1>17, <1>18, <1>19, <1>20, <1>21, <1>22, <1>23, <1>24, <1>25, <1>26 DEF Next, RunStep

\* Every step respects the order of the phases.
LEMMA PhasesPreserved ==
    ASSUME IInv, Next
    PROVE  Phases'
  <1> USE DEF IInv, TypeOK, Phases, Terminal, RowStatus, Fills, Orders, NoOrder, Updates, Silence, IsTerminal, Ledger, Exchange, local, InFlight, Fails, OuterHandler, Halt, Forget
  <1>1. CASE Begin
    BY <1>1 DEF Begin
  <1>2. CASE CreatePending
    BY <1>2 DEF CreatePending
  <1>3. CASE Connect \/ ConnectFails
    BY <1>3 DEF Connect, ConnectFails
  <1>4. CASE ProbeUnknown \/ ProbeFound \/ ProbeFails
    BY <1>4, ReportsAreGrounded DEF ProbeUnknown, ProbeFound, ProbeFails
  <1>5. CASE PlaceAcked
    BY <1>5, ReportsAreGrounded DEF PlaceAcked
  <1>6. CASE PlaceRefused \/ PlaceUnanswered
    BY <1>6 DEF PlaceRefused, PlaceUnanswered
  <1>7. CASE MarkSubmitted \/ MarkSubmittedFails
    BY <1>7 DEF MarkSubmitted, MarkSubmittedFails
  <1>8. CASE Poll
    BY <1>8, ReportsAreGrounded DEF Poll
  <1>9. CASE PollsExhausted
    BY <1>9, ExhaustedIsTerminal DEF PollsExhausted
  <1>10. CASE Close \/ CloseFails
    BY <1>10 DEF Close, CloseFails
  <1>11. CASE ApplyFinal
    BY <1>11 DEF ApplyFinal
  <1>12. CASE Settle
    BY <1>12 DEF Settle
  <1>13. CASE MarkFailed
    BY <1>13 DEF MarkFailed
  <1>14. CASE MarkTrade
    BY <1>14 DEF MarkTrade
  <1>15. CASE RecordFailureFails
    BY <1>15 DEF RecordFailureFails
  <1>16. CASE Abort \/ Crash
    BY <1>16 DEF Abort, Crash
  <1>17. CASE Work
    BY <1>17 DEF Work, After
  <1>18. CASE LateArrival \/ LateLoss
    BY <1>18 DEF LateArrival, LateLoss
  <1>19. QED
    BY <1>1, <1>2, <1>3, <1>4, <1>5, <1>6, <1>7, <1>8, <1>9, <1>10, <1>11, <1>12,
       <1>13, <1>14, <1>15, <1>16, <1>17, <1>18 DEF Next, RunStep

\* Every step keeps the executions from sending two orders.
LEMMA AlonePreserved ==
    ASSUME IInv, Next
    PROVE  Alone'
  <1> USE DEF IInv, TypeOK, Phases, Terminal, RowStatus, Fills, Orders, NoOrder, Updates, Silence, IsTerminal, Ledger, Exchange, local, InFlight, Fails, OuterHandler, Halt, Forget, Alone, Lone, Quiet
  <1>1. CASE Begin
    BY <1>1 DEF Begin
  <1>2. CASE CreatePending
    BY <1>2 DEF CreatePending
  <1>3. CASE Connect \/ ConnectFails
    BY <1>3 DEF Connect, ConnectFails
  <1>4. CASE ProbeUnknown \/ ProbeFound \/ ProbeFails
    BY <1>4 DEF ProbeUnknown, ProbeFound, ProbeFails
  <1>5. CASE PlaceAcked
    BY <1>5 DEF PlaceAcked
  <1>6. CASE PlaceRefused \/ PlaceUnanswered
    BY <1>6 DEF PlaceRefused, PlaceUnanswered
  <1>7. CASE MarkSubmitted \/ MarkSubmittedFails
    BY <1>7 DEF MarkSubmitted, MarkSubmittedFails
  <1>8. CASE Poll
    BY <1>8 DEF Poll
  <1>9. CASE PollsExhausted
    BY <1>9 DEF PollsExhausted
  <1>10. CASE Close \/ CloseFails
    BY <1>10 DEF Close, CloseFails
  <1>11. CASE ApplyFinal
    BY <1>11 DEF ApplyFinal
  <1>12. CASE Settle
    BY <1>12 DEF Settle
  <1>13. CASE MarkFailed
    BY <1>13 DEF MarkFailed
  <1>14. CASE MarkTrade
    BY <1>14 DEF MarkTrade
  <1>15. CASE RecordFailureFails
    BY <1>15 DEF RecordFailureFails
  <1>16. CASE Abort \/ Crash
    BY <1>16 DEF Abort, Crash
  <1>17. CASE Work
    BY <1>17 DEF Work, After
  <1>18. CASE LateArrival \/ LateLoss
    BY <1>18 DEF LateArrival, LateLoss
  <1>19. QED
    BY <1>1, <1>2, <1>3, <1>4, <1>5, <1>6, <1>7, <1>8, <1>9, <1>10, <1>11, <1>12,
       <1>13, <1>14, <1>15, <1>16, <1>17, <1>18 DEF Next, RunStep

\* Every step keeps what the ledger says true of the order.
LEMMA GroundsPreserved ==
    ASSUME IInv, Next
    PROVE  Grounds'
  <1> USE DEF IInv, TypeOK, Phases, Terminal, RowStatus, Fills, Orders, NoOrder, Updates, Silence, IsTerminal, Ledger, Exchange, local, InFlight, Fails, OuterHandler, Halt, Forget, Alone, Lone, Quiet, Grounds, Grounded
  <1>1. CASE Begin
    BY <1>1 DEF Begin
  <1>2. CASE CreatePending
    BY <1>2 DEF CreatePending
  <1>3. CASE Connect \/ ConnectFails
    BY <1>3 DEF Connect, ConnectFails
  <1>4. CASE ProbeUnknown \/ ProbeFound \/ ProbeFails
    BY <1>4, ReportsAreGrounded DEF ProbeUnknown, ProbeFound, ProbeFails
  <1>5. CASE PlaceAcked
    BY <1>5, ReportsAreGrounded DEF PlaceAcked
  <1>6. CASE PlaceRefused \/ PlaceUnanswered
    BY <1>6 DEF PlaceRefused, PlaceUnanswered
  <1>7. CASE MarkSubmitted \/ MarkSubmittedFails
    BY <1>7 DEF MarkSubmitted, MarkSubmittedFails
  <1>8. CASE Poll
    BY <1>8, ReportsAreGrounded DEF Poll
  <1>9. CASE PollsExhausted
    BY <1>9, ExhaustedIsTerminal DEF PollsExhausted
  <1>10. CASE Close \/ CloseFails
    BY <1>10 DEF Close, CloseFails
  <1>11. CASE ApplyFinal
    BY <1>11 DEF ApplyFinal
  <1>12. CASE Settle
    BY <1>12 DEF Settle
  <1>13. CASE MarkFailed
    BY <1>13 DEF MarkFailed
  <1>14. CASE MarkTrade
    BY <1>14 DEF MarkTrade
  <1>15. CASE RecordFailureFails
    BY <1>15 DEF RecordFailureFails
  <1>16. CASE Abort \/ Crash
    BY <1>16 DEF Abort, Crash
  <1>17. CASE Work
    BY <1>17 DEF Work, After
  <1>18. CASE LateArrival \/ LateLoss
    BY <1>18 DEF LateArrival, LateLoss
  <1>19. QED
    BY <1>1, <1>2, <1>3, <1>4, <1>5, <1>6, <1>7, <1>8, <1>9, <1>10, <1>11, <1>12,
       <1>13, <1>14, <1>15, <1>16, <1>17, <1>18 DEF Next, RunStep

\* Every step that leaves the row open has sent nothing.
LEMMA QuietPreserved ==
    ASSUME IInv, Next
    PROVE  Quiet'
  <1> USE DEF IInv, TypeOK, Phases, Terminal, RowStatus, Fills, Orders, NoOrder, Updates, Silence, IsTerminal, Ledger, Exchange, local, InFlight, Fails, OuterHandler, Halt, Forget, Quiet, Handlers, Alone, Lone, Honest, Recorded
  <1>1. CASE Begin
    BY <1>1 DEF Begin
  <1>2. CASE CreatePending
    BY <1>2 DEF CreatePending
  <1>3. CASE Connect \/ ConnectFails
    BY <1>3 DEF Connect, ConnectFails
  <1>4. CASE ProbeUnknown \/ ProbeFound \/ ProbeFails
    BY <1>4 DEF ProbeUnknown, ProbeFound, ProbeFails
  <1>5. CASE PlaceAcked
    BY <1>5 DEF PlaceAcked
  <1>6. CASE PlaceRefused \/ PlaceUnanswered
    BY <1>6 DEF PlaceRefused, PlaceUnanswered
  <1>7. CASE MarkSubmitted \/ MarkSubmittedFails
    BY <1>7 DEF MarkSubmitted, MarkSubmittedFails
  <1>8. CASE Poll
    BY <1>8 DEF Poll
  <1>9. CASE PollsExhausted
    BY <1>9 DEF PollsExhausted
  <1>10. CASE Close \/ CloseFails
    BY <1>10 DEF Close, CloseFails
  <1>11. CASE ApplyFinal
    BY <1>11 DEF ApplyFinal
  <1>12. CASE Settle
    BY <1>12 DEF Settle
  <1>13. CASE MarkFailed
    BY <1>13 DEF MarkFailed
  <1>14. CASE MarkTrade
    BY <1>14 DEF MarkTrade
  <1>15. CASE RecordFailureFails
    BY <1>15 DEF RecordFailureFails
  <1>16. CASE Abort \/ Crash
    BY <1>16 DEF Abort, Crash
  <1>17. CASE Work
    BY <1>17 DEF Work, After
  <1>18. CASE LateArrival \/ LateLoss
    BY <1>18 DEF LateArrival, LateLoss
  <1>19. QED
    BY <1>1, <1>2, <1>3, <1>4, <1>5, <1>6, <1>7, <1>8, <1>9, <1>10, <1>11, <1>12,
       <1>13, <1>14, <1>15, <1>16, <1>17, <1>18 DEF Next, RunStep

\* Every step keeps the outer handler to its causes.
LEMMA HandlersPreserved ==
    ASSUME IInv, Next
    PROVE  Handlers'
  <1> USE DEF IInv, TypeOK, Phases, Terminal, RowStatus, Fills, Orders, NoOrder, Updates, Silence, IsTerminal, Ledger, Exchange, local, InFlight, Fails, OuterHandler, Halt, Forget, Handlers
  <1>1. CASE Begin
    BY <1>1 DEF Begin
  <1>2. CASE CreatePending
    BY <1>2 DEF CreatePending
  <1>3. CASE Connect \/ ConnectFails
    BY <1>3 DEF Connect, ConnectFails
  <1>4. CASE ProbeUnknown \/ ProbeFound \/ ProbeFails
    BY <1>4 DEF ProbeUnknown, ProbeFound, ProbeFails
  <1>5. CASE PlaceAcked
    BY <1>5 DEF PlaceAcked
  <1>6. CASE PlaceRefused \/ PlaceUnanswered
    BY <1>6 DEF PlaceRefused, PlaceUnanswered
  <1>7. CASE MarkSubmitted \/ MarkSubmittedFails
    BY <1>7 DEF MarkSubmitted, MarkSubmittedFails
  <1>8. CASE Poll
    BY <1>8 DEF Poll
  <1>9. CASE PollsExhausted
    BY <1>9 DEF PollsExhausted
  <1>10. CASE Close \/ CloseFails
    BY <1>10 DEF Close, CloseFails
  <1>11. CASE ApplyFinal
    BY <1>11 DEF ApplyFinal
  <1>12. CASE Settle
    BY <1>12 DEF Settle
  <1>13. CASE MarkFailed
    BY <1>13 DEF MarkFailed
  <1>14. CASE MarkTrade
    BY <1>14 DEF MarkTrade
  <1>15. CASE RecordFailureFails
    BY <1>15 DEF RecordFailureFails
  <1>16. CASE Abort \/ Crash
    BY <1>16 DEF Abort, Crash
  <1>17. CASE Work
    BY <1>17 DEF Work, After
  <1>18. CASE LateArrival \/ LateLoss
    BY <1>18 DEF LateArrival, LateLoss
  <1>19. QED
    BY <1>1, <1>2, <1>3, <1>4, <1>5, <1>6, <1>7, <1>8, <1>9, <1>10, <1>11, <1>12,
       <1>13, <1>14, <1>15, <1>16, <1>17, <1>18 DEF Next, RunStep

\* Every step files a refusal only with grounds.
LEMMA HonestPreserved ==
    ASSUME IInv, Next
    PROVE  Honest'
  <1> USE DEF IInv, TypeOK, Phases, Terminal, RowStatus, Fills, Orders, NoOrder, Updates, Silence, IsTerminal, Ledger, Exchange, local, InFlight, Fails, OuterHandler, Halt, Forget, Handlers, Alone, Lone, Quiet, Honest, Grounds, RejectedIsDefinite
  <1>1. CASE Begin
    BY <1>1 DEF Begin
  <1>2. CASE CreatePending
    BY <1>2 DEF CreatePending
  <1>3. CASE Connect \/ ConnectFails
    BY <1>3 DEF Connect, ConnectFails
  <1>4. CASE ProbeUnknown \/ ProbeFound \/ ProbeFails
    BY <1>4 DEF ProbeUnknown, ProbeFound, ProbeFails
  <1>5. CASE PlaceAcked
    BY <1>5 DEF PlaceAcked
  <1>6. CASE PlaceRefused \/ PlaceUnanswered
    BY <1>6 DEF PlaceRefused, PlaceUnanswered
  <1>7. CASE MarkSubmitted \/ MarkSubmittedFails
    BY <1>7 DEF MarkSubmitted, MarkSubmittedFails
  <1>8. CASE Poll
    BY <1>8 DEF Poll
  <1>9. CASE PollsExhausted
    BY <1>9 DEF PollsExhausted
  <1>10. CASE Close \/ CloseFails
    BY <1>10 DEF Close, CloseFails
  <1>11. CASE ApplyFinal
    BY <1>11 DEF ApplyFinal
  <1>12. CASE Settle
    BY <1>12 DEF Settle
  <1>13. CASE MarkFailed
    BY <1>13 DEF MarkFailed
  <1>14. CASE MarkTrade
    BY <1>14 DEF MarkTrade
  <1>15. CASE RecordFailureFails
    BY <1>15 DEF RecordFailureFails
  <1>16. CASE Abort \/ Crash
    BY <1>16 DEF Abort, Crash
  <1>17. CASE Work
    BY <1>17 DEF Work, After
  <1>18. CASE LateArrival \/ LateLoss
    BY <1>18 DEF LateArrival, LateLoss
  <1>19. QED
    BY <1>1, <1>2, <1>3, <1>4, <1>5, <1>6, <1>7, <1>8, <1>9, <1>10, <1>11, <1>12,
       <1>13, <1>14, <1>15, <1>16, <1>17, <1>18 DEF Next, RunStep

\* Every step keeps the decision's record in line with the row.
LEMMA RecordedPreserved ==
    ASSUME IInv, Next
    PROVE  Recorded'
  <1> USE DEF IInv, TypeOK, Phases, Terminal, RowStatus, Fills, Orders, NoOrder, Updates, Silence, IsTerminal, Ledger, Exchange, local, InFlight, Fails, OuterHandler, Halt, Forget, Handlers, Recorded, TradeStatus
  <1>1. CASE Begin
    BY <1>1 DEF Begin
  <1>2. CASE CreatePending
    BY <1>2 DEF CreatePending
  <1>3. CASE Connect \/ ConnectFails
    BY <1>3 DEF Connect, ConnectFails
  <1>4. CASE ProbeUnknown \/ ProbeFound \/ ProbeFails
    BY <1>4 DEF ProbeUnknown, ProbeFound, ProbeFails
  <1>5. CASE PlaceAcked
    BY <1>5 DEF PlaceAcked
  <1>6. CASE PlaceRefused \/ PlaceUnanswered
    BY <1>6 DEF PlaceRefused, PlaceUnanswered
  <1>7. CASE MarkSubmitted \/ MarkSubmittedFails
    BY <1>7 DEF MarkSubmitted, MarkSubmittedFails
  <1>8. CASE Poll
    BY <1>8 DEF Poll
  <1>9. CASE PollsExhausted
    BY <1>9 DEF PollsExhausted
  <1>10. CASE Close \/ CloseFails
    BY <1>10 DEF Close, CloseFails
  <1>11. CASE ApplyFinal
    BY <1>11 DEF ApplyFinal
  <1>12. CASE Settle
    BY <1>12 DEF Settle
  <1>13. CASE MarkFailed
    BY <1>13 DEF MarkFailed
  <1>14. CASE MarkTrade
    BY <1>14 DEF MarkTrade
  <1>15. CASE RecordFailureFails
    BY <1>15 DEF RecordFailureFails
  <1>16. CASE Abort \/ Crash
    BY <1>16 DEF Abort, Crash
  <1>17. CASE Work
    BY <1>17 DEF Work, After
  <1>18. CASE LateArrival \/ LateLoss
    BY <1>18 DEF LateArrival, LateLoss
  <1>19. QED
    BY <1>1, <1>2, <1>3, <1>4, <1>5, <1>6, <1>7, <1>8, <1>9, <1>10, <1>11, <1>12,
       <1>13, <1>14, <1>15, <1>16, <1>17, <1>18 DEF Next, RunStep

-----------------------------------------------------------------------------
\* A step that changes nothing keeps the invariant.
LEMMA StutterKeepsIInv ==
    ASSUME IInv, UNCHANGED vars
    PROVE  IInv'
  BY DEF IInv, TypeOK, Phases, Alone, Lone, Grounds, Grounded, Quiet, Handlers, Honest,
         RejectedIsDefinite, Recorded, InFlight, IsTerminal, vars, local

\* The invariant holds at the start.
LEMMA InitEstablishesIInv == Init => IInv
  BY AttemptsAssumption, MaxRunsAssumption
  DEF Init, IInv, TypeOK, Phases, Alone, Lone, Grounds, Grounded, Quiet, Handlers, Honest,
      RejectedIsDefinite, Recorded, InFlight, IsTerminal, Terminal, RowStatus, Fills, Ids,
      Wires, Orders, NoOrder, Updates, Silence

\* The invariant is inductive, so it holds in every reachable state: this is
\* what every theorem below rests on.
THEOREM IInvHolds == Spec => []IInv
  <1>1. Init => IInv
    BY InitEstablishesIInv
  <1>2. IInv /\ [Next]_vars => IInv'
    BY StutterKeepsIInv, TypeOKPreserved, PhasesPreserved, AlonePreserved, GroundsPreserved,
       QuietPreserved, HandlersPreserved, HonestPreserved, RecordedPreserved
    DEF IInv
  <1>. QED
    BY <1>1, <1>2, PTL DEF Spec

\* The variables keep their types.
THEOREM TypeCorrect == Spec => []TypeOK
  <1>1. IInv => TypeOK
    BY DEF IInv
  <1>. QED
    BY <1>1, IInvHolds, PTL

\* However often run_execute_agent is called for a decision, crashed and called
\* again, the exchange accepts at most one order for it, as long as no request
\* outlives the execution that sent it.
THEOREM NeverTwoOrders == Spec => []AtMostOneOrder
  <1>1. IInv => AtMostOneOrder
    BY DEF IInv, Alone, Lone, AtMostOneOrder
  <1>. QED
    BY <1>1, IInvHolds, PTL

\* create_pending is committed before anything can reach the exchange.
THEOREM LedgerFirst == Spec => []LedgerBeforeExchange
  <1>1. IInv => LedgerBeforeExchange
    BY DEF IInv, Phases, LedgerBeforeExchange
  <1>. QED
    BY <1>1, IInvHolds, PTL

\* "filled" is never written without a closed order and its quantity.
THEOREM FilledNeedsEvidence == Spec => []FilledIsEvidenced
  <1>1. IInv => FilledIsEvidenced
    BY DEF IInv, Grounds, Grounded, Lone, FilledIsEvidenced
  <1>. QED
    BY <1>1, IInvHolds, PTL

\* In a candid environment "rejected" means that there is no order and that
\* none can still arrive.
THEOREM RejectionsAreDefinite == Spec => []RejectedMeansNothingPlaced
  <1>1. IInv => RejectedMeansNothingPlaced
    BY DEF IInv, Honest, Lone, Candid, RejectedMeansNothingPlaced
  <1>. QED
    BY <1>1, IInvHolds, PTL

\* Without a crash, an order that reached the exchange, or may have, is in a
\* status the daily budget counts.
THEOREM BudgetSeesOrders == Spec => []ReachedIsCounted
  <1>1. IInv => ReachedIsCounted
    BY DEF IInv, TypeOK, RowStatus, Quiet, Honest, Alone, Lone, Grounds, Grounded,
           RejectedIsDefinite, IsTerminal, Terminal, Counted, ReachedIsCounted
  <1>. QED
    BY <1>1, IInvHolds, PTL

\* The decision's record agrees with its order at the end of an execution.
THEOREM RecordsAgree == Spec => []TradeFollowsOrder
  <1>1. IInv => TradeFollowsOrder
    BY DEF IInv, Recorded, TradeFollowsOrder
  <1>. QED
    BY <1>1, IInvHolds, PTL

\* A terminal row is never written again, except that the outer handler may turn
\* the "unknown" of a timeout into "rejected" when a write or the close fails.
THEOREM VerdictsStand == Spec => TerminalIsFinal
  <1>1. ASSUME IInv, [Next]_vars, IsTerminal(row.status)
        PROVE  \/ row' = row
               \/ /\ faults \cap {"db", "close"} # {}
                  /\ row.status = "unknown"
                  /\ row' = [row EXCEPT !.status = "rejected"]
    <2>1. pc \notin {"create", "mark", "apply", "failrow"}
      BY <1>1 DEF IInv, Phases
    <2>2. CASE pc = "errrow" /\ MarkFailed
      <3>1. /\ faults \cap {"db", "close"} # {}
            /\ row.status \in {"rejected", "unknown"}
            /\ verdict = "rejected"
        BY <1>1, <2>2 DEF IInv, Handlers
      <3>2. row' = [row EXCEPT !.status = "rejected"]
        BY <2>2, <3>1 DEF MarkFailed
      <3>3. row.status = "rejected" => [row EXCEPT !.status = "rejected"] = row
        BY <1>1 DEF IInv, TypeOK
      <3>. QED
        BY <3>1, <3>2, <3>3
    <2>3. CASE ~(pc = "errrow" /\ MarkFailed)
      BY <1>1, <2>1, <2>3 DEF Next, RunStep, Begin, CreatePending, Connect, ConnectFails,
           ProbeUnknown, ProbeFound, ProbeFails, PlaceAcked, PlaceRefused,
           PlaceUnanswered, MarkSubmitted, MarkSubmittedFails, Poll, PollsExhausted,
           Close, CloseFails, ApplyFinal, Settle, MarkFailed, MarkTrade,
           RecordFailureFails, Abort, Crash, Work, LateArrival, LateLoss, Ledger, vars
    <2>. QED
      BY <2>2, <2>3
  <1>. QED
    BY <1>1, IInvHolds, PTL DEF Spec, TerminalIsFinal

-----------------------------------------------------------------------------
\* What the refinement mapping shows of the order and of the row.
Shown == IF Candid /\ ex.st # "rejected" THEN placed ELSE 0
Judged == IF Candid /\ IsTerminal(row.status) THEN row.status ELSE "open"

\* In a candid environment a new order is shown only while none is and the row
\* is open or says "unknown".
LEMMA ArrivalReaches ==
    ASSUME IInv, PlaceAcked \/ LateArrival
    PROVE  Promise!Reach \/ UNCHANGED <<Shown, Judged>>
  <1>1. CASE ~Candid
    BY <1>1 DEF Shown, Judged, Candid, PlaceAcked, LateArrival, Ledger
  <1>2. CASE Candid
    <2>1. placed = 0 /\ (IsTerminal(row.status) => row.status = "unknown")
      BY <1>2 DEF IInv, TypeOK, Phases, Alone, Honest, Lone, Candid, PlaceAcked, LateArrival
    <2>2. placed' = 1 /\ row' = row /\ Candid'
      BY <1>2, <2>1 DEF PlaceAcked, LateArrival, Ledger, Candid
    <2>. QED
      BY <1>2, <2>1, <2>2 DEF Shown, Judged, Promise!Reach
  <1>. QED
    BY <1>1, <1>2

\* A row is only ever written a verdict that the order bears out.
LEMMA VerdictJudges ==
    ASSUME IInv, ApplyFinal \/ MarkFailed
    PROVE  (\E v \in Promise!Verdicts : Promise!Judge(v)) \/ UNCHANGED <<Shown, Judged>>
  <1>1. CASE ~Candid
    BY <1>1 DEF Shown, Judged, Candid, ApplyFinal, MarkFailed, Exchange
  <1>2. CASE Candid /\ ApplyFinal
    <2>1. /\ ~IsTerminal(row.status)
          /\ upd.status \in Promise!Verdicts
          /\ placed = 1
          /\ upd.status \in Promise!Reported => ex.st # "rejected"
          /\ upd.status = "rejected" => ex.st = "rejected"
      BY <1>2 DEF IInv, TypeOK, Phases, Alone, Grounds, Grounded, Lone, Candid, ApplyFinal,
                  IsTerminal, Terminal, Promise!Verdicts, Promise!Reported
    <2>2. row' = upd /\ UNCHANGED <<ex, placed>> /\ Candid'
      BY <1>2 DEF ApplyFinal, Exchange, Candid
    <2>3. Promise!Judge(upd.status)
      BY <1>2, <2>1, <2>2 DEF Promise!Judge, Promise!Verdicts, Promise!Reported, IsTerminal, Terminal
    <2>. QED
      BY <2>1, <2>3
  <1>3. CASE Candid /\ MarkFailed
    <2>1. /\ ~IsTerminal(row.status)
          /\ verdict = "rejected" => placed = 0
          /\ verdict \in {"rejected", "unknown"}
      BY <1>3 DEF IInv, TypeOK, Phases, Handlers, Honest, Lone, Candid, MarkFailed
    <2>2. row'.status = verdict /\ UNCHANGED <<ex, placed>> /\ Candid'
      BY <1>3 DEF MarkFailed, Exchange, Candid, IInv, TypeOK
    <2>3. Promise!Judge(verdict)
      BY <1>3, <2>1, <2>2 DEF Promise!Judge, Promise!Verdicts, Promise!Reported, IsTerminal, Terminal
    <2>. QED
      BY <2>1, <2>3 DEF Promise!Verdicts
  <1>. QED
    BY <1>1, <1>2, <1>3

\* Every other step leaves what the promise can see as it is.
LEMMA OthersStutter ==
    ASSUME IInv, [Next]_vars, ~(PlaceAcked \/ LateArrival \/ ApplyFinal \/ MarkFailed)
    PROVE  UNCHANGED <<Shown, Judged>>
  <1>1. UNCHANGED <<faults, placed>>
    BY DEF Next, RunStep, Begin, CreatePending, Connect, ConnectFails, ProbeUnknown,
           ProbeFound, ProbeFails, PlaceRefused, PlaceUnanswered, MarkSubmitted,
           MarkSubmittedFails, Poll, PollsExhausted, Close, CloseFails, Settle, MarkTrade,
           RecordFailureFails, Abort, Crash, Work, LateLoss, Ledger, Exchange, vars
  <1>2. ex'.st = "rejected" <=> ex.st = "rejected"
    BY DEF Next, RunStep, Begin, CreatePending, Connect, ConnectFails, ProbeUnknown,
           ProbeFound, ProbeFails, PlaceRefused, PlaceUnanswered, MarkSubmitted,
           MarkSubmittedFails, Poll, PollsExhausted, Close, CloseFails, Settle, MarkTrade,
           RecordFailureFails, Abort, Crash, Work, LateLoss, Ledger, Exchange, vars, After
  <1>3. row' = row \/ (~IsTerminal(row.status) /\ ~IsTerminal(row'.status))
    BY DEF IInv, TypeOK, Phases, IsTerminal, Terminal, RowStatus,
           Next, RunStep, Begin, CreatePending, Connect, ConnectFails, ProbeUnknown,
           ProbeFound, ProbeFails, PlaceRefused, PlaceUnanswered, MarkSubmitted,
           MarkSubmittedFails, Poll, PollsExhausted, Close, CloseFails, Settle, MarkTrade,
           RecordFailureFails, Abort, Crash, Work, LateLoss, Ledger, Exchange, vars
  <1>. QED
    BY <1>1, <1>2, <1>3 DEF Shown, Judged, Candid

\* The executions of one decision implement OrderPromise.
THEOREM ExecutionsKeepThePromise == Spec => ImplementsPromise
  <1>1. Init => Promise!Init
    BY DEF Init, Promise!Init, NoOrder, IsTerminal, Terminal
  <1>2. IInv /\ [Next]_vars => [Promise!Next]_<<Shown, Judged>>
    BY ArrivalReaches, VerdictJudges, OthersStutter DEF Promise!Next
  <1>. QED
    BY <1>1, <1>2, IInvHolds, PTL DEF Spec, ImplementsPromise, Promise!Spec, Shown, Judged

-----------------------------------------------------------------------------
\* How many steps an execution is from its end at most, polls aside ...
Distance ==
    CASE pc = "idle" -> 0
      [] pc \in {"errtrade", "settle"} -> 1
      [] pc \in {"errrow", "apply"} -> 2
      [] pc \in {"leave", "close"} -> 3
      [] pc \in {"failtrade", "poll"} -> 4
      [] pc \in {"failrow", "mark"} -> 5
      [] pc = "place" -> 6
      [] pc = "probe" -> 7
      [] pc = "connect" -> 8
      [] pc = "create" -> 9
\* ... and with those that are left.
Ahead == IF pc = "idle" THEN 0 ELSE Distance + (Attempts - tries)

\* Its own steps bring an execution nearer to its end, and nothing else takes it
\* farther away.
Advances == [][pc # "idle" => Ahead' <= Ahead /\ (RunStep => Ahead' < Ahead)]_vars

\* A step of an execution brings it nearer to its end.
LEMMA RunStepAdvances ==
    ASSUME TypeOK, TypeOK', RunStep
    PROVE  Ahead' < Ahead
  <1>1. tries \in 0..Attempts /\ tries' \in 0..Attempts /\ Attempts \in Nat
    BY AttemptsAssumption DEF TypeOK
  <1> USE DEF Ahead, Distance, OuterHandler, Halt, Forget, local
  <1>2. CASE CreatePending \/ Connect \/ ConnectFails
    BY <1>1, <1>2 DEF CreatePending, Connect, ConnectFails
  <1>3. CASE ProbeUnknown \/ ProbeFound \/ ProbeFails
    BY <1>1, <1>3 DEF ProbeUnknown, ProbeFound, ProbeFails
  <1>4. CASE PlaceAcked \/ PlaceRefused \/ PlaceUnanswered
    BY <1>1, <1>4 DEF PlaceAcked, PlaceRefused, PlaceUnanswered
  <1>5. CASE MarkSubmitted \/ MarkSubmittedFails
    BY <1>1, <1>5 DEF MarkSubmitted, MarkSubmittedFails
  <1>6. CASE Poll
    <2>1. pc = "poll" /\ tries' = tries + 1 /\ pc' \in {"poll", "close"}
      BY <1>6 DEF Poll
    <2> QED
      BY <1>1, <2>1
  <1>7. CASE PollsExhausted
    BY <1>1, <1>7 DEF PollsExhausted
  <1>8. CASE Close \/ CloseFails
    BY <1>1, <1>8 DEF Close, CloseFails
  <1>9. CASE ApplyFinal \/ Settle
    BY <1>1, <1>9 DEF ApplyFinal, Settle
  <1>10. CASE MarkFailed \/ MarkTrade \/ RecordFailureFails
    BY <1>1, <1>10 DEF MarkFailed, MarkTrade, RecordFailureFails
  <1>11. CASE Abort
    BY <1>1, <1>11 DEF Abort
  <1> QED
    BY <1>2, <1>3, <1>4, <1>5, <1>6, <1>7, <1>8, <1>9, <1>10, <1>11 DEF RunStep

\* An execution takes at most nine steps and its polls, whatever the exchange answers,
\* withholds or does meanwhile: what ExecutionEnds needs besides that a step which can
\* be taken is taken (reconcile counts its attempts, no handler leads back).
THEOREM ExecutionsAdvance == Spec => Advances
  <1>1. ASSUME TypeOK, TypeOK', [Next]_vars
        PROVE  pc # "idle" => Ahead' <= Ahead /\ (RunStep => Ahead' < Ahead)
    <2> SUFFICES ASSUME pc # "idle"
                 PROVE  Ahead' <= Ahead /\ (RunStep => Ahead' < Ahead)
      OBVIOUS
    <2>1. tries \in 0..Attempts /\ tries' \in 0..Attempts /\ Attempts \in Nat
      BY <1>1, AttemptsAssumption DEF TypeOK
    <2>2. pc \in {"create", "connect", "probe", "place", "mark", "poll", "close", "apply", "settle",
                  "failrow", "failtrade", "errrow", "errtrade", "leave"}
      BY <1>1 DEF TypeOK
    <2>3. Distance \in 1..9
      BY <2>2 DEF Distance
    <2>4. Ahead \in Nat
      BY <2>1, <2>3 DEF Ahead
    <2>5. RunStep => Ahead' < Ahead
      BY <1>1, RunStepAdvances
    <2>6. pc' \in {"idle", "create", "connect", "probe", "place", "mark", "poll", "close", "apply",
                   "settle", "failrow", "failtrade", "errrow", "errtrade", "leave"}
      BY <1>1 DEF TypeOK
    <2>7. Ahead' \in Nat
      BY <2>1, <2>6 DEF Ahead, Distance
    <2>8. CASE RunStep
      BY <2>4, <2>5, <2>7, <2>8
    <2>9. CASE Crash
      BY <2>4, <2>5, <2>9 DEF Crash, Halt, Ahead
    <2>10. CASE Work \/ LateArrival \/ LateLoss \/ UNCHANGED vars
      <3>1. pc' = pc /\ tries' = tries
        BY <2>10 DEF Work, LateArrival, LateLoss, vars, local
      <3>2. Ahead' = Ahead
        BY <3>1 DEF Ahead, Distance
      <3> QED
        BY <2>4, <2>5, <3>2
    <2>11. ~Begin
      BY DEF Begin
    <2> QED
      BY <1>1, <2>8, <2>9, <2>10, <2>11 DEF Next
  <1> QED
    BY <1>1, TypeCorrect, PTL DEF Spec, Advances

=============================================================================

----------------------------- MODULE OrderPromise -----------------------------
(***************************************************************************)
(* What the order ledger promises about one decision, with no executions,  *)
(* requests or failures in sight: the exchange accepts at most one order,  *)
(* one verdict is given and kept, a verdict that reports an order is given *)
(* only when there is one, and "rejected" only when there is none and none *)
(* follows.                                                                *)
(***************************************************************************)
EXTENDS Naturals

VARIABLES
    orders,   \* live or finished orders of the decision at the exchange
    verdict   \* "open" until the ledger judges

Reported == {"filled", "partial", "canceled"}
Verdicts == Reported \cup {"rejected", "unknown"}

Init == orders = 0 /\ verdict = "open"

\* The exchange takes the order, while it is wanted or feared.
Reach ==
    /\ orders = 0
    /\ verdict \in {"open", "unknown"}
    /\ orders' = 1
    /\ UNCHANGED verdict

\* The ledger judges, once and with grounds.
Judge(v) ==
    /\ verdict = "open"
    /\ v \in Reported => orders = 1
    /\ v = "rejected" => orders = 0
    /\ verdict' = v
    /\ UNCHANGED orders

Next == Reach \/ \E v \in Verdicts : Judge(v)

Spec == Init /\ [][Next]_<<orders, verdict>>
=============================================================================

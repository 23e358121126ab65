------------------------------- MODULE GoalLife -------------------------------
(***************************************************************************)
(* What a goal promises its user: it is proposed, reworded while it is     *)
(* only proposed, confirmed once and only when nothing is left unsaid, on  *)
(* a limit computed from the very terms it is confirmed on, and then it    *)
(* keeps those terms and that limit until it ends, for good.               *)
(***************************************************************************)
EXTENDS Naturals

CONSTANTS
    Goals,
    Dims,           \* what a goal must say; "limit" is the drawdown it accepts
    Values,         \* what may be said about any of them
    SettingsLimit   \* the drawdown limit of the settings

VARIABLE life   \* goal -> its status, its terms and the limit it runs on

Unsaid == 0
Terms == [Dims -> Values \cup {Unsaid}]
Unborn == [status |-> "none", terms |-> [d \in Dims |-> Unsaid], frozen |-> 0]

Complete(terms) == \A d \in Dims : terms[d] # Unsaid
\* The user may ask for less than the settings allow, never for more.
Effective(limit) == IF limit < SettingsLimit THEN limit ELSE SettingsLimit

Init == life = [g \in Goals |-> Unborn]

Propose(g) ==
    /\ life[g].status = "none"
    /\ \E terms \in Terms :
          life' = [life EXCEPT ![g] = [status |-> "proposed", terms |-> terms, frozen |-> 0]]
Reword(g) ==
    /\ life[g].status = "proposed"
    /\ \E terms \in Terms : life' = [life EXCEPT ![g].terms = terms]
Confirm(g) ==
    /\ life[g].status = "proposed"
    /\ Complete(life[g].terms)
    /\ life' = [life EXCEPT ![g] = [status |-> "active", terms |-> @.terms,
                                    frozen |-> Effective(@.terms["limit"])]]
End(g) ==
    /\ life[g].status = "active"
    /\ life' = [life EXCEPT ![g].status = "ended"]

Next == \E g \in Goals : Propose(g) \/ Reword(g) \/ Confirm(g) \/ End(g)

Spec == Init /\ [][Next]_life
=============================================================================

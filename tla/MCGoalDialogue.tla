--------------------------- MODULE MCGoalDialogue ---------------------------
EXTENDS GoalDialogue

\* A stated limit below the settings' and one above; a goal stated at once, and
\* stated in two sentences.
TwoValues == {1, 3}
FewSentences ==
    {[limit |-> 3, aim |-> 0], [limit |-> 0, aim |-> 1], [limit |-> 1, aim |-> 1]}
AllWorlds == {{}, {"requests"}, {"requests", "calls"}, {"requests", "crash"}}
EveryRequest == {{"requests"}}
NoTrouble == {{}}
=============================================================================

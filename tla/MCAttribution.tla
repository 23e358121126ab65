--------------------------- MODULE MCAttribution ---------------------------
EXTENDS Attribution

Accounts == {[a \in Assets |-> IF a = "B" THEN b ELSE q] : b \in {0, 2}, q \in {0, 2}}

Histories ==
    {{"move", "request"}, {"move", "fail"}, {"move", "legacy", "fail"}, {"unknown", "late"},
     {"move", "costless"}}
=============================================================================

-------------------------- MODULE MCManagerRounds --------------------------
EXTENDS ManagerRounds

Known(args, numbered) == [name |-> "get_market", args |-> args, numbered |-> numbered]
Other == [name |-> "get_recent_trades", args |-> "object", numbered |-> TRUE]
Limits == [name |-> "get_risk_limits", args |-> "object", numbered |-> TRUE]
Invented == [name |-> "invented", args |-> "object", numbered |-> TRUE]

Answer(notation, calls, text) == [notation |-> notation, calls |-> calls, text |-> text]

SomeReplies ==
    {Answer("plain", <<>>, text) : text \in {"BUY", "HOLD", "plan", "BUY without amount", ""}} \cup
    {Answer("structured", calls, "") :
        calls \in {<<Known("object", TRUE), Other>>, <<Other, Known("none", FALSE)>>,
                   <<Other, Invented>>, <<Limits, Other>>}} \cup
    {Answer("deepseek", calls, "prose") :
        calls \in {<<Known("object", FALSE), Invented>>, <<>>}} \cup
    {Answer("fenced", <<Known("object", TRUE)>>, "SELL"), Answer("fenced", <<Known("none", TRUE)>>, "plan"),
     Answer("fenced", <<Known("broken", TRUE)>>, "BUY"), Answer("qwen", <<Invented>>, "BUY")}

Circumstances == {{"http", "tool"}, {"garbled", "save"}, {"rows"}, {"cancel"}}
=============================================================================

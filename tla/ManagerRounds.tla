---------------------------- MODULE ManagerRounds ----------------------------
(***************************************************************************)
(* What the program does with the words of a language model.  The manager  *)
(* plans a goal (Manager.plan) or decides one step of it (Manager.decide): *)
(* it asks the model, runs the read-only tools the model calls, tells it   *)
(* what came of each call, and asks again, a few rounds long.  The         *)
(* analyzer of the older tick asks once, or twice when the answer is       *)
(* empty.  Each run leaves a row: an attempt at a plan, or a decision.     *)
(*                                                                         *)
(* A model's answer is a member of Replies; what it says is a text of      *)
(* Texts, what it calls a sequence of calls in one of the notations        *)
(* parse_reply knows.                                                      *)
(*                                                                         *)
(* A definition commented "Variant" is no part of the specification.       *)
(***************************************************************************)
EXTENDS Integers, Sequences, FiniteSets

CONSTANTS
    MaxRounds,    \* MAX_ROUNDS
    Tools,        \* what the registry holds, of the tools of readonly.py
    Replies,      \* what the model may answer
    Worlds        \* the environments to consider, each a set of troubles

(***************************************************************************)
(*   http     a request to the model fails or times out                    *)
(*   garbled  an answer of the model's server is no chat completion        *)
(*   tool     a tool raises                                                *)
(*   rows     the tables that were empty fill while the model thinks       *)
(*   save     the row cannot be written                                    *)
(*   cancel   the tick or the request is cancelled                         *)
(***************************************************************************)
Troubles == {"http", "garbled", "tool", "rows", "save", "cancel"}

Modes == {"plan", "decide", "analysis"}
Signals == {"BUY", "SELL", "HOLD"}
\* A BUY may come without an amount, a JSON object may be neither plan nor signal.
Texts == Signals \cup {"plan", "BUY without amount", "prose", ""}

\* A call as it is written: its arguments are an object, a text that is no JSON, or
\* left out; its number is given by the server, or not.
Calls == [name : Tools \cup {"invented"}, args : {"object", "broken", "none"}, numbered : BOOLEAN]
Notations == {"structured", "deepseek", "fenced", "qwen", "plain"}

ASSUME WorldsAssumption == Worlds \subseteq SUBSET Troubles
ASSUME RoundsAssumption == MaxRounds \in Nat \ {0}
ASSUME ToolsAssumption ==
    Tools \subseteq {"get_portfolio", "get_market", "get_risk_limits", "get_drawdown",
                     "get_recent_decisions", "get_recent_trades", "get_recent_risk_events"}
ASSUME RepliesAssumption ==
    \A r \in Replies : /\ r.notation \in Notations
                       /\ r.calls \in Seq(Calls)
                       /\ r.text \in Texts

VARIABLES
    world,      \* the environment of this behaviour; never changes
    mode,       \* what the model is asked for
    pc,         \* where the run is
    round,      \* run.rounds
    messages,   \* the conversation
    todo,       \* the calls of this round that were not run yet
    ran,        \* what the registry returned for each call, in order; history
    tables,     \* the tables that hold rows
    result,     \* the plan or the signal, or "none"
    log         \* decision_logs or plans: the rows of this run

vars == <<world, mode, pc, round, messages, todo, ran, tables, result, log>>

-----------------------------------------------------------------------------
(***************************************************************************)
(* Reading an answer (parser.py, schemas.py).                              *)
(***************************************************************************)
Has(trouble) == trouble \in world
Unnumbered(calls) == [i \in 1..Len(calls) |-> [calls[i] EXCEPT !.numbered = FALSE]]
Named(calls) == {calls[i].name : i \in 1..Len(calls)}
Given(calls) == {calls[i].args : i \in 1..Len(calls)}

\* _call_from_mapping: a known name and arguments, or it is no call.
LooksLikeCall(call) == call.name \in Tools /\ call.args # "none"

Unreadable == [kind |-> "unreadable", calls |-> <<>>]
Text == [kind |-> "text", calls |-> <<>>]
Wanted(calls) == [kind |-> "calls", calls |-> calls]

\* _parse_structured: the server's own field; arguments that are left out are {}.
Structured(r) ==
    IF Named(r.calls) \subseteq Tools /\ "broken" \notin Given(r.calls)
    THEN Wanted(r.calls) ELSE Unreadable

\* _parse_deepseek: any name passes, the registry will refuse it.
Deepseek(r) ==
    IF Given(r.calls) = {"object"}
    THEN Wanted(Unnumbered(r.calls)) ELSE Unreadable

\* JSON objects in the text: what does not look like a call is part of the text.
Hits(calls) ==
    LET hits[n \in 0..Len(calls)] ==
            IF n = 0 THEN <<>>
            ELSE IF LooksLikeCall(calls[n]) THEN Append(hits[n - 1], calls[n]) ELSE hits[n - 1]
    IN hits[Len(calls)]
Fenced(r) ==
    LET hits == Hits(r.calls)
    IN IF "broken" \in Given(hits) THEN Unreadable
       ELSE IF hits # <<>> THEN Wanted(Unnumbered(hits))
       ELSE IF r.notation = "qwen" THEN Unreadable ELSE Text

\* parse_reply
Understood(r) ==
    CASE r.notation = "structured" /\ r.calls # <<>> -> Structured(r)
      [] r.notation = "deepseek" -> Deepseek(r)
      [] OTHER -> Fenced(r)

\* Variant: a missing amount is nobody's business.
UsableIncomplete(text) ==
    IF mode = "plan" THEN text = "plan" ELSE text \in Signals \cup {"BUY without amount"}
\* parse_plan; parse_decision and unusable_reason; parse_trade_signal, which asks
\* for no amount.  A text that is none of these is nobody's plan or signal.
Usable(text) ==
    CASE mode = "plan" -> text = "plan"
      [] mode = "decide" -> text \in Signals
      [] mode = "analysis" -> text \in Signals \cup {"BUY without amount"}

-----------------------------------------------------------------------------
\* Messages.  A call is known by its round and its place in the answer.
NoId == <<0, 0>>
Said(text, ids) == [role |-> "assistant", says |-> text, id |-> NoId, ids |-> ids]
Told(role, id, says) == [role |-> role, says |-> says, id |-> id, ids |-> {}]

\* What a tool of readonly.py reads; the limits are settings, and always there.
Reads(name) ==
    CASE name = "get_market" -> "klines"
      [] name \in {"get_portfolio", "get_drawdown"} -> "equity_snapshots"
      [] name = "get_recent_decisions" -> "decision_logs"
      [] name = "get_recent_trades" -> "trade_logs"
      [] name = "get_recent_risk_events" -> "risk_events"
      [] OTHER -> "settings"
Tables == {Reads(name) : name \in Tools} \ {"settings"}

Init ==
    /\ world \in Worlds
    /\ mode \in Modes
    /\ pc = "ask" /\ round = 0
    /\ messages = <<>>
    /\ todo = <<>> /\ ran = <<>>
    /\ tables \in IF Has("rows") THEN SUBSET Tables ELSE {Tables}
    /\ result = "none"
    /\ log = <<>>

\* What stands for no result: a decision is never missing, it is HOLD.
Nothing == IF mode = "plan" THEN "none" ELSE "HOLD"

MayAsk == pc = "ask" /\ round < (IF mode = "analysis" THEN 2 ELSE MaxRounds)
\* Variant: one round too many.
AskOnceMore ==
    /\ pc = "ask"
    /\ round <= IF mode = "analysis" THEN 1 ELSE MaxRounds
    /\ round' = round + 1
\* _chat answers within the round.
Ask == MayAsk /\ round' = round + 1

\* What it says looks like a call and is none: the model is told so.
Misread ==
    /\ mode # "analysis"
    /\ Ask
    /\ \E r \in Replies :
          /\ Understood(r).kind = "unreadable"
          /\ messages' = messages \o <<Said(r.text, {}), Told("user", NoId, "unreadable")>>
    /\ UNCHANGED <<world, mode, pc, todo, ran, tables, result, log>>

\* It calls tools.  Numbered calls are kept with the message, the server will pair
\* them with their answers.
Id(calls, i) == IF calls[i].numbered THEN <<round + 1, i>> ELSE NoId
Ids(calls) == {Id(calls, i) : i \in 1..Len(calls)} \ {NoId}
\* Variant: the message keeps the content only.
AppendAssistantBare(r, calls) == Said(r.text, {})
\* _append_assistant
AppendAssistant(r, calls) == Said(r.text, Ids(calls))

CallTools ==
    /\ mode # "analysis"
    /\ Ask
    /\ \E r \in Replies :
          LET calls == Understood(r).calls
          IN /\ Understood(r).kind = "calls"
             /\ messages' = Append(messages, AppendAssistant(r, calls))
             /\ todo' = [i \in 1..Len(calls) |->
                           [name |-> calls[i].name, id |-> Id(calls, i)]]
    /\ pc' = "call"
    /\ UNCHANGED <<world, mode, ran, tables, result, log>>

\* A tool of readonly.py shows rows, or says that there are none.
Shows(name) == IF Reads(name) \in tables \cup {"settings"} THEN "rows" ELSE "unavailable"

\* ToolRegistry.call: an unknown tool is refused, a known one may raise.
Outcomes(name) ==
    IF name \notin Tools THEN {"refused"}
    ELSE {Shows(name)} \cup IF Has("tool") THEN {"raised"} ELSE {}
Invoke ==
    /\ pc = "call"
    /\ \E outcome \in Outcomes(Head(todo).name) : ran' = Append(ran, outcome)
    /\ pc' = "observe"
    /\ UNCHANGED <<world, mode, round, messages, todo, tables, result, log>>

\* _invoke: whatever raises is an error, never a result.
Observation(outcome) == IF outcome \in {"refused", "raised"} THEN "error" ELSE outcome

\* _observation_message: only a number the server gave is answered as such.
Observe ==
    /\ pc = "observe"
    /\ LET id == Head(todo).id
       IN messages' = Append(messages, Told(IF id = NoId THEN "user" ELSE "tool", id,
                                            Observation(ran[Len(ran)])))
    /\ todo' = Tail(todo)
    /\ pc' = IF Len(todo) = 1 THEN "ask" ELSE "call"
    /\ UNCHANGED <<world, mode, round, ran, tables, result, log>>

\* It says something: a plan, a signal, or neither.  Neither is HOLD at once when a
\* signal was due; a plan is asked for again while rounds are left.
Conclude ==
    /\ mode # "analysis"
    /\ Ask
    /\ \E r \in Replies :
          /\ Understood(r).kind = "text"
          /\ mode = "plan" => Usable(r.text) \/ round' = MaxRounds
          /\ messages' = Append(messages, Said(r.text, {}))
          /\ result' = IF Usable(r.text) THEN r.text ELSE Nothing
    /\ pc' = "save"
    /\ UNCHANGED <<world, mode, todo, ran, tables, log>>
AskAgain ==
    /\ mode = "plan"
    /\ Ask
    /\ round' < MaxRounds
    /\ \E r \in Replies :
          /\ Understood(r).kind = "text"
          /\ ~Usable(r.text)
          /\ messages' = messages \o <<Said(r.text, {}), Told("user", NoId, "plan wanted")>>
    /\ UNCHANGED <<world, mode, pc, todo, ran, tables, result, log>>

\* MarketAnalyzer.analyze: an empty answer is asked for once more, and then anything
\* that is no signal is HOLD, with the error where the answer was.
Analyze ==
    /\ mode = "analysis"
    /\ Ask
    /\ \E r \in Replies :
          /\ messages' = IF Usable(r.text) THEN <<Said(r.text, {})>> ELSE <<>>
          /\ pc' = IF r.text = "" /\ round = 0 THEN "ask" ELSE "save"
          /\ result' = IF pc' = "ask" THEN "none" ELSE IF Usable(r.text) THEN r.text ELSE Nothing
    /\ UNCHANGED <<world, mode, todo, ran, tables, log>>

GiveUp ==
    /\ mode # "analysis"
    /\ pc = "ask"
    /\ round = MaxRounds
    /\ pc' = "save"
    /\ result' = Nothing
    /\ UNCHANGED <<world, mode, round, messages, todo, ran, tables, log>>

\* httpx.HTTPError: the rounds end.
Unreachable ==
    /\ Has("http")
    /\ Ask
    /\ pc' = "save"
    /\ result' = Nothing
    /\ UNCHANGED <<world, mode, messages, todo, ran, tables, log>>

\* A body that is no chat completion raises past the rounds.  Dialogue.plan catches
\* it and files an attempt without a conversation, the analyzer says HOLD, a decision
\* is given up without a row.
Garbled ==
    /\ Has("garbled")
    /\ MayAsk
    /\ round' = IF mode = "plan" THEN 0 ELSE round + 1
    /\ pc' = IF mode = "decide" THEN "failed" ELSE "save"
    /\ result' = IF mode = "decide" THEN "none" ELSE Nothing
    /\ messages' = <<>>
    /\ ran' = <<>>
    /\ UNCHANGED <<world, mode, todo, tables, log>>

-----------------------------------------------------------------------------
\* PlanRepository.create: every attempt, with the calls that were run.
PlanRow == [result |-> result, messages |-> messages, calls |-> ran, asked |-> round]
\* _save_decision: every decision.
DecisionRow == [result |-> result, messages |-> messages]
\* run_analysis_agent: the variant tells which prompt the answer is to.
AnalysisRow == [result |-> result, messages |-> messages,
                variant |-> IF round = 2 THEN "brevity" ELSE "normal"]
Row == CASE mode = "plan" -> PlanRow
         [] mode = "decide" -> DecisionRow
         [] mode = "analysis" -> AnalysisRow

\* The row is there before anybody acts on the result.
Save ==
    /\ pc = "save"
    /\ log' = Append(log, Row)
    /\ pc' = "returned"
    /\ UNCHANGED <<world, mode, round, messages, todo, ran, tables, result>>
\* What raises takes the run with it.
Raise ==
    /\ pc' = "failed"
    /\ messages' = <<>> /\ todo' = <<>> /\ ran' = <<>> /\ result' = "none"
\* A write that raises may have written all the same.
SaveFails ==
    /\ Has("save")
    /\ pc = "save"
    /\ log' \in {log, Append(log, Row)}
    /\ Raise
    /\ UNCHANGED <<world, mode, round, tables>>

\* AgentRunner.stop, or a client that goes away.
Cancel ==
    /\ Has("cancel")
    /\ pc \in {"ask", "call", "observe", "save"}
    /\ log' \in IF pc = "save" THEN {log, Append(log, Row)} ELSE {log}
    /\ Raise
    /\ UNCHANGED <<world, mode, round, tables>>

\* Other parts of the program write the first rows of a table.
Fill ==
    /\ Has("rows")
    /\ pc \in {"ask", "call", "observe"}
    /\ \E t \in Tables \ tables : tables' = tables \cup {t}
    /\ UNCHANGED <<world, mode, pc, round, messages, todo, ran, result, log>>

Next ==
    \/ Misread \/ CallTools \/ Invoke \/ Observe
    \/ Conclude \/ AskAgain \/ Analyze \/ GiveUp \/ Unreachable \/ Garbled
    \/ Save \/ SaveFails \/ Cancel \/ Fill

Spec == Init /\ [][Next]_vars

-----------------------------------------------------------------------------
(***************************************************************************)
(* Properties.                                                             *)
(***************************************************************************)
Ends == {"returned", "failed"}
Numbers == (1..MaxRounds) \X (Nat \ {0}) \cup {NoId}
Message == [role : {"assistant", "tool", "user"},
            says : Texts \cup {"unreadable", "plan wanted", "rows", "unavailable", "error"},
            id : Numbers, ids : SUBSET Numbers]
Results == Texts \cup {"none"}
Shown == {"rows", "unavailable", "refused", "raised"}
PlanRows == [result : Results, messages : Seq(Message), calls : Seq(Shown), asked : 0..MaxRounds]
DecisionRows == [result : Signals, messages : Seq(Message)]
AnalysisRows == [result : Results, messages : Seq(Message), variant : {"normal", "brevity"}]

TypeOK ==
    /\ world \in Worlds /\ mode \in Modes
    /\ pc \in {"ask", "call", "observe", "save"} \cup Ends
    /\ round \in 0..(IF mode = "analysis" THEN 2 ELSE MaxRounds)
    /\ messages \in Seq(Message)
    /\ todo \in Seq([name : Tools \cup {"invented"}, id : Numbers])
    /\ pc \in {"call", "observe"} => todo # <<>>
    /\ ran \in Seq(Shown)
    /\ tables \subseteq Tables
    /\ result \in Results
    /\ log \in Seq(IF mode = "plan" THEN PlanRows
                  ELSE IF mode = "decide" THEN DecisionRows ELSE AnalysisRows)

IsAnswer(m) == m.says \in {"rows", "unavailable", "error"}
Answers(talk) == {i \in 1..Len(talk) : IsAnswer(talk[i])}

\* Of the first i messages, the last one of the model and what came after.
Since(talk, i) == {k \in 1..i : \A m \in k + 1..i : talk[m].role # "assistant"}
\* The numbers the model gave there, and those that were answered.
Owed(talk, i) == UNION {talk[k].ids : k \in Since(talk, i)}
Paid(talk, i) == {talk[k].id : k \in Since(talk, i)} \ {NoId}

\* "Never pretend a tool has run" (loop.py): the model is told of every call it made,
\* one answer each and in order, before it speaks again, and an answer shows rows, or
\* says that there are none, only when the tool said so.  An answer under a number is
\* to a call of that number in the model's last message, and no number is left open
\* when the model speaks again, for the server would refuse the conversation.
AnswersAreTrue ==
    LET answers == Answers(messages)
        now == Len(messages)
    IN /\ Cardinality(answers) = Len(ran) - (IF pc = "observe" THEN 1 ELSE 0)
       /\ \A i \in answers :
             LET outcome == ran[Cardinality({k \in answers : k <= i})]
             IN messages[i].says = IF outcome \in {"rows", "unavailable"} THEN outcome ELSE "error"
       /\ \A i \in 1..now :
             /\ messages[i].role = "tool" =>
                   messages[i].id \in Owed(messages, i - 1) \ Paid(messages, i - 1)
             /\ messages[i].role = "assistant" => Owed(messages, i - 1) = Paid(messages, i - 1)
       /\ pc = "ask" => Owed(messages, now) = Paid(messages, now)

\* What is returned is what the model said last, whole, or nothing (loop.py: a missing
\* amount is never filled in, prose is never taken for a plan): it stands in the row
\* that was written before, with the conversation that led to it (a plan's row with
\* as many calls as the conversation answers), and there is one row for a run at most.
SaidAndRecorded ==
    /\ Len(log) <= 1
    /\ pc = "returned" =>
          /\ log # <<>> /\ log[1].result = result /\ log[1].messages = messages
          /\ mode = "plan" => Len(log[1].calls) = Cardinality(Answers(messages))
          /\ result # Nothing =>
                /\ messages # <<>>
                /\ LET last == messages[Len(messages)]
                   IN /\ last.role = "assistant" /\ last.ids = {}
                      /\ last.says = result
                      /\ mode = "decide" => result \in Signals
    /\ pc \in {"ask", "call", "observe"} => log = <<>> /\ result = "none"
=============================================================================

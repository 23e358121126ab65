---------------------------- MODULE GoalDialogue ----------------------------
(***************************************************************************)
(* The goals of the dialogue layer: the HTTP requests that start, reword,  *)
(* confirm and plan them, each a coroutine of its own with no lock around  *)
(* it, and the runner's tick, which picks the active goal and ends it.     *)
(*                                                                         *)
(* A request awaits one repository call after the other, and a repository  *)
(* call awaits a SELECT and then an UPDATE of the columns it changed.  The *)
(* worlds say how finely all this interleaves.  A request that is refused  *)
(* at once changes nothing and is left out; so are the messages, which are *)
(* only appended.                                                          *)
(*                                                                         *)
(* A definition commented "Variant" is no part of the specification.       *)
(***************************************************************************)
EXTENDS Naturals, FiniteSets

CONSTANTS
    Values,         \* what a user may say about a dimension
    SettingsLimit,  \* max_drawdown_pct of the settings
    Sentences,      \* what a user may say at once, a part of Terms
    MaxGoals,       \* bound: goals created
    MaxRequests,    \* bound: requests
    Handlers,       \* the requests that can be served at a time
    Worlds          \* the environments to consider, each a set of troubles

(***************************************************************************)
(*   requests  a request may come between two repository calls of another; *)
(*             without it only the model call of a plan lets others in     *)
(*   calls     also between the SELECT and the UPDATE of one call          *)
(*   crash     the process dies, once                                      *)
(***************************************************************************)
Troubles == {"requests", "calls", "crash"}

ASSUME ValuesAssumption == Values \subseteq Nat \ {0} /\ SettingsLimit \in Nat \ {0}
ASSUME BoundsAssumption == MaxGoals \in Nat /\ MaxRequests \in Nat
ASSUME WorldsAssumption == Worlds \subseteq SUBSET Troubles

\* The dimensions of a goal, the drawdown it accepts and everything else; the
\* words for one of them, or silence.
Dims == {"limit", "aim"}
Unsaid == 0
Terms == [Dims -> Values \cup {Unsaid}]
Blank == [d \in Dims |-> Unsaid]

ASSUME SentencesAssumption == Sentences \subseteq Terms

Goals == 1..MaxGoals   \* in the order of created_at

VARIABLES
    world,     \* the environment of this behaviour; never changes
    goals,     \* the goals table
    created,   \* how many goals there are
    plans,     \* the plans table, in the order of creation: the usable ones
    attempts,  \* how many plans there are
    req,       \* handler -> the request it serves
    tick,      \* the runner's tick
    requests, crashes   \* what is used up of the bounds

tables == <<goals, created, plans, attempts>>
vars == <<world, tables, req, tick, requests, crashes>>

-----------------------------------------------------------------------------
Has(trouble) == trouble \in world

\* A goals row: status, terms, the limit of its risk snapshot, whether its
\* deadline has passed, and its plan (0 for none).
NoGoal == [status |-> "none", terms |-> Blank, frozen |-> 0, due |-> FALSE, plan |-> 0]

\* A request: where it stands, its goal, what was said, the draft it makes of
\* that, what its repository call read, and the plan it recorded.
NoRequest == [pc |-> "idle", goal |-> 0, words |-> Blank, draft |-> Blank, got |-> Blank,
              plan |-> 0]
NoTick == [pc |-> "idle", goal |-> 0, frozen |-> 0]

Init ==
    /\ world \in Worlds
    /\ goals = [g \in Goals |-> NoGoal] /\ created = 0
    /\ plans = {} /\ attempts = 0
    /\ req = [h \in Handlers |-> NoRequest]
    /\ tick = NoTick
    /\ requests = 0 /\ crashes = 0

\* GoalDraft.missing
Complete(terms) == \A d \in Dims : terms[d] # Unsaid
\* Variant: what was not mentioned is reset.
ReviseAll(terms, words) == words
\* GoalDraft.revise
Revise(terms, words) == [d \in Dims |-> IF words[d] = Unsaid THEN terms[d] ELSE words[d]]
\* Variant: the looser of the two.
EffectiveLoose(limit) == IF limit > SettingsLimit THEN limit ELSE SettingsLimit
\* effective_drawdown_limit
Effective(limit) == IF limit < SettingsLimit THEN limit ELSE SettingsLimit

Open == {g \in Goals : goals[g].status \in {"proposed", "active"}}
Active == {g \in Goals : goals[g].status = "active"}

-----------------------------------------------------------------------------
\* Who may step when: inside a repository call, inside a request.
InCall == {"saving", "activating", "attaching", "ending"}
InRequest == InCall \cup {"create", "save", "activate", "attach"}
Barred == IF Has("calls") THEN {} ELSE IF Has("requests") THEN InCall ELSE InRequest

Turn(h) ==
    /\ \A k \in Handlers \ {h} : req[k].pc \notin Barred
    /\ tick.pc \notin Barred
RunnerTurn == Has("calls") \/ \A h \in Handlers : req[h].pc \notin InCall

At(h, label) == req[h].pc = label /\ Turn(h)
Goto(h, label) == req' = [req EXCEPT ![h].pc = label]
Finish(h) == req' = [req EXCEPT ![h] = NoRequest]

\* A new request, after its first read.
Arrive(h, request) ==
    /\ At(h, "idle")
    /\ requests < MaxRequests
    /\ requests' = requests + 1
    /\ req' = [req EXCEPT ![h] = request]
    /\ UNCHANGED <<world, tables, tick, crashes>>

\* What the steps of a request leave alone.
Elsewhere == <<world, tick, requests, crashes>>

\* Variant: a goal that is only proposed does not count.
StartBesideProposed(h) ==
    /\ Active = {}
    /\ \E words \in Sentences :
          Arrive(h, [NoRequest EXCEPT !.pc = "create", !.draft = Revise(Blank, words)])
\* Dialogue.start: open_goal finds none ...
Start(h) ==
    /\ Open = {}
    /\ \E words \in Sentences :
          Arrive(h, [NoRequest EXCEPT !.pc = "create", !.draft = Revise(Blank, words)])
\* ... and GoalRepository.create writes the row.
Create(h) ==
    /\ At(h, "create")
    /\ created < MaxGoals
    /\ created' = created + 1
    /\ goals' = [goals EXCEPT ![created'] =
                    [NoGoal EXCEPT !.status = "proposed", !.terms = req[h].draft]]
    /\ Finish(h)
    /\ UNCHANGED <<plans, attempts, Elsewhere>>

\* Dialogue.say: the goal is read, and the words are laid over it.
Say(h) ==
    \E g \in Goals, words \in Sentences :
        /\ goals[g].status = "proposed"
        /\ Arrive(h, [NoRequest EXCEPT !.pc = "save", !.goal = g, !.words = words,
                                       !.draft = Revise(goals[g].terms, words)])
\* Variant: the caller has checked the status.
SaveTrusting(h) ==
    /\ At(h, "save")
    /\ req' = [req EXCEPT ![h].pc = "saving", ![h].got = goals[req[h].goal].terms]
    /\ UNCHANGED <<tables, Elsewhere>>
\* save_draft reads the row again and refuses one that is not proposed ...
Save(h) ==
    /\ At(h, "save")
    /\ IF goals[req[h].goal].status = "proposed"
       THEN req' = [req EXCEPT ![h].pc = "saving", ![h].got = goals[req[h].goal].terms]
       ELSE Finish(h)
    /\ UNCHANGED <<tables, Elsewhere>>
\* ... and the UPDATE carries the columns that differ from what it read.
SaveCommit(h) ==
    /\ At(h, "saving")
    /\ goals' = [goals EXCEPT ![req[h].goal].terms =
                    [d \in Dims |-> IF req[h].draft[d] # req[h].got[d]
                                    THEN req[h].draft[d] ELSE @[d]]]
    /\ Finish(h)
    /\ UNCHANGED <<created, plans, attempts, Elsewhere>>

\* Dialogue.confirm: nothing may be missing, whatever the status.
Confirm(h) ==
    \E g \in Goals :
        /\ goals[g].status # "none" /\ Complete(goals[g].terms)
        /\ Arrive(h, [NoRequest EXCEPT !.pc = "activate", !.goal = g])
\* Variant: the transition is not checked.
ActivateAgain(h) ==
    /\ At(h, "activate")
    /\ IF Complete(goals[req[h].goal].terms)
       THEN req' = [req EXCEPT ![h].pc = "activating", ![h].got = goals[req[h].goal].terms]
       ELSE Finish(h)
    /\ UNCHANGED <<tables, Elsewhere>>
\* activate reads the row again, checks the transition and the terms ...
Activate(h) ==
    /\ At(h, "activate")
    /\ LET row == goals[req[h].goal]
       IN IF row.status = "proposed" /\ Complete(row.terms)
          THEN req' = [req EXCEPT ![h].pc = "activating", ![h].got = row.terms]
          ELSE Finish(h)
    /\ UNCHANGED <<tables, Elsewhere>>
\* ... and the UPDATE sets status, deadline and risk snapshot.
ActivateCommit(h) ==
    /\ At(h, "activating")
    /\ goals' = [goals EXCEPT ![req[h].goal].status = "active",
                              ![req[h].goal].due = FALSE,
                              ![req[h].goal].frozen = Effective(req[h].got["limit"])]
    /\ Finish(h)
    /\ UNCHANGED <<created, plans, attempts, Elsewhere>>

\* Dialogue.plan: an active goal without a plan; then the model is asked, which
\* may take minutes.
Plan(h) ==
    \E g \in Goals :
        /\ goals[g].status = "active" /\ goals[g].plan = 0
        /\ Arrive(h, [NoRequest EXCEPT !.pc = "model", !.goal = g])
\* Variant: the last text is attached when nothing could be parsed.
AnsweredAnyhow(h) ==
    /\ At(h, "model")
    /\ attempts' = attempts + 1
    /\ \/ plans' = plans \cup {attempts'}
       \/ plans' = plans
    /\ req' = [req EXCEPT ![h].pc = "attach", ![h].plan = attempts']
    /\ UNCHANGED <<goals, created, Elsewhere>>
\* Every attempt is recorded, also one the model spoiled; a plan that could be
\* parsed is attached.
Answered(h) ==
    /\ At(h, "model")
    /\ attempts' = attempts + 1
    /\ \/ /\ plans' = plans \cup {attempts'}
          /\ req' = [req EXCEPT ![h].pc = "attach", ![h].plan = attempts']
       \/ plans' = plans /\ Finish(h)
    /\ UNCHANGED <<goals, created, Elsewhere>>
\* Variant: the goal was active when the request came.
AttachTrusting(h) ==
    /\ At(h, "attach")
    /\ Goto(h, "attaching")
    /\ UNCHANGED <<tables, Elsewhere>>
\* attach_plan reads the goal again and refuses one that has ended.
Attach(h) ==
    /\ At(h, "attach")
    /\ IF goals[req[h].goal].status = "ended" THEN Finish(h) ELSE Goto(h, "attaching")
    /\ UNCHANGED <<tables, Elsewhere>>
AttachCommit(h) ==
    /\ At(h, "attaching")
    /\ goals' = [goals EXCEPT ![req[h].goal].plan = req[h].plan]
    /\ Finish(h)
    /\ UNCHANGED <<created, plans, attempts, Elsewhere>>

RequestStep(h) ==
    \/ Create(h)
    \/ Save(h) \/ SaveCommit(h)
    \/ Activate(h) \/ ActivateCommit(h)
    \/ Answered(h) \/ Attach(h) \/ AttachCommit(h)
Request(h) == Start(h) \/ Say(h) \/ Confirm(h) \/ Plan(h)

-----------------------------------------------------------------------------
ByRunner == <<world, created, plans, attempts, req, requests, crashes>>

\* Variant: the goal that is open, confirmed or not.
PickOpen ==
    /\ tick.pc = "idle" /\ RunnerTurn
    /\ \E g \in Open :
          /\ \A k \in Open : k <= g
          /\ tick' = [pc |-> "judge", goal |-> g, frozen |-> goals[g].frozen]
    /\ UNCHANGED <<goals, ByRunner>>
\* AgentRunner._run_one_tick and run_goal_tick: the latest active goal, with the
\* limits of its risk snapshot.
Pick ==
    /\ tick.pc = "idle" /\ RunnerTurn
    /\ \E g \in Active :
          /\ \A k \in Active : k <= g
          /\ tick' = [pc |-> "judge", goal |-> g, frozen |-> goals[g].frozen]
    /\ UNCHANGED <<goals, ByRunner>>
\* Variant: the deadline is left to the model.
JudgeKindly ==
    /\ tick.pc = "judge" /\ RunnerTurn
    /\ tick' = NoTick \/ tick' = [tick EXCEPT !.pc = "end"]
    /\ UNCHANGED <<goals, ByRunner>>
\* The tick ends the goal when its time is up, and may end it otherwise.
Judge ==
    /\ tick.pc = "judge" /\ RunnerTurn
    /\ \/ ~goals[tick.goal].due /\ tick' = NoTick
       \/ tick' = [tick EXCEPT !.pc = "end"]
    /\ UNCHANGED <<goals, ByRunner>>
\* GoalRepository.end: read and check ...
End ==
    /\ tick.pc = "end" /\ RunnerTurn
    /\ tick' = IF goals[tick.goal].status = "active" THEN [tick EXCEPT !.pc = "ending"]
               ELSE NoTick
    /\ UNCHANGED <<goals, ByRunner>>
\* Variant: the row is dropped.
EndDropping ==
    /\ tick.pc = "ending" /\ RunnerTurn
    /\ goals' = [goals EXCEPT ![tick.goal] = NoGoal]
    /\ tick' = NoTick
    /\ UNCHANGED ByRunner
\* ... and write.
EndCommit ==
    /\ tick.pc = "ending" /\ RunnerTurn
    /\ goals' = [goals EXCEPT ![tick.goal].status = "ended"]
    /\ tick' = NoTick
    /\ UNCHANGED ByRunner

RunnerStep == Pick \/ Judge \/ End \/ EndCommit

\* A deadline passes.
Deadline ==
    \E g \in Goals :
        /\ goals[g].status = "active" /\ ~goals[g].due
        /\ goals' = [goals EXCEPT ![g].due = TRUE]
        /\ UNCHANGED <<tick, ByRunner>>

\* The process dies and is started again, the runner with it.
Crash ==
    /\ Has("crash") /\ crashes = 0
    /\ crashes' = 1
    /\ req' = [h \in Handlers |-> NoRequest]
    /\ tick' = NoTick
    /\ UNCHANGED <<world, tables, requests>>

Next ==
    \/ \E h \in Handlers : Request(h) \/ RequestStep(h)
    \/ RunnerStep
    \/ Deadline \/ Crash

\* Every await ends, the runner ticks again and again, and time passes.
Fairness ==
    /\ \A h \in Handlers : WF_vars(RequestStep(h))
    /\ WF_vars(RunnerStep)
    /\ WF_vars(Deadline)

Spec == Init /\ [][Next]_vars /\ Fairness

-----------------------------------------------------------------------------
(***************************************************************************)
(* Properties.                                                             *)
(***************************************************************************)
Requests == [pc : {"idle", "model"} \cup InRequest, goal : Goals \cup {0}, words : Terms,
             draft : Terms, got : Terms, plan : Nat]
Rows == [status : {"none", "proposed", "active", "ended"}, terms : Terms,
         frozen : Nat, due : BOOLEAN, plan : Nat]

TypeOK ==
    /\ world \in Worlds
    /\ goals \in [Goals -> Rows] /\ created \in 0..MaxGoals
    /\ \A g \in Goals : goals[g].status = "none" <=> g > created
    /\ plans \subseteq Nat \ {0} /\ attempts \in Nat
    /\ req \in [Handlers -> Requests]
    /\ tick \in [pc : {"idle", "judge", "end", "ending"}, goal : Goals \cup {0}, frozen : Nat]
    /\ requests \in 0..MaxRequests /\ crashes \in 0..1

\* The goal in force: confirmed, not ended.  Its terms are complete and its
\* limit is the tighter of what they say and what the settings say (activate,
\* risk_snapshot), whatever was said while it was confirmed.
FrozenAsConfirmed ==
    ~Has("calls") =>
        \A g \in Active : /\ Complete(goals[g].terms)
                          /\ goals[g].frozen = Effective(goals[g].terms["limit"])

\* The runner only drives a confirmed goal, and on the limits it was confirmed
\* with, for as long as the tick lasts.
TickOnFrozenTerms ==
    ~Has("calls") /\ tick.pc # "idle" =>
        goals[tick.goal].status = "active" /\ tick.frozen = goals[tick.goal].frozen

\* One goal at a time (Dialogue.start, "stage C runs only one").
AtMostOneOpen == Cardinality(Open) <= 1
OneGoalAtATime == world \cap {"requests", "calls"} = {} => AtMostOneOpen

\* A plan that hangs on a goal is one that could be parsed, in whatever order
\* attempts, restarts and endings come (Dialogue.plan, attach_plan).
PlanIsUsable == \A g \in Goals : goals[g].plan # 0 => goals[g].plan \in plans

\* Once confirmed, a goal keeps its terms and its limits, although a rewording
\* or a second confirmation may be under way (ADR-021, save_draft, activate).
TermsAreKept ==
    [][ ~Has("calls") =>
          \A g \in Goals : goals[g].status \in {"active", "ended"} =>
              goals'[g].terms = goals[g].terms /\ goals'[g].frozen = goals[g].frozen ]_vars

\* An ended goal never changes again: it is not revived by a confirmation that
\* was under way, and gets no plan from a model call that outlasted it.
EndedIsFinal ==
    [][ ~Has("calls") =>
          \A g \in Goals : goals[g].status = "ended" => goals'[g] = goals[g] ]_vars

\* A dimension changes only to what the user said about it: what a sentence
\* does not mention it does not touch (GoalDraft.revise).
Mentions(g, d, value) ==
    value # Unsaid /\ \E h \in Handlers : req[h].pc = "saving" /\ req[h].goal = g /\ req[h].words[d] = value
WordsOnlyAdd ==
    [][ world \cap {"requests", "calls"} = {} =>
          \A g \in Goals, d \in Dims :
              goals[g].status # "none" /\ goals'[g].terms[d] # goals[g].terms[d] =>
                  Mentions(g, d, goals'[g].terms[d]) ]_vars

\* Every confirmed goal comes to its end, also when a later one is confirmed
\* beside it and the runner drives that one first.
GoalsEnd == \A g \in Goals : goals[g].status = "active" ~> goals[g].status = "ended"

\* A plan, once attached, is not replaced (Dialogue.plan refuses to plan again).
PlanIsKept ==
    [][\A g \in Goals : goals[g].plan # 0 => goals'[g].plan = goals[g].plan]_vars

\* The goals live the lives GoalLife promises, as long as repository calls do not
\* interleave.
Lived(g) ==
    IF Has("calls") THEN [status |-> "none", terms |-> Blank, frozen |-> 0]
    ELSE [status |-> goals[g].status, terms |-> goals[g].terms, frozen |-> goals[g].frozen]
Lives == INSTANCE GoalLife WITH life <- [g \in Goals |-> Lived(g)]

GoalsLive == Lives!Spec
=============================================================================

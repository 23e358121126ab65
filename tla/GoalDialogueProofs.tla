-------------------------- MODULE GoalDialogueProofs --------------------------
(***************************************************************************)
(* What the goals of the dialogue layer may rely on for every number of    *)
(* goals, requests and handlers, every set of values and sentences and     *)
(* every set of environments.  One inductive invariant, in named parts,    *)
(* carries the safety theorems and the refinement of GoalLife.             *)
(*                                                                         *)
(* At the end, that the goal the runner picks comes nearer to its end with *)
(* every step of the runner once it is due (EndingsNear).                  *)
(***************************************************************************)
EXTENDS GoalDialogue, FiniteSetTheorems, TLAPS

\* Whoever works on a goal works on one that exists, and whoever is about to
\* attach a plan has a usable one.
Serving ==
    /\ \A h \in Handlers :
          /\ req[h].pc \notin {"idle", "create"} =>
                req[h].goal \in Goals /\ goals[req[h].goal].status # "none"
          /\ req[h].pc \in {"attach", "attaching"} => req[h].plan \in plans
    /\ tick.pc # "idle" => tick.goal \in Goals /\ goals[tick.goal].status # "none"
    /\ PlanIsUsable

\* Repository calls exclude each other, and what one has read is still so.
Exclusive ==
    ~Has("calls") =>
        /\ \A h, k \in Handlers : req[h].pc \in InCall /\ req[k].pc \in InCall => h = k
        /\ tick.pc = "ending" => \A h \in Handlers : req[h].pc \notin InCall
Current ==
    ~Has("calls") =>
        \A h \in Handlers :
            /\ req[h].pc \in {"saving", "activating"} =>
                  /\ goals[req[h].goal].status = "proposed"
                  /\ req[h].got = goals[req[h].goal].terms
            /\ req[h].pc = "activating" => Complete(req[h].got)
            /\ req[h].pc = "attaching" => goals[req[h].goal].status # "ended"

\* A goal nobody has confirmed has no limit yet; one in force has its own.
Confirmed ==
    /\ FrozenAsConfirmed
    /\ TickOnFrozenTerms
    /\ ~Has("calls") =>
          \A g \in Goals : goals[g].status \in {"none", "proposed"} => goals[g].frozen = 0

\* One request at a time: nobody else moves while one is served, unless it waits
\* for the model.
Single ==
    world \cap {"requests", "calls"} = {} =>
        /\ \A h, k \in Handlers : req[h].pc \in InRequest /\ req[k].pc \in InRequest => h = k
        /\ \A h \in Handlers : req[h].pc = "create" => Open = {}
        /\ \A g, k \in Open : g = k
        /\ \A h \in Handlers : req[h].pc \in {"save", "saving"} =>
              req[h].draft = Revise(goals[req[h].goal].terms, req[h].words)

Numbered == \A g \in Goals : goals[g].status = "none" => goals[g] = NoGoal

IInv == TypeOK /\ Serving /\ Exclusive /\ Current /\ Confirmed /\ Single /\ Numbered

-----------------------------------------------------------------------------
\* Drafts and limits stay what they should be.
LEMMA BlankType == Blank \in Terms
  BY DEF Blank, Terms
LEMMA ReviseType ==
    ASSUME NEW terms \in Terms, NEW words \in Terms
    PROVE  Revise(terms, words) \in Terms
  BY DEF Revise, Terms
LEMMA EffectiveType ==
    ASSUME NEW terms \in Terms
    PROVE  Effective(terms["limit"]) \in Nat
  <1>1. "limit" \in Dims
    BY DEF Dims
  <1>2. terms["limit"] \in Nat
    <2>1. terms["limit"] \in Values \cup {0}
      BY <1>1 DEF Terms, Unsaid
    <2>2. Values \cup {0} \subseteq Nat
      BY ValuesAssumption
    <2> QED
      BY <2>1, <2>2
  <1>3. SettingsLimit \in Nat
    BY ValuesAssumption
  <1> QED
    BY <1>2, <1>3 DEF Effective

\* The records requests and rows are made of, as the actions change them.
LEMMA IdleRequest == NoRequest \in Requests
  BY BlankType DEF NoRequest, Requests, InRequest, InCall
LEMMA Drafting ==
    ASSUME NEW t \in Terms
    PROVE  [NoRequest EXCEPT !.pc = "create", !.draft = t] \in Requests
  BY BlankType DEF NoRequest, Requests, InRequest, InCall
LEMMA Rewording ==
    ASSUME NEW g \in Goals, NEW w \in Terms, NEW t \in Terms
    PROVE  [NoRequest EXCEPT !.pc = "save", !.goal = g, !.words = w, !.draft = t] \in Requests
  BY BlankType DEF NoRequest, Requests, InRequest, InCall
LEMMA Addressing ==
    ASSUME NEW g \in Goals, NEW label \in {"activate", "model"}
    PROVE  [NoRequest EXCEPT !.pc = label, !.goal = g] \in Requests
  BY BlankType DEF NoRequest, Requests, InRequest, InCall
LEMMA Reading ==
    ASSUME NEW r \in Requests, NEW t \in Terms, NEW label \in {"saving", "activating"}
    PROVE  [r EXCEPT !.pc = label, !.got = t] \in Requests
  BY DEF Requests, InRequest, InCall
LEMMA Recording ==
    ASSUME NEW r \in Requests, NEW p \in Nat
    PROVE  [r EXCEPT !.pc = "attach", !.plan = p] \in Requests
  BY DEF Requests, InRequest, InCall
LEMMA Attaching ==
    ASSUME NEW r \in Requests
    PROVE  [r EXCEPT !.pc = "attaching"] \in Requests
  BY DEF Requests, InRequest, InCall
LEMMA RowTypes ==
    ASSUME NEW r \in Rows, NEW t \in Terms, NEW n \in Nat
    PROVE  /\ NoGoal \in Rows
           /\ [NoGoal EXCEPT !.status = "proposed", !.terms = t] \in Rows
           /\ [r EXCEPT !.terms = t] \in Rows
           /\ [r EXCEPT !.status = "active", !.due = FALSE, !.frozen = n] \in Rows
           /\ [r EXCEPT !.plan = n] \in Rows
           /\ [r EXCEPT !.status = "ended"] \in Rows
           /\ [r EXCEPT !.due = TRUE] \in Rows
  BY BlankType DEF NoGoal, Rows

\* A request that arrives, and one that is done.
LEMMA ArriveType ==
    ASSUME TypeOK, NEW h \in Handlers, NEW r \in Requests, Arrive(h, r)
    PROVE  TypeOK'
  <1>1. req' \in [Handlers -> Requests]
    BY DEF TypeOK, Arrive
  <1>2. requests' \in 0..MaxRequests
    BY BoundsAssumption DEF TypeOK, Arrive
  <1> QED
    BY <1>1, <1>2 DEF TypeOK, Arrive, tables
LEMMA FinishType ==
    ASSUME TypeOK, NEW h \in Handlers, Finish(h)
    PROVE  req' \in [Handlers -> Requests]
  BY IdleRequest DEF TypeOK, Finish

\* Every step keeps the variables in their types.
LEMMA TypeOKPreserved ==
    ASSUME IInv, Next
    PROVE  TypeOK'
  <1> USE DEF IInv, TypeOK, tables
  <1>1. ASSUME NEW h \in Handlers, Start(h) PROVE TypeOK'
    <2>1. PICK words \in Sentences :
             Arrive(h, [NoRequest EXCEPT !.pc = "create", !.draft = Revise(Blank, words)])
      BY <1>1 DEF Start
    <2>2. Revise(Blank, words) \in Terms
      BY BlankType, ReviseType, SentencesAssumption
    <2> QED
      BY <2>1, <2>2, Drafting, ArriveType
  <1>2. ASSUME NEW h \in Handlers, Create(h) PROVE TypeOK'
    <2>1. req[h] \in Requests /\ req[h].draft \in Terms
      BY DEF Requests
    <2>2. created' \in Goals /\ created' = created + 1
      BY <1>2, BoundsAssumption DEF Create, Goals
    <2>3. goals' \in [Goals -> Rows]
      BY <1>2, <2>1, <2>2, RowTypes DEF Create
    <2>4. \A g \in Goals : goals'[g].status = IF g = created' THEN "proposed" ELSE goals[g].status
      BY <1>2, <2>2 DEF Create, NoGoal
    <2>5. \A g \in Goals : goals'[g].status = "none" <=> g > created'
      BY <2>2, <2>4 DEF Goals
    <2>6. req' \in [Handlers -> Requests]
      BY <1>2, FinishType DEF Create
    <2> QED
      BY <1>2, <2>2, <2>3, <2>5, <2>6 DEF Create, Elsewhere, Goals
  <1>3. ASSUME NEW h \in Handlers, Say(h) PROVE TypeOK'
    <2>1. PICK g \in Goals, words \in Sentences :
             Arrive(h, [NoRequest EXCEPT !.pc = "save", !.goal = g, !.words = words,
                                         !.draft = Revise(goals[g].terms, words)])
      BY <1>3 DEF Say
    <2>2. goals[g].terms \in Terms /\ words \in Terms
      BY SentencesAssumption DEF Rows
    <2>3. Revise(goals[g].terms, words) \in Terms
      BY <2>2, ReviseType
    <2> QED
      BY <2>1, <2>2, <2>3, Rewording, ArriveType
  <1>4. ASSUME NEW h \in Handlers, Save(h) PROVE TypeOK'
    <2>1. goals[req[h].goal].terms \in Terms
      BY <1>4 DEF Save, At, Serving, Rows
    <2> DEFINE read == [req[h] EXCEPT !.pc = "saving", !.got = goals[req[h].goal].terms]
    <2>a. read \in Requests
      BY <2>1, Reading
    <2>b. req' = [req EXCEPT ![h] = read] \/ Finish(h)
      BY <1>4 DEF Save
    <2> HIDE DEF read
    <2>2. req' \in [Handlers -> Requests]
      BY <2>a, <2>b, FinishType
    <2> QED
      BY <1>4, <2>2 DEF Save, Elsewhere
  <1>5. ASSUME NEW h \in Handlers, SaveCommit(h) PROVE TypeOK'
    <2>1. req[h].goal \in Goals /\ req[h].draft \in Terms
      BY <1>5 DEF SaveCommit, At, Serving, Requests
    <2> DEFINE merged == [d \in Dims |-> IF req[h].draft[d] # req[h].got[d]
                                         THEN req[h].draft[d] ELSE goals[req[h].goal].terms[d]]
    <2>2. goals[req[h].goal] \in Rows /\ goals[req[h].goal].terms \in Terms
      BY <2>1 DEF Rows
    <2>3. merged \in Terms
      BY <2>1, <2>2 DEF Terms
    <2>4. goals' = [goals EXCEPT ![req[h].goal].terms = merged]
      BY <1>5, <2>1 DEF SaveCommit
    <2> HIDE DEF merged
    <2>5. goals' \in [Goals -> Rows]
      BY <2>1, <2>2, <2>3, <2>4, RowTypes
    <2>6. \A g \in Goals : goals'[g].status = goals[g].status
      BY <2>1, <2>2, <2>4 DEF Rows
    <2>7. req' \in [Handlers -> Requests]
      BY <1>5, FinishType DEF SaveCommit
    <2> QED
      BY <1>5, <2>5, <2>6, <2>7 DEF SaveCommit, Elsewhere
  <1>6. ASSUME NEW h \in Handlers, Confirm(h) PROVE TypeOK'
    <2>1. PICK g \in Goals : Arrive(h, [NoRequest EXCEPT !.pc = "activate", !.goal = g])
      BY <1>6 DEF Confirm
    <2> QED
      BY <2>1, Addressing, ArriveType
  <1>7. ASSUME NEW h \in Handlers, Activate(h) PROVE TypeOK'
    <2>1. goals[req[h].goal].terms \in Terms
      BY <1>7 DEF Activate, At, Serving, Rows
    <2> DEFINE read == [req[h] EXCEPT !.pc = "activating", !.got = goals[req[h].goal].terms]
    <2>a. read \in Requests
      BY <2>1, Reading
    <2>b. req' = [req EXCEPT ![h] = read] \/ Finish(h)
      BY <1>7 DEF Activate
    <2> HIDE DEF read
    <2>2. req' \in [Handlers -> Requests]
      BY <2>a, <2>b, FinishType
    <2> QED
      BY <1>7, <2>2 DEF Activate, Elsewhere
  <1>8. ASSUME NEW h \in Handlers, ActivateCommit(h) PROVE TypeOK'
    <2>1. req[h].goal \in Goals /\ goals[req[h].goal] \in Rows /\ req[h].got \in Terms
      BY <1>8 DEF ActivateCommit, At, Serving, Requests
    <2>2. Effective(req[h].got["limit"]) \in Nat
      BY <2>1, EffectiveType
    <2>3. goals' \in [Goals -> Rows]
      BY <1>8, <2>1, <2>2, RowTypes DEF ActivateCommit
    <2>4. \A g \in Goals : goals'[g].status = "none" <=> goals[g].status = "none"
      BY <1>8, <2>1 DEF ActivateCommit, At, Serving, Rows
    <2>5. req' \in [Handlers -> Requests]
      BY <1>8, FinishType DEF ActivateCommit
    <2> QED
      BY <1>8, <2>3, <2>4, <2>5 DEF ActivateCommit, Elsewhere
  <1>9. ASSUME NEW h \in Handlers, Plan(h) PROVE TypeOK'
    <2>1. PICK g \in Goals : Arrive(h, [NoRequest EXCEPT !.pc = "model", !.goal = g])
      BY <1>9 DEF Plan
    <2> QED
      BY <2>1, Addressing, ArriveType
  <1>10. ASSUME NEW h \in Handlers, Answered(h) PROVE TypeOK'
    <2>1. attempts' \in Nat \ {0}
      BY <1>10 DEF Answered
    <2> DEFINE recorded == [req[h] EXCEPT !.pc = "attach", !.plan = attempts']
    <2>a. recorded \in Requests
      BY <2>1, Recording
    <2>b. req' = [req EXCEPT ![h] = recorded] \/ Finish(h)
      BY <1>10 DEF Answered
    <2> HIDE DEF recorded
    <2>2. req' \in [Handlers -> Requests]
      BY <2>a, <2>b, FinishType
    <2> QED
      BY <1>10, <2>1, <2>2 DEF Answered, Elsewhere
  <1>11. ASSUME NEW h \in Handlers, Attach(h) PROVE TypeOK'
    <2>1. req' \in [Handlers -> Requests]
      BY <1>11, Attaching, FinishType DEF Attach, Goto
    <2> QED
      BY <1>11, <2>1 DEF Attach, Elsewhere
  <1>12. ASSUME NEW h \in Handlers, AttachCommit(h) PROVE TypeOK'
    <2>1. req[h].goal \in Goals /\ goals[req[h].goal] \in Rows /\ req[h].plan \in Nat
      BY <1>12 DEF AttachCommit, At, Serving, Requests
    <2>2. goals' \in [Goals -> Rows]
      BY <1>12, <2>1, RowTypes, BlankType DEF AttachCommit
    <2>3. \A g \in Goals : goals'[g].status = goals[g].status
      BY <1>12, <2>1 DEF AttachCommit, Rows
    <2>4. req' \in [Handlers -> Requests]
      BY <1>12, FinishType DEF AttachCommit
    <2> QED
      BY <1>12, <2>2, <2>3, <2>4 DEF AttachCommit, Elsewhere
  <1>13. CASE Pick
    BY <1>13 DEF Pick, ByRunner, Active, Rows
  <1>14. CASE Judge
    BY <1>14 DEF Judge, ByRunner, NoTick
  <1>15. CASE End
    BY <1>15 DEF End, ByRunner, NoTick
  <1>16. CASE EndCommit
    <2>1. tick.goal \in Goals /\ goals[tick.goal] \in Rows
      BY <1>16 DEF EndCommit, Serving
    <2>2. goals' \in [Goals -> Rows]
      BY <1>16, <2>1, RowTypes, BlankType DEF EndCommit
    <2>3. \A g \in Goals : goals'[g].status = "none" <=> goals[g].status = "none"
      BY <1>16, <2>1 DEF EndCommit, Serving, Rows
    <2> QED
      BY <1>16, <2>2, <2>3 DEF EndCommit, ByRunner, NoTick
  <1>17. CASE Deadline
    <2>1. PICK g \in Goals : goals' = [goals EXCEPT ![g].due = TRUE]
      BY <1>17 DEF Deadline
    <2>2. goals' \in [Goals -> Rows]
      BY <2>1, RowTypes, BlankType
    <2>3. \A k \in Goals : goals'[k].status = goals[k].status
      BY <2>1 DEF Rows
    <2> QED
      BY <1>17, <2>2, <2>3 DEF Deadline, ByRunner
  <1>18. CASE Crash
    <2>1. req' \in [Handlers -> Requests]
      BY <1>18, IdleRequest DEF Crash
    <2> QED
      BY <1>18, <2>1 DEF Crash, NoTick
  <1> QED
    BY <1>1, <1>2, <1>3, <1>4, <1>5, <1>6, <1>7, <1>8, <1>9, <1>10, <1>11, <1>12, <1>13, <1>14,
       <1>15, <1>16, <1>17, <1>18 DEF Next, Request, RequestStep, RunnerStep

-----------------------------------------------------------------------------
\* What a step changes, read off the actions once.  A step of a request moves that
\* request alone, on its turn; a step that writes, writes one row.
Serves(h) ==
    /\ Turn(h) /\ world' = world /\ tick' = tick
    /\ \A k \in Handlers \ {h} : req'[k] = req[k]
Writes(g) == \A k \in Goals \ {g} : goals'[k] = goals[k]
Same(g) == goals'[g].status = goals[g].status /\ goals'[g].frozen = goals[g].frozen
Driven == world' = world /\ req' = req /\ plans' = plans

LEMMA RequestsServe ==
    ASSUME IInv, NEW h \in Handlers, Request(h) \/ RequestStep(h)
    PROVE  Serves(h)
  <1>1. CASE Request(h)
    BY <1>1 DEF IInv, TypeOK, Serves, Request, Start, Say, Confirm, Plan, Arrive, At
  <1>2. CASE RequestStep(h)
    BY <1>2 DEF IInv, TypeOK, Serves, RequestStep, Create, Save, SaveCommit, Activate,
       ActivateCommit, Answered, Attach, AttachCommit, At, Goto, Finish, Elsewhere
  <1> QED
    BY <1>1, <1>2

\* Whose turn it is excludes the others.
LEMMA TurnExcludes ==
    ASSUME NEW h \in Handlers, Turn(h)
    PROVE  /\ ~Has("calls") => /\ \A k \in Handlers \ {h} : req[k].pc \notin InCall
                               /\ tick.pc # "ending"
           /\ world \cap {"requests", "calls"} = {} =>
                \A k \in Handlers \ {h} : req[k].pc \notin InRequest
  BY DEF Turn, Barred, InCall, InRequest, Has

LEMMA StartEffect ==
    ASSUME IInv, NEW h \in Handlers, Start(h)
    PROVE  /\ goals' = goals /\ plans' = plans
           /\ Open = {} /\ req'[h].pc = "create"
  BY DEF IInv, TypeOK, Start, Arrive, tables, NoRequest
LEMMA CreateEffect ==
    ASSUME IInv, NEW h \in Handlers, Create(h)
    PROVE  /\ req[h].pc = "create" /\ req'[h].pc = "idle" /\ plans' = plans
           /\ \E g \in Goals : /\ goals[g].status = "none" /\ Writes(g)
                               /\ goals'[g].status = "proposed"
                               /\ goals'[g].frozen = 0 /\ goals'[g].plan = 0
  <1>1. created' \in Goals /\ created' > created
    BY BoundsAssumption DEF IInv, TypeOK, Create, Goals
  <1>2. goals[created'].status = "none" /\ Writes(created')
    BY <1>1 DEF IInv, TypeOK, Create, Writes
  <1>3. /\ goals'[created'].status = "proposed"
        /\ goals'[created'].frozen = 0 /\ goals'[created'].plan = 0
    BY <1>1 DEF IInv, TypeOK, Create, NoGoal
  <1>4. req[h].pc = "create" /\ req'[h].pc = "idle" /\ plans' = plans
    BY DEF IInv, TypeOK, Create, At, Finish, NoRequest
  <1> QED
    BY <1>1, <1>2, <1>3, <1>4
LEMMA SayEffect ==
    ASSUME IInv, NEW h \in Handlers, Say(h)
    PROVE  /\ goals' = goals /\ plans' = plans
           /\ \E g \in Goals, words \in Terms :
                 /\ goals[g].status = "proposed"
                 /\ req'[h].pc = "save" /\ req'[h].goal = g /\ req'[h].words = words
                 /\ req'[h].draft = Revise(goals[g].terms, words)
  BY SentencesAssumption DEF IInv, TypeOK, Say, Arrive, tables, NoRequest
LEMMA SaveEffect ==
    ASSUME IInv, NEW h \in Handlers, Save(h)
    PROVE  /\ goals' = goals /\ plans' = plans /\ req[h].pc = "save"
           /\ \/ req'[h].pc = "idle"
              \/ /\ goals[req[h].goal].status = "proposed"
                 /\ req'[h].pc = "saving" /\ req'[h].got = goals[req[h].goal].terms
                 /\ req'[h].goal = req[h].goal /\ req'[h].words = req[h].words
                 /\ req'[h].draft = req[h].draft
  <1>1. req[h] \in Requests
    BY DEF IInv, TypeOK
  <1> QED
    BY <1>1 DEF IInv, TypeOK, Save, At, Finish, NoRequest, tables, Requests
LEMMA SaveCommitEffect ==
    ASSUME IInv, NEW h \in Handlers, SaveCommit(h)
    PROVE  /\ req[h].pc = "saving" /\ req'[h].pc = "idle" /\ plans' = plans
           /\ req[h].goal \in Goals /\ Writes(req[h].goal) /\ Same(req[h].goal)
           /\ goals'[req[h].goal].plan = goals[req[h].goal].plan
           /\ goals'[req[h].goal].terms =
                 [d \in Dims |-> IF req[h].draft[d] # req[h].got[d]
                                 THEN req[h].draft[d] ELSE goals[req[h].goal].terms[d]]
  <1>1. req[h].pc = "saving" /\ req'[h].pc = "idle" /\ plans' = plans
    BY DEF IInv, TypeOK, SaveCommit, At, Finish, NoRequest
  <1>2. req[h].goal \in Goals /\ goals[req[h].goal] \in Rows
    BY <1>1 DEF IInv, TypeOK, Serving
  <1> QED
    BY <1>1, <1>2 DEF IInv, TypeOK, SaveCommit, Writes, Same, Rows
LEMMA ConfirmEffect ==
    ASSUME IInv, NEW h \in Handlers, Confirm(h)
    PROVE  /\ goals' = goals /\ plans' = plans
           /\ \E g \in Goals : /\ goals[g].status # "none"
                               /\ req'[h].pc = "activate" /\ req'[h].goal = g
  BY DEF IInv, TypeOK, Confirm, Arrive, tables, NoRequest
LEMMA ActivateEffect ==
    ASSUME IInv, NEW h \in Handlers, Activate(h)
    PROVE  /\ goals' = goals /\ plans' = plans /\ req[h].pc = "activate"
           /\ \/ req'[h].pc = "idle"
              \/ /\ goals[req[h].goal].status = "proposed" /\ Complete(req'[h].got)
                 /\ req'[h].pc = "activating" /\ req'[h].got = goals[req[h].goal].terms
                 /\ req'[h].goal = req[h].goal
  <1>1. req[h] \in Requests
    BY DEF IInv, TypeOK
  <1> QED
    BY <1>1 DEF IInv, TypeOK, Activate, At, Finish, NoRequest, tables, Requests
LEMMA ActivateCommitEffect ==
    ASSUME IInv, NEW h \in Handlers, ActivateCommit(h)
    PROVE  /\ req[h].pc = "activating" /\ req'[h].pc = "idle" /\ plans' = plans
           /\ req[h].goal \in Goals /\ Writes(req[h].goal)
           /\ goals'[req[h].goal].status = "active"
           /\ goals'[req[h].goal].frozen = Effective(req[h].got["limit"])
           /\ goals'[req[h].goal].terms = goals[req[h].goal].terms
           /\ goals'[req[h].goal].plan = goals[req[h].goal].plan
  <1>1. req[h].pc = "activating" /\ req'[h].pc = "idle" /\ plans' = plans
    BY DEF IInv, TypeOK, ActivateCommit, At, Finish, NoRequest
  <1>2. req[h].goal \in Goals /\ goals[req[h].goal] \in Rows
    BY <1>1 DEF IInv, TypeOK, Serving
  <1> QED
    BY <1>1, <1>2 DEF IInv, TypeOK, ActivateCommit, Writes, Rows
LEMMA PlanEffect ==
    ASSUME IInv, NEW h \in Handlers, Plan(h)
    PROVE  /\ goals' = goals /\ plans' = plans
           /\ \E g \in Goals : /\ goals[g].status # "none"
                               /\ req'[h].pc = "model" /\ req'[h].goal = g
  BY DEF IInv, TypeOK, Plan, Arrive, tables, NoRequest
LEMMA AnsweredEffect ==
    ASSUME IInv, NEW h \in Handlers, Answered(h)
    PROVE  /\ goals' = goals /\ plans \subseteq plans' /\ req[h].pc = "model"
           /\ \/ req'[h].pc = "idle"
              \/ /\ req'[h].pc = "attach" /\ req'[h].goal = req[h].goal
                 /\ req'[h].plan \in plans'
  <1>1. req[h] \in Requests
    BY DEF IInv, TypeOK
  <1> QED
    BY <1>1 DEF IInv, TypeOK, Answered, At, Finish, NoRequest, Requests
LEMMA AttachEffect ==
    ASSUME IInv, NEW h \in Handlers, Attach(h)
    PROVE  /\ goals' = goals /\ plans' = plans /\ req[h].pc = "attach"
           /\ \/ req'[h].pc = "idle"
              \/ /\ goals[req[h].goal].status # "ended" /\ req'[h].pc = "attaching"
                 /\ req'[h].goal = req[h].goal /\ req'[h].plan = req[h].plan
  <1>1. req[h] \in Requests
    BY DEF IInv, TypeOK
  <1> QED
    BY <1>1 DEF IInv, TypeOK, Attach, At, Goto, Finish, NoRequest, tables, Requests
LEMMA AttachCommitEffect ==
    ASSUME IInv, NEW h \in Handlers, AttachCommit(h)
    PROVE  /\ req[h].pc = "attaching" /\ req'[h].pc = "idle" /\ plans' = plans
           /\ req[h].goal \in Goals /\ Writes(req[h].goal) /\ Same(req[h].goal)
           /\ goals'[req[h].goal].terms = goals[req[h].goal].terms
           /\ goals'[req[h].goal].plan = req[h].plan
  <1>1. req[h].pc = "attaching" /\ req'[h].pc = "idle" /\ plans' = plans
    BY DEF IInv, TypeOK, AttachCommit, At, Finish, NoRequest
  <1>2. req[h].goal \in Goals /\ goals[req[h].goal] \in Rows
    BY <1>1 DEF IInv, TypeOK, Serving
  <1> QED
    BY <1>1, <1>2 DEF IInv, TypeOK, AttachCommit, Writes, Same, Rows
LEMMA PickEffect ==
    ASSUME IInv, Pick
    PROVE  /\ Driven /\ RunnerTurn /\ goals' = goals /\ tick'.pc = "judge"
           /\ tick'.goal \in Active /\ tick'.frozen = goals[tick'.goal].frozen
  BY DEF Pick, Driven, ByRunner
LEMMA MoveEffect ==
    ASSUME IInv, Judge \/ End
    PROVE  /\ Driven /\ RunnerTurn /\ goals' = goals
           /\ \/ tick'.pc = "idle"
              \/ tick'.goal = tick.goal /\ tick'.frozen = tick.frozen /\ tick.pc # "idle"
  BY DEF IInv, TypeOK, Judge, End, Driven, ByRunner, NoTick
LEMMA EndCommitEffect ==
    ASSUME IInv, EndCommit
    PROVE  /\ Driven /\ RunnerTurn /\ tick.pc = "ending" /\ tick'.pc = "idle"
           /\ tick.goal \in Goals /\ Writes(tick.goal)
           /\ goals'[tick.goal].status = "ended"
           /\ goals'[tick.goal].frozen = goals[tick.goal].frozen
           /\ goals'[tick.goal].terms = goals[tick.goal].terms
           /\ goals'[tick.goal].plan = goals[tick.goal].plan
  <1>1. tick.goal \in Goals /\ goals[tick.goal] \in Rows
    BY DEF IInv, TypeOK, Serving, EndCommit
  <1> QED
    BY <1>1 DEF IInv, TypeOK, EndCommit, Driven, ByRunner, Writes, Rows, NoTick
LEMMA DeadlineEffect ==
    ASSUME IInv, Deadline
    PROVE  /\ Driven /\ tick' = tick
           /\ \E g \in Goals : /\ goals[g].status = "active" /\ Writes(g) /\ Same(g)
                               /\ goals'[g].terms = goals[g].terms
                               /\ goals'[g].plan = goals[g].plan
  <1>1. PICK g \in Goals : goals[g].status = "active" /\ goals' = [goals EXCEPT ![g].due = TRUE]
    BY DEF Deadline
  <1>2. goals[g] \in Rows
    BY DEF IInv, TypeOK
  <1>3. /\ Writes(g) /\ Same(g) /\ goals'[g].terms = goals[g].terms
        /\ goals'[g].plan = goals[g].plan
    BY <1>1, <1>2 DEF IInv, TypeOK, Writes, Same, Rows
  <1> QED
    BY <1>1, <1>3 DEF Deadline, Driven, ByRunner
LEMMA CrashEffect ==
    ASSUME IInv, Crash
    PROVE  /\ world' = world /\ goals' = goals /\ plans' = plans /\ tick'.pc = "idle"
           /\ \A h \in Handlers : req'[h].pc = "idle"
  BY DEF Crash, tables, NoTick, NoRequest

-----------------------------------------------------------------------------
\* No goal and no usable plan ever disappears.
LEMMA NothingIsLost ==
    ASSUME IInv, Next
    PROVE  /\ plans \subseteq plans'
           /\ \A g \in Goals : goals[g].status # "none" => goals'[g].status # "none"
  <1>1. ASSUME NEW h \in Handlers, Request(h) PROVE goals' = goals /\ plans' = plans
    BY <1>1, StartEffect, SayEffect, ConfirmEffect, PlanEffect DEF Request
  <1>2. ASSUME NEW h \in Handlers, RequestStep(h)
        PROVE  /\ plans \subseteq plans'
               /\ \A g \in Goals : goals[g].status # "none" => goals'[g].status # "none"
    <2>1. CASE Create(h)
      BY <2>1, CreateEffect DEF Writes
    <2>2. CASE Save(h)
      BY <2>2, SaveEffect
    <2>3. CASE SaveCommit(h)
      BY <2>3, SaveCommitEffect DEF Writes, Same
    <2>4. CASE Activate(h)
      BY <2>4, ActivateEffect
    <2>5. CASE ActivateCommit(h)
      BY <2>5, ActivateCommitEffect DEF Writes
    <2>6. CASE Answered(h)
      BY <2>6, AnsweredEffect
    <2>7. CASE Attach(h)
      BY <2>7, AttachEffect
    <2>8. CASE AttachCommit(h)
      BY <2>8, AttachCommitEffect DEF Writes, Same
    <2> QED
      BY <1>2, <2>1, <2>2, <2>3, <2>4, <2>5, <2>6, <2>7, <2>8 DEF RequestStep
  <1>3. CASE RunnerStep
    BY <1>3, PickEffect, MoveEffect, EndCommitEffect DEF RunnerStep, Driven, Writes
  <1>4. CASE Deadline
    BY <1>4, DeadlineEffect DEF Driven, Writes, Same
  <1>5. CASE Crash
    BY <1>5, CrashEffect
  <1> QED
    BY <1>1, <1>2, <1>3, <1>4, <1>5 DEF Next

\* Requests and the tick keep working on goals that exist, with usable plans.
LEMMA ServingPreserved ==
    ASSUME IInv, Next
    PROVE  Serving'
  <1> DEFINE Served(k) ==
        /\ req[k].pc \notin {"idle", "create"} =>
              req[k].goal \in Goals /\ goals[req[k].goal].status # "none"
        /\ req[k].pc \in {"attach", "attaching"} => req[k].plan \in plans
  <1>a. \A k \in Handlers : Served(k)
    BY DEF IInv, Serving
  <1>b. \A k \in Handlers : req'[k] = req[k] => Served(k)'
    BY <1>a, NothingIsLost
  <1>1. ASSUME NEW h \in Handlers, Request(h) PROVE Served(h)'
    BY <1>1, StartEffect, SayEffect, ConfirmEffect, PlanEffect DEF Request
  <1>2. ASSUME NEW h \in Handlers, RequestStep(h) PROVE Served(h)'
    <2>1. CASE Create(h)
      BY <2>1, CreateEffect
    <2>2. CASE Save(h)
      BY <2>2, <1>a, SaveEffect
    <2>3. CASE SaveCommit(h)
      BY <2>3, SaveCommitEffect
    <2>4. CASE Activate(h)
      BY <2>4, <1>a, ActivateEffect
    <2>5. CASE ActivateCommit(h)
      BY <2>5, ActivateCommitEffect
    <2>6. CASE Answered(h)
      BY <2>6, <1>a, AnsweredEffect
    <2>7. CASE Attach(h)
      BY <2>7, <1>a, AttachEffect
    <2>8. CASE AttachCommit(h)
      BY <2>8, AttachCommitEffect
    <2> QED
      BY <1>2, <2>1, <2>2, <2>3, <2>4, <2>5, <2>6, <2>7, <2>8 DEF RequestStep
  <1>3. RunnerStep \/ Deadline => req' = req
    BY PickEffect, MoveEffect, EndCommitEffect, DeadlineEffect DEF RunnerStep, Driven
  <1>4. \A k \in Handlers : Served(k)'
    BY <1>b, <1>1, <1>2, <1>3, RequestsServe, CrashEffect DEF Next, Serves
  <1>5. (tick.pc # "idle" => tick.goal \in Goals /\ goals[tick.goal].status # "none")'
    <2>1. tick.pc # "idle" => tick.goal \in Goals /\ goals[tick.goal].status # "none"
      BY DEF IInv, Serving
    <2>2. CASE tick' = tick
      BY <2>1, <2>2, NothingIsLost
    <2>3. CASE RunnerStep
      BY <2>1, <2>3, NothingIsLost, PickEffect, MoveEffect, EndCommitEffect DEF RunnerStep, Active
    <2> QED
      BY <2>2, <2>3, RequestsServe, DeadlineEffect, CrashEffect DEF Next, Serves
  <1>6. PlanIsUsable'
    <2>1. \A g \in Goals : goals[g].plan # 0 => goals[g].plan \in plans
      BY DEF IInv, Serving, PlanIsUsable
    <2>2. ASSUME NEW g \in Goals, goals'[g].plan = goals[g].plan
          PROVE  goals'[g].plan # 0 => goals'[g].plan \in plans'
      BY <2>1, <2>2, NothingIsLost
    <2>3. ASSUME NEW h \in Handlers, Request(h) PROVE goals' = goals
      BY <2>3, StartEffect, SayEffect, ConfirmEffect, PlanEffect DEF Request
    <2>4. ASSUME NEW h \in Handlers, RequestStep(h), NEW g \in Goals
          PROVE  goals'[g].plan = goals[g].plan \/ goals'[g].plan = 0 \/ goals'[g].plan \in plans
      BY ZenonT(40), <2>4, <1>a, CreateEffect, SaveEffect, SaveCommitEffect, ActivateEffect,
         ActivateCommitEffect, AnsweredEffect, AttachEffect, AttachCommitEffect
         DEF RequestStep, Writes
    <2>5. ASSUME RunnerStep \/ Deadline \/ Crash, NEW g \in Goals
          PROVE  goals'[g].plan = goals[g].plan
      BY <2>5, PickEffect, MoveEffect, EndCommitEffect, DeadlineEffect, CrashEffect
         DEF RunnerStep, Writes
    <2> QED
      BY <2>2, <2>3, <2>4, <2>5, NothingIsLost DEF Next, PlanIsUsable
  <1> QED
    BY <1>4, <1>5, <1>6 DEF Serving

\* Calls keep excluding each other.
LEMMA ExclusivePreserved ==
    ASSUME IInv, Next
    PROVE  Exclusive'
  <1>1. ASSUME NEW h \in Handlers, Request(h) \/ RequestStep(h) PROVE Exclusive'
    BY <1>1, RequestsServe, TurnExcludes DEF Serves, Exclusive, Has
  <1>2. CASE RunnerStep
    BY <1>2, PickEffect, MoveEffect, EndCommitEffect
       DEF RunnerStep, Driven, RunnerTurn, Exclusive, Has
  <1>3. CASE Deadline
    BY <1>3, DeadlineEffect DEF IInv, Exclusive, Driven, Has
  <1>4. CASE Crash
    BY <1>4, CrashEffect DEF Exclusive, InCall
  <1> QED
    BY <1>1, <1>2, <1>3, <1>4 DEF Next

\* What a call has read is still so when it writes.
LEMMA CurrentPreserved ==
    ASSUME IInv, Next
    PROVE  Current'
  <1> DEFINE Reads(k) ==
        /\ req[k].pc \in {"saving", "activating"} =>
              /\ goals[req[k].goal].status = "proposed"
              /\ req[k].got = goals[req[k].goal].terms
        /\ req[k].pc = "activating" => Complete(req[k].got)
        /\ req[k].pc = "attaching" => goals[req[k].goal].status # "ended"
  <1> SUFFICES ASSUME ~Has("calls"), world' = world
               PROVE  \A k \in Handlers : Reads(k)'
    BY RequestsServe, PickEffect, MoveEffect, EndCommitEffect, DeadlineEffect, CrashEffect
       DEF Next, RunnerStep, Serves, Driven, Current, Has
  <1>a. \A k \in Handlers : req'[k].pc \notin InCall => Reads(k)'
    BY DEF InCall
  <1>1. ASSUME NEW h \in Handlers, Request(h) \/ RequestStep(h), NEW k \in Handlers \ {h}
        PROVE  Reads(k)'
    BY <1>1, <1>a, RequestsServe, TurnExcludes DEF Serves
  <1>2. ASSUME NEW h \in Handlers, Request(h) PROVE Reads(h)'
    BY <1>2, StartEffect, SayEffect, ConfirmEffect, PlanEffect DEF Request
  <1>3. ASSUME NEW h \in Handlers, RequestStep(h) PROVE Reads(h)'
    <2>1. CASE Create(h)
      BY <2>1, CreateEffect
    <2>2. CASE Save(h)
      BY <2>2, SaveEffect
    <2>3. CASE SaveCommit(h)
      BY <2>3, SaveCommitEffect
    <2>4. CASE Activate(h)
      BY <2>4, ActivateEffect
    <2>5. CASE ActivateCommit(h)
      BY <2>5, ActivateCommitEffect
    <2>6. CASE Answered(h)
      BY <2>6, AnsweredEffect
    <2>7. CASE Attach(h)
      BY <2>7, AttachEffect
    <2>8. CASE AttachCommit(h)
      BY <2>8, AttachCommitEffect
    <2> QED
      BY <1>3, <2>1, <2>2, <2>3, <2>4, <2>5, <2>6, <2>7, <2>8 DEF RequestStep
  <1>4. ASSUME RunnerStep, NEW k \in Handlers PROVE Reads(k)'
    BY <1>4, <1>a, PickEffect, MoveEffect, EndCommitEffect DEF RunnerStep, RunnerTurn, Driven
  <1>5. ASSUME Deadline, NEW k \in Handlers PROVE Reads(k)'
    <2>1. Reads(k) /\ (req[k].pc \in InCall => req[k].goal \in Goals)
      BY DEF IInv, Current, Serving, InCall
    <2> QED
      BY <1>5, <2>1, <1>a, DeadlineEffect DEF Driven, Writes, Same
  <1>6. ASSUME Crash, NEW k \in Handlers PROVE Reads(k)'
    BY <1>6, CrashEffect
  <1> QED
    BY <1>1, <1>2, <1>3, <1>4, <1>5, <1>6 DEF Next

\* What may happen to a goal in one step, as long as calls do not interleave: the
\* moves of GoalLife.
Still(g) == goals'[g].status = goals[g].status /\ goals'[g].terms = goals[g].terms
            /\ goals'[g].frozen = goals[g].frozen
Proposed(g) == goals[g].status = "none" /\ goals'[g].status = "proposed" /\ goals'[g].frozen = 0
Reworded(g) == goals[g].status = "proposed" /\ Same(g)
IsConfirmed(g) ==
    /\ goals[g].status = "proposed" /\ Complete(goals[g].terms)
    /\ goals'[g].status = "active" /\ goals'[g].terms = goals[g].terms
    /\ goals'[g].frozen = Effective(goals[g].terms["limit"])
IsEnded(g) ==
    /\ goals[g].status = "active" /\ goals'[g].status = "ended"
    /\ goals'[g].terms = goals[g].terms /\ goals'[g].frozen = goals[g].frozen

LEMMA RowChanges ==
    ASSUME IInv, Next, ~Has("calls")
    PROVE  \/ \A g \in Goals : Still(g)
           \/ \E g \in Goals :
                 /\ Proposed(g) \/ Reworded(g) \/ IsConfirmed(g) \/ IsEnded(g)
                 /\ Writes(g)
  <1>1. ASSUME NEW h \in Handlers, Request(h) PROVE \A g \in Goals : Still(g)
    BY <1>1, StartEffect, SayEffect, ConfirmEffect, PlanEffect DEF Request, Still
  <1>2. ASSUME NEW h \in Handlers, Create(h) PROVE \E g \in Goals : Proposed(g) /\ Writes(g)
    BY <1>2, CreateEffect DEF Proposed
  <1>3. ASSUME NEW h \in Handlers, Save(h) \/ Activate(h) \/ Answered(h) \/ Attach(h)
        PROVE  \A g \in Goals : Still(g)
    BY <1>3, SaveEffect, ActivateEffect, AnsweredEffect, AttachEffect DEF Still
  <1>4. ASSUME NEW h \in Handlers, SaveCommit(h) PROVE \E g \in Goals : Reworded(g) /\ Writes(g)
    <2>1. goals[req[h].goal].status = "proposed"
      BY <1>4, SaveCommitEffect DEF IInv, Current
    <2> QED
      BY <1>4, <2>1, SaveCommitEffect DEF Reworded
  <1>5. ASSUME NEW h \in Handlers, ActivateCommit(h)
        PROVE  \E g \in Goals : IsConfirmed(g) /\ Writes(g)
    <2>1. /\ goals[req[h].goal].status = "proposed"
          /\ req[h].got = goals[req[h].goal].terms /\ Complete(req[h].got)
      BY <1>5, ActivateCommitEffect DEF IInv, Current
    <2> QED
      BY <1>5, <2>1, ActivateCommitEffect DEF IsConfirmed
  <1>6. ASSUME NEW h \in Handlers, AttachCommit(h) PROVE \A g \in Goals : Still(g)
    BY <1>6, AttachCommitEffect DEF Still, Writes, Same
  <1>7. CASE Pick \/ Judge \/ End
    BY <1>7, PickEffect, MoveEffect DEF Still
  <1>8. CASE EndCommit
    <2>1. goals[tick.goal].status = "active"
      BY <1>8, EndCommitEffect DEF IInv, Confirmed, TickOnFrozenTerms
    <2> QED
      BY <1>8, <2>1, EndCommitEffect DEF IsEnded
  <1>9. CASE Deadline
    BY <1>9, DeadlineEffect DEF Still, Writes, Same
  <1>10. CASE Crash
    BY <1>10, CrashEffect DEF Still
  <1> QED
    BY <1>1, <1>2, <1>3, <1>4, <1>5, <1>6, <1>7, <1>8, <1>9, <1>10
       DEF Next, RequestStep, RunnerStep

\* The world stays what it is.
LEMMA WorldStays ==
    ASSUME IInv, Next
    PROVE  world' = world
  BY RequestsServe, PickEffect, MoveEffect, EndCommitEffect, DeadlineEffect, CrashEffect
     DEF Next, RunnerStep, Serves, Driven

\* Limits stay those of the confirmation, and the tick keeps the right ones.
LEMMA ConfirmedPreserved ==
    ASSUME IInv, Next
    PROVE  Confirmed'
  <1> SUFFICES ASSUME ~Has("calls")
               PROVE  Confirmed'
    BY WorldStays DEF Confirmed, FrozenAsConfirmed, TickOnFrozenTerms, Has
  <1> DEFINE Kept(g) ==
        /\ goals[g].status = "active" =>
              Complete(goals[g].terms) /\ goals[g].frozen = Effective(goals[g].terms["limit"])
        /\ goals[g].status \in {"none", "proposed"} => goals[g].frozen = 0
  <1>1. ASSUME NEW g \in Goals PROVE Kept(g)'
    <2>1. Kept(g)
      BY DEF IInv, Confirmed, FrozenAsConfirmed, Active
    <2>2. goals'[g] = goals[g] \/ Still(g) => Kept(g)'
      BY <2>1 DEF Still
    <2>3. Proposed(g) \/ Reworded(g) \/ IsConfirmed(g) \/ IsEnded(g) => Kept(g)'
      BY <2>1 DEF Proposed, Reworded, Same, IsConfirmed, IsEnded
    <2> QED
      BY <2>2, <2>3, RowChanges DEF Writes
  <1>2. TickOnFrozenTerms'
    <2> DEFINE Sound == tick.pc # "idle" =>
                 /\ goals[tick.goal].status = "active"
                 /\ tick.frozen = goals[tick.goal].frozen
    <2>1. Sound /\ (tick.pc # "idle" => tick.goal \in Goals)
      BY DEF IInv, Confirmed, TickOnFrozenTerms, Serving
    <2>2. CASE tick' = tick /\ ~EndCommit
      <3>1. ASSUME NEW g \in Goals, goals[g].status = "active"
            PROVE  goals'[g].status = "active" /\ goals'[g].frozen = goals[g].frozen
        <4>1. goals'[g] = goals[g] \/ Still(g) \/ IsEnded(g)
          BY <3>1, RowChanges DEF Writes, Proposed, Reworded, IsConfirmed
        <4>2. ~IsEnded(g)
          <5>1. ASSUME NEW h \in Handlers, Request(h) PROVE ~IsEnded(g)
            BY <5>1, StartEffect, SayEffect, ConfirmEffect, PlanEffect DEF Request, IsEnded
          <5>2. ASSUME NEW h \in Handlers, Create(h) PROVE ~IsEnded(g)
            BY <5>2, CreateEffect DEF Writes, IsEnded
          <5>3. ASSUME NEW h \in Handlers, Save(h) \/ Activate(h) \/ Answered(h) \/ Attach(h)
                PROVE  ~IsEnded(g)
            BY <5>3, SaveEffect, ActivateEffect, AnsweredEffect, AttachEffect DEF IsEnded
          <5>4. ASSUME NEW h \in Handlers, SaveCommit(h) \/ ActivateCommit(h) \/ AttachCommit(h)
                PROVE  ~IsEnded(g)
            BY ZenonT(40), <5>4, SaveCommitEffect, ActivateCommitEffect, AttachCommitEffect
               DEF Writes, Same, IsEnded
          <5>5. CASE Pick \/ Judge \/ End \/ Crash
            BY <5>5, PickEffect, MoveEffect, CrashEffect DEF IsEnded
          <5>6. CASE Deadline
            BY <5>6, DeadlineEffect DEF Writes, Same, IsEnded
          <5> QED
            BY <2>2, <5>1, <5>2, <5>3, <5>4, <5>5, <5>6 DEF Next, RequestStep, RunnerStep
        <4> QED
          BY <3>1, <4>1, <4>2 DEF Still
      <3> QED
        BY <2>1, <2>2, <3>1 DEF TickOnFrozenTerms
    <2>3. CASE RunnerStep
      BY <2>1, <2>3, PickEffect, MoveEffect, EndCommitEffect
         DEF RunnerStep, Active, TickOnFrozenTerms
    <2>4. CASE Crash
      BY <2>4, CrashEffect DEF TickOnFrozenTerms
    <2> QED
      BY <2>2, <2>3, <2>4, RequestsServe, DeadlineEffect, EndCommitEffect
         DEF Next, Serves, RunnerStep
  <1> QED
    BY <1>1, <1>2 DEF Confirmed, FrozenAsConfirmed, Active

\* The rows that are not there yet are blank.
LEMMA NumberedPreserved ==
    ASSUME IInv, Next
    PROVE  Numbered'
  <1>1. ASSUME NEW g \in Goals, goals'[g].status = "none" PROVE goals'[g] = goals[g]
    <2>1. goals[g].status = "none"
      BY <1>1, NothingIsLost
    <2>2. ASSUME NEW h \in Handlers, Request(h) PROVE goals' = goals
      BY <2>2, StartEffect, SayEffect, ConfirmEffect, PlanEffect DEF Request
    <2>3. ASSUME NEW h \in Handlers, Create(h) PROVE goals'[g] = goals[g]
      BY <1>1, <2>3, CreateEffect DEF Writes
    <2>4. ASSUME NEW h \in Handlers, Save(h) \/ Activate(h) \/ Answered(h) \/ Attach(h)
          PROVE  goals' = goals
      BY <2>4, SaveEffect, ActivateEffect, AnsweredEffect, AttachEffect
    <2>5. ASSUME NEW h \in Handlers, SaveCommit(h) \/ ActivateCommit(h) \/ AttachCommit(h)
          PROVE  goals'[g] = goals[g]
      <3>1. goals[req[h].goal].status # "none" /\ Writes(req[h].goal)
        BY <2>5, SaveCommitEffect, ActivateCommitEffect, AttachCommitEffect DEF IInv, Serving
      <3> QED
        BY <2>1, <3>1 DEF Writes
    <2>6. CASE RunnerStep
      <3>1. tick.pc # "idle" => goals[tick.goal].status # "none"
        BY DEF IInv, Serving
      <3> QED
        BY <2>1, <2>6, <3>1, PickEffect, MoveEffect, EndCommitEffect DEF RunnerStep, Writes
    <2>7. CASE Deadline
      BY <2>1, <2>7, DeadlineEffect DEF Writes
    <2>8. CASE Crash
      BY <2>8, CrashEffect
    <2> QED
      BY <2>2, <2>3, <2>4, <2>5, <2>6, <2>7, <2>8 DEF Next, RequestStep
  <1> QED
    BY <1>1 DEF IInv, Numbered

\* Requests that are served one at a time open one goal at a time and reword what
\* they have read.
LEMMA SinglePreserved ==
    ASSUME IInv, Next
    PROVE  Single'
  <1> SUFFICES ASSUME world \cap {"requests", "calls"} = {}
               PROVE  Single'
    BY WorldStays DEF Single
  <1> DEFINE Ready(k) ==
        /\ req[k].pc = "create" => Open = {}
        /\ req[k].pc \in {"save", "saving"} =>
              req[k].draft = Revise(goals[req[k].goal].terms, req[k].words)
  <1>a. /\ \A k \in Handlers : Ready(k)
        /\ \A h, k \in Handlers : req[h].pc \in InRequest /\ req[k].pc \in InRequest => h = k
        /\ \A g, k \in Open : g = k
    BY DEF IInv, Single
  <1>b. \A k \in Handlers : req'[k].pc \notin InRequest => Ready(k)'
    BY DEF InRequest, InCall
  <1>c. Open' \subseteq Open => \A g, k \in Open' : g = k
    BY <1>a
  <1>1. ASSUME NEW h \in Handlers, Request(h) \/ RequestStep(h)
        PROVE  /\ \A k \in Handlers \ {h} : Ready(k)'
               /\ \A i, k \in Handlers : req'[i].pc \in InRequest /\ req'[k].pc \in InRequest => i = k
    <2>1. \A k \in Handlers \ {h} : req'[k].pc \notin InRequest
      BY <1>1, RequestsServe, TurnExcludes DEF Serves
    <2> QED
      BY <2>1, <1>b
  <1>2. ASSUME NEW h \in Handlers, Request(h) PROVE Ready(h)' /\ Open' = Open
    <2>1. CASE Start(h)
      BY <2>1, StartEffect DEF Open
    <2>2. CASE Say(h)
      BY <2>2, SayEffect DEF Open
    <2>3. CASE Confirm(h) \/ Plan(h)
      BY <2>3, ConfirmEffect, PlanEffect DEF Open
    <2> QED
      BY <1>2, <2>1, <2>2, <2>3 DEF Request
  <1>3. ASSUME NEW h \in Handlers, Create(h)
        PROVE  Ready(h)' /\ \A g, k \in Open' : g = k
    <2>1. Open = {}
      BY <1>3, <1>a, CreateEffect
    <2>2. PICK n \in Goals : Writes(n)
      BY <1>3, CreateEffect
    <2>3. Open' \subseteq {n}
      BY <2>1, <2>2 DEF Open, Writes
    <2> QED
      BY <1>3, <2>3, CreateEffect
  <1>4. ASSUME NEW h \in Handlers, Save(h) PROVE Ready(h)' /\ Open' = Open
    BY <1>4, <1>a, SaveEffect DEF Open
  <1>5. ASSUME NEW h \in Handlers, Activate(h) \/ Answered(h) \/ Attach(h)
        PROVE  Ready(h)' /\ Open' = Open
    BY <1>5, ActivateEffect, AnsweredEffect, AttachEffect DEF Open
  <1>6. ASSUME NEW h \in Handlers, SaveCommit(h) \/ AttachCommit(h)
        PROVE  Ready(h)' /\ Open' = Open
    <2>1. \A g \in Goals : goals'[g].status = goals[g].status
      BY <1>6, SaveCommitEffect, AttachCommitEffect DEF Writes, Same
    <2>2. req'[h].pc = "idle"
      BY <1>6, SaveCommitEffect, AttachCommitEffect
    <2> QED
      BY <2>1, <2>2 DEF Open
  <1>7. ASSUME NEW h \in Handlers, ActivateCommit(h)
        PROVE  Ready(h)' /\ Open' \subseteq Open
    <2>1. goals[req[h].goal].status = "proposed"
      BY <1>7, ActivateCommitEffect DEF IInv, Current, Has
    <2> QED
      BY <1>7, <2>1, ActivateCommitEffect DEF Open, Writes
  <1>8. ASSUME RunnerStep \/ Deadline PROVE Open' \subseteq Open /\ \A k \in Handlers : Ready(k)'
    <2>1. /\ req' = req /\ \A g \in Goals : goals'[g].terms = goals[g].terms
          /\ Open' \subseteq Open
      BY <1>8, PickEffect, MoveEffect, EndCommitEffect, DeadlineEffect
         DEF RunnerStep, Driven, Writes, Same, Open
    <2>2. ASSUME NEW k \in Handlers, req[k].pc \in {"save", "saving"} PROVE req[k].goal \in Goals
      BY <2>2 DEF IInv, Serving
    <2> QED
      BY <1>a, <2>1, <2>2
  <1>9. CASE Crash
    BY <1>9, <1>c, CrashEffect DEF Single, InRequest, InCall, Open
  <1>10. CASE RunnerStep \/ Deadline
    <2>1. req' = req
      BY <1>10, PickEffect, MoveEffect, EndCommitEffect, DeadlineEffect DEF RunnerStep, Driven
    <2> QED
      BY <1>10, <1>8, <1>a, <1>c, <2>1 DEF Single
  <1>11. ASSUME NEW h \in Handlers, Request(h) \/ RequestStep(h) PROVE Single'
    <2>1. Ready(h)' /\ \A g, k \in Open' : g = k
      BY <1>11, <1>c, <1>2, <1>3, <1>4, <1>5, <1>6, <1>7 DEF RequestStep
    <2> QED
      BY <1>1, <1>11, <2>1 DEF Single
  <1> QED
    BY <1>9, <1>10, <1>11 DEF Next

-----------------------------------------------------------------------------
LEMMA InitEstablishesIInv == Init => IInv
  <1> SUFFICES ASSUME Init PROVE IInv
    OBVIOUS
  <1>1. TypeOK
    <2>1. NoGoal \in Rows /\ NoRequest \in Requests
      BY BlankType, IdleRequest DEF NoGoal, Rows
    <2>2. \A g \in Goals : goals[g].status = "none" /\ g > 0
      BY DEF Init, NoGoal, Goals
    <2> QED
      BY <2>1, <2>2, BoundsAssumption DEF Init, TypeOK, NoTick
  <1>2. /\ \A g \in Goals : goals[g].status = "none" /\ goals[g].frozen = 0 /\ goals[g].plan = 0
        /\ \A h \in Handlers : req[h].pc = "idle"
        /\ tick.pc = "idle"
    BY DEF Init, NoGoal, NoRequest, NoTick
  <1>3. Serving /\ Exclusive /\ Current
    BY <1>2 DEF Serving, PlanIsUsable, Exclusive, Current, InCall
  <1>4. Confirmed /\ Single
    BY <1>2 DEF Confirmed, FrozenAsConfirmed, TickOnFrozenTerms, Single, Active, Open,
       InRequest, InCall
  <1>5. Numbered
    BY DEF Init, Numbered
  <1> QED
    BY <1>1, <1>3, <1>4, <1>5 DEF IInv

LEMMA StutterKeepsIInv ==
    ASSUME IInv, UNCHANGED vars
    PROVE  IInv'
  BY DEF IInv, TypeOK, Serving, PlanIsUsable, Exclusive, Current, Confirmed, FrozenAsConfirmed,
     TickOnFrozenTerms, Single, Numbered, Has, Open, Active, vars, tables

\* The inductive invariant holds in every reachable state.
THEOREM IInvHolds == Spec => []IInv
  <1>1. IInv /\ [Next]_vars => IInv'
    BY TypeOKPreserved, ServingPreserved, ExclusivePreserved, CurrentPreserved,
       ConfirmedPreserved, SinglePreserved, NumberedPreserved, StutterKeepsIInv
       DEF IInv
  <1> QED
    BY <1>1, InitEstablishesIInv, PTL DEF Spec

\* The state is always well typed, and a row exists iff it has been created.
THEOREM TypeCorrect == Spec => []TypeOK
  BY IInvHolds, PTL DEF IInv

\* The goal in force has complete terms and the tighter of its own and the
\* settings' limit (activate, effective_drawdown_limit).
THEOREM LimitsAreFrozen == Spec => []FrozenAsConfirmed
  BY IInvHolds, PTL DEF IInv, Confirmed

\* A tick drives a goal that is in force, on the limits it was confirmed with.
THEOREM TicksSeeFrozenTerms == Spec => []TickOnFrozenTerms
  BY IInvHolds, PTL DEF IInv, Confirmed

\* Only a plan that could be parsed hangs on a goal (Dialogue.plan).
THEOREM PlansAreUsable == Spec => []PlanIsUsable
  BY IInvHolds, PTL DEF IInv, Serving

\* Requests that do not interleave keep to one open goal (Dialogue.start).
THEOREM OneGoal == Spec => []OneGoalAtATime
  <1>1. IInv => OneGoalAtATime
    <2> SUFFICES ASSUME IInv, world \cap {"requests", "calls"} = {}
                 PROVE  Cardinality(Open) <= 1
      BY DEF OneGoalAtATime, AtMostOneOpen
    <2>1. \A g, k \in Open : g = k
      BY DEF IInv, Single
    <2>2. CASE Open = {}
      BY <2>2, FS_EmptySet
    <2>3. CASE Open # {}
      <3>1. PICK g : Open = {g}
        BY <2>1, <2>3
      <3> QED
        BY <3>1, FS_Singleton
    <2> QED
      BY <2>2, <2>3
  <1> QED
    BY <1>1, IInvHolds, PTL

\* Confirmed terms and limits stand, whatever is under way (save_draft, activate).
THEOREM TermsStand == Spec => TermsAreKept
  <1>1. IInv /\ [Next]_vars =>
          [ ~Has("calls") =>
              \A g \in Goals : goals[g].status \in {"active", "ended"} =>
                goals'[g].terms = goals[g].terms /\ goals'[g].frozen = goals[g].frozen ]_vars
    BY RowChanges DEF Writes, Still, Proposed, Reworded, IsConfirmed, IsEnded
  <1> QED
    BY <1>1, IInvHolds, PTL DEF Spec, TermsAreKept

\* An ended goal is not revived and gets no late plan (activate, attach_plan).
THEOREM EndingsStand == Spec => EndedIsFinal
  <1>1. ASSUME IInv, Next, ~Has("calls"), NEW g \in Goals, goals[g].status = "ended"
        PROVE  goals'[g] = goals[g]
    <2>1. ASSUME NEW h \in Handlers, Request(h) PROVE goals' = goals
      BY <1>1, <2>1, StartEffect, SayEffect, ConfirmEffect, PlanEffect DEF Request
    <2>2. ASSUME NEW h \in Handlers, Create(h) PROVE goals'[g] = goals[g]
      BY <1>1, <2>2, CreateEffect DEF Writes
    <2>3. ASSUME NEW h \in Handlers, Save(h) \/ Activate(h) \/ Answered(h) \/ Attach(h)
          PROVE  goals' = goals
      BY <1>1, <2>3, SaveEffect, ActivateEffect, AnsweredEffect, AttachEffect
    <2>4. ASSUME NEW h \in Handlers, SaveCommit(h) \/ ActivateCommit(h) \/ AttachCommit(h)
          PROVE  goals'[g] = goals[g]
      <3>1. goals[req[h].goal].status # "ended" /\ Writes(req[h].goal)
        BY <1>1, <2>4, SaveCommitEffect, ActivateCommitEffect, AttachCommitEffect
           DEF IInv, Current
      <3> QED
        BY <1>1, <3>1 DEF Writes
    <2>5. CASE RunnerStep
      <3>1. tick.pc # "idle" => goals[tick.goal].status = "active"
        BY <1>1 DEF IInv, Confirmed, TickOnFrozenTerms
      <3> QED
        BY <1>1, <2>5, <3>1, PickEffect, MoveEffect, EndCommitEffect DEF RunnerStep, Writes
    <2>6. CASE Deadline
      BY <1>1, <2>6, DeadlineEffect DEF Writes
    <2>7. CASE Crash
      BY <1>1, <2>7, CrashEffect
    <2> QED
      BY <1>1, <2>1, <2>2, <2>3, <2>4, <2>5, <2>6, <2>7 DEF Next, RequestStep
  <1>2. IInv /\ [Next]_vars =>
          [ ~Has("calls") =>
              \A g \in Goals : goals[g].status = "ended" => goals'[g] = goals[g] ]_vars
    BY <1>1
  <1> QED
    BY <1>2, IInvHolds, PTL DEF Spec, EndedIsFinal

\* A sentence touches only what it mentions (GoalDraft.revise, Dialogue.say).
THEOREM SentencesOnlyAdd == Spec => WordsOnlyAdd
  <1>1. ASSUME IInv, Next, world \cap {"requests", "calls"} = {},
               NEW g \in Goals, NEW d \in Dims, goals[g].status # "none",
               goals'[g].terms[d] # goals[g].terms[d]
        PROVE  Mentions(g, d, goals'[g].terms[d])
    <2>1. ASSUME NEW h \in Handlers, SaveCommit(h)
          PROVE  Mentions(g, d, goals'[g].terms[d])
      <3>1. /\ req[h].pc = "saving" /\ req[h].goal \in Goals /\ Writes(req[h].goal)
            /\ goals'[req[h].goal].terms =
                 [e \in Dims |-> IF req[h].draft[e] # req[h].got[e]
                                 THEN req[h].draft[e] ELSE goals[req[h].goal].terms[e]]
        BY <1>1, <2>1, SaveCommitEffect
      <3>2. req[h].goal = g
        BY <1>1, <3>1 DEF Writes
      <3>3. goals'[g].terms[d] = req[h].draft[d]
        BY <1>1, <3>1, <3>2
      <3>4. req[h].draft = Revise(goals[g].terms, req[h].words)
        BY <1>1, <3>1, <3>2 DEF IInv, Single
      <3>5. req[h].draft[d] = IF req[h].words[d] = Unsaid THEN goals[g].terms[d]
                              ELSE req[h].words[d]
        BY <3>4 DEF Revise
      <3> QED
        BY <1>1, <3>1, <3>2, <3>3, <3>5 DEF Mentions
    <2>2. ASSUME NEW h \in Handlers, Request(h) PROVE FALSE
      BY <1>1, <2>2, StartEffect, SayEffect, ConfirmEffect, PlanEffect DEF Request
    <2>3. ASSUME NEW h \in Handlers, Create(h) PROVE FALSE
      BY <1>1, <2>3, CreateEffect DEF Writes
    <2>4. ASSUME NEW h \in Handlers, Save(h) \/ Activate(h) \/ Answered(h) \/ Attach(h)
          PROVE  FALSE
      BY <1>1, <2>4, SaveEffect, ActivateEffect, AnsweredEffect, AttachEffect
    <2>5. ASSUME NEW h \in Handlers, ActivateCommit(h) \/ AttachCommit(h) PROVE FALSE
      BY <1>1, <2>5, ActivateCommitEffect, AttachCommitEffect DEF Writes
    <2>6. CASE RunnerStep \/ Deadline \/ Crash
      BY <1>1, <2>6, PickEffect, MoveEffect, EndCommitEffect, DeadlineEffect, CrashEffect
         DEF RunnerStep, Writes
    <2> QED
      BY <1>1, <2>1, <2>2, <2>3, <2>4, <2>5, <2>6 DEF Next, RequestStep
  <1>2. IInv /\ [Next]_vars =>
          [ world \cap {"requests", "calls"} = {} =>
              \A g \in Goals, d \in Dims :
                goals[g].status # "none" /\ goals'[g].terms[d] # goals[g].terms[d] =>
                  Mentions(g, d, goals'[g].terms[d]) ]_vars
    BY <1>1
  <1> QED
    BY <1>2, IInvHolds, PTL DEF Spec, WordsOnlyAdd

-----------------------------------------------------------------------------
\* The lives of the goals, as GoalLife sees them.
TheLife == [g \in Goals |-> Lived(g)]

\* A move of a goal is a move of its life.
LEMMA LivesMove ==
    ASSUME IInv, TypeOK', Next, ~Has("calls"), NEW g \in Goals, Writes(g),
           Proposed(g) \/ Reworded(g) \/ IsConfirmed(g) \/ IsEnded(g)
    PROVE  Lives!Next
  <1> DEFINE Row(r) == [status |-> r.status, terms |-> r.terms, frozen |-> r.frozen]
  <1>1. world' = world
    BY WorldStays
  <1>2. \A k \in Goals : Lived(k) = Row(goals[k]) /\ Lived(k)' = Row(goals'[k])
    BY <1>1 DEF Lived, Has
  <1>3. \A k \in Goals \ {g} : Lived(k)' = Lived(k)
    BY <1>2 DEF Writes
  <1>b. TheLife' = [TheLife EXCEPT ![g] = Lived(g)']
    BY <1>3 DEF TheLife
  <1>4. goals'[g].terms \in Terms
    BY DEF TypeOK, Rows
  <1>5. Terms = Lives!Terms
    BY DEF Terms, Lives!Terms, Unsaid, Lives!Unsaid
  <1>6. CASE Proposed(g)
    <2>1. Lived(g)' = [status |-> "proposed", terms |-> goals'[g].terms, frozen |-> 0]
      BY <1>2, <1>6 DEF Proposed
    <2>2. TheLife[g].status = "none"
      BY <1>2, <1>6 DEF Proposed, TheLife
    <2>3. Lives!Propose(g)
      BY <1>4, <1>5, <1>b, <2>1, <2>2 DEF Lives!Propose, TheLife
    <2> QED
      BY <2>3 DEF Lives!Next
  <1>7. CASE Reworded(g)
    <2>1. TheLife' = [TheLife EXCEPT ![g].terms = goals'[g].terms]
      <3>1. Lived(g)' = [Lived(g) EXCEPT !.terms = goals'[g].terms]
        BY <1>2, <1>7 DEF Reworded, Same
      <3> QED
        BY <1>b, <3>1 DEF TheLife
    <2>2. TheLife[g].status = "proposed"
      BY <1>2, <1>7 DEF Reworded, TheLife
    <2> QED
      BY <1>4, <1>5, <2>1, <2>2 DEF Lives!Next, Lives!Reword, TheLife
  <1>8. CASE IsConfirmed(g)
    <2>1. Lived(g)' = [status |-> "active", terms |-> goals[g].terms,
                       frozen |-> Effective(goals[g].terms["limit"])]
      BY <1>2, <1>8 DEF IsConfirmed
    <2>2. TheLife[g].status = "proposed" /\ TheLife[g].terms = goals[g].terms
      BY <1>2, <1>8 DEF IsConfirmed, TheLife
    <2>3. Lives!Complete(goals[g].terms)
      BY <1>8 DEF IsConfirmed, Lives!Complete, Complete, Lives!Unsaid, Unsaid
    <2>4. Effective(goals[g].terms["limit"]) = Lives!Effective(goals[g].terms["limit"])
      BY DEF Lives!Effective, Effective
    <2>5. Lives!Confirm(g)
      BY <1>b, <2>1, <2>2, <2>3, <2>4 DEF Lives!Confirm, TheLife
    <2> QED
      BY <2>5 DEF Lives!Next
  <1>9. CASE IsEnded(g)
    <2>1. TheLife' = [TheLife EXCEPT ![g].status = "ended"]
      <3>1. Lived(g)' = [Lived(g) EXCEPT !.status = "ended"]
        BY <1>2, <1>9 DEF IsEnded
      <3> QED
        BY <1>b, <3>1 DEF TheLife
    <2>2. TheLife[g].status = "active"
      BY <1>2, <1>9 DEF IsEnded, TheLife
    <2> QED
      BY <2>1, <2>2 DEF Lives!Next, Lives!End, TheLife
  <1> QED
    BY <1>6, <1>7, <1>8, <1>9

\* The goals implement GoalLife.
THEOREM GoalsKeepThePromise == Spec => GoalsLive
  <1>1. Init => Lives!Init
    BY DEF Init, Lives!Init, Lives!Unborn, Lived, NoGoal, Blank, Unsaid, Lives!Unsaid
  <1>2. ASSUME IInv, IInv', Next PROVE Lives!Next \/ UNCHANGED TheLife
    <2>1. CASE Has("calls")
      BY <1>2, <2>1, WorldStays DEF TheLife, Lived, Has
    <2>2. CASE ~Has("calls") /\ \A g \in Goals : Still(g)
      BY <1>2, <2>2, WorldStays DEF TheLife, Lived, Has, Still
    <2>3. CASE ~Has("calls") /\ ~\A g \in Goals : Still(g)
      BY <1>2, <2>3, RowChanges, LivesMove DEF IInv
    <2> QED
      BY <2>1, <2>2, <2>3
  <1>3. UNCHANGED vars => UNCHANGED TheLife
    BY DEF vars, tables, TheLife, Lived, Has
  <1>4. IInv /\ IInv' /\ [Next]_vars => [Lives!Next]_TheLife
    BY <1>2, <1>3
  <1> QED
    BY <1>1, <1>4, IInvHolds, PTL DEF Spec, GoalsLive, Lives!Spec, TheLife

-----------------------------------------------------------------------------
(***************************************************************************)
(* A goal whose time is up comes to its end.                               *)
(***************************************************************************)
\* The goal the runner picks, when its deadline has passed; and how many steps of the
\* runner end it, some of which a goal may take that was picked before it.
Overdue(g) ==
    goals[g].status = "active" /\ goals[g].due /\ \A k \in Active : k <= g
Wait(g) ==
    IF tick.pc = "idle" THEN 3
    ELSE (IF tick.goal = g THEN 0 ELSE 4)
         + CASE tick.pc = "judge" -> 2 [] tick.pc = "end" -> 1 [] tick.pc = "ending" -> 0

\* Every step of the runner ends that goal or brings its end nearer, and nothing takes
\* it back but a restart, or a confirmation, after which a later goal is driven first.
\* What remains open in GoalsEnd is that the runner ticks and that deadlines pass.
Hastens ==
    \A g \in Goals :
        Overdue(g) =>
            \/ goals'[g].status = "ended"
            \/ crashes' > crashes
            \/ \E h \in Handlers : ActivateCommit(h)
            \/ /\ Overdue(g)'
               /\ Wait(g)' <= Wait(g)
               /\ RunnerStep => Wait(g)' < Wait(g)
EndingsAdvance == [][Hastens]_vars

LEMMA WaitType ==
    ASSUME TypeOK, NEW g \in Goals
    PROVE  Wait(g) \in 0..6 /\ (tick.pc \in {"judge", "end", "ending"} /\ tick.goal # g => Wait(g) > 3)
  <1>1. tick.pc \in {"idle", "judge", "end", "ending"}
    BY DEF TypeOK
  <1> QED
    BY <1>1 DEF Wait

\* What a step that confirms nothing leaves of the goals that are active.
Lasts(g) == goals'[g].status = goals[g].status /\ goals'[g].due = goals[g].due
NoneConfirmed == \A g \in Goals : goals'[g].status = "active" => goals[g].status = "active"
LEMMA RequestsLeave ==
    ASSUME IInv, NEW h \in Handlers, Request(h) \/ RequestStep(h), ~ActivateCommit(h)
    PROVE  /\ tick' = tick /\ NoneConfirmed
           /\ \A g \in Goals : goals[g].status = "active" => Lasts(g)
  <1>1. tick' = tick
    BY DEF Request, Start, Say, Confirm, Plan, Arrive, RequestStep, Create, Save, SaveCommit,
           Activate, Answered, Attach, AttachCommit, Elsewhere
  <1>2. CASE goals' = goals
    BY <1>1, <1>2 DEF NoneConfirmed, Lasts
  <1>3. CASE Create(h)
    BY <1>1, <1>3, CreateEffect DEF NoneConfirmed, Lasts, Writes
  <1>4. CASE SaveCommit(h) \/ AttachCommit(h)
    <2>1. PICK k \in Goals : /\ goals[k] \in Rows
                             /\ \/ \E terms : goals' = [goals EXCEPT ![k].terms = terms]
                                \/ \E plan : goals' = [goals EXCEPT ![k].plan = plan]
      <3>1. req[h].goal \in Goals /\ goals[req[h].goal] \in Rows
        BY <1>4, SaveCommitEffect, AttachCommitEffect DEF IInv, TypeOK
      <3>2. CASE SaveCommit(h)
        BY <3>1, <3>2 DEF SaveCommit, IInv, TypeOK
      <3>3. CASE AttachCommit(h)
        BY <3>1, <3>3 DEF AttachCommit
      <3> QED
        BY <1>4, <3>2, <3>3
    <2>2. \A g \in Goals : Lasts(g)
      BY <2>1 DEF IInv, TypeOK, Rows, Lasts
    <2> QED
      BY <1>1, <2>2 DEF NoneConfirmed, Lasts
  <1>5. goals' = goals \/ Create(h) \/ SaveCommit(h) \/ AttachCommit(h)
    BY StartEffect, SayEffect, ConfirmEffect, PlanEffect, SaveEffect, ActivateEffect,
       AnsweredEffect, AttachEffect DEF Request, RequestStep
  <1> QED
    BY <1>2, <1>3, <1>4, <1>5

\* A goal that lasts while no other is confirmed is still the one the runner picks.
LEMMA StillOverdue ==
    ASSUME NEW g \in Goals, Overdue(g), Lasts(g), NoneConfirmed
    PROVE  Overdue(g)'
  BY DEF Overdue, Lasts, NoneConfirmed, Active

\* A step of the runner.
LEMMA RunnerHastens ==
    ASSUME IInv, NEW g \in Goals, Overdue(g), RunnerStep
    PROVE  \/ goals'[g].status = "ended"
           \/ Overdue(g)' /\ Wait(g)' < Wait(g)
  <1>1. Wait(g) \in 0..6 /\ (tick.pc \in {"judge", "end", "ending"} /\ tick.goal # g => Wait(g) > 3)
    BY WaitType DEF IInv
  <1>2. ASSUME goals' = goals PROVE Overdue(g)'
    BY <1>2, StillOverdue DEF Lasts, NoneConfirmed
  <1>3. CASE Pick
    <2>1. PICK k \in Active : (\A j \in Active : j <= k) /\ tick' = [pc |-> "judge", goal |-> k,
                                                                     frozen |-> goals[k].frozen]
      BY <1>3 DEF Pick
    <2>2. g \in Active /\ g \in Nat /\ k \in Nat /\ k <= g /\ g <= k
      BY <2>1, BoundsAssumption DEF Overdue, Active, Goals
    <2>3. tick'.pc = "judge" /\ tick'.goal = g
      BY <2>1, <2>2
    <2>4. tick.pc = "idle" /\ goals' = goals
      BY <1>3 DEF Pick
    <2> QED
      BY <1>2, <2>3, <2>4 DEF Wait
  <1>4. CASE Judge
    <2>1. tick.pc = "judge" /\ goals' = goals
      BY <1>4 DEF Judge
    <2>2. tick' = NoTick => tick.goal # g
      BY <1>4 DEF Judge, Overdue, NoTick
    <2>3. CASE tick' = NoTick
      BY <1>1, <1>2, <2>1, <2>2, <2>3 DEF Wait, NoTick
    <2>4. CASE tick' = [tick EXCEPT !.pc = "end"]
      <3>1. tick'.pc = "end" /\ tick'.goal = tick.goal
        BY <2>4 DEF IInv, TypeOK
      <3> QED
        BY <1>2, <2>1, <3>1 DEF Wait
    <2> QED
      BY <1>4, <2>3, <2>4 DEF Judge
  <1>5. CASE End
    <2>1. tick.pc = "end" /\ goals' = goals
      BY <1>5 DEF End
    <2>2. CASE goals[tick.goal].status = "active"
      <3>1. tick'.pc = "ending" /\ tick'.goal = tick.goal
        BY <1>5, <2>2 DEF End, IInv, TypeOK
      <3> QED
        BY <1>2, <2>1, <3>1 DEF Wait
    <2>3. CASE goals[tick.goal].status # "active"
      <3>1. tick' = NoTick /\ tick.goal # g
        BY <1>5, <2>3 DEF End, Overdue
      <3> QED
        BY <1>1, <1>2, <2>1, <3>1 DEF Wait, NoTick
    <2> QED
      BY <2>2, <2>3
  <1>6. CASE EndCommit
    <2>1. CASE tick.goal = g
      BY <1>6, <2>1, EndCommitEffect
    <2>2. CASE tick.goal # g
      <3>1. Lasts(g) /\ NoneConfirmed
        BY <1>6, <2>2, EndCommitEffect DEF Lasts, NoneConfirmed, Writes
      <3>2. Overdue(g)'
        BY <3>1, StillOverdue
      <3>3. tick.pc = "ending" /\ tick'.pc = "idle"
        BY <1>6, EndCommitEffect
      <3> QED
        BY <1>1, <2>2, <3>2, <3>3 DEF Wait
    <2> QED
      BY <2>1, <2>2
  <1> QED
    BY <1>3, <1>4, <1>5, <1>6 DEF RunnerStep

\* The goal the runner picks gets nearer to its end with every step of the runner once
\* its deadline has passed, for any number of goals and requests, however requests
\* and calls interleave: no request can put the end off but by confirming a goal.
THEOREM EndingsNear == Spec => EndingsAdvance
  <1>1. ASSUME IInv, IInv', [Next]_vars PROVE Hastens
    <2>1. SUFFICES ASSUME NEW g \in Goals, Overdue(g), ~(goals'[g].status = "ended"),
                          ~(crashes' > crashes), ~ \E h \in Handlers : ActivateCommit(h)
                   PROVE  /\ Overdue(g)' /\ Wait(g)' <= Wait(g)
                          /\ RunnerStep => Wait(g)' < Wait(g)
      BY DEF Hastens
    <2>2. Wait(g) \in Int /\ Wait(g)' \in Int
      <3>1. Wait(g) \in Int
        BY <1>1, WaitType DEF IInv
      <3>2. tick'.pc \in {"idle", "judge", "end", "ending"}
        BY <1>1 DEF IInv, TypeOK
      <3>3. Wait(g)' \in Int
        BY <3>2 DEF Wait
      <3> QED
        BY <3>1, <3>3
    <2>3. ASSUME RunnerStep PROVE Overdue(g)' /\ Wait(g)' < Wait(g)
      BY <1>1, <2>1, <2>3, RunnerHastens
    <2>4. ASSUME tick' = tick, Overdue(g)' PROVE Overdue(g)' /\ Wait(g)' <= Wait(g)
      <3>1. Wait(g)' = Wait(g)
        BY <2>4 DEF Wait
      <3> QED
        BY <2>2, <2>4, <3>1
    <2>5. ASSUME NEW h \in Handlers, Request(h) \/ RequestStep(h)
          PROVE  Overdue(g)' /\ Wait(g)' <= Wait(g)
      <3>1. tick' = tick /\ NoneConfirmed /\ Lasts(g)
        BY <1>1, <2>1, <2>5, RequestsLeave DEF Overdue
      <3> QED
        BY <2>1, <2>4, <3>1, StillOverdue
    <2>6. ASSUME Deadline PROVE Overdue(g)' /\ Wait(g)' <= Wait(g)
      <3>1. PICK k \in Goals : goals' = [goals EXCEPT ![k].due = TRUE] /\ tick' = tick
        BY <2>6 DEF Deadline
      <3>2. goals \in [Goals -> Rows]
        BY <1>1 DEF IInv, TypeOK
      <3>3. \A j \in Goals : goals'[j].status = goals[j].status
        BY <3>1, <3>2 DEF Rows
      <3>4. goals'[g].due
        BY <2>1, <3>1, <3>2 DEF Rows, Overdue
      <3>5. Overdue(g)'
        BY <2>1, <3>3, <3>4 DEF Overdue, Active
      <3> QED
        BY <2>4, <3>1, <3>5
    <2>7. ~Crash
      BY <2>1 DEF Crash
    <2>8. CASE UNCHANGED vars
      <3>1. tick' = tick /\ goals' = goals
        BY <2>8 DEF vars, tables
      <3>2. Overdue(g)'
        BY <2>1, <3>1 DEF Overdue, Active
      <3> QED
        BY <2>3, <2>4, <3>1, <3>2
    <2> QED
      BY <1>1, <2>2, <2>3, <2>5, <2>6, <2>7, <2>8 DEF Next
  <1>2. IInv /\ IInv' /\ [Next]_vars => [Hastens]_vars
    BY <1>1
  <1> QED
    BY <1>2, IInvHolds, PTL DEF Spec, EndingsAdvance
=============================================================================

------------------------- MODULE ManagerRoundsProofs -------------------------
(***************************************************************************)
(* Proofs about ManagerRounds, for every number of rounds, registry, set   *)
(* of environments and set of answers a model may give: types, a           *)
(* conversation that tells what the tools returned and leaves no number    *)
(* open, and a row that says what the model said last.                     *)
(*                                                                         *)
(* A conversation only grows by messages at its end, so the operators on   *)
(* it are proved to change by what one message changes (PastKept,          *)
(* SinceSpoken, SinceTold, OneAnswer), and the actions cite that.          *)
(***************************************************************************)
EXTENDS ManagerRounds, Induction, SequenceTheorems

\* What is called among JSON objects, for the first n of them.
HitsTable(calls) ==
    CHOOSE hits : hits = [n \in 0..Len(calls) |->
        IF n = 0 THEN <<>>
        ELSE IF LooksLikeCall(calls[n]) THEN Append(hits[n - 1], calls[n]) ELSE hits[n - 1]]

Working == {"ask", "call", "observe"}
Steps == [name : Tools \cup {"invented"}, id : Numbers]
Rows == IF mode = "plan" THEN PlanRows ELSE IF mode = "decide" THEN DecisionRows ELSE AnalysisRows
Limit == IF mode = "analysis" THEN 2 ELSE MaxRounds

-----------------------------------------------------------------------------
(***************************************************************************)
(* The invariant, in parts.                                                *)
(***************************************************************************)
Now == Len(messages)

\* An answer to a number is to one the model gave last and nobody answered, and the
\* model speaks when none is left.
Paired(talk) ==
    \A i \in 1..Len(talk) :
        /\ talk[i].role = "tool" => talk[i].id \in Owed(talk, i - 1) \ Paid(talk, i - 1)
        /\ talk[i].role = "assistant" => Owed(talk, i - 1) = Paid(talk, i - 1)

\* The numbers of the calls that were not answered yet, each of them once.
Outstanding(queue) == {queue[k].id : k \in 1..Len(queue)} \ {NoId}
Distinct(queue) ==
    \A j, k \in 1..Len(queue) : j # k /\ queue[j].id # NoId => queue[j].id # queue[k].id

\* What is owed and was not paid is what is left to do.
Spoken ==
    /\ Paired(messages)
    /\ pc \in Working =>
          /\ Paid(messages, Now) \subseteq Owed(messages, Now)
          /\ Owed(messages, Now) \ Paid(messages, Now) = Outstanding(todo)
    /\ Distinct(todo)
    /\ pc \notin {"call", "observe"} => todo = <<>>

\* The model is told the outcomes in their order.
Reported(outcome) == IF outcome \in {"rows", "unavailable"} THEN outcome ELSE "error"
Rank(talk, i) == Cardinality({k \in Answers(talk) : k <= i})
Tells(talk, outcomes) ==
    /\ Cardinality(Answers(talk)) <= Len(outcomes)
    /\ \A i \in Answers(talk) : talk[i].says = Reported(outcomes[Rank(talk, i)])
Truthful ==
    /\ Cardinality(Answers(messages)) = Len(ran) - (IF pc = "observe" THEN 1 ELSE 0)
    /\ Tells(messages, ran)
    /\ mode = "analysis" =>
          ran = <<>> /\ pc \notin {"call", "observe"} /\ (pc = "ask" => messages = <<>>)

\* A result is what the model said last, and the row has it.
Concluded ==
    result # Nothing =>
        /\ messages # <<>>
        /\ messages[Now].role = "assistant" /\ messages[Now].ids = {}
        /\ messages[Now].says = result
Filed ==
    /\ pc \in Working => log = <<>> /\ result = "none"
    /\ pc = "save" => log = <<>> /\ (mode = "decide" => result \in Signals) /\ Concluded
    /\ Len(log) <= 1
    /\ pc = "returned" =>
          /\ log # <<>> /\ log[1].result = result /\ log[1].messages = messages
          /\ mode = "plan" => Len(log[1].calls) = Len(ran)
          /\ mode = "decide" => result \in Signals
          /\ Concluded

IInv == TypeOK /\ Spoken /\ Truthful /\ Filed

-----------------------------------------------------------------------------
(***************************************************************************)
(* What an answer of the model is understood to call (parser.py).          *)
(***************************************************************************)
\* The first n objects have their hits.
LEMMA HitsDefined ==
    ASSUME NEW calls, Len(calls) \in Nat
    PROVE  HitsTable(calls) = [n \in 0..Len(calls) |->
             IF n = 0 THEN <<>>
             ELSE IF LooksLikeCall(calls[n]) THEN Append(HitsTable(calls)[n - 1], calls[n])
             ELSE HitsTable(calls)[n - 1]]
  <1> DEFINE Longer(f, n) == IF LooksLikeCall(calls[n]) THEN Append(f[n - 1], calls[n]) ELSE f[n - 1]
             IsTable(f, m) == f = [n \in 0..m |-> IF n = 0 THEN <<>> ELSE Longer(f, n)]
             T == {m \in 0..Len(calls) : \E f : IsTable(f, m)}
  <1>1. 0 \in T
    <2>1. IsTable([n \in 0..0 |-> <<>>], 0)
      OBVIOUS
    <2> HIDE DEF IsTable
    <2> QED
      BY <2>1
  <1>2. ASSUME NEW m \in 1..Len(calls), m - 1 \in T
        PROVE  m \in T
    <2>1. PICK f : IsTable(f, m - 1)
      BY <1>2
    <2> DEFINE g == [n \in 0..m |-> IF n = m THEN Longer(f, m) ELSE f[n]]
    <2>2. \A n \in 0..m : g[n] = IF n = 0 THEN <<>> ELSE Longer(g, n)
      <3> SUFFICES ASSUME NEW n \in 0..m
                   PROVE  g[n] = IF n = 0 THEN <<>> ELSE Longer(g, n)
        OBVIOUS
      <3>1. CASE n = m
        BY <3>1
      <3>2. CASE n # m
        <4>1. n \in 0..m - 1
          BY <3>2
        <4>2. f[n] = IF n = 0 THEN <<>> ELSE Longer(f, n)
          BY <2>1, <4>1
        <4> QED
          BY <3>2, <4>1, <4>2
      <3> QED
        BY <3>1, <3>2
    <2>3. IsTable(g, m)
      BY <2>2
    <2> HIDE DEF IsTable, g
    <2> QED
      BY <2>3
  <1>3. T = 0..Len(calls)
    <2> HIDE DEF T
    <2>1. T \in SUBSET (0..Len(calls))
      BY DEF T
    <2> QED
      BY <1>1, <1>2, <2>1, UpTo
  <1>4. \E f : IsTable(f, Len(calls))
    <2> HIDE DEF IsTable
    <2>1. Len(calls) \in T
      BY <1>3
    <2> QED
      BY <2>1
  <1> QED
    BY <1>4 DEF HitsTable

\* What is found are calls.
LEMMA HitsType ==
    ASSUME NEW calls \in Seq(Calls)
    PROVE  Hits(calls) \in Seq(Calls)
  <1> DEFINE T == {n \in 0..Len(calls) : HitsTable(calls)[n] \in Seq(Calls)}
  <1>1. Len(calls) \in Nat
    OBVIOUS
  <1>2. HitsTable(calls)[0] = <<>>
    BY <1>1, HitsDefined
  <1>3. ASSUME NEW n \in 1..Len(calls)
        PROVE  HitsTable(calls)[n] = IF LooksLikeCall(calls[n])
                                     THEN Append(HitsTable(calls)[n - 1], calls[n])
                                     ELSE HitsTable(calls)[n - 1]
    BY <1>1, HitsDefined
  <1>4. 0 \in T
    <2>1. <<>> \in Seq(Calls) /\ 0 \in 0..Len(calls)
      BY <1>1
    <2> QED
      BY <1>2, <2>1
  <1>5. ASSUME NEW n \in 1..Len(calls), n - 1 \in T
        PROVE  n \in T
    <2>1. calls[n] \in Calls
      OBVIOUS
    <2>2. HitsTable(calls)[n - 1] \in Seq(Calls)
      BY <1>5
    <2>3. ASSUME NEW s \in Seq(Calls), NEW c \in Calls
          PROVE  Append(s, c) \in Seq(Calls)
      OBVIOUS
    <2>4. HitsTable(calls)[n] = Append(HitsTable(calls)[n - 1], calls[n])
          \/ HitsTable(calls)[n] = HitsTable(calls)[n - 1]
      BY <1>3
    <2>5. HitsTable(calls)[n] \in Seq(Calls)
      BY <2>1, <2>2, <2>3, <2>4
    <2> QED
      BY <2>5
  <1>6. T = 0..Len(calls)
    <2> HIDE DEF T
    <2>1. T \in SUBSET (0..Len(calls))
      BY DEF T
    <2> QED
      BY <1>4, <1>5, <2>1, UpTo
  <1>7. Hits(calls) = HitsTable(calls)[Len(calls)]
    BY DEF Hits, HitsTable
  <1> QED
    BY <1>6, <1>7

\* Without their numbers they are as many calls.
LEMMA UnnumberedType ==
    ASSUME NEW calls \in Seq(Calls)
    PROVE  Unnumbered(calls) \in Seq(Calls) /\ Len(Unnumbered(calls)) = Len(calls)
  <1>1. ASSUME NEW c \in Calls
        PROVE  [c EXCEPT !.numbered = FALSE] \in Calls
    BY DEF Calls
  <1> QED
    BY <1>1 DEF Unnumbered

\* What an answer is understood to call is a sequence of calls, and a call at least.
LEMMA UnderstoodCalls ==
    ASSUME NEW r \in Replies
    PROVE  /\ Understood(r).calls \in Seq(Calls)
           /\ Understood(r).kind = "calls" => Understood(r).calls # <<>>
  <1>1. r.calls \in Seq(Calls)
    BY RepliesAssumption
  <1>2. Text.calls = <<>> /\ Unreadable.calls = <<>> /\ <<>> \in Seq(Calls)
        /\ Text.kind = "text" /\ Unreadable.kind = "unreadable"
    BY DEF Text, Unreadable
  <1>3. \A calls : Wanted(calls).calls = calls
    BY DEF Wanted
  <1>4. CASE r.notation = "structured" /\ r.calls # <<>>
    BY <1>1, <1>2, <1>3, <1>4 DEF Understood, Structured
  <1>5. CASE ~(r.notation = "structured" /\ r.calls # <<>>) /\ r.notation = "deepseek"
    <2>1. Given(r.calls) = {"object"} => r.calls # <<>>
      BY DEF Given
    <2>2. Unnumbered(r.calls) \in Seq(Calls) /\ Len(Unnumbered(r.calls)) = Len(r.calls)
      BY <1>1, UnnumberedType
    <2>3. r.calls # <<>> => Unnumbered(r.calls) # <<>>
      BY <1>1, <2>2
    <2>4. Understood(r) = Deepseek(r)
      BY <1>5 DEF Understood
    <2> QED
      BY <1>2, <1>3, <2>1, <2>2, <2>3, <2>4 DEF Deepseek
  <1>6. CASE ~(r.notation = "structured" /\ r.calls # <<>>) /\ r.notation # "deepseek"
    <2> DEFINE hits == Hits(r.calls)
    <2>1. hits \in Seq(Calls)
      BY <1>1, HitsType
    <2> HIDE DEF hits
    <2>2. Unnumbered(hits) \in Seq(Calls) /\ Len(Unnumbered(hits)) = Len(hits)
      BY <2>1, UnnumberedType
    <2>3. hits # <<>> => Unnumbered(hits) # <<>>
      BY <2>1, <2>2
    <2>4. Understood(r) = Fenced(r)
      BY <1>6 DEF Understood
    <2> QED
      BY <1>2, <1>3, <2>2, <2>3, <2>4 DEF Fenced, hits
  <1> QED
    BY <1>4, <1>5, <1>6

-----------------------------------------------------------------------------
(***************************************************************************)
(* Conversations that grow by a message.                                   *)
(***************************************************************************)
\* A message at the end leaves the others where they are.
LEMMA Appended ==
    ASSUME NEW talk \in Seq(Message), NEW m \in Message
    PROVE  /\ Append(talk, m) \in Seq(Message)
           /\ Len(talk) \in Nat
           /\ Len(Append(talk, m)) = Len(talk) + 1
           /\ \A i \in 1..Len(talk) : Append(talk, m)[i] = talk[i]
           /\ Append(talk, m)[Len(talk) + 1] = m
  OBVIOUS

\* Two messages at once are one after the other.
LEMMA TwoAppended ==
    ASSUME NEW talk \in Seq(Message), NEW a \in Message, NEW b \in Message
    PROVE  /\ Append(talk, a) \in Seq(Message)
           /\ talk \o <<a, b>> = Append(Append(talk, a), b)
           /\ talk \o <<a, b>> \in Seq(Message)
  OBVIOUS

\* What was said before does not depend on what is said next.
LEMMA PastKept ==
    ASSUME NEW talk \in Seq(Message), NEW m \in Message, NEW i \in 0..Len(talk)
    PROVE  /\ Since(Append(talk, m), i) = Since(talk, i)
           /\ Owed(Append(talk, m), i) = Owed(talk, i)
           /\ Paid(Append(talk, m), i) = Paid(talk, i)
  <1> DEFINE t == Append(talk, m)
  <1>1. \A k \in 1..i : t[k] = talk[k]
    BY Appended
  <1> HIDE DEF t
  <1>2. Since(t, i) = Since(talk, i)
    <2>1. ASSUME NEW k \in 1..i
          PROVE  (\A j \in k + 1..i : t[j].role # "assistant")
                 <=> (\A j \in k + 1..i : talk[j].role # "assistant")
      BY <1>1
    <2> QED
      BY <2>1 DEF Since
  <1>3. \A k \in Since(talk, i) : t[k] = talk[k]
    BY <1>1 DEF Since
  <1>4. Owed(t, i) = Owed(talk, i)
    BY <1>2, <1>3 DEF Owed
  <1>5. Paid(t, i) = Paid(talk, i)
    BY <1>2, <1>3 DEF Paid
  <1> QED
    BY <1>2, <1>4, <1>5 DEF t

\* What the model says starts a new account; what it is told is put to it.
LEMMA SinceSpoken ==
    ASSUME NEW talk \in Seq(Message), NEW m \in Message, m.role = "assistant"
    PROVE  /\ Owed(Append(talk, m), Len(talk) + 1) = m.ids
           /\ Paid(Append(talk, m), Len(talk) + 1) = {m.id} \ {NoId}
  <1> DEFINE t == Append(talk, m)
             n == Len(talk) + 1
  <1>1. n \in Nat /\ n >= 1 /\ t[n] = m
    BY Appended
  <1> HIDE DEF t, n
  <1>2. Since(t, n) = {n}
    <2>1. n \in Since(t, n)
      BY <1>1 DEF Since
    <2>2. ASSUME NEW k \in Since(t, n)
          PROVE  k = n
      <3>1. k \in 1..n /\ \A j \in k + 1..n : t[j].role # "assistant"
        BY DEF Since
      <3>2. n \notin k + 1..n
        BY <1>1, <3>1
      <3> QED
        BY <1>1, <3>1, <3>2
    <2> QED
      BY <2>1, <2>2
  <1> QED
    BY <1>1, <1>2 DEF Owed, Paid, t, n

\* What it is told is put to what it said last.
LEMMA SinceTold ==
    ASSUME NEW talk \in Seq(Message), NEW m \in Message, m.role # "assistant"
    PROVE  /\ Owed(Append(talk, m), Len(talk) + 1) = Owed(talk, Len(talk)) \cup m.ids
           /\ Paid(Append(talk, m), Len(talk) + 1) = Paid(talk, Len(talk)) \cup ({m.id} \ {NoId})
  <1> DEFINE t == Append(talk, m)
             n == Len(talk)
  <1>1. n \in Nat /\ t[n + 1] = m /\ \A i \in 1..n : t[i] = talk[i]
    BY Appended
  <1>2. Since(t, n) = Since(talk, n) /\ Since(talk, n) \subseteq 1..n
    BY <1>1, PastKept DEF Since
  <1> HIDE DEF t, n
  <1>3. Since(t, n + 1) = Since(t, n) \cup {n + 1}
    <2>1. n + 1 \in Since(t, n + 1)
      BY <1>1 DEF Since
    <2>2. ASSUME NEW k \in 1..n
          PROVE  (\A j \in k + 1..n + 1 : t[j].role # "assistant")
                 <=> (\A j \in k + 1..n : t[j].role # "assistant")
      <3>1. \A j : j \in k + 1..n + 1 <=> j \in k + 1..n \/ j = n + 1
        BY <1>1
      <3> QED
        BY <1>1, <3>1
    <2>3. \A k : k \in 1..n + 1 <=> k \in 1..n \/ k = n + 1
      BY <1>1
    <2> QED
      BY <2>1, <2>2, <2>3 DEF Since
  <1>4. \A k \in Since(talk, n) : t[k] = talk[k]
    BY <1>1, <1>2
  <1>5. Since(t, n + 1) = Since(talk, n) \cup {n + 1}
    BY <1>2, <1>3
  <1>6. Owed(t, n + 1) = Owed(talk, n) \cup m.ids
    BY <1>1, <1>4, <1>5 DEF Owed
  <1>7. Paid(t, n + 1) = Paid(talk, n) \cup ({m.id} \ {NoId})
    BY <1>1, <1>4, <1>5 DEF Paid
  <1> QED
    BY <1>6, <1>7 DEF t, n

\* A message that answers what is open, or speaks when nothing is, keeps the pairing.
LEMMA PairedLonger ==
    ASSUME NEW talk \in Seq(Message), NEW m \in Message, Paired(talk),
           m.role = "tool" => m.id \in Owed(talk, Len(talk)) \ Paid(talk, Len(talk)),
           m.role = "assistant" => Owed(talk, Len(talk)) = Paid(talk, Len(talk))
    PROVE  Paired(Append(talk, m))
  <1> DEFINE t == Append(talk, m)
             n == Len(talk)
  <1>1. n \in Nat /\ Len(t) = n + 1 /\ t[n + 1] = m /\ \A i \in 1..n : t[i] = talk[i]
    BY Appended
  <1>2. \A i \in 0..n : Owed(t, i) = Owed(talk, i) /\ Paid(t, i) = Paid(talk, i)
    BY PastKept
  <1> HIDE DEF t, n
  <1> SUFFICES ASSUME NEW i \in 1..n + 1
               PROVE  /\ t[i].role = "tool" => t[i].id \in Owed(t, i - 1) \ Paid(t, i - 1)
                      /\ t[i].role = "assistant" => Owed(t, i - 1) = Paid(t, i - 1)
    BY <1>1 DEF Paired, t
  <1>3. i - 1 \in 0..n
    BY <1>1
  <1>4. Owed(t, i - 1) = Owed(talk, i - 1) /\ Paid(t, i - 1) = Paid(talk, i - 1)
    BY <1>2, <1>3
  <1>5. CASE i = n + 1
    <2>1. i - 1 = n
      BY <1>1, <1>5
    <2> QED
      BY <1>1, <1>4, <1>5, <2>1 DEF n
  <1>6. CASE i # n + 1
    <2>1. i \in 1..n /\ t[i] = talk[i]
      BY <1>1, <1>6
    <2> QED
      BY <1>4, <2>1 DEF Paired, n
  <1> QED
    BY <1>5, <1>6

\* There are finitely many answers, and as many up to any of them at most.
LEMMA AnswersFinite ==
    ASSUME NEW talk \in Seq(Message)
    PROVE  /\ Answers(talk) \subseteq 1..Len(talk)
           /\ IsFiniteSet(Answers(talk))
           /\ Cardinality(Answers(talk)) \in Nat
           /\ \A i : /\ IsFiniteSet({k \in Answers(talk) : k <= i})
                     /\ Rank(talk, i) \in 0..Cardinality(Answers(talk))
  <1>1. Len(talk) \in Nat
    OBVIOUS
  <1>2. IsFiniteSet(1..Len(talk))
    BY <1>1, FS_Interval
  <1>3. Answers(talk) \subseteq 1..Len(talk)
    BY DEF Answers
  <1>4. IsFiniteSet(Answers(talk))
    BY <1>2, <1>3, FS_Subset
  <1>5. Cardinality(Answers(talk)) \in Nat
    BY <1>4, FS_CardinalityType
  <1>6. ASSUME NEW i
        PROVE  /\ IsFiniteSet({k \in Answers(talk) : k <= i})
               /\ Rank(talk, i) \in 0..Cardinality(Answers(talk))
    <2>1. {k \in Answers(talk) : k <= i} \in SUBSET Answers(talk)
      OBVIOUS
    <2>2. /\ IsFiniteSet({k \in Answers(talk) : k <= i})
          /\ Cardinality({k \in Answers(talk) : k <= i}) <= Cardinality(Answers(talk))
      BY <1>4, <2>1, FS_Subset
    <2>3. Cardinality({k \in Answers(talk) : k <= i}) \in Nat
      BY <2>2, FS_CardinalityType
    <2> QED
      BY <1>5, <2>2, <2>3 DEF Rank
  <1> QED
    BY <1>3, <1>4, <1>5, <1>6

\* An answer is one of the answers up to it.
LEMMA RankPositive ==
    ASSUME NEW talk \in Seq(Message), NEW i \in Answers(talk)
    PROVE  Rank(talk, i) \in 1..Cardinality(Answers(talk))
  <1>1. i \in {k \in Answers(talk) : k <= i}
    BY DEF Answers
  <1>2. /\ IsFiniteSet({k \in Answers(talk) : k <= i})
        /\ Rank(talk, i) \in 0..Cardinality(Answers(talk))
        /\ Cardinality(Answers(talk)) \in Nat
    BY AnswersFinite
  <1>3. Cardinality({k \in Answers(talk) : k <= i}) # 0
    BY <1>1, <1>2, FS_EmptySet
  <1> QED
    BY <1>2, <1>3 DEF Rank

\* A message that is no answer leaves the answers as they are.
LEMMA NoAnswer ==
    ASSUME NEW talk \in Seq(Message), NEW m \in Message, ~IsAnswer(m)
    PROVE  /\ Answers(Append(talk, m)) = Answers(talk)
           /\ \A outcomes : Tells(talk, outcomes) => Tells(Append(talk, m), outcomes)
  <1> DEFINE t == Append(talk, m)
             n == Len(talk)
  <1>1. n \in Nat /\ Len(t) = n + 1 /\ t[n + 1] = m /\ \A i \in 1..n : t[i] = talk[i]
    BY Appended
  <1> HIDE DEF t, n
  <1>2. \A k : k \in 1..n + 1 <=> k \in 1..n \/ k = n + 1
    BY <1>1
  <1>3. Answers(t) = Answers(talk)
    BY <1>1, <1>2 DEF Answers, n
  <1>4. \A i \in Answers(talk) : t[i] = talk[i]
    BY <1>1 DEF Answers, n
  <1>5. \A i : Rank(t, i) = Rank(talk, i)
    BY <1>3 DEF Rank
  <1>6. \A outcomes : Tells(talk, outcomes) => Tells(t, outcomes)
    BY <1>3, <1>4, <1>5 DEF Tells
  <1> QED
    BY <1>3, <1>6 DEF t

\* An answer is the next one.
LEMMA OneAnswer ==
    ASSUME NEW talk \in Seq(Message), NEW m \in Message, IsAnswer(m)
    PROVE  /\ Cardinality(Answers(Append(talk, m))) = Cardinality(Answers(talk)) + 1
           /\ \A outcomes : /\ Tells(talk, outcomes)
                            /\ Len(outcomes) = Cardinality(Answers(talk)) + 1
                            /\ m.says = Reported(outcomes[Len(outcomes)])
                            => Tells(Append(talk, m), outcomes)
  <1> DEFINE t == Append(talk, m)
             n == Len(talk)
  <1>1. n \in Nat /\ Len(t) = n + 1 /\ t[n + 1] = m /\ \A i \in 1..n : t[i] = talk[i]
    BY Appended
  <1>2. t \in Seq(Message)
    BY Appended
  <1> HIDE DEF t, n
  <1>3. \A k : k \in 1..n + 1 <=> k \in 1..n \/ k = n + 1
    BY <1>1
  <1>4. Answers(t) = Answers(talk) \cup {n + 1} /\ Answers(talk) \subseteq 1..n
    BY <1>1, <1>3 DEF Answers, n
  <1>5. n + 1 \notin Answers(talk)
    BY <1>1, <1>4
  <1>6. IsFiniteSet(Answers(talk)) /\ Cardinality(Answers(talk)) \in Nat
    BY AnswersFinite
  <1>7. Cardinality(Answers(t)) = Cardinality(Answers(talk)) + 1
    BY <1>4, <1>5, <1>6, FS_AddElement
  <1>8. ASSUME NEW i \in Answers(talk)
        PROVE  Rank(t, i) = Rank(talk, i) /\ t[i] = talk[i]
    <2>1. i \in 1..n /\ ~(n + 1 <= i)
      BY <1>1, <1>4
    <2>2. {k \in Answers(t) : k <= i} = {k \in Answers(talk) : k <= i}
      BY <1>4, <2>1
    <2> QED
      BY <1>1, <2>1, <2>2 DEF Rank
  <1>9. Rank(t, n + 1) = Cardinality(Answers(t))
    <2>1. \A k \in Answers(t) : k <= n + 1
      BY <1>1, <1>4
    <2>2. {k \in Answers(t) : k <= n + 1} = Answers(t)
      BY <2>1
    <2> QED
      BY <2>2 DEF Rank
  <1>10. ASSUME NEW outcomes, Tells(talk, outcomes),
                Len(outcomes) = Cardinality(Answers(talk)) + 1,
                m.says = Reported(outcomes[Len(outcomes)])
         PROVE  Tells(t, outcomes)
    <2>1. Cardinality(Answers(t)) <= Len(outcomes)
      BY <1>6, <1>7, <1>10
    <2>2. ASSUME NEW i \in Answers(t)
          PROVE  t[i].says = Reported(outcomes[Rank(t, i)])
      <3>1. CASE i \in Answers(talk)
        BY <1>8, <1>10, <3>1 DEF Tells
      <3>2. CASE i = n + 1
        BY <1>1, <1>7, <1>9, <1>10, <3>2
      <3> QED
        BY <1>4, <3>1, <3>2
    <2> QED
      BY <2>1, <2>2 DEF Tells
  <1> QED
    BY <1>7, <1>10 DEF t

\* One more outcome changes nothing of what was told.
LEMMA StillTells ==
    ASSUME NEW talk \in Seq(Message), NEW outcomes \in Seq(Shown), NEW outcome \in Shown,
           Tells(talk, outcomes)
    PROVE  Tells(talk, Append(outcomes, outcome))
  <1>1. /\ Len(Append(outcomes, outcome)) = Len(outcomes) + 1 /\ Len(outcomes) \in Nat
        /\ \A i \in 1..Len(outcomes) : Append(outcomes, outcome)[i] = outcomes[i]
    OBVIOUS
  <1>2. Cardinality(Answers(talk)) \in Nat /\ Cardinality(Answers(talk)) <= Len(outcomes)
    BY AnswersFinite DEF Tells
  <1>3. ASSUME NEW i \in Answers(talk)
        PROVE  talk[i].says = Reported(Append(outcomes, outcome)[Rank(talk, i)])
    <2>1. Rank(talk, i) \in 1..Cardinality(Answers(talk))
      BY RankPositive
    <2>2. Rank(talk, i) \in 1..Len(outcomes)
      BY <1>1, <1>2, <2>1
    <2> QED
      BY <1>1, <2>2 DEF Tells
  <1>4. Cardinality(Answers(talk)) <= Len(Append(outcomes, outcome))
    BY <1>1, <1>2
  <1> QED
    BY <1>3, <1>4 DEF Tells

-----------------------------------------------------------------------------
(***************************************************************************)
(* Types.                                                                  *)
(***************************************************************************)
\* What the model says is a message and no answer.
LEMMA SaidType ==
    ASSUME NEW text \in Texts, NEW ids \in SUBSET Numbers
    PROVE  /\ Said(text, ids) \in Message /\ ~IsAnswer(Said(text, ids))
           /\ Said(text, ids).role = "assistant" /\ Said(text, ids).says = text
           /\ Said(text, ids).id = NoId /\ Said(text, ids).ids = ids
  BY DEF Said, Message, Numbers, IsAnswer, Texts, Signals

\* What it is told is a message, and an answer when a tool is behind it.
LEMMA ToldType ==
    ASSUME NEW role \in {"tool", "user"}, NEW id \in Numbers,
           NEW says \in {"unreadable", "plan wanted", "rows", "unavailable", "error"}
    PROVE  /\ Told(role, id, says) \in Message
           /\ IsAnswer(Told(role, id, says)) <=> says \in {"rows", "unavailable", "error"}
           /\ Told(role, id, says).role = role /\ Told(role, id, says).says = says
           /\ Told(role, id, says).id = id /\ Told(role, id, says).ids = {}
  BY DEF Told, Message, IsAnswer

\* No number is a number, too.
LEMMA NoIdType == NoId \in Numbers
  BY DEF Numbers

\* A round is one of the rounds there are.
LEMMA RoundType ==
    ASSUME TypeOK, Ask
    PROVE  round' \in 1..Limit /\ round' = round + 1
  BY RoundsAssumption DEF TypeOK, Ask, MayAsk, Limit

\* The numbers of the calls of a round.
LEMMA IdType ==
    ASSUME TypeOK, Ask, mode # "analysis", NEW calls \in Seq(Calls)
    PROVE  /\ \A i \in 1..Len(calls) : Id(calls, i) \in Numbers /\ calls[i].name \in Tools \cup {"invented"}
           /\ Ids(calls) \in SUBSET Numbers
  <1>1. round + 1 \in 1..MaxRounds
    BY RoundType DEF Limit
  <1>2. ASSUME NEW i \in 1..Len(calls)
        PROVE  Id(calls, i) \in Numbers /\ calls[i].name \in Tools \cup {"invented"}
    <2>1. i \in Nat \ {0} /\ calls[i] \in Calls
      OBVIOUS
    <2> QED
      BY <1>1, <2>1 DEF Id, Numbers, Calls
  <1> QED
    BY <1>2 DEF Ids

\* Types: what was said is not understood.
LEMMA MisreadType ==
    ASSUME TypeOK, Misread
    PROVE  TypeOK'
  <1>1. PICK r \in Replies :
            messages' = messages \o <<Said(r.text, {}), Told("user", NoId, "unreadable")>>
    BY DEF Misread
  <1>2. r.text \in Texts
    BY RepliesAssumption
  <1>3. Said(r.text, {}) \in Message /\ Told("user", NoId, "unreadable") \in Message
    BY <1>2, SaidType, ToldType, NoIdType
  <1>4. messages \in Seq(Message)
    BY DEF TypeOK
  <1>5. messages' \in Seq(Message)
    BY <1>1, <1>3, <1>4, TwoAppended
  <1>6. round' \in 1..Limit /\ UNCHANGED <<world, mode, pc, todo, ran, tables, result, log>>
    BY RoundType DEF Misread
  <1> QED
    BY <1>5, <1>6 DEF TypeOK, Limit

\* Types: a plan is asked for again.
LEMMA AskAgainType ==
    ASSUME TypeOK, AskAgain
    PROVE  TypeOK'
  <1>1. PICK r \in Replies :
            messages' = messages \o <<Said(r.text, {}), Told("user", NoId, "plan wanted")>>
    BY DEF AskAgain
  <1>2. r.text \in Texts
    BY RepliesAssumption
  <1>3. Said(r.text, {}) \in Message /\ Told("user", NoId, "plan wanted") \in Message
    BY <1>2, SaidType, ToldType, NoIdType
  <1>4. messages \in Seq(Message)
    BY DEF TypeOK
  <1>5. messages' \in Seq(Message)
    BY <1>1, <1>3, <1>4, TwoAppended
  <1>6. round' \in 1..Limit /\ UNCHANGED <<world, mode, pc, todo, ran, tables, result, log>>
    BY RoundType DEF AskAgain
  <1> QED
    BY <1>5, <1>6 DEF TypeOK, Limit

\* Types: there is a call at least, so there is something to do.
LEMMA CallToolsType ==
    ASSUME TypeOK, CallTools
    PROVE  TypeOK'
  <1>1. PICK r \in Replies :
            /\ Understood(r).kind = "calls"
            /\ messages' = Append(messages, AppendAssistant(r, Understood(r).calls))
            /\ todo' = [i \in 1..Len(Understood(r).calls) |->
                          [name |-> Understood(r).calls[i].name, id |-> Id(Understood(r).calls, i)]]
    BY DEF CallTools
  <1> DEFINE calls == Understood(r).calls
  <1>2. r.text \in Texts /\ calls \in Seq(Calls) /\ calls # <<>>
    BY <1>1, UnderstoodCalls, RepliesAssumption
  <1>3. todo' = [i \in 1..Len(calls) |-> [name |-> calls[i].name, id |-> Id(calls, i)]]
        /\ messages' = Append(messages, AppendAssistant(r, calls))
    BY <1>1
  <1> HIDE DEF calls
  <1>4. /\ \A i \in 1..Len(calls) : Id(calls, i) \in Numbers /\ calls[i].name \in Tools \cup {"invented"}
        /\ Ids(calls) \in SUBSET Numbers
    BY <1>2, IdType DEF CallTools
  <1>5. messages' \in Seq(Message)
    BY <1>2, <1>3, <1>4, SaidType, Appended DEF TypeOK, AppendAssistant
  <1>6. todo' \in Seq(Steps) /\ todo' # <<>>
    <2>1. Len(calls) \in Nat /\ Len(calls) # 0
      BY <1>2
    <2>2. \A i \in 1..Len(calls) : todo'[i] \in Steps
      BY <1>3, <1>4 DEF Steps
    <2> QED
      BY <1>3, <1>4, <2>1 DEF Steps
  <1>7. round' \in 1..Limit
    BY RoundType DEF CallTools
  <1> QED
    BY <1>5, <1>6, <1>7 DEF TypeOK, CallTools, Limit, Steps

\* Types: a tool returns one outcome.
LEMMA InvokeType ==
    ASSUME TypeOK, Invoke
    PROVE  TypeOK' /\ \E outcome \in Shown : ran' = Append(ran, outcome)
  <1>1. PICK outcome \in Outcomes(Head(todo).name) : ran' = Append(ran, outcome)
    BY DEF Invoke
  <1>2. outcome \in Shown
    BY DEF Outcomes, Shows, Shown
  <1>3. ran' \in Seq(Shown)
    BY <1>1, <1>2 DEF TypeOK
  <1> QED
    BY <1>1, <1>2, <1>3 DEF TypeOK, Invoke

\* What is left to do once the head of it is done.
LEMMA HeadDone ==
    ASSUME NEW S, NEW seq \in Seq(S), seq # <<>>
    PROVE  /\ Len(seq) \in Nat \ {0}
           /\ Head(seq) = seq[1] /\ Head(seq) \in S
           /\ Tail(seq) \in Seq(S) /\ Len(Tail(seq)) = Len(seq) - 1
           /\ \A i \in 1..Len(seq) - 1 : Tail(seq)[i] = seq[i + 1]
           /\ Len(seq) = 1 => Tail(seq) = <<>>
           /\ Len(seq) # 1 => Tail(seq) # <<>>
  <1>1. Len(seq) \in Nat \ {0} /\ Head(seq) = seq[1] /\ Head(seq) \in S
    OBVIOUS
  <1>2. /\ Tail(seq) \in Seq(S) /\ Len(Tail(seq)) = Len(seq) - 1
        /\ \A i \in 1..Len(seq) - 1 : Tail(seq)[i] = seq[i + 1]
    BY HeadTailProperties
  <1>3. Len(Tail(seq)) = 0 <=> Tail(seq) = <<>>
    BY <1>2, EmptySeq
  <1> QED
    BY <1>1, <1>2, <1>3

\* Types: there is an outcome to tell of.
LEMMA ObserveType ==
    ASSUME TypeOK, Observe, ran # <<>>
    PROVE  TypeOK'
  <1> DEFINE id == Head(todo).id
             says == Observation(ran[Len(ran)])
             role == IF id = NoId THEN "user" ELSE "tool"
  <1>1. todo # <<>> /\ todo \in Seq(Steps)
    BY DEF TypeOK, Observe, Steps
  <1>2. /\ Head(todo) \in Steps
        /\ Tail(todo) \in Seq(Steps)
        /\ Len(todo) # 1 => Tail(todo) # <<>>
    BY <1>1, HeadDone
  <1>3. id \in Numbers
    BY <1>2 DEF Steps
  <1>4. messages \in Seq(Message) /\ ran \in Seq(Shown)
    BY DEF TypeOK
  <1>5. ran[Len(ran)] \in Shown
    BY <1>4
  <1>6. says \in {"rows", "unavailable", "error"}
    BY <1>5 DEF Observation, Shown
  <1>7. /\ messages' = Append(messages, Told(role, id, says))
        /\ todo' = Tail(todo)
        /\ pc' = IF Len(todo) = 1 THEN "ask" ELSE "call"
        /\ UNCHANGED <<world, mode, round, ran, tables, result, log>>
    BY DEF Observe
  <1>8. role \in {"tool", "user"}
    OBVIOUS
  <1> HIDE DEF id, says, role
  <1>9. Told(role, id, says) \in Message
    BY <1>3, <1>6, <1>8, ToldType
  <1>10. messages' \in Seq(Message)
    BY <1>4, <1>7, <1>9
  <1> QED
    BY <1>2, <1>7, <1>10 DEF TypeOK, Steps

\* What is said counts as a result only if it is one.
LEMMA UsableType ==
    ASSUME mode \in Modes, NEW text \in Texts
    PROVE  /\ text \in Results
           /\ Nothing \in Results
           /\ mode = "decide" => Nothing \in Signals /\ (Usable(text) => text \in Signals)
  BY DEF Usable, Nothing, Results, Texts, Signals, Modes

\* Types: the rounds end with what was said.
LEMMA ConcludeType ==
    ASSUME TypeOK, Conclude
    PROVE  TypeOK'
  <1>1. PICK r \in Replies :
            /\ messages' = Append(messages, Said(r.text, {}))
            /\ result' = IF Usable(r.text) THEN r.text ELSE Nothing
    BY DEF Conclude
  <1>2. r.text \in Texts /\ mode \in Modes /\ messages \in Seq(Message)
    BY RepliesAssumption DEF TypeOK
  <1>3. Said(r.text, {}) \in Message
    BY <1>2, SaidType
  <1>4. messages' \in Seq(Message) /\ result' \in Results
    BY <1>1, <1>2, <1>3, UsableType
  <1>5. /\ round' \in 1..Limit /\ pc' = "save"
        /\ UNCHANGED <<world, mode, todo, ran, tables, log>>
    BY RoundType DEF Conclude
  <1> QED
    BY <1>4, <1>5 DEF TypeOK, Limit

\* Types: an analysis takes one answer or two.
LEMMA AnalyzeType ==
    ASSUME TypeOK, Analyze
    PROVE  TypeOK'
  <1>1. PICK r \in Replies :
            /\ messages' = IF Usable(r.text) THEN <<Said(r.text, {})>> ELSE <<>>
            /\ pc' = IF r.text = "" /\ round = 0 THEN "ask" ELSE "save"
            /\ result' = IF pc' = "ask" THEN "none" ELSE IF Usable(r.text) THEN r.text ELSE Nothing
    BY DEF Analyze
  <1>2. r.text \in Texts /\ mode \in Modes /\ "none" \in Results
    BY RepliesAssumption DEF TypeOK, Results
  <1>3. Said(r.text, {}) \in Message
    BY <1>2, SaidType
  <1>4. /\ <<>> \in Seq(Message) /\ <<Said(r.text, {})>> \in Seq(Message)
        /\ r.text \in Results /\ Nothing \in Results
    BY <1>2, <1>3, UsableType
  <1>5. messages' \in Seq(Message) /\ result' \in Results
    BY <1>1, <1>2, <1>4
  <1>6. /\ round' \in 1..Limit /\ pc' \in {"ask", "save"}
        /\ UNCHANGED <<world, mode, todo, ran, tables, log>>
    BY <1>1, RoundType DEF Analyze
  <1> QED
    BY <1>5, <1>6 DEF TypeOK, Limit

\* Types: the rounds end without a result.
LEMMA EndingType ==
    ASSUME TypeOK, GiveUp \/ Unreachable \/ Garbled
    PROVE  TypeOK'
  <1>1. mode \in Modes /\ "" \in Texts
    BY DEF TypeOK, Texts
  <1>2. Nothing \in Results /\ "none" \in Results
    BY <1>1, UsableType DEF Results
  <1>3. CASE GiveUp
    BY <1>2, <1>3 DEF TypeOK, GiveUp
  <1>4. CASE Unreachable
    <2>1. round' \in 1..Limit
      BY <1>4, RoundType DEF Unreachable
    <2> QED
      BY <1>2, <1>4, <2>1 DEF TypeOK, Unreachable, Limit
  <1>5. CASE Garbled
    <2>1. round' \in 0..Limit
      BY <1>5, RoundsAssumption DEF TypeOK, Garbled, MayAsk, Limit
    <2>2. <<>> \in Seq(Message) /\ <<>> \in Seq(Shown)
      OBVIOUS
    <2>3. /\ pc' \in {"failed", "save"} /\ result' \in Results /\ messages' = <<>> /\ ran' = <<>>
          /\ UNCHANGED <<world, mode, todo, tables, log>>
      BY <1>2, <1>5 DEF Garbled
    <2> QED
      BY <2>1, <2>2, <2>3 DEF TypeOK, Limit, Ends
  <1> QED
    BY <1>3, <1>4, <1>5

\* The row has the type of its table.
LEMMA RowType ==
    ASSUME TypeOK, pc = "save", mode = "decide" => result \in Signals
    PROVE  Row \in Rows
  <1>1. /\ mode \in Modes /\ result \in Results /\ messages \in Seq(Message)
        /\ ran \in Seq(Shown) /\ round \in 0..Limit
    BY DEF TypeOK, Limit
  <1>2. CASE mode = "plan"
    BY <1>1, <1>2 DEF Row, Rows, PlanRow, PlanRows, Limit
  <1>3. CASE mode = "decide"
    BY <1>1, <1>3 DEF Row, Rows, DecisionRow, DecisionRows
  <1>4. CASE mode = "analysis"
    BY <1>1, <1>4 DEF Row, Rows, AnalysisRow, AnalysisRows
  <1> QED
    BY <1>1, <1>2, <1>3, <1>4 DEF Modes

\* ... and so has the table with it.
LEMMA RowsType ==
    ASSUME TypeOK, pc = "save", mode = "decide" => result \in Signals
    PROVE  Append(log, Row) \in Seq(Rows)
  <1>1. log \in Seq(Rows)
    BY DEF TypeOK, Rows
  <1> QED
    BY <1>1, RowType

\* Types: the row is written, or the run is lost.
LEMMA SavingType ==
    ASSUME TypeOK, Filed, Save \/ SaveFails \/ Cancel
    PROVE  TypeOK'
  <1>1. pc = "save" => Append(log, Row) \in Seq(Rows)
    BY RowsType DEF Filed
  <1>2. log \in Seq(Rows)
    BY DEF TypeOK, Rows
  <1>3. log' \in Seq(Rows)
    BY <1>1, <1>2 DEF Save, SaveFails, Cancel
  <1>4. UNCHANGED <<world, mode, round, tables>>
    BY DEF Save, SaveFails, Cancel
  <1>5. CASE Save
    <2>1. pc' = "returned" /\ UNCHANGED <<messages, todo, ran, result>>
      BY <1>5 DEF Save
    <2> QED
      BY <1>3, <1>4, <2>1 DEF TypeOK, Rows, Ends
  <1>6. CASE SaveFails \/ Cancel
    <2>1. pc' = "failed" /\ messages' = <<>> /\ todo' = <<>> /\ ran' = <<>> /\ result' = "none"
      BY <1>6 DEF SaveFails, Cancel, Raise
    <2>2. <<>> \in Seq(Message) /\ <<>> \in Seq(Shown) /\ <<>> \in Seq(Steps) /\ "none" \in Results
      BY DEF Results
    <2> QED
      BY <1>3, <1>4, <2>1, <2>2 DEF TypeOK, Rows, Ends, Steps
  <1> QED
    BY <1>5, <1>6

\* Types: a table is not empty any more.
LEMMA FillType ==
    ASSUME TypeOK, Fill
    PROVE  TypeOK'
  BY DEF TypeOK, Fill

\* Types, to begin with.
LEMMA InitType ==
    ASSUME Init
    PROVE  TypeOK
  <1>1. /\ <<>> \in Seq(Message) /\ <<>> \in Seq(Shown) /\ <<>> \in Seq(Steps) /\ <<>> \in Seq(Rows)
        /\ "none" \in Results
    BY DEF Results
  <1>2. tables \subseteq Tables /\ 0 \in 0..Limit
    BY RoundsAssumption DEF Init, Limit
  <1> QED
    BY <1>1, <1>2 DEF Init, TypeOK, Steps, Rows, Limit

-----------------------------------------------------------------------------
(***************************************************************************)
(* The conversation and the row, step by step.                             *)
(***************************************************************************)
\* A conversation in which nothing was said.
LEMMA NothingSaid ==
    /\ <<>> \in Seq(Message)
    /\ Paired(<<>>) /\ Owed(<<>>, 0) = {} /\ Paid(<<>>, 0) = {}
    /\ Answers(<<>>) = {} /\ Cardinality(Answers(<<>>)) = 0
    /\ Tells(<<>>, <<>>)
  <1>1. Answers(<<>>) = {}
    BY DEF Answers
  <1>2. Cardinality(Answers(<<>>)) = 0
    BY <1>1, FS_EmptySet
  <1>3. Since(<<>>, 0) = {}
    BY DEF Since
  <1>4. Len(<<>>) = 0 /\ <<>> \in Seq(Message)
    OBVIOUS
  <1> QED
    BY <1>1, <1>2, <1>3, <1>4 DEF Owed, Paid, Paired, Tells

\* With nothing to do no number is open.
LEMMA NothingToDo ==
    ASSUME NEW queue, queue = <<>>
    PROVE  Outstanding(queue) = {} /\ Distinct(queue)
  BY DEF Outstanding, Distinct

\* When nothing is owed the model may speak: it owes what it calls, and nobody answered yet.
LEMMA Speaks ==
    ASSUME NEW talk \in Seq(Message), NEW text \in Texts, NEW ids \in SUBSET Numbers,
           Paired(talk), Owed(talk, Len(talk)) = Paid(talk, Len(talk))
    PROVE  LET t == Append(talk, Said(text, ids))
           IN /\ t \in Seq(Message) /\ Paired(t)
              /\ Owed(t, Len(t)) = ids /\ Paid(t, Len(t)) = {}
              /\ Answers(t) = Answers(talk)
              /\ \A outcomes : Tells(talk, outcomes) => Tells(t, outcomes)
              /\ t # <<>> /\ t[Len(t)] = Said(text, ids)
  <1> DEFINE m == Said(text, ids)
             t == Append(talk, m)
  <1>1. m \in Message /\ ~IsAnswer(m) /\ m.role = "assistant" /\ m.id = NoId /\ m.ids = ids
    BY SaidType
  <1> HIDE DEF m
  <1>2. /\ t \in Seq(Message) /\ Len(t) = Len(talk) + 1 /\ Len(talk) \in Nat
        /\ t[Len(talk) + 1] = m
    BY <1>1, Appended
  <1>3. Paired(t)
    BY <1>1, PairedLonger
  <1>4. Owed(t, Len(t)) = ids /\ Paid(t, Len(t)) = {}
    BY <1>1, <1>2, SinceSpoken
  <1>5. Answers(t) = Answers(talk) /\ \A outcomes : Tells(talk, outcomes) => Tells(t, outcomes)
    BY <1>1, NoAnswer
  <1>6. t # <<>>
    BY <1>2
  <1> QED
    BY <1>2, <1>3, <1>4, <1>5, <1>6 DEF m

\* Being told something that is no answer to a number.
LEMMA Hears ==
    ASSUME NEW talk \in Seq(Message), Paired(talk),
           NEW says \in {"unreadable", "plan wanted", "rows", "unavailable", "error"}
    PROVE  LET t == Append(talk, Told("user", NoId, says))
           IN /\ t \in Seq(Message) /\ Paired(t)
              /\ Owed(t, Len(t)) = Owed(talk, Len(talk))
              /\ Paid(t, Len(t)) = Paid(talk, Len(talk))
  <1> DEFINE m == Told("user", NoId, says)
             t == Append(talk, m)
  <1>1. m \in Message /\ m.role = "user" /\ m.id = NoId /\ m.ids = {}
    BY NoIdType DEF Told, Message
  <1> HIDE DEF m
  <1>2. t \in Seq(Message) /\ Len(t) = Len(talk) + 1
    BY <1>1, Appended
  <1>3. Paired(t)
    BY <1>1, PairedLonger
  <1>4. /\ Owed(t, Len(t)) = Owed(talk, Len(talk)) \cup m.ids
        /\ Paid(t, Len(t)) = Paid(talk, Len(talk)) \cup ({m.id} \ {NoId})
    <2>1. m.role # "assistant"
      BY <1>1
    <2> QED
      BY <1>1, <1>2, <2>1, SinceTold
  <1>5. Owed(t, Len(t)) = Owed(talk, Len(talk)) /\ Paid(t, Len(t)) = Paid(talk, Len(talk))
    BY <1>1, <1>4
  <1> QED
    BY <1>2, <1>3, <1>5 DEF m

\* An answer to an open number closes it.
LEMMA IsAnswered ==
    ASSUME NEW talk \in Seq(Message), Paired(talk), NEW id \in Numbers \ {NoId},
           NEW says \in {"unreadable", "plan wanted", "rows", "unavailable", "error"},
           id \in Owed(talk, Len(talk)) \ Paid(talk, Len(talk))
    PROVE  LET t == Append(talk, Told("tool", id, says))
           IN /\ t \in Seq(Message) /\ Paired(t)
              /\ Owed(t, Len(t)) = Owed(talk, Len(talk))
              /\ Paid(t, Len(t)) = Paid(talk, Len(talk)) \cup {id}
  <1> DEFINE m == Told("tool", id, says)
             t == Append(talk, m)
  <1>1. m \in Message /\ m.role = "tool" /\ m.id = id /\ m.ids = {}
    BY DEF Told, Message
  <1> HIDE DEF m
  <1>2. t \in Seq(Message) /\ Len(t) = Len(talk) + 1
    BY <1>1, Appended
  <1>3. Paired(t)
    BY <1>1, PairedLonger
  <1>4. /\ Owed(t, Len(t)) = Owed(talk, Len(talk)) \cup m.ids
        /\ Paid(t, Len(t)) = Paid(talk, Len(talk)) \cup ({m.id} \ {NoId})
    <2>1. m.role # "assistant"
      BY <1>1
    <2> QED
      BY <1>1, <1>2, <2>1, SinceTold
  <1>5. Owed(t, Len(t)) = Owed(talk, Len(talk)) /\ Paid(t, Len(t)) = Paid(talk, Len(talk)) \cup {id}
    BY <1>1, <1>4
  <1> QED
    BY <1>2, <1>3, <1>5 DEF m

\* The model speaks when every number is paid.
LEMMA AtAsk ==
    ASSUME TypeOK, Spoken, pc = "ask"
    PROVE  /\ messages \in Seq(Message) /\ Paired(messages) /\ todo = <<>>
           /\ Owed(messages, Len(messages)) = Paid(messages, Len(messages))
  <1>1. todo = <<>> /\ Outstanding(todo) = {}
    BY NothingToDo DEF Spoken
  <1>2. /\ Paid(messages, Len(messages)) \subseteq Owed(messages, Len(messages))
        /\ Owed(messages, Len(messages)) \ Paid(messages, Len(messages)) = {}
    BY <1>1 DEF Spoken, Working, Now
  <1> QED
    BY <1>1, <1>2 DEF TypeOK, Spoken

\* Asked again, with something said and something told.
LEMMA CorrectedKeeps ==
    ASSUME IInv, NEW r \in Replies, NEW says \in {"unreadable", "plan wanted"},
           pc = "ask", mode # "analysis",
           messages' = messages \o <<Said(r.text, {}), Told("user", NoId, says)>>,
           UNCHANGED <<world, mode, pc, todo, ran, tables, result, log>>
    PROVE  Spoken' /\ Truthful' /\ Filed'
  <1> DEFINE a == Said(r.text, {})
             b == Told("user", NoId, says)
             s == Append(messages, a)
             t == Append(s, b)
  <1>1. /\ messages \in Seq(Message) /\ Paired(messages) /\ todo = <<>>
        /\ Owed(messages, Len(messages)) = Paid(messages, Len(messages))
    BY AtAsk DEF IInv
  <1>2. r.text \in Texts
    BY RepliesAssumption
  <1>3. /\ s \in Seq(Message) /\ Paired(s) /\ Owed(s, Len(s)) = {} /\ Paid(s, Len(s)) = {}
        /\ Answers(s) = Answers(messages)
        /\ \A outcomes : Tells(messages, outcomes) => Tells(s, outcomes)
    BY <1>1, <1>2, Speaks
  <1>4. a \in Message /\ b \in Message /\ ~IsAnswer(b)
    BY <1>2, SaidType, ToldType, NoIdType
  <1>5. messages' = t
    BY <1>1, <1>4, TwoAppended
  <1> HIDE DEF a, s
  <1>6. /\ t \in Seq(Message) /\ Paired(t) /\ Owed(t, Len(t)) = {} /\ Paid(t, Len(t)) = {}
    BY <1>3, Hears
  <1>7. /\ Answers(t) = Answers(s)
        /\ \A outcomes : Tells(s, outcomes) => Tells(t, outcomes)
    BY <1>3, <1>4, NoAnswer
  <1> HIDE DEF b, t
  <1>8. Outstanding(todo) = {} /\ Distinct(todo)
    BY <1>1, NothingToDo
  <1>9. Spoken'
    BY <1>1, <1>5, <1>6, <1>8 DEF Spoken, Now
  <1>10. Truthful'
    BY <1>3, <1>5, <1>7 DEF IInv, Truthful
  <1>11. Filed'
    BY DEF IInv, Filed, Working
  <1> QED
    BY <1>9, <1>10, <1>11

\* The calls that are to be run are those the message gives numbers to.
LEMMA CallToolsKeeps ==
    ASSUME IInv, CallTools
    PROVE  Spoken' /\ Truthful' /\ Filed'
  <1>1. PICK r \in Replies :
            /\ messages' = Append(messages, AppendAssistant(r, Understood(r).calls))
            /\ todo' = [i \in 1..Len(Understood(r).calls) |->
                          [name |-> Understood(r).calls[i].name, id |-> Id(Understood(r).calls, i)]]
    BY DEF CallTools
  <1> DEFINE calls == Understood(r).calls
             t == Append(messages, Said(r.text, Ids(calls)))
  <1>2. r.text \in Texts /\ calls \in Seq(Calls)
    BY UnderstoodCalls, RepliesAssumption
  <1>3. todo' = [i \in 1..Len(calls) |-> [name |-> calls[i].name, id |-> Id(calls, i)]]
        /\ messages' = t
    BY <1>1 DEF AppendAssistant
  <1>4. /\ pc = "ask" /\ mode # "analysis" /\ pc' = "call"
        /\ UNCHANGED <<world, mode, ran, tables, result, log>>
    BY DEF CallTools, Ask, MayAsk
  <1> HIDE DEF calls
  <1>5. TypeOK /\ Spoken /\ Truthful /\ Filed /\ Ask
    BY DEF IInv, CallTools
  <1>6. Ids(calls) \in SUBSET Numbers
    BY <1>2, <1>4, <1>5, IdType
  <1>7. /\ messages \in Seq(Message) /\ Paired(messages) /\ todo = <<>>
        /\ Owed(messages, Len(messages)) = Paid(messages, Len(messages))
    BY <1>4, <1>5, AtAsk
  <1>8. /\ Paired(t) /\ Owed(t, Len(t)) = Ids(calls) /\ Paid(t, Len(t)) = {}
        /\ Answers(t) = Answers(messages)
        /\ \A outcomes : Tells(messages, outcomes) => Tells(t, outcomes)
    BY <1>2, <1>6, <1>7, Speaks
  <1> HIDE DEF t
  <1>9. Len(calls) \in Nat /\ Len(todo') = Len(calls)
    BY <1>2, <1>3
  <1>10. \A i \in 1..Len(calls) : todo'[i].id = Id(calls, i)
    BY <1>3
  <1>11. Outstanding(todo') = Ids(calls)
    BY <1>9, <1>10 DEF Outstanding, Ids
  <1>12. Distinct(todo')
    <2> SUFFICES ASSUME NEW j \in 1..Len(calls), NEW k \in 1..Len(calls), j # k,
                        Id(calls, j) # NoId
                 PROVE  Id(calls, j) # Id(calls, k)
      BY <1>9, <1>10 DEF Distinct
    <2>1. Id(calls, j) = <<round + 1, j>>
      BY DEF Id
    <2>2. Id(calls, k) = NoId \/ Id(calls, k) = <<round + 1, k>>
      BY DEF Id
    <2> QED
      BY <2>1, <2>2
  <1>13. Spoken'
    BY <1>3, <1>4, <1>8, <1>11, <1>12 DEF Spoken, Now
  <1>14. Truthful'
    BY <1>3, <1>4, <1>5, <1>8 DEF Truthful
  <1>15. Filed'
    BY <1>4, <1>5 DEF Filed, Working
  <1> QED
    BY <1>13, <1>14, <1>15

\* Between a tool's return and its observation one outcome was not told.
LEMMA InvokeKeeps ==
    ASSUME IInv, Invoke
    PROVE  Spoken' /\ Truthful' /\ Filed'
  <1>1. TypeOK /\ Spoken /\ Truthful /\ Filed
    BY DEF IInv
  <1>2. PICK outcome \in Shown : ran' = Append(ran, outcome)
    BY <1>1, InvokeType
  <1>3. /\ pc = "call" /\ pc' = "observe"
        /\ UNCHANGED <<world, mode, round, messages, todo, tables, result, log>>
    BY DEF Invoke
  <1>4. Len(ran) \in Nat /\ Len(ran') = Len(ran) + 1
    BY <1>1, <1>2 DEF TypeOK
  <1>5. Tells(messages, ran')
    BY <1>1, <1>2, StillTells DEF TypeOK, Truthful
  <1>6. Spoken'
    BY <1>1, <1>3 DEF Spoken, Working, Now
  <1>7. Truthful'
    BY <1>1, <1>3, <1>4, <1>5 DEF Truthful
  <1>8. Filed'
    BY <1>1, <1>3 DEF Filed, Working
  <1> QED
    BY <1>6, <1>7, <1>8

\* Once the head is done, its number is not outstanding any more.
LEMMA HeadPaid ==
    ASSUME NEW queue \in Seq(Steps), queue # <<>>, Distinct(queue)
    PROVE  /\ Distinct(Tail(queue))
           /\ Outstanding(Tail(queue)) = Outstanding(queue) \ {Head(queue).id}
           /\ Head(queue).id # NoId => Head(queue).id \in Outstanding(queue)
  <1> DEFINE t == Tail(queue)
             n == Len(queue)
  <1>1. /\ n \in Nat \ {0} /\ Head(queue) = queue[1] /\ Len(t) = n - 1
        /\ \A i \in 1..n - 1 : t[i] = queue[i + 1]
    BY HeadDone
  <1> HIDE DEF t
  <1>2. Distinct(t)
    BY SMTT(20), <1>1 DEF Distinct
  <1>3. Outstanding(t) \subseteq Outstanding(queue) \ {Head(queue).id}
    <2> SUFFICES ASSUME NEW i \in 1..n - 1, t[i].id # NoId
                 PROVE  t[i].id \in Outstanding(queue) /\ t[i].id # queue[1].id
      BY <1>1 DEF Outstanding
    <2>1. i + 1 \in 1..n /\ 1 \in 1..n /\ i + 1 # 1 /\ t[i] = queue[i + 1]
      BY <1>1
    <2> QED
      BY <2>1 DEF Outstanding, Distinct
  <1>4. Outstanding(queue) \ {Head(queue).id} \subseteq Outstanding(t)
    <2> SUFFICES ASSUME NEW i \in 1..n, queue[i].id # NoId, queue[i].id # queue[1].id
                 PROVE  queue[i].id \in Outstanding(t)
      BY <1>1 DEF Outstanding
    <2>1. i - 1 \in 1..n - 1 /\ t[i - 1] = queue[i]
      BY <1>1
    <2> QED
      BY <1>1, <2>1 DEF Outstanding
  <1>5. Head(queue).id # NoId => Head(queue).id \in Outstanding(queue)
    BY <1>1 DEF Outstanding
  <1> QED
    BY <1>2, <1>3, <1>4, <1>5 DEF t

\* The outcome that is told is that of the call at the head.
LEMMA ObserveKeeps ==
    ASSUME IInv, Observe
    PROVE  ran # <<>> /\ Spoken' /\ Truthful' /\ Filed'
  <1>1. TypeOK /\ Spoken /\ Truthful /\ Filed
    BY DEF IInv
  <1> DEFINE id == Head(todo).id
             says == Observation(ran[Len(ran)])
             role == IF id = NoId THEN "user" ELSE "tool"
             m == Told(role, id, says)
             t == Append(messages, m)
  <1>2. /\ pc = "observe" /\ messages' = t /\ todo' = Tail(todo)
        /\ pc' = IF Len(todo) = 1 THEN "ask" ELSE "call"
        /\ UNCHANGED <<world, mode, round, ran, tables, result, log>>
    BY DEF Observe
  <1>3. /\ messages \in Seq(Message) /\ ran \in Seq(Shown) /\ todo \in Seq(Steps) /\ todo # <<>>
    BY <1>1, <1>2 DEF TypeOK, Steps
  <1>4. Len(ran) \in Nat /\ Cardinality(Answers(messages)) \in Nat
        /\ Len(ran) = Cardinality(Answers(messages)) + 1
    BY <1>1, <1>2, <1>3, AnswersFinite DEF Truthful
  <1>5. ran # <<>> /\ ran[Len(ran)] \in Shown
    BY <1>3, <1>4
  <1>6. says \in {"rows", "unavailable", "error"} /\ says = Reported(ran[Len(ran)])
    BY <1>5 DEF Observation, Shown, Reported
  <1>7. /\ Len(todo) \in Nat \ {0} /\ Head(todo) \in Steps
        /\ Len(todo) = 1 => Tail(todo) = <<>>
        /\ Len(todo) # 1 => Tail(todo) # <<>>
    BY <1>3, HeadDone
  <1>8. id \in Numbers
    BY <1>7 DEF Steps
  <1>9. /\ Distinct(Tail(todo)) /\ Outstanding(Tail(todo)) = Outstanding(todo) \ {id}
        /\ id # NoId => id \in Outstanding(todo)
    BY <1>1, <1>3, HeadPaid DEF Spoken
  <1>10. /\ Paired(messages)
         /\ Paid(messages, Len(messages)) \subseteq Owed(messages, Len(messages))
         /\ Owed(messages, Len(messages)) \ Paid(messages, Len(messages)) = Outstanding(todo)
    BY <1>1, <1>2 DEF Spoken, Working, Now
  <1> HIDE DEF id, says
  <1>11. m \in Message /\ IsAnswer(m) /\ m.says = says
    BY <1>6, <1>8 DEF Told, Message, IsAnswer, role
  <1>12. /\ Paired(t) /\ Owed(t, Len(t)) = Owed(messages, Len(messages))
         /\ Paid(t, Len(t)) = Paid(messages, Len(messages)) \cup ({id} \ {NoId})
    <2>1. CASE id = NoId
      <3> DEFINE x == Append(messages, Told("user", NoId, says))
      <3>1. t = x
        BY <2>1
      <3>2. says \in {"unreadable", "plan wanted", "rows", "unavailable", "error"}
        BY <1>6
      <3>3. /\ Paired(x) /\ Owed(x, Len(x)) = Owed(messages, Len(messages))
            /\ Paid(x, Len(x)) = Paid(messages, Len(messages))
        BY <1>3, <1>10, <3>2, Hears
      <3> HIDE DEF x, t
      <3> QED
        BY <2>1, <3>1, <3>3
    <2>2. CASE id # NoId
      <3> DEFINE x == Append(messages, Told("tool", id, says))
      <3>1. t = x
        BY <2>2
      <3>2. says \in {"unreadable", "plan wanted", "rows", "unavailable", "error"}
        BY <1>6
      <3>3. id \in Numbers \ {NoId} /\ id \in Owed(messages, Len(messages)) \ Paid(messages, Len(messages))
        BY <1>8, <1>9, <1>10, <2>2
      <3>4. /\ Paired(x) /\ Owed(x, Len(x)) = Owed(messages, Len(messages))
            /\ Paid(x, Len(x)) = Paid(messages, Len(messages)) \cup {id}
        BY ZenonT(40), <1>3, <1>10, <3>2, <3>3, IsAnswered
      <3> HIDE DEF x, t
      <3> QED
        BY <2>2, <3>1, <3>4
    <2> QED
      BY <2>1, <2>2
  <1>13. Cardinality(Answers(t)) = Len(ran) /\ Tells(t, ran)
    BY <1>1, <1>3, <1>4, <1>6, <1>11, OneAnswer DEF Truthful
  <1> HIDE DEF role, m, t
  <1>14. NoId \notin Outstanding(todo)
    BY DEF Outstanding
  <1>15. /\ Paid(t, Len(t)) \subseteq Owed(t, Len(t))
         /\ Owed(t, Len(t)) \ Paid(t, Len(t)) = Outstanding(Tail(todo))
    BY <1>9, <1>10, <1>12, <1>14
  <1>16. Spoken'
    BY <1>2, <1>7, <1>9, <1>12, <1>15 DEF Spoken, Now
  <1>17. Truthful'
    BY <1>1, <1>2, <1>13 DEF Truthful
  <1>18. Filed'
    BY <1>1, <1>2 DEF Filed, Working
  <1> QED
    BY <1>5, <1>16, <1>17, <1>18

\* The run ends with what the model said last, or with nothing.
LEMMA ConcludeKeeps ==
    ASSUME IInv, Conclude
    PROVE  Spoken' /\ Truthful' /\ Filed'
  <1>1. TypeOK /\ Spoken /\ Truthful /\ Filed
    BY DEF IInv
  <1>2. PICK r \in Replies :
            /\ messages' = Append(messages, Said(r.text, {}))
            /\ result' = IF Usable(r.text) THEN r.text ELSE Nothing
    BY DEF Conclude
  <1>3. r.text \in Texts /\ mode \in Modes /\ {} \in SUBSET Numbers
    BY <1>1, RepliesAssumption DEF TypeOK
  <1>4. /\ pc = "ask" /\ mode # "analysis" /\ pc' = "save"
        /\ UNCHANGED <<world, mode, todo, ran, tables, log>>
    BY DEF Conclude, Ask, MayAsk
  <1>5. /\ messages \in Seq(Message) /\ Paired(messages) /\ todo = <<>>
        /\ Owed(messages, Len(messages)) = Paid(messages, Len(messages))
    BY <1>1, <1>4, AtAsk
  <1> DEFINE a == Said(r.text, {})
             t == Append(messages, a)
  <1>6. /\ Paired(t) /\ Answers(t) = Answers(messages)
        /\ \A outcomes : Tells(messages, outcomes) => Tells(t, outcomes)
        /\ t # <<>> /\ t[Len(t)] = a
    BY <1>3, <1>5, Speaks
  <1>7. a.role = "assistant" /\ a.ids = {} /\ a.says = r.text
    BY DEF Said
  <1>8. messages' = t
    BY <1>2
  <1> HIDE DEF a, t
  <1>9. Nothing' = Nothing
    BY <1>4 DEF Nothing
  <1>10. mode = "decide" => result' \in Signals
    BY <1>2, <1>3, UsableType
  <1>11. Spoken'
    BY <1>1, <1>4, <1>5, <1>6, <1>8 DEF Spoken, Working
  <1>12. Truthful'
    BY <1>1, <1>4, <1>6, <1>8 DEF Truthful
  <1>13. Concluded'
    BY <1>2, <1>6, <1>7, <1>8, <1>9 DEF Concluded, Now
  <1>14. Filed'
    BY <1>1, <1>4, <1>10, <1>13 DEF Filed, Working
  <1> QED
    BY <1>11, <1>12, <1>14

\* An analysis keeps the signal alone.
LEMMA AnalyzeKeeps ==
    ASSUME IInv, Analyze
    PROVE  Spoken' /\ Truthful' /\ Filed'
  <1>1. TypeOK /\ Spoken /\ Truthful /\ Filed
    BY DEF IInv
  <1>2. PICK r \in Replies :
            /\ messages' = IF Usable(r.text) THEN <<Said(r.text, {})>> ELSE <<>>
            /\ pc' = IF r.text = "" /\ round = 0 THEN "ask" ELSE "save"
            /\ result' = IF pc' = "ask" THEN "none" ELSE IF Usable(r.text) THEN r.text ELSE Nothing
    BY DEF Analyze
  <1>3. r.text \in Texts /\ mode = "analysis" /\ {} \in SUBSET Numbers
    BY RepliesAssumption DEF Analyze
  <1>4. /\ pc = "ask" /\ UNCHANGED <<world, mode, todo, ran, tables, log>>
    BY DEF Analyze, Ask, MayAsk
  <1>5. ran = <<>> /\ todo = <<>> /\ log = <<>>
    BY <1>1, <1>3, <1>4 DEF Truthful, Spoken, Filed, Working
  <1>6. Usable(r.text) => r.text # ""
    BY <1>3 DEF Usable, Signals
  <1>7. Distinct(todo) /\ Outstanding(todo) = {}
    BY <1>5, NothingToDo
  <1>8. Nothing' = Nothing
    BY <1>4 DEF Nothing
  <1>9. CASE Usable(r.text)
    <2> DEFINE a == Said(r.text, {})
               s == <<>>
               t == Append(s, a)
    <2>1. Len(s) = 0
      OBVIOUS
    <2>2. /\ s \in Seq(Message) /\ Paired(s) /\ Owed(s, 0) = Paid(s, 0)
          /\ Answers(s) = {} /\ Cardinality(Answers(s)) = 0 /\ Tells(s, s)
      BY NothingSaid
    <2>3. a.role = "assistant" /\ a.ids = {} /\ a.says = r.text
      BY DEF Said
    <2>4. t = <<a>> /\ ran = s
      BY <1>5
    <2>5. messages' = t /\ pc' = "save" /\ result' = r.text
      BY <1>2, <1>6, <1>9, <2>4
    <2> HIDE DEF s
    <2>6. /\ Paired(t) /\ Answers(t) = Answers(s) /\ Tells(t, s)
          /\ t # <<>> /\ t[Len(t)] = a
      <3>1. Owed(s, Len(s)) = Paid(s, Len(s))
        BY <2>1, <2>2
      <3>2. s \in Seq(Message) /\ Paired(s) /\ Tells(s, s)
        BY <2>2
      <3>3. r.text \in Texts /\ {} \in SUBSET Numbers
        BY <1>3
      <3> QED
        BY <3>1, <3>2, <3>3, Speaks
    <2> HIDE DEF a, t
    <2>7. Spoken'
      BY <1>4, <1>5, <1>7, <2>5, <2>6 DEF Spoken, Working
    <2>8. Truthful'
      <3>1. Cardinality(Answers(t)) = 0 /\ Len(ran) = 0 /\ Tells(t, ran)
        BY <2>1, <2>2, <2>4, <2>6
      <3>2. ran' = ran /\ mode' = mode
        BY <1>4
      <3> QED
        BY <1>5, <2>5, <3>1, <3>2 DEF Truthful
    <2>9. Concluded'
      BY <2>3, <2>5, <2>6 DEF Concluded, Now
    <2>10. Filed'
      BY <1>3, <1>4, <1>5, <2>5, <2>9 DEF Filed, Working
    <2> QED
      BY <2>7, <2>8, <2>10
  <1>10. CASE ~Usable(r.text)
    <2>1. /\ messages' = <<>> /\ pc' \in {"ask", "save"}
          /\ result' = IF pc' = "ask" THEN "none" ELSE Nothing
      BY <1>2, <1>10
    <2>2. Len(<<>>) = 0
      OBVIOUS
    <2>3. Spoken'
      BY <1>4, <1>5, <1>7, <2>1, <2>2, NothingSaid DEF Spoken, Now
    <2>4. Truthful'
      BY <1>4, <1>5, <2>1, <2>2, NothingSaid DEF Truthful
    <2>5. pc' = "save" => Concluded'
      BY <1>8, <2>1 DEF Concluded
    <2>6. Filed'
      BY <1>3, <1>4, <1>5, <2>1, <2>5 DEF Filed, Working
    <2> QED
      BY <2>3, <2>4, <2>6
  <1> QED
    BY <1>9, <1>10

\* Nothing comes of it, and nothing more is said.
LEMMA EndingKeeps ==
    ASSUME IInv, GiveUp \/ Unreachable \/ Garbled
    PROVE  Spoken' /\ Truthful' /\ Filed'
  <1>1. TypeOK /\ Spoken /\ Truthful /\ Filed /\ mode \in Modes /\ "" \in Texts
    BY DEF IInv, TypeOK, Texts
  <1>2. pc = "ask" /\ UNCHANGED <<mode, todo, log>>
    BY DEF GiveUp, Unreachable, Garbled, Ask, MayAsk
  <1>3. todo = <<>> /\ Distinct(todo) /\ log = <<>>
    BY <1>1, <1>2, NothingToDo DEF Spoken, Filed, Working
  <1>4. Nothing' = Nothing /\ (mode = "decide" => Nothing \in Signals)
    BY <1>1, <1>2, UsableType DEF Nothing
  <1>5. CASE GiveUp \/ Unreachable
    <2>1. pc' = "save" /\ result' = Nothing /\ UNCHANGED <<messages, ran>>
      BY <1>5 DEF GiveUp, Unreachable
    <2>2. Spoken'
      BY <1>1, <1>2, <1>3, <2>1 DEF Spoken, Working
    <2>3. Truthful'
      BY <1>1, <1>2, <2>1 DEF Truthful
    <2>4. Filed'
      BY <1>2, <1>3, <1>4, <2>1 DEF Filed, Working, Concluded
    <2> QED
      BY <2>2, <2>3, <2>4
  <1>6. CASE Garbled
    <2>1. /\ pc' = IF mode = "decide" THEN "failed" ELSE "save"
          /\ result' = IF mode = "decide" THEN "none" ELSE Nothing
          /\ messages' = <<>> /\ ran' = <<>>
      BY <1>6 DEF Garbled
    <2>2. Len(<<>>) = 0
      OBVIOUS
    <2>3. Spoken'
      BY <1>2, <1>3, <2>1, NothingSaid DEF Spoken, Working
    <2>4. Truthful'
      BY <1>2, <2>1, <2>2, NothingSaid DEF Truthful
    <2>5. Filed'
      BY <1>2, <1>3, <1>4, <2>1 DEF Filed, Working, Concluded
    <2> QED
      BY <2>3, <2>4, <2>5
  <1> QED
    BY <1>5, <1>6

\* One row more, of what was said and done.
LEMMA RowWritten ==
    ASSUME TypeOK, log = <<>>
    PROVE  /\ Len(Append(log, Row)) = 1 /\ Append(log, Row) # <<>>
           /\ Append(log, Row)[1].result = result /\ Append(log, Row)[1].messages = messages
           /\ mode = "plan" => Append(log, Row)[1].calls = ran
  <1>1. Len(Append(log, Row)) = 1 /\ Append(log, Row)[1] = Row /\ Append(log, Row) # <<>>
    OBVIOUS
  <1>2. Row.result = result /\ Row.messages = messages /\ (mode = "plan" => Row.calls = ran)
    BY DEF TypeOK, Modes, Row, PlanRow, DecisionRow, AnalysisRow
  <1> QED
    BY <1>1, <1>2

\* The first row is the last.
LEMMA SavingKeeps ==
    ASSUME IInv, Save \/ SaveFails \/ Cancel
    PROVE  Spoken' /\ Truthful' /\ Filed'
  <1>1. TypeOK /\ Spoken /\ Truthful /\ Filed
    BY DEF IInv
  <1> DEFINE longer == Append(log, Row)
  <1>2. pc = "save" => log = <<>>
    BY <1>1 DEF Filed
  <1>3. CASE Save
    <2>1. /\ pc = "save" /\ log' = longer /\ pc' = "returned"
          /\ UNCHANGED <<world, mode, round, messages, todo, ran, tables, result>>
      BY <1>3 DEF Save
    <2>2. /\ Len(longer) = 1 /\ longer # <<>>
          /\ longer[1].result = result /\ longer[1].messages = messages
          /\ mode = "plan" => longer[1].calls = ran
      BY <1>1, <1>2, <2>1, RowWritten
    <2> HIDE DEF longer
    <2>3. Spoken'
      BY <1>1, <2>1 DEF Spoken, Working
    <2>4. Truthful'
      BY <1>1, <2>1 DEF Truthful
    <2>5. Concluded' <=> Concluded
      BY <2>1 DEF Concluded, Now, Nothing
    <2>6. Filed'
      BY <1>1, <2>1, <2>2, <2>5 DEF Filed, Working
    <2> QED
      BY <2>3, <2>4, <2>6
  <1>4. CASE SaveFails \/ Cancel
    <2>1. /\ pc' = "failed" /\ messages' = <<>> /\ todo' = <<>> /\ ran' = <<>> /\ mode' = mode
          /\ log' = log \/ (pc = "save" /\ log' = longer)
      BY <1>4 DEF SaveFails, Cancel, Raise
    <2>2. pc = "save" /\ log' = longer => Len(log') = 1
      <3>1. pc = "save" => Len(longer) = 1
        BY <1>1, <1>2, RowWritten
      <3> HIDE DEF longer
      <3> QED
        BY <3>1
    <2> HIDE DEF longer
    <2>3. Len(<<>>) = 0
      OBVIOUS
    <2>4. Spoken'
      BY <2>1, NothingSaid, NothingToDo DEF Spoken, Working
    <2>5. Truthful'
      BY <2>1, <2>3, NothingSaid DEF Truthful
    <2>6. Len(log') <= 1
      <3>1. Len(log) <= 1
        BY <1>1 DEF Filed
      <3>2. CASE log' = log
        BY <3>1, <3>2
      <3>3. CASE pc = "save" /\ log' = longer
        <4>1. Len(log') = 1
          BY <2>2, <3>3
        <4> QED
          BY <4>1
      <3> QED
        BY <2>1, <3>2, <3>3
    <2>7. Filed'
      BY <2>1, <2>6 DEF Filed, Working
    <2> QED
      BY <2>4, <2>5, <2>7
  <1> QED
    BY <1>3, <1>4

\* The invariant holds to begin with.
LEMMA InitKeeps ==
    ASSUME Init
    PROVE  IInv
  <1>1. TypeOK
    BY InitType
  <1>2. /\ pc = "ask" /\ messages = <<>> /\ todo = <<>> /\ ran = <<>> /\ log = <<>> /\ result = "none"
    BY DEF Init
  <1>3. Len(<<>>) = 0
    OBVIOUS
  <1>4. Spoken
    BY <1>2, <1>3, NothingSaid, NothingToDo DEF Spoken, Now
  <1>5. Truthful
    BY <1>2, <1>3, NothingSaid DEF Truthful
  <1>6. Filed
    BY <1>2, <1>3 DEF Filed
  <1> QED
    BY <1>1, <1>4, <1>5, <1>6 DEF IInv

\* Every step keeps it.
LEMMA NextKeeps ==
    ASSUME IInv, [Next]_vars
    PROVE  IInv'
  <1>1. TypeOK /\ Filed
    BY DEF IInv
  <1>2. CASE Misread
    <2>1. /\ pc = "ask" /\ mode # "analysis"
          /\ \E r \in Replies :
                messages' = messages \o <<Said(r.text, {}), Told("user", NoId, "unreadable")>>
          /\ UNCHANGED <<world, mode, pc, todo, ran, tables, result, log>>
      BY <1>2 DEF Misread, Ask, MayAsk
    <2> QED
      BY <1>1, <1>2, <2>1, MisreadType, CorrectedKeeps DEF IInv
  <1>3. CASE AskAgain
    <2>1. /\ pc = "ask" /\ mode # "analysis"
          /\ \E r \in Replies :
                messages' = messages \o <<Said(r.text, {}), Told("user", NoId, "plan wanted")>>
          /\ UNCHANGED <<world, mode, pc, todo, ran, tables, result, log>>
      BY <1>3 DEF AskAgain, Ask, MayAsk
    <2> QED
      BY <1>1, <1>3, <2>1, AskAgainType, CorrectedKeeps DEF IInv
  <1>4. CASE CallTools
    BY <1>1, <1>4, CallToolsType, CallToolsKeeps DEF IInv
  <1>5. CASE Invoke
    BY <1>1, <1>5, InvokeType, InvokeKeeps DEF IInv
  <1>6. CASE Observe
    BY <1>1, <1>6, ObserveType, ObserveKeeps DEF IInv
  <1>7. CASE Conclude
    BY <1>1, <1>7, ConcludeType, ConcludeKeeps DEF IInv
  <1>8. CASE Analyze
    BY <1>1, <1>8, AnalyzeType, AnalyzeKeeps DEF IInv
  <1>9. CASE GiveUp \/ Unreachable \/ Garbled
    BY <1>1, <1>9, EndingType, EndingKeeps DEF IInv
  <1>10. CASE Save \/ SaveFails \/ Cancel
    BY <1>1, <1>10, SavingType, SavingKeeps DEF IInv
  <1>11. CASE Fill
    <2>1. UNCHANGED <<world, mode, pc, round, messages, todo, ran, result, log>>
      BY <1>11 DEF Fill
    <2>2. Spoken' /\ Truthful' /\ Filed'
      BY <2>1 DEF IInv, Spoken, Now, Truthful, Filed, Concluded, Nothing
    <2> QED
      BY <1>1, <1>11, <2>2, FillType DEF IInv
  <1>12. CASE UNCHANGED vars
    BY <1>12 DEF vars, IInv, TypeOK, Spoken, Now, Truthful, Filed, Concluded, Nothing
  <1> QED
    BY <1>2, <1>3, <1>4, <1>5, <1>6, <1>7, <1>8, <1>9, <1>10, <1>11, <1>12 DEF Next

\* The invariant: what is owed is what is left to do, what was told is what the tools
\* returned, and what is filed is what was said (Manager.plan, Manager.decide, MarketAnalyzer.analyze).
THEOREM Invariant == Spec => []IInv
  <1>1. Init => IInv
    BY InitKeeps
  <1>2. IInv /\ [Next]_vars => IInv'
    BY NextKeeps
  <1> QED
    BY <1>1, <1>2, PTL DEF Spec

\* Every state has its types: rounds stay within their limit, a tool is only run while
\* calls are left, and a decision's row never lacks a signal (TypeOK).
THEOREM TypeCorrect == Spec => []TypeOK
  <1>1. IInv => TypeOK
    BY DEF IInv
  <1> QED
    BY <1>1, Invariant, PTL

\* In the invariant's states the model was told the truth.
LEMMA InvariantTells ==
    ASSUME IInv
    PROVE  AnswersAreTrue
  <1>1. Truthful /\ Spoken /\ TypeOK
    BY DEF IInv
  <1>2. \A i \in Answers(messages) :
           messages[i].says = Reported(ran[Cardinality({k \in Answers(messages) : k <= i})])
    BY <1>1 DEF Truthful, Tells, Rank
  <1>3. pc = "ask" => Owed(messages, Now) = Paid(messages, Now)
    BY <1>1, AtAsk DEF Now
  <1> QED
    BY <1>1, <1>2, <1>3 DEF AnswersAreTrue, Truthful, Spoken, Paired, Now, Reported

\* In the invariant's states the row tells what was said.
LEMMA InvariantRecords ==
    ASSUME IInv
    PROVE  SaidAndRecorded
  <1>1. Filed /\ Truthful
    BY DEF IInv
  <1>2. pc = "returned" => Cardinality(Answers(messages)) = Len(ran)
    BY DEF IInv, TypeOK, Truthful
  <1> QED
    BY <1>1, <1>2 DEF SaidAndRecorded, Filed, Concluded, Working, Now

\* The model is told of every call once, in order and as it went, before it speaks again,
\* and every number it gave is answered and no other (_invoke, _observation_message).
THEOREM AnswersTold == Spec => []AnswersAreTrue
  <1>1. IInv => AnswersAreTrue
    BY InvariantTells
  <1> QED
    BY <1>1, Invariant, PTL

\* What is returned is what the model said last, or nothing, and stands in the one row of
\* the run with the conversation that led to it (Manager.plan, decide; the analyzer).
THEOREM ResultsRecorded == Spec => []SaidAndRecorded
  <1>1. IInv => SaidAndRecorded
    BY InvariantRecords
  <1> QED
    BY <1>1, Invariant, PTL

-----------------------------------------------------------------------------
(***************************************************************************)
(* Every run ends.                                                         *)
(***************************************************************************)
\* How far a run is from its end: what it has still to be, the rounds that are left,
\* and the steps of this round.
Stage == IF pc \in Working THEN 2 ELSE IF pc = "save" THEN 1 ELSE 0
Left == Limit - round
Work == 2 * Len(todo) + (IF pc = "call" THEN 1 ELSE 0)

\* Every step brings a run nearer to its end, in the order of stage, rounds and work, or
\* fills one of the few tables while it stands still.
Nearer ==
    \/ Stage' < Stage
    \/ Stage' = Stage /\ Left' < Left
    \/ Stage' = Stage /\ Left' = Left /\ Work' < Work
    \/ /\ Stage' = Stage /\ Left' = Left /\ Work' = Work
       /\ tables \subseteq tables' /\ tables' # tables
Advances == [][Nearer]_vars

\* What is left is never less than nothing.
LEMMA AheadType ==
    ASSUME TypeOK
    PROVE  Stage \in 0..2 /\ Left \in Nat /\ Work \in Nat /\ tables \subseteq Tables
  <1>1. Limit \in Nat /\ round \in 0..Limit /\ Len(todo) \in Nat
    BY RoundsAssumption DEF TypeOK, Limit
  <1>2. Stage \in 0..2
    BY DEF Stage
  <1>3. Left \in Nat
    BY <1>1 DEF Left
  <1>4. Work \in Nat
    BY <1>1 DEF Work
  <1> QED
    BY <1>2, <1>3, <1>4 DEF TypeOK

\* Asking takes a round, running a tool and telling of it some work, and the rest ends
\* the rounds or the run.
LEMMA StepAdvances ==
    ASSUME IInv, Next
    PROVE  Nearer
  <1>1. TypeOK /\ Left \in Nat /\ Work \in Nat /\ round \in Nat /\ Limit \in Nat
    BY AheadType, RoundsAssumption DEF IInv, TypeOK, Limit
  <1>2. mode' = mode
    BY DEF Next, Misread, CallTools, Invoke, Observe, Conclude, AskAgain, Analyze, GiveUp,
           Unreachable, Garbled, Save, SaveFails, Cancel, Fill
  <1>3. Limit' = Limit
    BY <1>2 DEF Limit
  <1>4. ASSUME Ask, pc' \in Working
        PROVE  Nearer
    <2>1. pc = "ask" /\ round' = round + 1
      BY <1>4 DEF Ask, MayAsk
    <2>2. Stage' = Stage
      BY <1>4, <2>1 DEF Stage, Working
    <2>3. Left' < Left
      BY <1>1, <1>3, <2>1 DEF Left
    <2> QED
      BY <2>2, <2>3 DEF Nearer
  <1>5. ASSUME pc \in Working, pc' \in {"save"} \cup Ends
        PROVE  Nearer
    <2>1. Stage' < Stage
      BY <1>5 DEF Stage, Working, Ends
    <2> QED
      BY <2>1 DEF Nearer
  <1>6. CASE Misread \/ CallTools \/ AskAgain
    <2>1. Ask /\ pc' \in Working
      BY <1>6 DEF Misread, CallTools, AskAgain, Ask, MayAsk, Working
    <2> QED
      BY <1>4, <2>1
  <1>7. CASE Conclude \/ GiveUp \/ Unreachable \/ Garbled
    <2>1. pc \in Working /\ pc' \in {"save"} \cup Ends
      BY <1>7 DEF Conclude, GiveUp, Unreachable, Garbled, Ask, MayAsk, Working, Ends
    <2> QED
      BY <1>5, <2>1
  <1>8. CASE Analyze
    <2>1. Ask /\ pc \in Working /\ pc' \in {"ask", "save"}
      BY <1>8 DEF Analyze, Ask, MayAsk, Working
    <2> QED
      BY <1>4, <1>5, <2>1 DEF Working
  <1>9. CASE Invoke
    <2>1. pc = "call" /\ pc' = "observe" /\ round' = round /\ todo' = todo
      BY <1>9 DEF Invoke
    <2>2. Stage' = Stage /\ Left' = Left
      BY <1>3, <2>1 DEF Stage, Left, Working
    <2>3. Len(todo) \in Nat
      BY <1>1 DEF TypeOK
    <2>4. Work' < Work
      BY <2>1, <2>3 DEF Work
    <2> QED
      BY <2>2, <2>4 DEF Nearer
  <1>10. CASE Observe
    <2>1. /\ pc = "observe" /\ pc' \in {"ask", "call"} /\ round' = round /\ todo' = Tail(todo)
      BY <1>10 DEF Observe
    <2>2. Stage' = Stage /\ Left' = Left
      BY <1>3, <2>1 DEF Stage, Left, Working
    <2>3. todo \in Seq(Steps) /\ todo # <<>>
      BY <1>1, <2>1 DEF TypeOK, Steps
    <2>4. Len(todo) \in Nat /\ Len(Tail(todo)) = Len(todo) - 1
      BY <2>3, HeadDone
    <2>5. Work = 2 * Len(todo)
      BY <2>1, <2>4 DEF Work
    <2>6. Work' = 2 * (Len(todo) - 1) + (IF pc' = "call" THEN 1 ELSE 0)
      BY <2>1, <2>4 DEF Work
    <2>7. Work' < Work
      BY <2>4, <2>5, <2>6
    <2> QED
      BY <2>2, <2>7 DEF Nearer
  <1>11. CASE Save \/ SaveFails \/ Cancel
    <2>1. pc \in Working \cup {"save"} /\ pc' \in Ends
      BY <1>11 DEF Save, SaveFails, Cancel, Raise, Working, Ends
    <2>2. Stage' < Stage
      BY <2>1 DEF Stage, Working, Ends
    <2> QED
      BY <2>2 DEF Nearer
  <1>12. CASE Fill
    <2>1. /\ UNCHANGED <<pc, round, todo>>
          /\ tables \subseteq tables' /\ tables' # tables
      BY <1>12 DEF Fill
    <2>2. Stage' = Stage /\ Left' = Left /\ Work' = Work
      BY <1>3, <2>1 DEF Stage, Left, Work
    <2> QED
      BY <2>1, <2>2 DEF Nearer
  <1> QED
    BY <1>6, <1>7, <1>8, <1>9, <1>10, <1>11, <1>12 DEF Next

\* Whatever a model answers, however many calls it makes and whatever fails, no run of
\* plan, decide or analyze goes on for ever: there are MAX_ROUNDS rounds of finitely
\* many steps (loop.py, and the second question of MarketAnalyzer.analyze).
THEOREM RunsAdvance == Spec => Advances
  <1>1. ASSUME IInv, [Next]_vars
        PROVE  [Nearer]_vars
    BY <1>1, StepAdvances
  <1> QED
    BY <1>1, Invariant, PTL DEF Spec, Advances

=============================================================================

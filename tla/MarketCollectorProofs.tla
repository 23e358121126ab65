------------------------ MODULE MarketCollectorProofs ------------------------
(***************************************************************************)
(* Proofs about MarketCollector, for every bound, every size of window and *)
(* chunk, and every world: types, one collector at a time, only finished   *)
(* bars, nothing missed by a living connection, no hole behind a backfill. *)
(*                                                                         *)
(* First what gaps and chunks are, then what each action does field by     *)
(* field, then one lemma per part of the inductive invariant.              *)
(*                                                                         *)
(* At the end, what RecentIsComplete has besides fairness: collectors come *)
(* nearer to rest with every step, and at rest everything recent is stored *)
(* (CollectorsSettle, SettledComplete).                                    *)
(***************************************************************************)
EXTENDS MarketCollector, Induction, SequenceTheorems

\* The last stored bar.
LEMMA LastStoredType ==
    ASSUME MaxBar \in Nat
    PROVE  LastStored \in 0..MaxBar + 1
  <1>1. Stored(1, MaxBar + 1) \in SUBSET (0..MaxBar + 1) /\ MaxBar + 1 \in Nat
    BY DEF Stored, Bars
  <1>2. CASE Stored(1, MaxBar + 1) = {}
    BY <1>2 DEF LastStored
  <1>3. CASE Stored(1, MaxBar + 1) # {}
    <2>1. \E b \in Stored(1, MaxBar + 1) : \A c \in Stored(1, MaxBar + 1) : c <= b
      BY <1>1, <1>3, LargestOf
    <2>2. LastStored \in Stored(1, MaxBar + 1)
      BY <2>1, <1>3 DEF LastStored
    <2> QED
      BY <2>2, <1>1
  <1> QED
    BY <1>2, <1>3

\* Every missing bar lies in a gap.
LEMMA GapAround ==
    ASSUME NEW have, NEW lo \in Nat, NEW hi \in Nat, NEW b \in lo..hi, b \notin have
    PROVE  \E g \in Gaps(have, lo, hi) : g[1] <= b /\ b <= g[2]
  <1> DEFINE L == {x \in lo..b : (x..b) \cap have = {}}
             H == {y \in b..hi : (b..y) \cap have = {}}
  <1>1. /\ L \in SUBSET (0..b) /\ L # {}
        /\ H \in SUBSET (0..hi) /\ H # {}
    <2>1. b \in L /\ b \in H
      OBVIOUS
    <2> QED
      BY <2>1
  <1>2. PICK x \in L : \A y \in L : x <= y
    <2> b \in Nat
      OBVIOUS
    <2> HIDE DEF L, H
    <2> QED
      BY <1>1, LeastOf
  <1>3. PICK z \in H : \A y \in H : y <= z
    <2> HIDE DEF L, H
    <2> QED
      BY <1>1, LargestOf
  <1>4. x = lo \/ x - 1 \in have
    <2> SUFFICES ASSUME x # lo, x - 1 \notin have PROVE FALSE
      OBVIOUS
    <2>1. ((x - 1)..b) \cap have = {}
      OBVIOUS
    <2>2. x - 1 \in L
      BY <2>1
    <2> QED
      BY <2>2, <1>2
  <1>5. z = hi \/ z + 1 \in have
    <2> SUFFICES ASSUME z # hi, z + 1 \notin have PROVE FALSE
      OBVIOUS
    <2>1. (b..(z + 1)) \cap have = {}
      OBVIOUS
    <2>2. z + 1 \in H
      BY <2>1
    <2> QED
      BY <2>2, <1>3
  <1>6. (x..z) \cap have = {}
    OBVIOUS
  <1>7. <<x, z>> \in Gaps(have, lo, hi)
    BY <1>4, <1>5, <1>6 DEF Gaps
  <1> QED
    BY <1>7

\* The chunks of a range lie in it and leave nothing of it out.
LEMMA ChunkBounds ==
    ASSUME NEW lo \in Nat, NEW hi \in Nat, NEW c \in Chunks(lo, hi), ChunkBars \in Nat \ {0}
    PROVE  c[1] \in lo..hi /\ c[2] \in lo..hi /\ c = <<c[1], c[2]>>
  <1>1. PICK k \in 0..((hi - lo) \div ChunkBars) :
            c = <<lo + k * ChunkBars, Least(lo + (k + 1) * ChunkBars - 1, hi)>>
    BY DEF Chunks
  <1>2. (hi - lo) \div ChunkBars \in Int
    BY ChunkBars \in Nat \ {0}
  <1>3. k \in Nat /\ k <= (hi - lo) \div ChunkBars
    BY <1>2
  <1>4. ChunkBars * ((hi - lo) \div ChunkBars) <= hi - lo
    BY SMT
  <1>5. k * ChunkBars <= ChunkBars * ((hi - lo) \div ChunkBars)
    BY <1>2, <1>3, SMT
  <1>6. k * ChunkBars \in Nat /\ (k + 1) * ChunkBars = k * ChunkBars + ChunkBars
    BY <1>3, SMT
  <1>7. k * ChunkBars <= hi - lo
    BY <1>2, <1>4, <1>5, <1>6
  <1> QED
    BY <1>1, <1>6, <1>7 DEF Least
\* ... and every bar of the range lies in one of them.
LEMMA ChunkAround ==
    ASSUME NEW lo \in Nat, NEW hi \in Nat, NEW b \in lo..hi, ChunkBars \in Nat \ {0}
    PROVE  \E c \in Chunks(lo, hi) : c[1] <= b /\ b <= c[2]
  <1> DEFINE k == (b - lo) \div ChunkBars
  <1>1. k \in Nat /\ ChunkBars * k <= b - lo /\ b - lo < ChunkBars * (k + 1)
    BY SMT
  <1>2. (hi - lo) \div ChunkBars \in Nat /\ hi - lo < ChunkBars * ((hi - lo) \div ChunkBars + 1)
    BY SMT
  <1> HIDE DEF k
  <1>3. k <= (hi - lo) \div ChunkBars
    <2> DEFINE m == (hi - lo) \div ChunkBars
    <2>1. m \in Nat /\ ChunkBars * k < ChunkBars * (m + 1)
      BY <1>1, <1>2
    <2> HIDE DEF m
    <2>2. k < m + 1
      BY <2>1, <1>1, SMT
    <2> QED
      BY <2>1, <2>2, <1>1 DEF m
  <1>4. k \in 0..((hi - lo) \div ChunkBars)
    BY <1>1, <1>2, <1>3
  <1> DEFINE c == <<lo + k * ChunkBars, Least(lo + (k + 1) * ChunkBars - 1, hi)>>
  <1>5. c \in Chunks(lo, hi)
    BY <1>4 DEF Chunks
  <1>6. k * ChunkBars = ChunkBars * k /\ (k + 1) * ChunkBars = ChunkBars * (k + 1)
    BY <1>1, SMT
  <1>7. ChunkBars * k \in Nat /\ ChunkBars * (k + 1) \in Nat
    BY <1>1, SMT
  <1>8. c[1] <= b /\ b <= c[2]
    BY <1>1, <1>6, <1>7 DEF Least
  <1> QED
    BY <1>5, <1>8

-----------------------------------------------------------------------------
\* The bounds, and the records the actions make.
LEMMA Bounds ==
    /\ MaxBar \in Nat \ {0} /\ History \in Nat \ {0} /\ ChunkBars \in Nat \ {0}
    /\ Lookback \in Nat /\ MaxLosses \in Nat /\ MaxStops \in Nat
    /\ MaxFailures \in Nat /\ MaxRequests \in Nat
    /\ History <= MaxBar
  BY BoundsAssumption
\* The records of a loop that begins or ends.
LEMMA NewLoops ==
    /\ Off \in Loops /\ Connecting \in Loops
    /\ [Off EXCEPT !.pc = "scan", !.linked = TRUE] \in Loops
    /\ [Off EXCEPT !.pc = "stopping"] \in Loops
  <1>1. <<>> \in Seq(1..MaxBar) /\ {} \in SUBSET Ranges /\ 0 \in 0..MaxBar
    BY Bounds
  <1>2. Off \in Loops
    BY <1>1 DEF Off, Loops
  <1>3. \A l \in Loops : \A pc \in {"connect", "stopping"} : [l EXCEPT !.pc = pc] \in Loops
    BY DEF Loops
  <1>4. \A l \in Loops : [l EXCEPT !.pc = "scan", !.linked = TRUE] \in Loops
    BY DEF Loops
  <1> HIDE DEF Off
  <1> QED
    BY <1>2, <1>3, <1>4 DEF Connecting
\* The records of a backfill that rests or begins.
LEMMA NewFills ==
    ASSUME NEW n \in 0..MaxBar
    PROVE  /\ Idle \in Fills
           /\ [Idle EXCEPT !.pc = "look", !.upto = n] \in Fills
           /\ [[Idle EXCEPT !.pc = "look", !.upto = n] EXCEPT !.upto = MaxBar + 1] \in Fills
  <1>1. {} \in SUBSET Ranges /\ 0 \in 0..MaxBar + 1 /\ 0 \in 0..MaxBar + 2 /\ n \in 0..MaxBar + 1
    BY Bounds
  <1>2. Idle \in Fills
    BY <1>1 DEF Idle, Fills
  <1>3. \A f \in Fills : [f EXCEPT !.pc = "look", !.upto = n] \in Fills
    BY <1>1 DEF Fills
  <1>4. \A f \in Fills : [f EXCEPT !.upto = MaxBar + 1] \in Fills
    BY Bounds DEF Fills
  <1> QED
    BY <1>2, <1>3, <1>4
\* The records of a loop that goes on.
LEMMA ChangedLoops ==
    ASSUME NEW l \in Loops, NEW todo \in SUBSET Ranges, NEW n \in 0..MaxBar
    PROVE  /\ [l EXCEPT !.pc = "gaps", !.upto = n, !.todo = todo] \in Loops
           /\ [l EXCEPT !.pc = "live"] \in Loops
           /\ [l EXCEPT !.todo = todo] \in Loops
           /\ [l EXCEPT !.todo = todo, !.failed = TRUE] \in Loops
           /\ [l EXCEPT !.pc = "live", !.todo = {}, !.failed = TRUE] \in Loops
           /\ [l EXCEPT !.linked = FALSE] \in Loops
  BY DEF Loops
\* The inbox of a loop when a bar closes and when one is read.
LEMMA Inboxes ==
    ASSUME NEW l \in Loops
    PROVE  /\ \A b \in 1..MaxBar : [l EXCEPT !.inbox = Append(l.inbox, b)] \in Loops
           /\ l.inbox # <<>> => [l EXCEPT !.inbox = Tail(l.inbox)] \in Loops
  <1>1. l.inbox \in Seq(1..MaxBar)
    BY DEF Loops
  <1>2. \A b \in 1..MaxBar : Append(l.inbox, b) \in Seq(1..MaxBar)
    BY <1>1, AppendProperties
  <1>3. l.inbox # <<>> => Tail(l.inbox) \in Seq(1..MaxBar)
    BY <1>1, HeadTailProperties
  <1>4. \A inbox \in Seq(1..MaxBar) : [l EXCEPT !.inbox = inbox] \in Loops
    BY DEF Loops
  <1> QED
    BY <1>2, <1>3, <1>4
\* The records of a backfill that goes on.
LEMMA ChangedFills ==
    ASSUME NEW f \in Fills, NEW todo \in SUBSET Ranges, NEW from \in 0..MaxBar + 2
    PROVE  /\ [f EXCEPT !.pc = "fetch", !.from = from, !.todo = todo] \in Fills
           /\ [f EXCEPT !.todo = todo] \in Fills
           /\ [f EXCEPT !.todo = todo, !.failed = TRUE] \in Fills
  BY DEF Fills

\* What the gap check and the backfill set out to fetch.
LEMMA ChunksType ==
    ASSUME NEW lo \in Nat \ {0}, NEW hi \in 0..MaxBar + 1
    PROVE  Chunks(lo, hi) \in SUBSET Ranges
  <1>1. \A c \in Chunks(lo, hi) : c \in Ranges
    BY ChunkBounds, Bounds DEF Ranges
  <1> QED
    BY <1>1
\* What the gap check fetches lies in its window ...
LEMMA MissingType ==
    ASSUME NEW from \in Nat \ {0}, NEW upto \in 0..MaxBar
    PROVE  /\ Missing(from, upto) \in SUBSET Ranges
           /\ \A c \in Missing(from, upto) : c[2] <= upto
  <1>1. \A g \in Gaps(Stored(from, upto), from, upto) :
            /\ g[1] \in Nat \ {0} /\ g[2] \in 0..MaxBar + 1 /\ g[2] <= upto
            /\ Chunks(g[1], g[2]) \in SUBSET Ranges
            /\ \A c \in Chunks(g[1], g[2]) : c[2] <= upto
    <2> TAKE g \in Gaps(Stored(from, upto), from, upto)
    <2>1. g[1] \in Nat \ {0} /\ g[2] \in 0..MaxBar + 1 /\ g[2] <= upto
      BY Bounds DEF Gaps
    <2>2. Chunks(g[1], g[2]) \in SUBSET Ranges
      BY <2>1, ChunksType
    <2>3. \A c \in Chunks(g[1], g[2]) : c[2] <= g[2]
      BY <2>1, ChunkBounds, Bounds
    <2>4. \A c \in Chunks(g[1], g[2]) : c[2] <= upto
      BY <2>1, <2>2, <2>3, Bounds DEF Ranges
    <2> QED
      BY <2>1, <2>2, <2>4
  <1> QED
    BY <1>1 DEF Missing
\* ... and is all that is missing there.
LEMMA MissingCovers ==
    ASSUME NEW from \in Nat \ {0}, NEW upto \in 0..MaxBar, NEW b \in from..upto,
           b \notin Stored(from, upto)
    PROVE  \E c \in Missing(from, upto) : c[1] <= b /\ b <= c[2]
  <1>1. PICK g \in Gaps(Stored(from, upto), from, upto) : g[1] <= b /\ b <= g[2]
    BY GapAround, Bounds
  <1>2. g[1] \in Nat /\ g[2] \in Nat /\ b \in g[1]..g[2]
    BY <1>1, Bounds DEF Gaps
  <1>3. PICK c \in Chunks(g[1], g[2]) : c[1] <= b /\ b <= c[2]
    BY <1>2, ChunkAround, Bounds
  <1> QED
    BY <1>3 DEF Missing

\* Whatever is inserted, what was there stays as it was.
LEMMA InsertedEffect ==
    ASSUME TypeOK, NEW bars, stored' = Inserted(bars)
    PROVE  /\ stored' \in [Bars -> {"none", "forming", "final"}]
           /\ \A b \in Bars : Held(b) => stored'[b] = stored[b]
           /\ \A b \in Bars : b \in bars => Held(b)'
           /\ \A b \in Bars : stored'[b] # stored[b] => b \in bars /\ stored'[b] = Quality(b)
  BY DEF TypeOK, Inserted, Quality, Held

-----------------------------------------------------------------------------
\* What each action does, field by field.
OnlyLoop(p) == \A q \in Collectors \ {p} : loop'[q] = loop[q]
OnlyFill(w) == \A v \in Writers \ {w} : fill'[v] = fill[v]

\* An action on one loop, or one backfill, leaves the others alone.
LEMMA LoopUpdate ==
    ASSUME TypeOK, NEW p \in Collectors, NEW r \in Loops, loop' = [loop EXCEPT ![p] = r]
    PROVE  loop' \in [Collectors -> Loops] /\ loop'[p] = r /\ OnlyLoop(p)
  BY DEF TypeOK, OnlyLoop
LEMMA FillUpdate ==
    ASSUME TypeOK, NEW w \in Writers, NEW r \in Fills, fill' = [fill EXCEPT ![w] = r]
    PROVE  fill' \in [Writers -> Fills] /\ fill'[w] = r /\ OnlyFill(w)
  BY DEF TypeOK, OnlyFill
\* The last closed bar, and what a backfill takes from it.
LEMMA Now == TypeOK => latest \in 0..MaxBar /\ LastClosed = latest /\ latest \in Nat \ {0}
  BY Bounds DEF TypeOK, LastClosed
LEMMA LookingType == TypeOK => Looking \in Fills /\ Looking.pc = "look" /\ Looking.todo = {}
                               /\ Looking.upto = latest /\ ~Looking.failed
  BY NewFills, Now DEF Looking, Idle
LEMMA Started == TypeOK => Collectors \subseteq Writers /\ "script" \in Writers
  BY DEF Writers

LEMMA StartEffect ==
    ASSUME TypeOK, NEW p \in Collectors, Start(p)
    PROVE  /\ loop' \in [Collectors -> Loops] /\ OnlyLoop(p) /\ loop'[p] = Connecting
           /\ fill' \in [Writers -> Fills] /\ OnlyFill(p)
           /\ fill'[p] \in {fill[p], Looking}
           /\ loop[p].pc = "off" /\ lock = "free" /\ lock' = p
  <1>1. loop' = [loop EXCEPT ![p] = Connecting]
    BY DEF Start
  <1>2. fill' = fill \/ fill' = [fill EXCEPT ![p] = Looking]
    BY DEF Start
  <1>3. /\ loop' \in [Collectors -> Loops] /\ OnlyLoop(p) /\ loop'[p] = Connecting
    BY <1>1, NewLoops, LoopUpdate
  <1>4. /\ fill' \in [Writers -> Fills] /\ OnlyFill(p) /\ fill'[p] \in {fill[p], Looking}
    <2>1. CASE fill' = fill
      BY <2>1 DEF TypeOK, OnlyFill
    <2>2. CASE fill' = [fill EXCEPT ![p] = Looking]
      BY <2>2, LookingType, Started, FillUpdate
    <2> QED
      BY <1>2, <2>1, <2>2
  <1> QED
    BY <1>3, <1>4 DEF Start, At, Acquire
LEMMA ConnectEffect ==
    ASSUME TypeOK, NEW p \in Collectors, Connect(p)
    PROVE  /\ loop' \in [Collectors -> Loops] /\ OnlyLoop(p)
           /\ loop'[p] = [Off EXCEPT !.pc = "scan", !.linked = TRUE]
           /\ loop[p].pc = "connect"
  <1>1. loop' = [loop EXCEPT ![p] = [Off EXCEPT !.pc = "scan", !.linked = TRUE]]
    BY DEF Connect
  <1> QED
    BY <1>1, NewLoops, LoopUpdate DEF Connect, At
LEMMA ScanGapsEffect ==
    ASSUME TypeOK, NEW p \in Collectors, ScanGaps(p)
    PROVE  /\ loop' \in [Collectors -> Loops] /\ OnlyLoop(p)
           /\ loop'[p] = [loop[p] EXCEPT !.pc = "gaps", !.upto = latest,
                                         !.todo = Missing(Most(1, latest - Lookback), latest)]
           /\ loop[p].pc = "scan"
           /\ \A c \in Missing(Most(1, latest - Lookback), latest) : c[2] <= latest
  <1> DEFINE todo == Missing(Most(1, latest - Lookback), latest)
  <1>1. Most(1, latest - Lookback) \in Nat \ {0}
    BY Now, Bounds DEF Most
  <1>2. todo \in SUBSET Ranges /\ \A c \in todo : c[2] <= latest
    BY <1>1, Now, MissingType
  <1>3. loop' = [loop EXCEPT ![p] = [loop[p] EXCEPT !.pc = "gaps", !.upto = latest, !.todo = todo]]
    BY Now DEF ScanGaps, TypeOK
  <1>4. loop[p] \in Loops
    BY DEF TypeOK
  <1> HIDE DEF todo
  <1>5. [loop[p] EXCEPT !.pc = "gaps", !.upto = latest, !.todo = todo] \in Loops
    BY <1>2, <1>4, Now, ChangedLoops
  <1>6. /\ loop' \in [Collectors -> Loops] /\ OnlyLoop(p)
        /\ loop'[p] = [loop[p] EXCEPT !.pc = "gaps", !.upto = latest, !.todo = todo]
    BY <1>3, <1>5, LoopUpdate
  <1> QED
    BY <1>2, <1>6 DEF ScanGaps, At, todo
LEMMA FillGapEffect ==
    ASSUME TypeOK, NEW p \in Collectors, FillGap(p)
    PROVE  /\ loop' \in [Collectors -> Loops] /\ OnlyLoop(p)
           /\ loop[p].pc = "gaps"
           /\ \E c \in loop[p].todo :
                 /\ loop'[p] = [loop[p] EXCEPT !.todo = loop[p].todo \ {c}]
                 /\ stored' = Inserted(Served(c[1], c[2]))
  <1>1. PICK c \in loop[p].todo :
            /\ loop' = [loop EXCEPT ![p] = [loop[p] EXCEPT !.todo = loop[p].todo \ {c}]]
            /\ stored' = Inserted(Served(c[1], c[2]))
    BY DEF FillGap
  <1>2. loop[p] \in Loops /\ loop[p].todo \ {c} \in SUBSET Ranges
    BY DEF TypeOK, Loops
  <1>3. [loop[p] EXCEPT !.todo = loop[p].todo \ {c}] \in Loops
    BY <1>2, ChangedLoops, Now
  <1>4. /\ loop' \in [Collectors -> Loops] /\ OnlyLoop(p)
        /\ loop'[p] = [loop[p] EXCEPT !.todo = loop[p].todo \ {c}]
    BY <1>1, <1>3, LoopUpdate
  <1> QED
    BY <1>1, <1>4 DEF FillGap, At
LEMMA GapsDoneEffect ==
    ASSUME TypeOK, NEW p \in Collectors, GapsDone(p)
    PROVE  /\ loop' \in [Collectors -> Loops] /\ OnlyLoop(p)
           /\ loop'[p] = [loop[p] EXCEPT !.pc = "live"]
           /\ loop[p].pc = "gaps" /\ loop[p].todo = {}
  <1>1. loop' = [loop EXCEPT ![p] = [loop[p] EXCEPT !.pc = "live"]]
    BY DEF GapsDone, Goto
  <1>2. [loop[p] EXCEPT !.pc = "live"] \in Loops
    BY ChangedLoops, Now DEF TypeOK
  <1> QED
    BY <1>1, <1>2, LoopUpdate DEF GapsDone, At
LEMMA GapFailsEffect ==
    ASSUME TypeOK, NEW p \in Collectors, GapFails(p)
    PROVE  /\ loop' \in [Collectors -> Loops] /\ OnlyLoop(p)
           /\ loop[p].pc \in {"scan", "gaps"}
           /\ failures' \in 0..MaxFailures
           /\ \/ \E c \in loop[p].todo :
                    loop'[p] = [loop[p] EXCEPT !.todo = loop[p].todo \ {c}, !.failed = TRUE]
              \/ loop'[p] = [loop[p] EXCEPT !.pc = "live", !.todo = {}, !.failed = TRUE]
  <1>1. loop[p] \in Loops /\ \A c : loop[p].todo \ {c} \in SUBSET Ranges
    BY DEF TypeOK, Loops
  <1>2. failures' \in 0..MaxFailures
    BY Bounds DEF TypeOK, GapFails, CanFail
  <1>3. CASE \E c \in loop[p].todo :
                loop' = [loop EXCEPT ![p].todo = @ \ {c}, ![p].failed = TRUE]
    <2>1. PICK c \in loop[p].todo :
              loop' = [loop EXCEPT ![p] =
                         [loop[p] EXCEPT !.todo = loop[p].todo \ {c}, !.failed = TRUE]]
      BY <1>3 DEF TypeOK
    <2>2. [loop[p] EXCEPT !.todo = loop[p].todo \ {c}, !.failed = TRUE] \in Loops
      BY <1>1, ChangedLoops, Now
    <2> QED
      BY <1>2, <2>1, <2>2, LoopUpdate DEF GapFails
  <1>4. CASE loop' = [loop EXCEPT ![p].pc = "live", ![p].todo = {}, ![p].failed = TRUE]
    <2>1. loop' = [loop EXCEPT ![p] = [loop[p] EXCEPT !.pc = "live", !.todo = {}, !.failed = TRUE]]
      BY <1>4 DEF TypeOK
    <2>2. [loop[p] EXCEPT !.pc = "live", !.todo = {}, !.failed = TRUE] \in Loops
      BY <1>1, ChangedLoops, Now
    <2> QED
      BY <1>2, <2>1, <2>2, LoopUpdate DEF GapFails
  <1> QED
    BY <1>3, <1>4 DEF GapFails
LEMMA ReadEffect ==
    ASSUME TypeOK, NEW p \in Collectors, Read(p)
    PROVE  /\ loop' \in [Collectors -> Loops] /\ OnlyLoop(p)
           /\ loop[p].pc = "live" /\ loop[p].inbox # <<>>
           /\ loop'[p] = [loop[p] EXCEPT !.inbox = Tail(loop[p].inbox)]
           /\ stored' = Inserted({Head(loop[p].inbox)})
  <1>1. loop' = [loop EXCEPT ![p] = [loop[p] EXCEPT !.inbox = Tail(loop[p].inbox)]]
    BY DEF Read
  <1>2. [loop[p] EXCEPT !.inbox = Tail(loop[p].inbox)] \in Loops
    BY Inboxes DEF Read, TypeOK
  <1> QED
    BY <1>1, <1>2, LoopUpdate DEF Read, At
LEMMA ReconnectEffect ==
    ASSUME TypeOK, NEW p \in Collectors, ReadFails(p) \/ Reconnect(p)
    PROVE  /\ loop' \in [Collectors -> Loops] /\ OnlyLoop(p)
           /\ loop'[p] = Connecting
           /\ loop[p].pc = "live"
           /\ failures' \in 0..MaxFailures
  <1>1. loop' = [loop EXCEPT ![p] = Connecting]
    BY DEF ReadFails, Reconnect
  <1>2. failures' \in 0..MaxFailures
    BY Bounds DEF TypeOK, ReadFails, Reconnect, CanFail, bounds
  <1> QED
    BY <1>1, <1>2, NewLoops, LoopUpdate DEF ReadFails, Reconnect, At
LEMMA LoseEffect ==
    ASSUME TypeOK, NEW p \in Collectors, Lose(p)
    PROVE  /\ loop' \in [Collectors -> Loops] /\ OnlyLoop(p)
           /\ loop'[p] = [loop[p] EXCEPT !.linked = FALSE]
           /\ losses' \in 0..MaxLosses
  <1>1. loop' = [loop EXCEPT ![p] = [loop[p] EXCEPT !.linked = FALSE]]
    BY DEF Lose
  <1>2. [loop[p] EXCEPT !.linked = FALSE] \in Loops
    BY ChangedLoops, Now DEF TypeOK
  <1>3. losses' \in 0..MaxLosses
    BY Bounds DEF TypeOK, Lose
  <1> QED
    BY <1>1, <1>2, <1>3, LoopUpdate
LEMMA LookUpEffect ==
    ASSUME TypeOK, NEW w \in Writers, LookUp(w)
    PROVE  /\ fill' \in [Writers -> Fills] /\ OnlyFill(w)
           /\ fill[w].pc = "look"
           /\ \E from \in 1..MaxBar + 2 :
                 /\ w = "script" => from = 1
                 /\ fill'[w] = [fill[w] EXCEPT !.pc = "fetch", !.from = from,
                                               !.todo = Chunks(from, fill[w].upto)]
  <1> DEFINE from == IF w = "script" THEN 1 ELSE LastStored + 1
             todo == Chunks(from, fill[w].upto)
  <1>1. from \in 1..MaxBar + 2
    BY LastStoredType, Bounds
  <1>2. fill[w] \in Fills /\ fill[w].upto \in 0..MaxBar + 1
    BY DEF TypeOK, Fills
  <1>3. todo \in SUBSET Ranges
    BY <1>1, <1>2, ChunksType, Bounds
  <1>4. fill' = [fill EXCEPT ![w] = [fill[w] EXCEPT !.pc = "fetch", !.from = from, !.todo = todo]]
    BY DEF LookUp, TypeOK
  <1>5. w = "script" => from = 1
    OBVIOUS
  <1> HIDE DEF from
  <1>6. todo = Chunks(from, fill[w].upto)
    OBVIOUS
  <1> HIDE DEF todo
  <1>7. [fill[w] EXCEPT !.pc = "fetch", !.from = from, !.todo = todo] \in Fills
    <2>1. from \in 0..MaxBar + 2
      BY <1>1, Bounds
    <2> QED
      BY <2>1, <1>2, <1>3, ChangedFills
  <1>8. /\ fill' \in [Writers -> Fills] /\ OnlyFill(w)
        /\ fill'[w] = [fill[w] EXCEPT !.pc = "fetch", !.from = from, !.todo = todo]
    BY <1>4, <1>7, FillUpdate
  <1> QED
    BY <1>1, <1>5, <1>6, <1>8 DEF LookUp
LEMMA FillChunkEffect ==
    ASSUME TypeOK, NEW w \in Writers, FillChunk(w)
    PROVE  /\ fill' \in [Writers -> Fills] /\ OnlyFill(w)
           /\ fill[w].pc = "fetch"
           /\ \E c \in fill[w].todo :
                 /\ fill'[w] = [fill[w] EXCEPT !.todo = fill[w].todo \ {c}]
                 /\ stored' = Inserted(Served(c[1], c[2]))
  <1>1. PICK c \in fill[w].todo :
            /\ fill' = [fill EXCEPT ![w] = [fill[w] EXCEPT !.todo = fill[w].todo \ {c}]]
            /\ stored' = Inserted(Served(c[1], c[2]))
    BY DEF FillChunk
  <1>2. fill[w] \in Fills /\ fill[w].todo \ {c} \in SUBSET Ranges
    BY DEF TypeOK, Fills
  <1>3. [fill[w] EXCEPT !.todo = fill[w].todo \ {c}] \in Fills
    <2>1. 0 \in 0..MaxBar + 2
      BY Bounds
    <2> QED
      BY <2>1, <1>2, ChangedFills
  <1>4. /\ fill' \in [Writers -> Fills] /\ OnlyFill(w)
        /\ fill'[w] = [fill[w] EXCEPT !.todo = fill[w].todo \ {c}]
    BY <1>1, <1>3, FillUpdate
  <1> QED
    BY <1>1, <1>4 DEF FillChunk
LEMMA IdleType == Idle \in Fills /\ Idle.pc = "idle" /\ Idle.todo = {} /\ Idle.upto = 0
  <1>1. 0 \in 0..MaxBar
    BY Bounds
  <1> QED
    BY <1>1, NewFills DEF Idle
LEMMA ChunkFailsEffect ==
    ASSUME TypeOK, NEW w \in Writers, ChunkFails(w)
    PROVE  /\ fill' \in [Writers -> Fills] /\ OnlyFill(w)
           /\ fill[w].pc = "fetch"
           /\ failures' \in 0..MaxFailures
           /\ \/ \E c \in fill[w].todo :
                    fill'[w] = [fill[w] EXCEPT !.todo = fill[w].todo \ {c}, !.failed = TRUE]
              \/ fill'[w] = Idle
  <1>1. fill[w] \in Fills /\ \A c : fill[w].todo \ {c} \in SUBSET Ranges
    BY DEF TypeOK, Fills
  <1>2. failures' \in 0..MaxFailures
    BY Bounds DEF TypeOK, ChunkFails, CanFail
  <1>3. CASE \E c \in fill[w].todo :
                fill' = [fill EXCEPT ![w].todo = @ \ {c}, ![w].failed = TRUE]
    <2>1. PICK c \in fill[w].todo :
              fill' = [fill EXCEPT ![w] =
                         [fill[w] EXCEPT !.todo = fill[w].todo \ {c}, !.failed = TRUE]]
      BY <1>3 DEF TypeOK
    <2>2. [fill[w] EXCEPT !.todo = fill[w].todo \ {c}, !.failed = TRUE] \in Fills
      <3>1. 0 \in 0..MaxBar + 2
        BY Bounds
      <3> QED
        BY <3>1, <1>1, ChangedFills
    <2> QED
      BY <1>2, <2>1, <2>2, FillUpdate DEF ChunkFails
  <1>4. CASE fill' = [fill EXCEPT ![w] = Idle]
    BY <1>2, <1>4, IdleType, FillUpdate DEF ChunkFails
  <1> QED
    BY <1>3, <1>4 DEF ChunkFails
LEMMA FillDoneEffect ==
    ASSUME TypeOK, NEW w \in Writers, FillDone(w)
    PROVE  /\ fill' \in [Writers -> Fills] /\ OnlyFill(w) /\ fill'[w] = Idle
           /\ fill[w].pc = "fetch" /\ fill[w].todo = {}
           /\ report' \in 0..MaxBar + 1
           /\ report' # report => w = "script" /\ ~fill[w].failed /\ report' = fill[w].upto
  <1>1. fill' = [fill EXCEPT ![w] = Idle]
    BY DEF FillDone
  <1>2. fill' \in [Writers -> Fills] /\ OnlyFill(w) /\ fill'[w] = Idle
    BY <1>1, IdleType, FillUpdate
  <1>3. fill[w].upto \in 0..MaxBar + 1
    BY DEF TypeOK, Fills
  <1> QED
    BY <1>2, <1>3 DEF FillDone, TypeOK
LEMMA PostEffect ==
    ASSUME TypeOK, Post
    PROVE  /\ fill' \in [Writers -> Fills] /\ OnlyFill("api") /\ fill'["api"] = Looking
           /\ Has("post") /\ requests' \in 0..MaxRequests
  <1>1. fill' = [fill EXCEPT !["api"] = Looking]
    BY DEF Post
  <1>2. "api" \in Writers
    BY DEF Writers, Collectors
  <1>3. fill' \in [Writers -> Fills] /\ OnlyFill("api") /\ fill'["api"] = Looking
    BY <1>1, <1>2, LookingType, FillUpdate
  <1> QED
    BY <1>3, Bounds DEF Post, TypeOK
LEMMA ScriptEffect ==
    ASSUME TypeOK, Script
    PROVE  /\ fill' \in [Writers -> Fills] /\ OnlyFill("script")
           /\ fill'["script"] \in Fills /\ fill'["script"].pc = "look" /\ fill'["script"].todo = {}
           /\ ~Has("today") => fill'["script"].upto = latest
           /\ requests' \in 0..MaxRequests
  <1> DEFINE upto == IF Has("today") THEN MaxBar + 1 ELSE latest
             f == [Looking EXCEPT !.upto = upto]
  <1>1. fill' = [fill EXCEPT !["script"] = f]
    BY LookingType DEF Script
  <1>2. upto \in 0..MaxBar + 1 /\ (~Has("today") => upto = latest)
    <2>1. latest \in 0..MaxBar + 1 /\ MaxBar + 1 \in 0..MaxBar + 1
      BY Now, Bounds
    <2> QED
      BY <2>1, Zenon
  <1> HIDE DEF upto
  <1>3. f \in Fills /\ f.pc = "look" /\ f.todo = {} /\ f.upto = upto
    BY <1>2, LookingType DEF Fills
  <1> HIDE DEF f
  <1>4. fill' \in [Writers -> Fills] /\ OnlyFill("script") /\ fill'["script"] = f
    BY <1>1, <1>3, Started, FillUpdate
  <1>5. requests' \in 0..MaxRequests
    BY Bounds DEF Script, TypeOK
  <1> QED
    BY <1>2, <1>3, <1>4, <1>5, Zenon
LEMMA StopEffect ==
    ASSUME TypeOK, NEW p \in Collectors, Stop(p)
    PROVE  /\ loop' \in [Collectors -> Loops] /\ OnlyLoop(p)
           /\ loop'[p] = [Off EXCEPT !.pc = "stopping"]
           /\ loop[p].pc # "off"
           /\ stops' \in 0..MaxStops
  <1>1. loop' = [loop EXCEPT ![p] = [Off EXCEPT !.pc = "stopping"]]
    BY DEF Stop
  <1>2. stops' \in 0..MaxStops
    BY Bounds DEF TypeOK, Stop, CanStop
  <1> QED
    BY <1>1, <1>2, NewLoops, LoopUpdate DEF Stop
LEMMA EndEffect ==
    ASSUME TypeOK, NEW p \in Collectors, Release(p) \/ Crash(p)
    PROVE  /\ loop' \in [Collectors -> Loops] /\ OnlyLoop(p) /\ loop'[p] = Off
           /\ fill' \in [Writers -> Fills] /\ OnlyFill(p) /\ fill'[p] = Idle
           /\ lock' = IF lock = p THEN "free" ELSE lock
           /\ stops' \in 0..MaxStops
           /\ UNCHANGED <<world, report, latest, stored>>
  <1>1. loop' = [loop EXCEPT ![p] = Off] /\ fill' = [fill EXCEPT ![p] = Idle]
    BY DEF Release, Crash
  <1>2. stops' \in 0..MaxStops
    BY Bounds DEF TypeOK, Release, Crash, CanStop, bounds
  <1>3. loop' \in [Collectors -> Loops] /\ OnlyLoop(p) /\ loop'[p] = Off
    BY <1>1, NewLoops, LoopUpdate
  <1>4. fill' \in [Writers -> Fills] /\ OnlyFill(p) /\ fill'[p] = Idle
    BY <1>1, Started, IdleType, FillUpdate
  <1> QED
    BY <1>2, <1>3, <1>4 DEF Release, Crash, HandBack
LEMMA BarClosesEffect ==
    ASSUME TypeOK, BarCloses
    PROVE  /\ loop' \in [Collectors -> Loops]
           /\ latest' = latest + 1 /\ latest' \in History..MaxBar
           /\ \A p \in Collectors :
                 loop'[p] = IF loop[p].linked
                            THEN [loop[p] EXCEPT !.inbox = Append(loop[p].inbox, latest + 1)]
                            ELSE loop[p]
  <1>1. latest' = latest + 1 /\ latest' \in History..MaxBar /\ latest + 1 \in 1..MaxBar
    BY SMTT(20), Bounds DEF BarCloses, TypeOK
  <1>2. \A p \in Collectors :
            loop'[p] = IF loop[p].linked
                       THEN [loop[p] EXCEPT !.inbox = Append(loop[p].inbox, latest + 1)]
                       ELSE loop[p]
    BY DEF BarCloses
  <1>3. \A p \in Collectors : loop'[p] \in Loops
    <2> TAKE p \in Collectors
    <2>1. loop[p] \in Loops
      BY DEF TypeOK
    <2>2. [loop[p] EXCEPT !.inbox = Append(loop[p].inbox, latest + 1)] \in Loops
      BY <1>1, <2>1, Inboxes
    <2> QED
      BY <1>2, <2>1, <2>2, Zenon
  <1>4. loop' = [p \in Collectors |-> loop'[p]]
    BY DEF BarCloses
  <1> QED
    BY <1>1, <1>2, <1>3, <1>4

-----------------------------------------------------------------------------
\* What a loop holds that is off or connecting: nothing.
LEMMA Shapes ==
    /\ Off.pc = "off" /\ Off.todo = {} /\ Off.inbox = <<>> /\ ~Off.linked /\ ~Off.failed
    /\ Connecting.pc = "connect" /\ Connecting.todo = {} /\ Connecting.inbox = <<>>
    /\ ~Connecting.linked /\ ~Connecting.failed
  BY DEF Off, Connecting
\* Every step keeps the types.
LEMMA TypeNext == TypeOK /\ [Next]_vars => TypeOK'
  <1> SUFFICES ASSUME TypeOK, [Next]_vars PROVE TypeOK'
    OBVIOUS
  <1>1. ASSUME NEW p \in Collectors, Start(p) PROVE TypeOK'
    BY <1>1, StartEffect, Started DEF Start, TypeOK, bounds
  <1>2. ASSUME NEW p \in Collectors, Connect(p) PROVE TypeOK'
    BY <1>2, ConnectEffect DEF Connect, TypeOK, bounds
  <1>3. ASSUME NEW p \in Collectors, ScanGaps(p) PROVE TypeOK'
    BY <1>3, ScanGapsEffect DEF ScanGaps, TypeOK, bounds
  <1>4. ASSUME NEW p \in Collectors, FillGap(p) PROVE TypeOK'
    BY <1>4, FillGapEffect, InsertedEffect DEF FillGap, TypeOK, bounds
  <1>5. ASSUME NEW p \in Collectors, GapsDone(p) PROVE TypeOK'
    BY <1>5, GapsDoneEffect DEF GapsDone, TypeOK, bounds
  <1>6. ASSUME NEW p \in Collectors, Read(p) PROVE TypeOK'
    BY <1>6, ReadEffect, InsertedEffect DEF Read, TypeOK, bounds
  <1>7. ASSUME NEW p \in Collectors, Reconnect(p) PROVE TypeOK'
    BY <1>7, ReconnectEffect DEF Reconnect, TypeOK, bounds
  <1>8. ASSUME NEW p \in Collectors, Stop(p) PROVE TypeOK'
    BY <1>8, StopEffect DEF Stop, TypeOK, bounds
  <1>9. ASSUME NEW p \in Collectors, Release(p) PROVE TypeOK'
    BY <1>9, EndEffect DEF Release, TypeOK, bounds
  <1>10. ASSUME NEW p \in Collectors, GapFails(p) PROVE TypeOK'
    BY <1>10, GapFailsEffect DEF GapFails, TypeOK, bounds
  <1>11. ASSUME NEW p \in Collectors, ReadFails(p) PROVE TypeOK'
    BY <1>11, ReconnectEffect DEF ReadFails, TypeOK, bounds
  <1>12. ASSUME NEW p \in Collectors, Lose(p) PROVE TypeOK'
    BY <1>12, LoseEffect DEF Lose, TypeOK, bounds
  <1>13. ASSUME NEW p \in Collectors, Crash(p) PROVE TypeOK'
    BY <1>13, EndEffect DEF Crash, TypeOK, bounds
  <1>14. ASSUME NEW w \in Writers, LookUp(w) PROVE TypeOK'
    BY <1>14, LookUpEffect DEF LookUp, TypeOK, bounds
  <1>15. ASSUME NEW w \in Writers, FillChunk(w) PROVE TypeOK'
    BY <1>15, FillChunkEffect, InsertedEffect DEF FillChunk, TypeOK, bounds
  <1>16. ASSUME NEW w \in Writers, FillDone(w) PROVE TypeOK'
    BY <1>16, FillDoneEffect DEF FillDone, TypeOK, bounds
  <1>17. ASSUME NEW w \in Writers, ChunkFails(w) PROVE TypeOK'
    BY <1>17, ChunkFailsEffect DEF ChunkFails, TypeOK, bounds
  <1>18. ASSUME Post PROVE TypeOK'
    BY <1>18, PostEffect DEF Post, TypeOK, bounds
  <1>19. ASSUME Script PROVE TypeOK'
    BY <1>19, ScriptEffect DEF Script, TypeOK, bounds
  <1>20. ASSUME BarCloses PROVE TypeOK'
    BY <1>20, BarClosesEffect DEF BarCloses, TypeOK, bounds
  <1>21. CASE UNCHANGED vars
    BY <1>21 DEF vars, bounds, TypeOK
  <1> QED
    BY <1>1, <1>2, <1>3, <1>4, <1>5, <1>6, <1>7, <1>8, <1>9, <1>10, <1>11, <1>12, <1>13,
       <1>14, <1>15, <1>16, <1>17, <1>18, <1>19, <1>20, <1>21 DEF Next, Stream, Backfill

\* Whoever is up holds the lock, and no collector backfills that is down.
Locked ==
    /\ \A p \in Collectors : loop[p].pc # "off" => lock = p
    /\ FreeOf({"post"}) =>
          \A p \in Collectors : fill[p].pc # "idle" => loop[p].pc # "off"
\* The lock passes through Start and the end of its owner only.
LEMMA LockedNext == TypeOK /\ Locked /\ [Next]_vars => Locked'
  <1> SUFFICES ASSUME TypeOK, Locked, [Next]_vars PROVE Locked'
    OBVIOUS
  <1>1. ASSUME NEW p \in Collectors, Start(p) PROVE Locked'
    <2>1. /\ loop'[p].pc = "connect" /\ lock' = p /\ lock = "free" /\ OnlyLoop(p) /\ OnlyFill(p)
          /\ world' = world
      BY <1>1, StartEffect, Shapes DEF Start
    <2>2. \A q \in Collectors : loop[q].pc = "off"
      BY <2>1 DEF Locked, Collectors
    <2>3. \A q \in Collectors \ {p} : loop'[q].pc = "off" /\ fill'[q] = fill[q]
      BY <2>1, <2>2, Started DEF OnlyLoop, OnlyFill
    <2> QED
      BY <2>1, <2>2, <2>3 DEF Locked, FreeOf
  <1>2. ASSUME NEW p \in Collectors, Connect(p) PROVE Locked'
    BY <1>2, ConnectEffect, Started DEF Connect, Locked, FreeOf, OnlyLoop, Off
  <1>3. ASSUME NEW p \in Collectors, ScanGaps(p) PROVE Locked'
    <2>1. loop'[p].pc # "off" /\ loop[p].pc # "off" /\ OnlyLoop(p)
      BY <1>3, ScanGapsEffect DEF TypeOK, Loops
    <2> QED
      BY <1>3, <2>1 DEF ScanGaps, Locked, FreeOf, OnlyLoop
  <1>4. ASSUME NEW p \in Collectors, FillGap(p) PROVE Locked'
    BY <1>4, FillGapEffect, Started DEF FillGap, Locked, FreeOf, OnlyLoop, TypeOK, Loops
  <1>5. ASSUME NEW p \in Collectors, GapsDone(p) PROVE Locked'
    BY ZenonT(40), <1>5, GapsDoneEffect, Started DEF GapsDone, Locked, FreeOf, OnlyLoop, TypeOK, Loops
  <1>6. ASSUME NEW p \in Collectors, Read(p) PROVE Locked'
    BY <1>6, ReadEffect, Started DEF Read, Locked, FreeOf, OnlyLoop, TypeOK, Loops
  <1>7. ASSUME NEW p \in Collectors, Reconnect(p) PROVE Locked'
    BY <1>7, ReconnectEffect, Started DEF Reconnect, Locked, FreeOf, OnlyLoop, Connecting, Off
  <1>8. ASSUME NEW p \in Collectors, Stop(p) PROVE Locked'
    BY <1>8, StopEffect, Started DEF Stop, Locked, FreeOf, OnlyLoop, Off
  <1>9. ASSUME NEW p \in Collectors, Release(p) PROVE Locked'
    BY ZenonT(40), <1>9, EndEffect, Started, IdleType DEF Release, Locked, FreeOf, OnlyLoop, OnlyFill, Off
  <1>10. ASSUME NEW p \in Collectors, GapFails(p) PROVE Locked'
    <2>1. loop'[p].pc # "off" /\ loop[p].pc # "off" /\ OnlyLoop(p)
      BY <1>10, GapFailsEffect DEF TypeOK, Loops
    <2> QED
      BY <1>10, <2>1 DEF GapFails, Locked, FreeOf, OnlyLoop
  <1>11. ASSUME NEW p \in Collectors, ReadFails(p) PROVE Locked'
    BY <1>11, ReconnectEffect, Started DEF ReadFails, Locked, FreeOf, OnlyLoop, Connecting, Off
  <1>12. ASSUME NEW p \in Collectors, Lose(p) PROVE Locked'
    BY <1>12, LoseEffect, Started DEF Lose, Locked, FreeOf, OnlyLoop, TypeOK, Loops
  <1>13. ASSUME NEW p \in Collectors, Crash(p) PROVE Locked'
    BY <1>13, EndEffect, Started, IdleType DEF Crash, Locked, FreeOf, OnlyLoop, OnlyFill, Off
  <1>14. ASSUME NEW w \in Writers, LookUp(w) PROVE Locked'
    BY <1>14, LookUpEffect, Started DEF LookUp, Locked, FreeOf, OnlyFill, TypeOK, Fills
  <1>15. ASSUME NEW w \in Writers, FillChunk(w) PROVE Locked'
    BY <1>15, FillChunkEffect, Started DEF FillChunk, Locked, FreeOf, OnlyFill, TypeOK, Fills
  <1>16. ASSUME NEW w \in Writers, FillDone(w) PROVE Locked'
    BY <1>16, FillDoneEffect, Started, IdleType
       DEF FillDone, Locked, FreeOf, OnlyFill, TypeOK, Fills
  <1>17. ASSUME NEW w \in Writers, ChunkFails(w) PROVE Locked'
    BY <1>17, ChunkFailsEffect, Started, IdleType
       DEF ChunkFails, Locked, FreeOf, OnlyFill, TypeOK, Fills
  <1>18. ASSUME Post PROVE Locked'
    BY <1>18, PostEffect, Started DEF Post, Locked, FreeOf, OnlyFill, Has
  <1>19. ASSUME Script PROVE Locked'
    BY <1>19, ScriptEffect, Started DEF Script, Locked, FreeOf, OnlyFill, Collectors
  <1>20. ASSUME BarCloses PROVE Locked'
    BY <1>20, BarClosesEffect, Started DEF BarCloses, Locked, FreeOf, TypeOK, Loops
  <1>21. CASE UNCHANGED vars
    BY <1>21 DEF vars, Locked, FreeOf
  <1> QED
    BY <1>1, <1>2, <1>3, <1>4, <1>5, <1>6, <1>7, <1>8, <1>9, <1>10, <1>11, <1>12, <1>13,
       <1>14, <1>15, <1>16, <1>17, <1>18, <1>19, <1>20, <1>21 DEF Next, Stream, Backfill

-----------------------------------------------------------------------------
\* Whatever happens, a bar that is stored stays stored.
LEMMA HeldStays == TypeOK /\ [Next]_vars => \A b \in Bars : Held(b) => Held(b)'
  <1> SUFFICES ASSUME TypeOK, [Next]_vars PROVE \A b \in Bars : Held(b) => Held(b)'
    OBVIOUS
  <1>1. CASE stored' = stored
    BY <1>1 DEF Held
  <1>2. CASE \E bars : stored' = Inserted(bars)
    BY <1>2, InsertedEffect DEF Held
  <1>3. \A p \in Collectors : FillGap(p) \/ Read(p) => \E bars : stored' = Inserted(bars)
    BY DEF FillGap, Read
  <1>4. \A w \in Writers : FillChunk(w) => \E bars : stored' = Inserted(bars)
    BY DEF FillChunk
  <1>5. \A p \in Collectors :
            \/ Start(p) \/ Connect(p) \/ ScanGaps(p) \/ GapsDone(p) \/ Reconnect(p) \/ Stop(p)
            \/ Release(p) \/ GapFails(p) \/ ReadFails(p) \/ Lose(p) \/ Crash(p)
            => stored' = stored
    BY DEF Start, Connect, ScanGaps, GapsDone, Reconnect, Stop, Release, GapFails, ReadFails,
           Lose, Crash
  <1>6. \A w \in Writers : LookUp(w) \/ FillDone(w) \/ ChunkFails(w) => stored' = stored
    BY DEF LookUp, FillDone, ChunkFails
  <1>7. Post \/ Script \/ BarCloses \/ UNCHANGED vars => stored' = stored
    BY DEF Post, Script, BarCloses, vars
  <1> QED
    BY <1>1, <1>2, <1>3, <1>4, <1>5, <1>6, <1>7, Zenon DEF Next, Stream, Backfill

\* Nobody reaches beyond the last closed bar: not the chunks, not the messages, and
\* so not the store, unless the script is given the end of a day.
LoopClosed(l) ==
    (\A c \in l.todo : c[2] <= latest) /\ \A i \in 1..Len(l.inbox) : l.inbox[i] <= latest
FillClosed(f) == f.upto <= latest /\ \A c \in f.todo : c[2] <= latest
Closed ==
    /\ \A p \in Collectors : LoopClosed(loop[p])
    /\ FreeOf({"today"}) =>
          /\ \A w \in Writers : FillClosed(fill[w])
          /\ \A b \in Bars : stored[b] # "forming"

\* Enough for a step that leaves the clock alone: what is new is not beyond it.
LEMMA ClosedStays ==
    ASSUME TypeOK, Closed, UNCHANGED <<world, latest>>,
           \A p \in Collectors : loop'[p] = loop[p] \/ LoopClosed(loop'[p]),
           FreeOf({"today"}) => \A w \in Writers : fill'[w] = fill[w] \/ FillClosed(fill'[w]),
           FreeOf({"today"}) => \/ stored' = stored
                                \/ \E bars : stored' = Inserted(bars) /\ \A b \in bars : b <= latest
    PROVE  Closed'
  <1>1. \A p \in Collectors : LoopClosed(loop[p])'
    BY DEF Closed, LoopClosed
  <1>2. FreeOf({"today"}) => \A w \in Writers : FillClosed(fill[w])'
    BY DEF Closed, FillClosed
  <1>3. ASSUME FreeOf({"today"}), NEW b \in Bars PROVE stored'[b] # "forming"
    <2>1. stored[b] # "forming"
      BY <1>3 DEF Closed
    <2>2. CASE stored' = stored
      BY <2>1, <2>2
    <2>3. CASE \E bars : stored' = Inserted(bars) /\ \A x \in bars : x <= latest
      BY <2>1, <2>3, InsertedEffect DEF Quality
    <2> QED
      BY <1>3, <2>2, <2>3
  <1> QED
    BY <1>1, <1>2, <1>3 DEF Closed, FreeOf
\* What is asked for up to the last closed bar is closed.
LEMMA Closable ==
    TypeOK => /\ latest \in Nat /\ latest <= MaxBar
              /\ \A lo \in Bars : \A hi \in Bars :
                    hi <= latest => \A b \in Served(lo, hi) : b <= latest
  BY Now, Bounds DEF Served, Bars
\* The first message and the others.
LEMMA Heads ==
    ASSUME NEW s \in Seq(1..MaxBar), s # <<>>
    PROVE  /\ Len(s) \in Nat \ {0} /\ Head(s) = s[1] /\ Head(s) \in 1..MaxBar
           /\ Len(Tail(s)) = Len(s) - 1
           /\ \A i \in 1..Len(Tail(s)) : Tail(s)[i] = s[i + 1] /\ i + 1 \in 1..Len(s)
  <1>1. Len(s) \in Nat \ {0}
    BY EmptySeq
  <1>2. /\ Head(s) \in 1..MaxBar
        /\ Len(Tail(s)) = Len(s) - 1
        /\ \A i \in 1..Len(Tail(s)) : Tail(s)[i] = s[i + 1]
    BY HeadTailProperties
  <1>4. Head(s) = s[1]
    BY <1>1
  <1>3. \A i \in 1..Len(Tail(s)) : i + 1 \in 1..Len(s)
    BY <1>1, <1>2
  <1> QED
    BY <1>1, <1>2, <1>3, <1>4
\* Messages are bars.
LEMMA Elements ==
    \A s \in Seq(1..MaxBar) : \A i \in 1..Len(s) : s[i] \in Nat
  <1>1. \A s \in Seq(1..MaxBar) : \A i \in 1..Len(s) : s[i] \in 1..MaxBar
    BY ElementOfSeq
  <1> QED
    BY <1>1, Bounds
\* Every step keeps to closed bars; a bar that closes moves the limit.
LEMMA ClosedNext == TypeOK /\ Closed /\ [Next]_vars => Closed'
  <1> SUFFICES ASSUME TypeOK, Closed, [Next]_vars PROVE Closed'
    OBVIOUS
  <1>1. ASSUME NEW p \in Collectors, Start(p) PROVE Closed'
    <2>1. LoopClosed(loop'[p]) /\ (fill'[p] = fill[p] \/ FillClosed(fill'[p]))
      BY <1>1, StartEffect, Shapes, LookingType, Closable DEF LoopClosed, FillClosed
    <2> QED
      BY <1>1, <2>1, StartEffect, ClosedStays DEF Start, OnlyLoop, OnlyFill
  <1>2. ASSUME NEW p \in Collectors, Connect(p) PROVE Closed'
    <2>1. loop'[p].todo = {} /\ loop'[p].inbox = <<>> /\ OnlyLoop(p)
      BY <1>2, ConnectEffect, Shapes DEF Off
    <2>2. LoopClosed(loop'[p])
      BY <2>1 DEF LoopClosed
    <2> QED
      BY <1>2, <2>1, <2>2, ClosedStays DEF Connect, OnlyLoop
  <1>3. ASSUME NEW p \in Collectors, ScanGaps(p) PROVE Closed'
    <2>1. loop[p] \in Loops /\ LoopClosed(loop[p]) /\ OnlyLoop(p)
      BY <1>3, ScanGapsEffect DEF TypeOK, Closed
    <2>2. LoopClosed(loop'[p])
      BY ZenonT(40), <1>3, <2>1, ScanGapsEffect DEF LoopClosed, Loops
    <2> QED
      BY <1>3, <2>1, <2>2, ClosedStays DEF ScanGaps, OnlyLoop
  <1>4. ASSUME NEW p \in Collectors, FillGap(p) PROVE Closed'
    <2>1. PICK c \in loop[p].todo : /\ loop'[p] = [loop[p] EXCEPT !.todo = loop[p].todo \ {c}]
                                   /\ stored' = Inserted(Served(c[1], c[2]))
      BY <1>4, FillGapEffect
    <2>2. loop[p] \in Loops /\ LoopClosed(loop[p]) /\ OnlyLoop(p)
      BY <1>4, FillGapEffect DEF TypeOK, Closed
    <2>3. LoopClosed(loop'[p])
      BY <2>1, <2>2 DEF LoopClosed, Loops
    <2>4. \A b \in Served(c[1], c[2]) : b <= latest
      BY <2>2, Closable DEF LoopClosed, Loops, Ranges, Bars
    <2> QED
      BY <1>4, <2>1, <2>2, <2>3, <2>4, ClosedStays DEF FillGap, OnlyLoop
  <1>5. ASSUME NEW p \in Collectors, GapsDone(p) PROVE Closed'
    <2>1. loop[p] \in Loops /\ LoopClosed(loop[p]) /\ OnlyLoop(p)
      BY <1>5, GapsDoneEffect DEF TypeOK, Closed
    <2>2. LoopClosed(loop'[p])
      BY ZenonT(40), <1>5, <2>1, GapsDoneEffect DEF LoopClosed, Loops
    <2> QED
      BY <1>5, <2>1, <2>2, ClosedStays DEF GapsDone, OnlyLoop
  <1>6. ASSUME NEW p \in Collectors, Read(p) PROVE Closed'
    <2>1. loop[p] \in Loops /\ LoopClosed(loop[p]) /\ loop[p].inbox \in Seq(1..MaxBar)
          /\ loop[p].inbox # <<>>
      BY <1>6, ReadEffect DEF TypeOK, Closed, Loops
    <2>2. Head(loop[p].inbox) <= latest
      BY <2>1, Heads DEF LoopClosed
    <2>3. LoopClosed(loop'[p])
      <3>1. loop'[p].todo = loop[p].todo /\ loop'[p].inbox = Tail(loop[p].inbox)
        BY <1>6, <2>1, ReadEffect DEF Loops
      <3> QED
        BY <2>1, <3>1, Heads DEF LoopClosed
    <2>4. \E bars : stored' = Inserted(bars) /\ \A b \in bars : b <= latest
      <3>1. stored' = Inserted({Head(loop[p].inbox)})
        BY <1>6, ReadEffect
      <3> QED
        BY <2>2, <3>1
    <2> QED
      BY <1>6, <2>3, <2>4, ReadEffect, ClosedStays DEF Read, OnlyLoop
  <1>7. ASSUME NEW p \in Collectors, Reconnect(p) PROVE Closed'
    <2>1. loop'[p].todo = {} /\ loop'[p].inbox = <<>> /\ OnlyLoop(p)
      BY <1>7, ReconnectEffect, Shapes
    <2>2. LoopClosed(loop'[p])
      BY <2>1 DEF LoopClosed
    <2> QED
      BY <1>7, <2>1, <2>2, ClosedStays DEF Reconnect, OnlyLoop
  <1>8. ASSUME NEW p \in Collectors, Stop(p) PROVE Closed'
    <2>1. loop'[p].todo = {} /\ loop'[p].inbox = <<>> /\ OnlyLoop(p)
      BY <1>8, StopEffect, Shapes DEF Off
    <2>2. LoopClosed(loop'[p])
      BY <2>1 DEF LoopClosed
    <2> QED
      BY <1>8, <2>1, <2>2, ClosedStays DEF Stop, OnlyLoop
  <1>9. ASSUME NEW p \in Collectors, Release(p) PROVE Closed'
    <2>1. LoopClosed(loop'[p]) /\ OnlyLoop(p) /\ OnlyFill(p)
      BY <1>9, EndEffect, Shapes DEF LoopClosed
    <2>2. FillClosed(fill'[p])
      BY <1>9, EndEffect, IdleType, Closable DEF FillClosed
    <2> QED
      BY <1>9, <2>1, <2>2, EndEffect, ClosedStays DEF OnlyLoop, OnlyFill
  <1>10. ASSUME NEW p \in Collectors, GapFails(p) PROVE Closed'
    <2>1. loop[p] \in Loops /\ LoopClosed(loop[p]) /\ OnlyLoop(p)
      BY <1>10, GapFailsEffect DEF TypeOK, Closed
    <2>2. loop'[p].todo \subseteq loop[p].todo /\ loop'[p].inbox = loop[p].inbox
      <3>1. CASE \E c \in loop[p].todo :
                     loop'[p] = [loop[p] EXCEPT !.todo = loop[p].todo \ {c}, !.failed = TRUE]
        BY <2>1, <3>1 DEF Loops
      <3>2. CASE loop'[p] = [loop[p] EXCEPT !.pc = "live", !.todo = {}, !.failed = TRUE]
        BY <2>1, <3>2 DEF Loops
      <3> QED
        BY <1>10, <3>1, <3>2, GapFailsEffect
    <2>3. LoopClosed(loop'[p])
      BY <2>1, <2>2 DEF LoopClosed
    <2> QED
      BY <1>10, <2>1, <2>3, ClosedStays DEF GapFails, OnlyLoop
  <1>11. ASSUME NEW p \in Collectors, ReadFails(p) PROVE Closed'
    <2>1. loop'[p].todo = {} /\ loop'[p].inbox = <<>> /\ OnlyLoop(p)
      BY <1>11, ReconnectEffect, Shapes
    <2>2. LoopClosed(loop'[p])
      BY <2>1 DEF LoopClosed
    <2> QED
      BY <1>11, <2>1, <2>2, ClosedStays DEF ReadFails, OnlyLoop
  <1>12. ASSUME NEW p \in Collectors, Lose(p) PROVE Closed'
    <2>1. loop[p] \in Loops /\ LoopClosed(loop[p]) /\ OnlyLoop(p)
      BY <1>12, LoseEffect DEF TypeOK, Closed
    <2>2. LoopClosed(loop'[p])
      BY <1>12, <2>1, LoseEffect DEF LoopClosed, Loops
    <2> QED
      BY <1>12, <2>1, <2>2, ClosedStays DEF Lose, OnlyLoop
  <1>13. ASSUME NEW p \in Collectors, Crash(p) PROVE Closed'
    <2>1. LoopClosed(loop'[p]) /\ OnlyLoop(p) /\ OnlyFill(p)
      BY <1>13, EndEffect, Shapes DEF LoopClosed
    <2>2. FillClosed(fill'[p])
      BY <1>13, EndEffect, IdleType, Closable DEF FillClosed
    <2> QED
      BY <1>13, <2>1, <2>2, EndEffect, ClosedStays DEF OnlyLoop, OnlyFill
  <1>14. ASSUME NEW w \in Writers, LookUp(w) PROVE Closed'
    <2>1. PICK from \in 1..MaxBar + 2 :
              fill'[w] = [fill[w] EXCEPT !.pc = "fetch", !.from = from,
                                         !.todo = Chunks(from, fill[w].upto)]
      BY <1>14, LookUpEffect
    <2>2. fill[w] \in Fills /\ OnlyFill(w) /\ (FreeOf({"today"}) => FillClosed(fill[w]))
      BY <1>14, LookUpEffect DEF TypeOK, Closed
    <2>3. from \in Nat /\ fill[w].upto \in Nat
      BY <2>2, Bounds DEF Fills
    <2>4. \A c \in Chunks(from, fill[w].upto) : c[2] \in from..fill[w].upto
      BY <2>3, ChunkBounds, Bounds
    <2>5. fill'[w].upto = fill[w].upto /\ fill'[w].todo = Chunks(from, fill[w].upto)
      BY <2>1, <2>2 DEF Fills
    <2>6. FreeOf({"today"}) => FillClosed(fill'[w])
      BY <2>2, <2>3, <2>4, <2>5, Closable DEF FillClosed
    <2> QED
      BY <1>14, <2>2, <2>6, ClosedStays DEF LookUp, OnlyFill
  <1>15. ASSUME NEW w \in Writers, FillChunk(w) PROVE Closed'
    <2>1. PICK c \in fill[w].todo : /\ fill'[w] = [fill[w] EXCEPT !.todo = fill[w].todo \ {c}]
                                   /\ stored' = Inserted(Served(c[1], c[2]))
      BY <1>15, FillChunkEffect
    <2>2. fill[w] \in Fills /\ OnlyFill(w) /\ (FreeOf({"today"}) => FillClosed(fill[w]))
      BY <1>15, FillChunkEffect DEF TypeOK, Closed
    <2>3. FreeOf({"today"}) => FillClosed(fill'[w])
      BY <2>1, <2>2 DEF FillClosed, Fills
    <2>4. FreeOf({"today"}) => \A b \in Served(c[1], c[2]) : b <= latest
      BY <2>2, Closable DEF FillClosed, Fills, Ranges, Bars
    <2> QED
      BY <1>15, <2>1, <2>2, <2>3, <2>4, ClosedStays DEF FillChunk, OnlyFill
  <1>16. ASSUME NEW w \in Writers, FillDone(w) PROVE Closed'
    <2>1. fill[w] \in Fills /\ OnlyFill(w) /\ (FreeOf({"today"}) => FillClosed(fill[w]))
      BY <1>16, FillDoneEffect DEF TypeOK, Closed
    <2>2. \/ fill'[w].todo \subseteq fill[w].todo /\ fill'[w].upto = fill[w].upto
          \/ fill'[w] = Idle
      BY <1>16, FillDoneEffect
    <2>3. FreeOf({"today"}) => FillClosed(fill'[w])
      BY <2>1, <2>2, IdleType, Closable DEF FillClosed
    <2> QED
      BY <1>16, <2>1, <2>3, ClosedStays DEF FillDone, OnlyFill
  <1>17. ASSUME NEW w \in Writers, ChunkFails(w) PROVE Closed'
    <2>1. fill[w] \in Fills /\ OnlyFill(w) /\ (FreeOf({"today"}) => FillClosed(fill[w]))
      BY <1>17, ChunkFailsEffect DEF TypeOK, Closed
    <2>2. \/ fill'[w].todo \subseteq fill[w].todo /\ fill'[w].upto = fill[w].upto
          \/ fill'[w] = Idle
      <3>1. CASE \E c \in fill[w].todo :
                     fill'[w] = [fill[w] EXCEPT !.todo = fill[w].todo \ {c}, !.failed = TRUE]
        BY <2>1, <3>1 DEF Fills
      <3> QED
        BY <1>17, <3>1, ChunkFailsEffect
    <2>3. FreeOf({"today"}) => FillClosed(fill'[w])
      BY <2>1, <2>2, IdleType, Closable DEF FillClosed
    <2> QED
      BY <1>17, <2>1, <2>3, ClosedStays DEF ChunkFails, OnlyFill
  <1>18. ASSUME Post PROVE Closed'
    <2>1. FillClosed(fill'["api"])
      BY <1>18, PostEffect, LookingType, Closable DEF FillClosed
    <2> QED
      BY <1>18, <2>1, PostEffect, ClosedStays DEF Post, OnlyFill
  <1>19. ASSUME Script PROVE Closed'
    <2>1. FreeOf({"today"}) => FillClosed(fill'["script"])
      BY <1>19, ScriptEffect, Closable DEF FillClosed, FreeOf, Has
    <2> QED
      BY <1>19, <2>1, ScriptEffect, ClosedStays DEF Script, OnlyFill
  <1>20. ASSUME BarCloses PROVE Closed'
    <2>1. \A p \in Collectors : LoopClosed(loop[p])'
      <3> TAKE p \in Collectors
      <3>1. loop[p] \in Loops /\ LoopClosed(loop[p]) /\ loop[p].inbox \in Seq(1..MaxBar)
        BY DEF TypeOK, Closed, Loops
      <3>2. latest' = latest + 1 /\ latest \in Nat /\ latest + 1 \in 1..MaxBar
        BY SMTT(20), <1>20, BarClosesEffect, Closable, Bounds DEF TypeOK
      <3>3. /\ loop'[p].todo = loop[p].todo
            /\ \/ loop'[p].inbox = loop[p].inbox
               \/ loop'[p].inbox = Append(loop[p].inbox, latest + 1)
        BY <1>20, <3>1, BarClosesEffect DEF Loops
      <3>4. \A c \in loop'[p].todo : c[2] <= latest'
        BY <3>1, <3>2, <3>3 DEF LoopClosed, Loops, Ranges
      <3>5. CASE loop'[p].inbox = loop[p].inbox
        <4>1. \A i \in 1..Len(loop[p].inbox) :
                 loop[p].inbox[i] \in Nat /\ loop[p].inbox[i] <= latest
          BY <3>1, Elements DEF LoopClosed
        <4> QED
          BY <3>2, <3>4, <3>5, <4>1 DEF LoopClosed
      <3>6. CASE loop'[p].inbox = Append(loop[p].inbox, latest + 1)
        <4> DEFINE new == Append(loop[p].inbox, latest + 1)
        <4>1. /\ Len(new) = Len(loop[p].inbox) + 1
              /\ \A i \in 1..Len(loop[p].inbox) : new[i] = loop[p].inbox[i]
              /\ new[Len(loop[p].inbox) + 1] = latest + 1
          BY <3>1, <3>2, AppendProperties
        <4>2. \A i \in 1..Len(loop[p].inbox) :
                 loop[p].inbox[i] \in Nat /\ loop[p].inbox[i] <= latest
          BY <3>1, Elements DEF LoopClosed
        <4>3. Len(loop[p].inbox) \in Nat
          BY <3>1
        <4> HIDE DEF new
        <4>4. \A i \in 1..Len(new) : new[i] <= latest + 1
          BY SMTT(20), <3>2, <4>1, <4>2, <4>3
        <4> QED
          BY <3>2, <3>4, <3>6, <4>4 DEF LoopClosed, new
      <3> QED
        BY <3>3, <3>5, <3>6
    <2>2. FreeOf({"today"}) => \A w \in Writers : FillClosed(fill[w])'
      <3> SUFFICES ASSUME FreeOf({"today"}), NEW w \in Writers PROVE FillClosed(fill[w])'
        OBVIOUS
      <3>1. fill[w] \in Fills /\ FillClosed(fill[w]) /\ fill' = fill
        BY <1>20 DEF TypeOK, Closed, BarCloses
      <3> QED
        BY <1>20, <3>1, BarClosesEffect, Closable DEF FillClosed, Fills, Ranges
    <2> QED
      BY <1>20, <2>1, <2>2 DEF Closed, FreeOf, BarCloses
  <1>21. CASE UNCHANGED vars
    BY <1>21 DEF vars, Closed, LoopClosed, FillClosed, FreeOf
  <1> QED
    BY <1>1, <1>2, <1>3, <1>4, <1>5, <1>6, <1>7, <1>8, <1>9, <1>10, <1>11, <1>12, <1>13,
       <1>14, <1>15, <1>16, <1>17, <1>18, <1>19, <1>20, <1>21 DEF Next, Stream, Backfill

-----------------------------------------------------------------------------
\* What a connected collector has to have: from the window of its gap check on,
\* each bar is stored, waits to be read or lies in a chunk that is still to come.
Waits(p, b) == \E i \in 1..Len(loop[p].inbox) : loop[p].inbox[i] = b
Comes(todo, b) == \E c \in todo : c[1] <= b /\ b <= c[2]
Covers(p) ==
    /\ loop[p].pc # "gaps" => loop[p].todo = {}
    /\ loop[p].pc \in {"gaps", "live"} /\ ~loop[p].failed /\ loop[p].linked =>
          \A b \in Most(1, loop[p].upto - Lookback)..latest :
             Held(b) \/ Waits(p, b) \/ Comes(loop[p].todo, b)
Covered == \A p \in Collectors : Covers(p)

\* The window is made of bars.
LEMMA WindowBars ==
    ASSUME TypeOK, NEW n \in Nat, NEW b \in Most(1, n - Lookback)..latest
    PROVE  b \in Bars /\ b \in Nat \ {0}
  BY Closable, Bounds DEF Most, Bars
\* A loop that is left alone misses nothing new while the clock stands.
LEMMA CoversStays ==
    ASSUME TypeOK, [Next]_vars, latest' = latest, NEW p \in Collectors, Covers(p),
           loop'[p] = loop[p]
    PROVE  Covers(p)'
  <1>1. ASSUME loop[p].pc \in {"gaps", "live"}, ~loop[p].failed, loop[p].linked,
               NEW b \in Most(1, loop[p].upto - Lookback)..latest
        PROVE  Held(b)' \/ Waits(p, b) \/ Comes(loop[p].todo, b)
    <2>1. loop[p].upto \in Nat
      BY Bounds DEF TypeOK, Loops
    <2>2. b \in Bars
      BY <2>1, WindowBars
    <2> QED
      BY <1>1, <2>2, HeldStays DEF Covers
  <1> QED
    BY <1>1 DEF Covers, Waits, Comes
\* ... so only the loop that moves has to be looked at.
LEMMA CoversRest ==
    ASSUME TypeOK, Covered, [Next]_vars, latest' = latest, NEW p \in Collectors, OnlyLoop(p),
           Covers(p)'
    PROVE  Covered'
  BY CoversStays DEF Covered, OnlyLoop
\* Every step keeps the window covered: a bar moves from a chunk, or from the inbox,
\* into the store, and a bar that closes goes to the inbox of whoever is linked.
LEMMA CoveredNext == TypeOK /\ Closed /\ Covered /\ [Next]_vars => Covered'
  <1> SUFFICES ASSUME TypeOK, Closed, Covered, [Next]_vars PROVE Covered'
    OBVIOUS
  <1>1. ASSUME NEW p \in Collectors, Start(p) PROVE Covered'
    <2>1. /\ loop'[p].pc \notin {"gaps", "live"} /\ loop'[p].todo = {}
          /\ OnlyLoop(p) /\ latest' = latest
      BY <1>1, StartEffect, Shapes DEF Start
    <2> QED
      BY <2>1, CoversRest DEF Covers
  <1>2. ASSUME NEW p \in Collectors, Connect(p) PROVE Covered'
    <2>1. /\ loop'[p].pc \notin {"gaps", "live"} /\ loop'[p].todo = {}
          /\ OnlyLoop(p) /\ latest' = latest
      BY <1>2, ConnectEffect, Shapes DEF Connect, Off
    <2> QED
      BY <2>1, CoversRest DEF Covers
  <1>3. ASSUME NEW p \in Collectors, ScanGaps(p) PROVE Covered'
    <2> DEFINE from == Most(1, latest - Lookback)
    <2>1. /\ loop'[p].pc = "gaps" /\ loop'[p].upto = latest /\ loop'[p].todo = Missing(from, latest)
          /\ OnlyLoop(p) /\ UNCHANGED <<latest, stored>>
      <3>1. loop[p] \in Loops /\ UNCHANGED <<latest, stored>>
        BY <1>3 DEF TypeOK, ScanGaps
      <3>2. OnlyLoop(p) /\ loop'[p] = [loop[p] EXCEPT !.pc = "gaps", !.upto = latest,
                                                      !.todo = Missing(from, latest)]
        BY <1>3, ScanGapsEffect
      <3> HIDE DEF from
      <3> QED
        BY <3>1, <3>2 DEF Loops
    <2>2. from \in Nat \ {0}
      BY Now, Bounds DEF Most
    <2>3. \A b \in from..latest : Held(b) \/ Comes(Missing(from, latest), b)
      <3> HIDE DEF from
      <3> TAKE b \in from..latest
      <3>1. b \notin Stored(from, latest) \/ Held(b)
        BY DEF Stored, Held
      <3> QED
        BY <2>2, <3>1, MissingCovers, Now DEF Comes
    <2>4. Covers(p)'
      BY <2>1, <2>3 DEF Covers, Held
    <2> QED
      BY <2>1, <2>4, CoversRest
  <1>4. ASSUME NEW p \in Collectors, FillGap(p) PROVE Covered'
    <2>1. PICK c \in loop[p].todo : /\ loop'[p] = [loop[p] EXCEPT !.todo = loop[p].todo \ {c}]
                                   /\ stored' = Inserted(Served(c[1], c[2]))
      BY <1>4, FillGapEffect
    <2>2. /\ loop[p] \in Loops /\ Covers(p) /\ OnlyLoop(p) /\ loop[p].pc = "gaps"
          /\ latest' = latest
      BY <1>4, FillGapEffect DEF TypeOK, Covered, FillGap
    <2>3. /\ loop'[p].pc = "gaps" /\ loop'[p].todo = loop[p].todo \ {c}
          /\ loop'[p].inbox = loop[p].inbox /\ loop'[p].upto = loop[p].upto
          /\ loop'[p].failed = loop[p].failed /\ loop'[p].linked = loop[p].linked
      BY <2>1, <2>2 DEF Loops
    <2>4. ASSUME ~loop[p].failed, loop[p].linked,
                 NEW b \in Most(1, loop[p].upto - Lookback)..latest
          PROVE  Held(b)' \/ Waits(p, b) \/ Comes(loop[p].todo \ {c}, b)
      <3>1. b \in Bars /\ b \in Nat
        <4>1. loop[p].upto \in Nat
          BY <2>2, Bounds DEF Loops
        <4> QED
          BY <4>1, WindowBars
      <3>2. CASE Held(b)
        BY <3>1, <3>2, HeldStays
      <3>3. CASE c[1] <= b /\ b <= c[2]
        <4>1. b \in Served(c[1], c[2])
          BY <3>1, <3>3, Now DEF Served
        <4> QED
          BY <2>1, <3>1, <4>1, InsertedEffect
      <3>4. CASE \E d \in loop[p].todo \ {c} : d[1] <= b /\ b <= d[2]
        BY <3>4 DEF Comes
      <3> QED
        BY <2>2, <2>4, <3>2, <3>3, <3>4 DEF Covers, Comes
    <2>5. Covers(p)'
      BY <2>2, <2>3, <2>4 DEF Covers, Waits
    <2> QED
      BY <2>2, <2>5, CoversRest
  <1>5. ASSUME NEW p \in Collectors, GapsDone(p) PROVE Covered'
    <2>1. /\ loop[p] \in Loops /\ Covers(p) /\ OnlyLoop(p) /\ loop[p].pc = "gaps"
          /\ loop[p].todo = {} /\ UNCHANGED <<latest, stored>>
      BY <1>5, GapsDoneEffect DEF TypeOK, Covered, GapsDone
    <2>2. /\ loop'[p].pc = "live" /\ loop'[p].todo = {}
          /\ loop'[p].inbox = loop[p].inbox /\ loop'[p].upto = loop[p].upto
          /\ loop'[p].failed = loop[p].failed /\ loop'[p].linked = loop[p].linked
      BY ZenonT(40), <1>5, <2>1, GapsDoneEffect DEF Loops
    <2>3. Covers(p)'
      BY <2>1, <2>2 DEF Covers, Waits, Comes, Held
    <2> QED
      BY <2>1, <2>3, CoversRest
  <1>6. ASSUME NEW p \in Collectors, Read(p) PROVE Covered'
    <2>1. /\ loop[p] \in Loops /\ Covers(p) /\ OnlyLoop(p) /\ loop[p].pc = "live"
          /\ loop[p].inbox \in Seq(1..MaxBar) /\ loop[p].inbox # <<>>
          /\ latest' = latest /\ stored' = Inserted({Head(loop[p].inbox)})
      BY <1>6, ReadEffect DEF TypeOK, Covered, Loops, Read
    <2>2. /\ loop'[p].pc = "live" /\ loop'[p].todo = loop[p].todo
          /\ loop'[p].inbox = Tail(loop[p].inbox) /\ loop'[p].upto = loop[p].upto
          /\ loop'[p].failed = loop[p].failed /\ loop'[p].linked = loop[p].linked
      <3> DEFINE rest == Tail(loop[p].inbox)
      <3>1. loop'[p] = [loop[p] EXCEPT !.inbox = rest]
        BY <1>6, ReadEffect
      <3> HIDE DEF rest
      <3>2. /\ loop'[p].pc = "live" /\ loop'[p].todo = loop[p].todo
            /\ loop'[p].inbox = rest /\ loop'[p].upto = loop[p].upto
            /\ loop'[p].failed = loop[p].failed /\ loop'[p].linked = loop[p].linked
        BY <2>1, <3>1 DEF Loops
      <3> QED
        BY <3>2 DEF rest
    <2>3. ASSUME ~loop[p].failed, loop[p].linked,
                 NEW b \in Most(1, loop[p].upto - Lookback)..latest
          PROVE  Held(b)' \/ Waits(p, b)' \/ Comes(loop[p].todo, b)
      <3>1. b \in Bars
        <4>1. loop[p].upto \in Nat
          BY <2>1, Bounds DEF Loops
        <4> QED
          BY <4>1, WindowBars
      <3>2. CASE Held(b)
        BY <3>1, <3>2, HeldStays
      <3>3. CASE Waits(p, b)
        <4>1. PICK i \in 1..Len(loop[p].inbox) : loop[p].inbox[i] = b
          BY <3>3 DEF Waits
        <4>2. CASE i = 1
          <5>1. b \in {Head(loop[p].inbox)}
            BY <2>1, <4>1, <4>2, Heads
          <5> QED
            BY <2>1, <3>1, <5>1, InsertedEffect
        <4>3. CASE i # 1
          <5> DEFINE s == loop[p].inbox
          <5>1. /\ Len(s) \in Nat /\ Len(Tail(s)) = Len(s) - 1
                /\ \A j \in 1..Len(Tail(s)) : Tail(s)[j] = s[j + 1]
            BY <2>1, Heads
          <5> HIDE DEF s
          <5>2. i \in 1..Len(s) /\ s[i] = b
            BY <4>1 DEF s
          <5>3. i - 1 \in 1..Len(Tail(s)) /\ Tail(s)[i - 1] = b
            BY <4>3, <5>1, <5>2
          <5>4. Tail(s) = loop'[p].inbox
            BY <2>2 DEF s
          <5> QED
            BY <5>3, <5>4 DEF Waits
        <4> QED
          BY <4>2, <4>3
      <3> QED
        BY <2>1, <2>3, <3>2, <3>3 DEF Covers
    <2>4. Covers(p)'
      BY <2>1, <2>2, <2>3 DEF Covers
    <2> QED
      BY <2>1, <2>4, CoversRest
  <1>7. ASSUME NEW p \in Collectors, Reconnect(p) PROVE Covered'
    <2>1. /\ loop'[p].pc \notin {"gaps", "live"} /\ loop'[p].todo = {}
          /\ OnlyLoop(p) /\ latest' = latest
      BY <1>7, ReconnectEffect, Shapes DEF Reconnect
    <2> QED
      BY <2>1, CoversRest DEF Covers
  <1>8. ASSUME NEW p \in Collectors, Stop(p) PROVE Covered'
    <2>1. /\ loop'[p].pc \notin {"gaps", "live"} /\ loop'[p].todo = {}
          /\ OnlyLoop(p) /\ latest' = latest
      BY <1>8, StopEffect, Shapes DEF Stop, Off
    <2> QED
      BY <2>1, CoversRest DEF Covers
  <1>9. ASSUME NEW p \in Collectors, Release(p) PROVE Covered'
    <2>1. /\ loop'[p].pc \notin {"gaps", "live"} /\ loop'[p].todo = {}
          /\ OnlyLoop(p) /\ latest' = latest
      BY <1>9, EndEffect, Shapes DEF Release
    <2> QED
      BY <2>1, CoversRest DEF Covers
  <1>10. ASSUME NEW p \in Collectors, GapFails(p) PROVE Covered'
    <2>1. /\ loop[p] \in Loops /\ Covers(p) /\ OnlyLoop(p) /\ loop[p].pc \in {"scan", "gaps"}
          /\ latest' = latest
      BY <1>10, GapFailsEffect DEF TypeOK, Covered, GapFails
    <2>2. loop'[p].failed /\ (loop'[p].pc # "gaps" => loop'[p].todo = {})
      <3>1. CASE \E c \in loop[p].todo :
                     loop'[p] = [loop[p] EXCEPT !.todo = loop[p].todo \ {c}, !.failed = TRUE]
        <4>1. loop[p].pc = "gaps"
          BY <2>1, <3>1 DEF Covers
        <4> QED
          BY <2>1, <3>1, <4>1 DEF Loops
      <3>2. CASE loop'[p] = [loop[p] EXCEPT !.pc = "live", !.todo = {}, !.failed = TRUE]
        BY <2>1, <3>2 DEF Loops
      <3> QED
        BY <1>10, <3>1, <3>2, GapFailsEffect
    <2>3. Covers(p)'
      BY <2>2 DEF Covers
    <2> QED
      BY <2>1, <2>3, CoversRest
  <1>11. ASSUME NEW p \in Collectors, ReadFails(p) PROVE Covered'
    <2>1. /\ loop'[p].pc \notin {"gaps", "live"} /\ loop'[p].todo = {}
          /\ OnlyLoop(p) /\ latest' = latest
      BY <1>11, ReconnectEffect, Shapes DEF ReadFails
    <2> QED
      BY <2>1, CoversRest DEF Covers
  <1>12. ASSUME NEW p \in Collectors, Lose(p) PROVE Covered'
    <2>1. loop[p] \in Loops /\ Covers(p) /\ OnlyLoop(p) /\ latest' = latest
      BY <1>12, LoseEffect DEF TypeOK, Covered, Lose
    <2>2. ~loop'[p].linked /\ loop'[p].pc = loop[p].pc /\ loop'[p].todo = loop[p].todo
      BY <1>12, <2>1, LoseEffect DEF Loops
    <2>3. Covers(p)'
      BY <2>1, <2>2 DEF Covers
    <2> QED
      BY <2>1, <2>3, CoversRest
  <1>13. ASSUME NEW p \in Collectors, Crash(p) PROVE Covered'
    <2>1. /\ loop'[p].pc \notin {"gaps", "live"} /\ loop'[p].todo = {}
          /\ OnlyLoop(p) /\ latest' = latest
      BY <1>13, EndEffect, Shapes DEF Crash
    <2> QED
      BY <2>1, CoversRest DEF Covers
  <1>14. ASSUME NEW w \in Writers, LookUp(w) PROVE Covered'
    <2>1. loop' = loop /\ latest' = latest
      BY <1>14 DEF LookUp
    <2> QED
      BY <2>1, CoversStays DEF Covered
  <1>15. ASSUME NEW w \in Writers, FillChunk(w) PROVE Covered'
    <2>1. loop' = loop /\ latest' = latest
      BY <1>15 DEF FillChunk
    <2> QED
      BY <2>1, CoversStays DEF Covered
  <1>16. ASSUME NEW w \in Writers, FillDone(w) PROVE Covered'
    <2>1. loop' = loop /\ latest' = latest
      BY <1>16 DEF FillDone
    <2> QED
      BY <2>1, CoversStays DEF Covered
  <1>17. ASSUME NEW w \in Writers, ChunkFails(w) PROVE Covered'
    <2>1. loop' = loop /\ latest' = latest
      BY <1>17 DEF ChunkFails
    <2> QED
      BY <2>1, CoversStays DEF Covered
  <1>18. ASSUME Post PROVE Covered'
    <2>1. loop' = loop /\ latest' = latest
      BY <1>18 DEF Post
    <2> QED
      BY <2>1, CoversStays DEF Covered
  <1>19. ASSUME Script PROVE Covered'
    <2>1. loop' = loop /\ latest' = latest
      BY <1>19 DEF Script
    <2> QED
      BY <2>1, CoversStays DEF Covered
  <1>20. ASSUME BarCloses PROVE Covered'
    <2> SUFFICES ASSUME NEW p \in Collectors PROVE Covers(p)'
      BY DEF Covered
    <2>1. /\ loop[p] \in Loops /\ Covers(p) /\ loop[p].inbox \in Seq(1..MaxBar)
          /\ stored' = stored /\ latest' = latest + 1 /\ latest \in Nat /\ latest + 1 \in 1..MaxBar
      BY SMTT(20), <1>20, BarClosesEffect, Closable, Bounds DEF TypeOK, Covered, Loops, BarCloses
    <2>2. CASE ~loop[p].linked
      <3>1. loop'[p] = loop[p]
        BY <1>20, <2>2, BarClosesEffect
      <3> QED
        BY <2>1, <2>2, <3>1 DEF Covers
    <2>3. CASE loop[p].linked
      <3> DEFINE s == loop[p].inbox
                 new == Append(s, latest + 1)
      <3>1. loop'[p] = [loop[p] EXCEPT !.inbox = new]
        BY <1>20, <2>3, BarClosesEffect
      <3>2. /\ Len(s) \in Nat /\ Len(new) = Len(s) + 1
            /\ \A i \in 1..Len(s) : new[i] = s[i]
            /\ new[Len(s) + 1] = latest + 1
        BY <2>1, AppendProperties
      <3> HIDE DEF new
      <3>3. /\ loop'[p].pc = loop[p].pc /\ loop'[p].todo = loop[p].todo
            /\ loop'[p].inbox = new /\ loop'[p].upto = loop[p].upto
            /\ loop'[p].failed = loop[p].failed /\ loop'[p].linked = loop[p].linked
        BY <2>1, <3>1 DEF Loops
      <3>4. Waits(p, latest)'
        <4>1. Len(new) \in 1..Len(new) /\ new[Len(new)] = latest + 1
          BY <3>2
        <4>2. \E i \in 1..Len(loop'[p].inbox) : loop'[p].inbox[i] = latest'
          BY <2>1, <3>3, <4>1
        <4> QED
          BY <2>1, <4>2 DEF Waits
      <3>5. \A b : Waits(p, b) => Waits(p, b)'
        <4> HIDE DEF s
        <4>1. \A i \in 1..Len(s) : i \in 1..Len(new) /\ new[i] = s[i]
          BY <3>2
        <4>2. \A i \in 1..Len(s) : i \in 1..Len(loop'[p].inbox) /\ loop'[p].inbox[i] = s[i]
          BY <3>3, <4>1
        <4> QED
          BY <4>2 DEF Waits, s
      <3>6. Most(1, loop[p].upto - Lookback) \in Nat
        BY <2>1, Bounds DEF Loops, Most
      <3>7. \A b \in Most(1, loop[p].upto - Lookback)..latest' :
                b = latest + 1 \/ b \in Most(1, loop[p].upto - Lookback)..latest
        BY <2>1, <3>6
      <3> HIDE DEF s
      <3>8. ASSUME loop[p].pc \in {"gaps", "live"}, ~loop[p].failed,
                   NEW b \in Most(1, loop[p].upto - Lookback)..latest'
            PROVE  Held(b) \/ Waits(p, b)' \/ Comes(loop[p].todo, b)
        <4>1. CASE b = latest + 1
          BY <2>1, <3>4, <4>1 DEF Waits
        <4>2. CASE b \in Most(1, loop[p].upto - Lookback)..latest
          BY <2>1, <2>3, <3>5, <3>8, <4>2 DEF Covers
        <4> QED
          BY <3>7, <4>1, <4>2
      <3> QED
        BY <2>1, <3>3, <3>8 DEF Covers, Held
    <2> QED
      BY <2>2, <2>3
  <1>21. CASE UNCHANGED vars
    <2>1. loop' = loop /\ latest' = latest
      BY <1>21 DEF vars
    <2> QED
      BY <2>1, CoversStays DEF Covered
  <1> QED
    BY <1>1, <1>2, <1>3, <1>4, <1>5, <1>6, <1>7, <1>8, <1>9, <1>10, <1>11, <1>12, <1>13,
       <1>14, <1>15, <1>16, <1>17, <1>18, <1>19, <1>20, <1>21 DEF Next, Stream, Backfill

-----------------------------------------------------------------------------
\* What a backfill has to have, and that the script begins with the first bar.
Fetches(w) ==
    fill[w].pc = "fetch" =>
        /\ fill[w].from # 0
        /\ w = "script" => fill[w].from = 1
        /\ ~fill[w].failed /\ FreeOf({"today"}) =>
              \A b \in fill[w].from..fill[w].upto : Held(b) \/ Comes(fill[w].todo, b)
Filled ==
    /\ \A w \in Writers : Fetches(w)
    /\ FreeOf({"today"}) => \A b \in 1..report : Held(b)

\* A backfill that is left alone misses nothing new.
LEMMA FetchesStays ==
    ASSUME TypeOK, [Next]_vars, world' = world, NEW w \in Writers, Fetches(w), fill'[w] = fill[w]
    PROVE  Fetches(w)'
  <1>1. ASSUME fill[w].pc = "fetch", ~fill[w].failed, FreeOf({"today"}),
               NEW b \in fill[w].from..fill[w].upto
        PROVE  Held(b)' \/ Comes(fill[w].todo, b)
    <2>1. b \in Bars
      BY <1>1, Bounds DEF Fetches, TypeOK, Fills, Bars
    <2> QED
      BY <1>1, <2>1, HeldStays DEF Fetches
  <1> QED
    BY <1>1 DEF Fetches, FreeOf
\* What was complete stays complete.
LEMMA ReportStays ==
    ASSUME TypeOK, [Next]_vars, world' = world, Filled, report' = report
    PROVE  FreeOf({"today"})' => \A b \in 1..report' : Held(b)'
  <1>1. 1..report \subseteq Bars
    BY Bounds DEF TypeOK, Bars
  <1> QED
    BY <1>1, HeldStays DEF Filled, FreeOf
\* ... so only the backfill that moves has to be looked at.
LEMMA FetchesRest ==
    ASSUME TypeOK, [Next]_vars, UNCHANGED <<world, report>>, Filled, NEW w \in Writers,
           OnlyFill(w), Fetches(w)'
    PROVE  Filled'
  BY FetchesStays, ReportStays DEF Filled, OnlyFill
\* Every step keeps backfills without a hole.
LEMMA FilledNext == TypeOK /\ Closed /\ Filled /\ [Next]_vars => Filled'
  <1> SUFFICES ASSUME TypeOK, Closed, Filled, [Next]_vars PROVE Filled'
    OBVIOUS
  <1>1. ASSUME NEW p \in Collectors, Start(p) PROVE Filled'
    <2>1. /\ fill'[p] = fill[p] \/ fill'[p].pc # "fetch"
          /\ OnlyFill(p) /\ UNCHANGED <<world, report>> /\ p \in Writers
      BY <1>1, StartEffect, LookingType, Started DEF Start
    <2>2. Fetches(p)'
      <3>1. CASE fill'[p] = fill[p]
        BY <2>1, <3>1, FetchesStays DEF Filled
      <3>2. CASE fill'[p].pc # "fetch"
        BY <3>2 DEF Fetches
      <3> QED
        BY <2>1, <3>1, <3>2
    <2> QED
      BY <2>1, <2>2, FetchesRest
  <1>2. ASSUME NEW p \in Collectors, Connect(p) PROVE Filled'
    <2>1. fill' = fill /\ UNCHANGED <<world, report>>
      BY <1>2 DEF Connect
    <2> QED
      BY <2>1, FetchesStays, ReportStays DEF Filled
  <1>3. ASSUME NEW p \in Collectors, ScanGaps(p) PROVE Filled'
    <2>1. fill' = fill /\ UNCHANGED <<world, report>>
      BY <1>3 DEF ScanGaps
    <2> QED
      BY <2>1, FetchesStays, ReportStays DEF Filled
  <1>4. ASSUME NEW p \in Collectors, FillGap(p) PROVE Filled'
    <2>1. fill' = fill /\ UNCHANGED <<world, report>>
      BY <1>4 DEF FillGap
    <2> QED
      BY <2>1, FetchesStays, ReportStays DEF Filled
  <1>5. ASSUME NEW p \in Collectors, GapsDone(p) PROVE Filled'
    <2>1. fill' = fill /\ UNCHANGED <<world, report>>
      BY <1>5 DEF GapsDone
    <2> QED
      BY <2>1, FetchesStays, ReportStays DEF Filled
  <1>6. ASSUME NEW p \in Collectors, Read(p) PROVE Filled'
    <2>1. fill' = fill /\ UNCHANGED <<world, report>>
      BY <1>6 DEF Read
    <2> QED
      BY <2>1, FetchesStays, ReportStays DEF Filled
  <1>7. ASSUME NEW p \in Collectors, Reconnect(p) PROVE Filled'
    <2>1. fill' = fill /\ UNCHANGED <<world, report>>
      BY <1>7 DEF Reconnect
    <2> QED
      BY <2>1, FetchesStays, ReportStays DEF Filled
  <1>8. ASSUME NEW p \in Collectors, Stop(p) PROVE Filled'
    <2>1. fill' = fill /\ UNCHANGED <<world, report>>
      BY <1>8 DEF Stop
    <2> QED
      BY <2>1, FetchesStays, ReportStays DEF Filled
  <1>9. ASSUME NEW p \in Collectors, Release(p) PROVE Filled'
    <2>1. fill'[p].pc # "fetch" /\ OnlyFill(p) /\ UNCHANGED <<world, report>> /\ p \in Writers
      BY <1>9, EndEffect, IdleType, Started
    <2>2. Fetches(p)'
      BY <2>1 DEF Fetches
    <2> QED
      BY <2>1, <2>2, FetchesRest
  <1>10. ASSUME NEW p \in Collectors, GapFails(p) PROVE Filled'
    <2>1. fill' = fill /\ UNCHANGED <<world, report>>
      BY <1>10 DEF GapFails
    <2> QED
      BY <2>1, FetchesStays, ReportStays DEF Filled
  <1>11. ASSUME NEW p \in Collectors, ReadFails(p) PROVE Filled'
    <2>1. fill' = fill /\ UNCHANGED <<world, report>>
      BY <1>11 DEF ReadFails
    <2> QED
      BY <2>1, FetchesStays, ReportStays DEF Filled
  <1>12. ASSUME NEW p \in Collectors, Lose(p) PROVE Filled'
    <2>1. fill' = fill /\ UNCHANGED <<world, report>>
      BY <1>12 DEF Lose
    <2> QED
      BY <2>1, FetchesStays, ReportStays DEF Filled
  <1>13. ASSUME NEW p \in Collectors, Crash(p) PROVE Filled'
    <2>1. fill'[p].pc # "fetch" /\ OnlyFill(p) /\ UNCHANGED <<world, report>> /\ p \in Writers
      BY <1>13, EndEffect, IdleType, Started
    <2>2. Fetches(p)'
      BY <2>1 DEF Fetches
    <2> QED
      BY <2>1, <2>2, FetchesRest
  <1>14. ASSUME NEW w \in Writers, LookUp(w) PROVE Filled'
    <2>1. PICK from \in 1..MaxBar + 2 :
              /\ w = "script" => from = 1
              /\ fill'[w] = [fill[w] EXCEPT !.pc = "fetch", !.from = from,
                                            !.todo = Chunks(from, fill[w].upto)]
      BY <1>14, LookUpEffect
    <2>2. fill[w] \in Fills /\ OnlyFill(w) /\ UNCHANGED <<world, report>>
      BY <1>14, LookUpEffect DEF TypeOK, LookUp
    <2>3. /\ fill'[w].from = from /\ fill'[w].upto = fill[w].upto
          /\ fill'[w].todo = Chunks(from, fill[w].upto)
      BY <2>1, <2>2 DEF Fills
    <2>4. from \in Nat /\ fill[w].upto \in Nat /\ from # 0
      BY <2>2, Bounds DEF Fills
    <2>5. \A b \in from..fill[w].upto : Comes(Chunks(from, fill[w].upto), b)
      BY <2>4, ChunkAround, Bounds DEF Comes
    <2>6. Fetches(w)'
      BY <2>1, <2>3, <2>4, <2>5 DEF Fetches
    <2> QED
      BY <2>2, <2>6, FetchesRest
  <1>15. ASSUME NEW w \in Writers, FillChunk(w) PROVE Filled'
    <2>1. PICK c \in fill[w].todo : /\ fill'[w] = [fill[w] EXCEPT !.todo = fill[w].todo \ {c}]
                                   /\ stored' = Inserted(Served(c[1], c[2]))
      BY <1>15, FillChunkEffect
    <2>2. /\ fill[w] \in Fills /\ OnlyFill(w) /\ Fetches(w) /\ fill[w].pc = "fetch"
          /\ FreeOf({"today"}) => FillClosed(fill[w])
          /\ UNCHANGED <<world, report>>
      BY <1>15, FillChunkEffect DEF TypeOK, Closed, Filled, FillChunk
    <2>3. /\ fill'[w].todo = fill[w].todo \ {c} /\ fill'[w].from = fill[w].from
          /\ fill'[w].upto = fill[w].upto /\ fill'[w].failed = fill[w].failed
      BY <2>1, <2>2 DEF Fills
    <2>4. ASSUME ~fill[w].failed, FreeOf({"today"}), NEW b \in fill[w].from..fill[w].upto
          PROVE  Held(b)' \/ Comes(fill[w].todo \ {c}, b)
      <3>1. b \in Bars /\ b \in Nat /\ b <= latest
        BY <2>2, <2>4, Bounds, Closable DEF Fills, Fetches, FillClosed, Bars
      <3>2. CASE Held(b)
        BY <3>1, <3>2, HeldStays
      <3>3. CASE c[1] <= b /\ b <= c[2]
        <4>1. b \in Served(c[1], c[2])
          BY <3>1, <3>3, Now DEF Served
        <4> QED
          BY <2>1, <3>1, <4>1, InsertedEffect
      <3>4. CASE \E d \in fill[w].todo \ {c} : d[1] <= b /\ b <= d[2]
        BY <3>4 DEF Comes
      <3> QED
        BY <2>2, <2>4, <3>2, <3>3, <3>4 DEF Fetches, Comes
    <2>5. Fetches(w)'
      BY <2>2, <2>3, <2>4 DEF Fetches, FreeOf
    <2> QED
      BY <2>2, <2>5, FetchesRest
  <1>16. ASSUME NEW w \in Writers, FillDone(w) PROVE Filled'
    <2>1. /\ fill[w].pc = "fetch" /\ fill[w].todo = {} /\ fill'[w].pc = "idle" /\ OnlyFill(w)
          /\ report' # report => w = "script" /\ ~fill[w].failed /\ report' = fill[w].upto
          /\ UNCHANGED <<world, stored>>
      BY <1>16, FillDoneEffect, IdleType DEF FillDone
    <2>2. \A v \in Writers : Fetches(v)'
      <3> TAKE v \in Writers
      <3>1. CASE v = w
        BY <2>1, <3>1 DEF Fetches
      <3>2. CASE v # w
        BY <2>1, <3>2, FetchesStays DEF Filled, OnlyFill
      <3> QED
        BY <3>1, <3>2
    <2>3. FreeOf({"today"})' => \A b \in 1..report' : Held(b)'
      <3>1. CASE report' = report
        BY <2>1, <3>1, ReportStays
      <3>2. CASE report' # report
        BY <2>1, <3>2 DEF Filled, Fetches, Comes, Held, FreeOf
      <3> QED
        BY <3>1, <3>2
    <2> QED
      BY <2>2, <2>3 DEF Filled
  <1>17. ASSUME NEW w \in Writers, ChunkFails(w) PROVE Filled'
    <2>1. fill[w] \in Fills /\ OnlyFill(w) /\ Fetches(w) /\ UNCHANGED <<world, report>>
      BY <1>17, ChunkFailsEffect DEF TypeOK, Filled, ChunkFails
    <2>2. \/ fill'[w].failed /\ fill'[w].pc = fill[w].pc /\ fill'[w].from = fill[w].from
          \/ fill'[w].pc # "fetch"
      <3>1. CASE \E c \in fill[w].todo :
                     fill'[w] = [fill[w] EXCEPT !.todo = fill[w].todo \ {c}, !.failed = TRUE]
        BY <2>1, <3>1 DEF Fills
      <3>2. CASE fill'[w] = Idle
        BY <3>2, IdleType
      <3> QED
        BY <1>17, <3>1, <3>2, ChunkFailsEffect
    <2>3. Fetches(w)'
      BY <2>1, <2>2 DEF Fetches
    <2> QED
      BY <2>1, <2>3, FetchesRest
  <1>18. ASSUME Post PROVE Filled'
    <2>1. fill'["api"].pc # "fetch" /\ OnlyFill("api") /\ UNCHANGED <<world, report>>
      BY <1>18, PostEffect, LookingType DEF Post
    <2>2. "api" \in Writers /\ Fetches("api")'
      BY <2>1 DEF Fetches, Writers, Collectors
    <2> QED
      BY <2>1, <2>2, FetchesRest
  <1>19. ASSUME Script PROVE Filled'
    <2>1. fill'["script"].pc # "fetch" /\ OnlyFill("script") /\ UNCHANGED <<world, report>>
      BY <1>19, ScriptEffect DEF Script
    <2>2. Fetches("script")'
      BY <2>1 DEF Fetches
    <2> QED
      BY <2>1, <2>2, Started, FetchesRest
  <1>20. ASSUME BarCloses PROVE Filled'
    <2>1. fill' = fill /\ UNCHANGED <<world, report>>
      BY <1>20 DEF BarCloses
    <2> QED
      BY <2>1, FetchesStays, ReportStays DEF Filled
  <1>21. CASE UNCHANGED vars
    <2>1. fill' = fill /\ UNCHANGED <<world, report>>
      BY <1>21 DEF vars
    <2> QED
      BY <2>1, FetchesStays, ReportStays DEF Filled
  <1> QED
    BY <1>1, <1>2, <1>3, <1>4, <1>5, <1>6, <1>7, <1>8, <1>9, <1>10, <1>11, <1>12, <1>13,
       <1>14, <1>15, <1>16, <1>17, <1>18, <1>19, <1>20, <1>21 DEF Next, Stream, Backfill

-----------------------------------------------------------------------------
\* The inductive invariant: each part needs TypeOK, Covered and Filled need Closed.
IInv == TypeOK /\ Locked /\ Closed /\ Covered /\ Filled
\* It holds at first ...
LEMMA InitIInv == Init => IInv
  <1> SUFFICES ASSUME Init PROVE IInv
    OBVIOUS
  <1>1. TypeOK
    <2>1. latest \in History..MaxBar /\ report \in 0..MaxBar + 1
      BY Bounds DEF Init
    <2>2. loop \in [Collectors -> Loops] /\ fill \in [Writers -> Fills]
      BY NewLoops, IdleType DEF Init
    <2>3. /\ losses \in 0..MaxLosses /\ stops \in 0..MaxStops
          /\ failures \in 0..MaxFailures /\ requests \in 0..MaxRequests
      BY Bounds DEF Init
    <2> QED
      BY <2>1, <2>2, <2>3 DEF Init, TypeOK
  <1>2. \A p \in Collectors : loop[p] = Off
    BY DEF Init
  <1>3. \A w \in Writers : fill[w] = Idle
    BY DEF Init
  <1>4. Locked
    BY <1>1, <1>2, <1>3, Shapes, IdleType, Started DEF Locked
  <1>5. Closed
    <2>1. \A p \in Collectors : LoopClosed(loop[p])
      BY <1>2, Shapes DEF LoopClosed
    <2>2. \A w \in Writers : FillClosed(fill[w])
      BY <1>1, <1>3, IdleType, Closable DEF FillClosed
    <2> QED
      BY <2>1, <2>2 DEF Closed, Init
  <1>6. Covered
    BY <1>2, Shapes DEF Covered, Covers
  <1>7. Filled
    BY <1>3, IdleType DEF Filled, Fetches, Init
  <1> QED
    BY <1>1, <1>4, <1>5, <1>6, <1>7 DEF IInv
\* ... and every step keeps it.
LEMMA NextIInv == IInv /\ [Next]_vars => IInv'
  BY TypeNext, LockedNext, ClosedNext, CoveredNext, FilledNext DEF IInv
\* So it holds for ever.
THEOREM Invariant == Spec => []IInv
  <1> QED
    BY InitIInv, NextIInv, PTL DEF Spec

\* Every variable keeps its type, under any number of losses, stops, crashes,
\* failures and requests.
THEOREM TypeCorrect == Spec => []TypeOK
  <1>1. IInv => TypeOK
    BY DEF IInv
  <1> QED
    BY <1>1, Invariant, PTL

\* At most one collector is up, from taking the lock to handing it back, and it
\* alone writes for a collector (collector.py, lock.py).
THEOREM OneCollector == Spec => []OneWriter
  <1>1. IInv => OneWriter
    <2> SUFFICES ASSUME IInv, NEW p \in Collectors,
                        loop[p].pc # "off" \/ (fill[p].pc # "idle" /\ FreeOf({"post"}))
                 PROVE  /\ Owner(p) = "self"
                        /\ \A q \in Collectors \ {p} : loop[q].pc = "off" /\ Owner(q) = "other"
      BY DEF OneWriter
    <2>1. lock = p /\ p # "free"
      BY DEF IInv, Locked, Collectors
    <2>2. \A q \in Collectors \ {p} : loop[q].pc = "off"
      BY <2>1 DEF IInv, Locked
    <2> QED
      BY <2>1, <2>2 DEF Owner, Probe
  <1> QED
    BY <1>1, Invariant, PTL

\* No bar is stored while it is still forming, so no insert has to correct one
\* (bars.py, collector.py).
THEOREM FinishedBarsOnly == Spec => []StoredIsFinal
  <1>1. IInv => StoredIsFinal
    BY DEF IInv, Closed, StoredIsFinal
  <1> QED
    BY <1>1, Invariant, PTL

\* A collector that connects first and then fills its gaps misses no bar as long as
\* the connection lives (collector.py, _stream_once).
THEOREM NothingIsMissed == Spec => []NothingMissed
  <1>1. IInv => NothingMissed
    <2> SUFFICES ASSUME IInv, NEW p \in Collectors, At(p, "live"), ~loop[p].failed, loop[p].linked,
                        NEW b \in Most(1, loop[p].upto - Lookback)..latest
                 PROVE  Held(b) \/ \E i \in 1..Len(loop[p].inbox) : loop[p].inbox[i] = b
      BY DEF NothingMissed
    <2>1. loop[p].todo = {}
      BY DEF IInv, Covered, Covers, At
    <2> QED
      BY <2>1 DEF IInv, Covered, Covers, Waits, Comes, At
  <1> QED
    BY <1>1, Invariant, PTL

\* A backfill without a failed chunk leaves no hole, in whatever order its chunks
\* end, and the script calls no history complete that is not (backfill.py).
THEOREM BackfillLeavesNoHole == Spec => []BackfillIsComplete
  <1>1. IInv => BackfillIsComplete
    BY DEF IInv, Filled, Fetches, Comes, BackfillIsComplete
  <1> QED
    BY <1>1, Invariant, PTL

-----------------------------------------------------------------------------
(***************************************************************************)
(* A collector settles, and what is stored then is complete.               *)
(***************************************************************************)
\* How far a loop is from waiting for the next bar over a connection that lives: whole
\* phases, and the chunks or messages that are left in one.
Phase(l) ==
    CASE l.pc = "stopping" -> 8
      [] l.pc = "off" -> 7
      [] l.pc = "connect" -> 3
      [] l.pc = "scan" -> IF l.linked THEN 2 ELSE 6
      [] l.pc = "gaps" -> IF l.linked THEN 1 ELSE 5
      [] l.pc = "live" -> IF l.linked THEN 0 ELSE 4
Work(l) == IF l.pc = "gaps" THEN Cardinality(l.todo) ELSE Len(l.inbox)

\* Every step of a loop brings it nearer, and nothing else moves it but a loss, a stop,
\* a failure or a bar that closes, of which the bounds allow so many: no loop connects
\* and checks its gaps over and over.  What remains open in RecentIsComplete is that
\* the steps are taken.
Nearer(p) ==
    \/ Phase(loop'[p]) < Phase(loop[p])
    \/ Phase(loop'[p]) = Phase(loop[p]) /\ Work(loop'[p]) < Work(loop[p])
Moves(p) == Start(p) \/ Stream(p) \/ Release(p)
Disturbed == losses' > losses \/ stops' > stops \/ failures' > failures \/ latest' > latest
Settling ==
    \/ Disturbed
    \/ \A p \in Collectors : (Moves(p) => Nearer(p)) /\ (Nearer(p) \/ loop'[p] = loop[p])
CollectorsAdvance == [][Settling]_vars

\* A collector that waits for the next bar, and has not failed, has stored everything
\* recent, and the health checks say so.
Settled(p) == At(p, "live") /\ loop[p].linked /\ loop[p].inbox = <<>>
SettledIsComplete ==
    FreeOf({"fail"}) =>
        \A p \in Collectors :
            Settled(p) => /\ \A b \in Most(1, latest - Lookback)..latest : Held(b)
                          /\ StaleBars > 0 => Verdict = "ok"

\* Ranges of bars are finitely many.
LEMMA FiniteTodo ==
    ASSUME NEW todo \in SUBSET Ranges
    PROVE  IsFiniteSet(todo) /\ Cardinality(todo) \in Nat
  <1>1. IsFiniteSet(1..MaxBar + 1)
    BY Bounds, FS_Interval
  <1>2. IsFiniteSet(Ranges)
    BY <1>1, FS_Product DEF Ranges
  <1> QED
    BY <1>2, FS_Subset, FS_CardinalityType
LEMMA WorkType ==
    ASSUME NEW l \in Loops
    PROVE  Work(l) \in Nat /\ Len(l.inbox) \in Nat
  <1>1. l.todo \in SUBSET Ranges /\ l.inbox \in Seq(1..MaxBar)
    BY DEF Loops
  <1>2. Len(l.inbox) \in Nat
    BY <1>1, LenProperties
  <1> QED
    BY <1>1, <1>2, FiniteTodo DEF Work

\* What a step of its own does to a loop.
LEMMA MovesNearer ==
    ASSUME IInv, NEW p \in Collectors, Moves(p)
    PROVE  OnlyLoop(p) /\ Nearer(p)
  <1>1. TypeOK /\ loop[p] \in Loops
    BY DEF IInv, TypeOK
  <1>2. CASE Start(p)
    <2>1. OnlyLoop(p) /\ loop'[p].pc = "connect" /\ loop[p].pc = "off"
      BY <1>1, <1>2, StartEffect, Shapes
    <2> QED
      BY <2>1 DEF Phase, Nearer
  <1>3. CASE Release(p)
    <2>1. OnlyLoop(p) /\ loop'[p].pc = "off" /\ loop[p].pc = "stopping"
      BY <1>1, <1>3, EndEffect, Shapes DEF Release, At
    <2> QED
      BY <2>1 DEF Phase, Nearer
  <1>4. CASE Connect(p)
    <2>1. OnlyLoop(p) /\ loop'[p].pc = "scan" /\ loop'[p].linked /\ loop[p].pc = "connect"
      BY <1>1, <1>4, ConnectEffect DEF Off
    <2> QED
      BY <2>1 DEF Phase, Nearer
  <1>5. CASE ScanGaps(p)
    <2>1. /\ OnlyLoop(p) /\ loop'[p].pc = "gaps" /\ loop[p].pc = "scan"
          /\ loop'[p].linked = loop[p].linked
      BY <1>1, <1>5, ScanGapsEffect DEF Loops
    <2> QED
      BY <2>1 DEF Phase, Nearer
  <1>6. CASE FillGap(p)
    <2>1. PICK c \in loop[p].todo : loop'[p] = [loop[p] EXCEPT !.todo = loop[p].todo \ {c}]
      BY <1>1, <1>6, FillGapEffect
    <2>2. OnlyLoop(p) /\ loop[p].pc = "gaps"
      BY <1>1, <1>6, FillGapEffect
    <2>3. /\ loop'[p].pc = "gaps" /\ loop'[p].linked = loop[p].linked
          /\ loop'[p].todo = loop[p].todo \ {c} /\ loop[p].todo \in SUBSET Ranges
      BY <1>1, <2>1, <2>2 DEF Loops
    <2>4. Cardinality(loop[p].todo \ {c}) < Cardinality(loop[p].todo)
      BY <2>3, FiniteTodo, FS_RemoveElement
    <2> QED
      BY <2>2, <2>3, <2>4 DEF Phase, Work, Nearer
  <1>7. CASE GapsDone(p)
    <2>1. /\ OnlyLoop(p) /\ loop'[p].pc = "live" /\ loop[p].pc = "gaps"
          /\ loop'[p].linked = loop[p].linked
      BY <1>1, <1>7, GapsDoneEffect DEF Loops
    <2> QED
      BY <2>1 DEF Phase, Nearer
  <1>8. CASE Read(p)
    <2>1. /\ OnlyLoop(p) /\ loop[p].pc = "live" /\ loop[p].inbox # <<>>
          /\ loop'[p] = [loop[p] EXCEPT !.inbox = Tail(loop[p].inbox)]
      BY <1>1, <1>8, ReadEffect
    <2>2. /\ loop'[p].pc = "live" /\ loop'[p].linked = loop[p].linked
          /\ loop'[p].inbox = Tail(loop[p].inbox) /\ loop[p].inbox \in Seq(1..MaxBar)
      BY <1>1, <2>1 DEF Loops
    <2>3. Len(Tail(loop[p].inbox)) < Len(loop[p].inbox)
      BY <2>1, <2>2, HeadTailProperties, LenProperties
    <2> QED
      BY <2>1, <2>2, <2>3 DEF Phase, Work, Nearer
  <1>9. CASE Reconnect(p)
    <2>1. /\ OnlyLoop(p) /\ loop'[p].pc = "connect" /\ loop[p].pc = "live" /\ ~loop[p].linked
      BY <1>1, <1>9, ReconnectEffect, Shapes DEF Reconnect
    <2> QED
      BY <2>1 DEF Phase, Nearer
  <1> QED
    BY <1>2, <1>3, <1>4, <1>5, <1>6, <1>7, <1>8, <1>9 DEF Moves, Stream

\* A collector settles: between two disturbances every step of its loop brings it
\* nearer to rest (collector.py, _loop and _stream_once), for every window and chunk.
THEOREM CollectorsSettle == Spec => CollectorsAdvance
  <1>1. ASSUME IInv, [Next]_vars PROVE Settling
    <2>1. ASSUME NEW p \in Collectors, OnlyLoop(p), Nearer(p),
                 \A q \in Collectors \ {p} : ~Moves(q)
          PROVE  Settling
      BY <2>1 DEF OnlyLoop, Settling
    <2>2. ASSUME loop' = loop, \A q \in Collectors : ~Moves(q) PROVE Settling
      BY <2>2 DEF Settling
    <2>3. ASSUME NEW p \in Collectors, Moves(p) PROVE Settling
      <3>1. OnlyLoop(p) /\ Nearer(p)
        BY <1>1, <2>3, MovesNearer
      <3>2. ASSUME NEW q \in Collectors, Moves(q) PROVE Nearer(q)
        BY <1>1, <3>2, MovesNearer
      <3> QED
        BY <3>1, <3>2 DEF OnlyLoop, Settling
    <2>4. ASSUME loop' = loop PROVE Settling
      BY <2>3, <2>4 DEF Settling
    <2>5. /\ losses \in Nat /\ stops \in Nat /\ failures \in Nat
      BY <1>1, Bounds DEF IInv, TypeOK
    <2>6. ASSUME NEW p \in Collectors,
                 Stop(p) \/ GapFails(p) \/ ReadFails(p) \/ Lose(p) \/ Crash(p)
          PROVE  Disturbed
      BY <2>5, <2>6 DEF Stop, GapFails, ReadFails, Lose, Crash, Disturbed
    <2>7. ASSUME NEW w \in Writers, Backfill(w) \/ ChunkFails(w) PROVE loop' = loop
      BY <2>7 DEF Backfill, LookUp, FillChunk, FillDone, ChunkFails
    <2>8. Post \/ Script => loop' = loop
      BY DEF Post, Script
    <2>9. BarCloses => Disturbed
      BY <1>1, BarClosesEffect, Now DEF Disturbed, IInv
    <2>10. CASE UNCHANGED vars
      BY <2>4, <2>10 DEF vars
    <2> QED
      BY <1>1, <2>3, <2>4, <2>6, <2>7, <2>8, <2>9, <2>10 DEF Next, Moves, Settling
  <1>2. IInv /\ [Next]_vars => [Settling]_vars
    BY <1>1
  <1> QED
    BY <1>2, Invariant, PTL DEF Spec, CollectorsAdvance

\* Nothing fails in a world without failures, and no check looked past the last closed
\* bar.
Sound(l) == l.upto <= latest /\ (FreeOf({"fail"}) => ~l.failed)
AllSound == \A p \in Collectors : Sound(loop[p])
LEMMA AllSoundNext == TypeOK /\ AllSound /\ [Next]_vars => AllSound'
  <1> SUFFICES ASSUME TypeOK, AllSound, [Next]_vars PROVE AllSound'
    OBVIOUS
  <1>1. FreeOf({"fail"})' = FreeOf({"fail"})
    BY DEF Next, Start, Stream, Connect, ScanGaps, FillGap, GapsDone, Read, Reconnect, Stop,
           Release, GapFails, ReadFails, Lose, Crash, Backfill, LookUp, FillChunk, FillDone,
           ChunkFails, Post, Script, BarCloses, vars, FreeOf
  <1>2. latest \in Nat /\ \A p \in Collectors : loop[p] \in Loops /\ loop[p].upto \in Nat
    BY Now DEF TypeOK, Loops
  <1>3. ASSUME NEW q \in Collectors, OnlyLoop(q), latest' = latest,
               loop'[q].upto \in {loop[q].upto, 0, latest},
               loop'[q].failed => loop[q].failed
        PROVE  AllSound'
    <2>1. Sound(loop[q]) /\ loop'[q].upto <= latest
      BY <1>2, <1>3 DEF AllSound, Sound
    <2> QED
      BY <1>1, <1>3, <2>1 DEF AllSound, Sound, OnlyLoop
  <1>4. Off.upto = 0 /\ Connecting.upto = 0
    BY DEF Off, Connecting
  <1>5. ASSUME NEW q \in Collectors, Start(q) \/ Reconnect(q) \/ Release(q) \/ ReadFails(q) \/ Crash(q)
        PROVE  AllSound'
    <2>1. OnlyLoop(q) /\ loop'[q] \in {Off, Connecting} /\ latest' = latest
      BY <1>5, StartEffect, ReconnectEffect, EndEffect DEF Start, Reconnect, ReadFails
    <2> QED
      BY <1>3, <1>4, <2>1, Shapes
  <1>6. ASSUME NEW q \in Collectors, Connect(q) \/ Stop(q) PROVE AllSound'
    <2>1. /\ OnlyLoop(q) /\ latest' = latest
          /\ \/ loop'[q] = [Off EXCEPT !.pc = "scan", !.linked = TRUE]
             \/ loop'[q] = [Off EXCEPT !.pc = "stopping"]
      BY <1>6, ConnectEffect, StopEffect DEF Connect, Stop
    <2>2. loop'[q].failed = FALSE /\ loop'[q].upto = 0
      BY <2>1 DEF Off
    <2> QED
      BY <1>3, <2>1, <2>2
  <1>7. ASSUME NEW q \in Collectors, ScanGaps(q) PROVE AllSound'
    <2>1. latest' = latest
      BY <1>7 DEF ScanGaps
    <2>2. /\ OnlyLoop(q)
          /\ \E todo : loop'[q] = [loop[q] EXCEPT !.pc = "gaps", !.upto = latest, !.todo = todo]
      BY <1>7, ScanGapsEffect
    <2>3. loop'[q].upto = latest /\ loop'[q].failed = loop[q].failed
      BY <1>2, <2>2 DEF Loops
    <2> QED
      BY <1>3, <2>1, <2>2, <2>3
  <1>8. ASSUME NEW q \in Collectors, FillGap(q) PROVE AllSound'
    <2>1. latest' = latest
      BY <1>8 DEF FillGap
    <2>2. OnlyLoop(q) /\ \E todo : loop'[q] = [loop[q] EXCEPT !.todo = todo]
      BY <1>8, FillGapEffect
    <2>3. loop'[q].upto = loop[q].upto /\ loop'[q].failed = loop[q].failed
      BY <1>2, <2>2 DEF Loops
    <2> QED
      BY <1>3, <2>1, <2>2, <2>3
  <1>9. ASSUME NEW q \in Collectors, GapsDone(q) PROVE AllSound'
    <2>1. latest' = latest
      BY <1>9 DEF GapsDone
    <2>2. OnlyLoop(q) /\ loop'[q] = [loop[q] EXCEPT !.pc = "live"]
      BY <1>9, GapsDoneEffect
    <2>3. loop'[q].upto = loop[q].upto /\ loop'[q].failed = loop[q].failed
      BY <1>2, <2>2 DEF Loops
    <2> QED
      BY <1>3, <2>1, <2>2, <2>3
  <1>10. ASSUME NEW q \in Collectors, Read(q) PROVE AllSound'
    <2>1. /\ OnlyLoop(q) /\ latest' = latest
          /\ loop'[q].upto = loop[q].upto /\ loop'[q].failed = loop[q].failed
      BY <1>2, <1>10, ReadEffect DEF Loops, Read
    <2> QED
      BY <1>3, <2>1
  <1>11. ASSUME NEW q \in Collectors, Lose(q) PROVE AllSound'
    <2>1. /\ OnlyLoop(q) /\ latest' = latest
          /\ loop'[q].upto = loop[q].upto /\ loop'[q].failed = loop[q].failed
      BY <1>2, <1>11, LoseEffect DEF Loops, Lose
    <2> QED
      BY <1>3, <2>1
  <1>12. ASSUME NEW q \in Collectors, GapFails(q) PROVE AllSound'
    <2>1. latest' = latest /\ ~FreeOf({"fail"})
      BY <1>12 DEF GapFails, CanFail, Has, FreeOf
    <2>2. /\ OnlyLoop(q)
          /\ \/ \E todo : loop'[q] = [loop[q] EXCEPT !.todo = todo, !.failed = TRUE]
             \/ loop'[q] = [loop[q] EXCEPT !.pc = "live", !.todo = {}, !.failed = TRUE]
      BY <1>12, GapFailsEffect
    <2>3. loop'[q].upto = loop[q].upto
      BY <1>2, <2>2 DEF Loops
    <2> QED
      BY <1>1, <1>2, <2>1, <2>2, <2>3 DEF AllSound, Sound, OnlyLoop
  <1>13. ASSUME BarCloses PROVE AllSound'
    <2>1. /\ latest' = latest + 1
          /\ \A p \in Collectors :
                loop'[p].failed = loop[p].failed /\ loop'[p].upto = loop[p].upto
      BY <1>2, <1>13, BarClosesEffect DEF Loops
    <2> QED
      BY <1>1, <1>2, <2>1 DEF AllSound, Sound
  <1>14. ASSUME loop' = loop, latest' = latest PROVE AllSound'
    BY <1>1, <1>14 DEF AllSound, Sound
  <1>15. ASSUME NEW w \in Writers, Backfill(w) \/ ChunkFails(w) PROVE AllSound'
    BY <1>14, <1>15 DEF Backfill, LookUp, FillChunk, FillDone, ChunkFails
  <1>16. ASSUME Post \/ Script \/ UNCHANGED vars PROVE AllSound'
    BY <1>14, <1>16 DEF Post, Script, vars
  <1> QED
    BY <1>5, <1>6, <1>7, <1>8, <1>9, <1>10, <1>11, <1>12, <1>13, <1>15, <1>16 DEF Next, Stream

\* No bar is stored behind the last one.
LEMMA LastStoredLast ==
    ASSUME NEW b \in Stored(1, MaxBar + 1)
    PROVE  LastStored \in Nat /\ b <= LastStored
  <1>1. Stored(1, MaxBar + 1) \in SUBSET (0..MaxBar + 1) /\ MaxBar + 1 \in Nat
    BY Bounds DEF Stored, Bars
  <1>2. \E c \in Stored(1, MaxBar + 1) : \A d \in Stored(1, MaxBar + 1) : d <= c
    BY <1>1, LargestOf
  <1>3. /\ LastStored \in Stored(1, MaxBar + 1)
        /\ \A d \in Stored(1, MaxBar + 1) : d <= LastStored
    BY <1>2 DEF LastStored
  <1> QED
    BY <1>1, <1>3

\* A collector at rest has everything recent, and is called healthy (collector.py,
\* health.py), after any number of lost connections, stops and crashes.
THEOREM SettledComplete == Spec => []SettledIsComplete
  <1>1. Init => AllSound
    <2>1. Off.upto = 0 /\ ~Off.failed
      BY DEF Off
    <2> QED
      BY <2>1, Bounds DEF Init, AllSound, Sound
  <1>2. IInv /\ AllSound /\ [Next]_vars => AllSound'
    BY AllSoundNext DEF IInv
  <1>3. IInv /\ AllSound => SettledIsComplete
    <2> SUFFICES ASSUME IInv, AllSound, FreeOf({"fail"}), NEW p \in Collectors, Settled(p)
                 PROVE  /\ \A b \in Most(1, latest - Lookback)..latest : Held(b)
                        /\ StaleBars > 0 => Verdict = "ok"
      BY DEF SettledIsComplete
    <2>1. /\ ~loop[p].failed /\ loop[p].linked /\ loop[p].pc = "live" /\ Len(loop[p].inbox) = 0
          /\ loop[p].todo = {}
      BY DEF AllSound, Sound, Settled, At, IInv, Covered, Covers
    <2>2. \A b \in Most(1, loop[p].upto - Lookback)..latest : Held(b)
      BY <2>1 DEF IInv, Covered, Covers, Waits, Comes
    <2>3. loop[p].upto <= latest /\ loop[p].upto \in Nat /\ latest \in Nat \ {0}
      <3>1. loop[p] \in Loops
        BY DEF IInv, TypeOK
      <3> QED
        BY <3>1, Now DEF IInv, AllSound, Sound, Loops
    <2>4. Most(1, loop[p].upto - Lookback) <= Most(1, latest - Lookback)
          /\ Most(1, latest - Lookback) <= latest
          /\ Most(1, latest - Lookback) \in Nat /\ Most(1, loop[p].upto - Lookback) \in Nat
      BY <2>3, Bounds DEF Most
    <2>5. \A b \in Most(1, latest - Lookback)..latest : Held(b)
      BY <2>2, <2>3, <2>4
    <2>6. ASSUME StaleBars > 0 PROVE Verdict = "ok"
      <3>1. latest \in Stored(1, MaxBar + 1)
        <4>1. Held(latest) /\ latest \in Bars /\ 1 <= latest /\ latest <= MaxBar + 1
          BY <2>3, <2>4, <2>5, Now, Bounds DEF IInv, Bars
        <4> QED
          BY <4>1 DEF Stored, Held
      <3>2. LastStored \in Nat /\ LastStored >= latest
        BY <2>3, <3>1, LastStoredLast, Bounds
      <3> QED
        BY <2>3, <2>6, <3>2, BoundsAssumption DEF Verdict
    <2> QED
      BY <2>5, <2>6
  <1> QED
    BY <1>1, <1>2, <1>3, Invariant, PTL DEF Spec
=============================================================================

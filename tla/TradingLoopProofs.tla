-------------------------- MODULE TradingLoopProofs --------------------------
(***************************************************************************)
(* Proofs about TradingLoop, for every account, price range, limit, number *)
(* of ticks and set of worlds.                                             *)
(*                                                                         *)
(* First what each kind of step does to a tick and to the account; then    *)
(* one lemma per part of the inductive invariant, each by cases on the     *)
(* steps:                                                                  *)
(*                                                                         *)
(*   TypeOK, Flows   where a tick may stand, for its job and its stage     *)
(*   Budgeted        past its budget check, a tick has an order left       *)
(*   Alone, Views    one tick at a time; what it loaded is what there is   *)
(*   Refused         what bars a tick that sold from buying still does     *)
(*   Lowests, Loads, Justified   the snapshot a tick takes is the account, *)
(*                   and a breach at its price is one at the lowest price  *)
(*   Cleared         what is left of the position of an achieved goal      *)
(*   Dropped         ... and of one aborted for its drawdown               *)
(*                                                                         *)
(* At the end, that ticks and goals whose time is up come nearer to their  *)
(* end with every step (TicksEnd, DeadlineNears).                          *)
(***************************************************************************)
EXTENDS TradingLoop, TLAPS

\* The bounds.
LEMMA Bounds ==
    /\ Prices \subseteq Nat \ {0} /\ StartPrice \in Prices
    /\ StartCash \in Nat \ {0} /\ Target \in Nat \ {0} /\ MaxOrders \in Nat \ {0}
    /\ MaxDrawdown \in Nat /\ StopLoss \in Nat
    /\ MaxMoves \in Nat /\ MaxUserTicks \in Nat /\ MaxInterrupts \in Nat
    /\ MaxLate \in Nat
  BY BoundsAssumption
\* Prices are numbers.
LEMMA Numbers == /\ \A p \in Prices : p \in Nat /\ p > 0
                 /\ \A p \in Prices \cup {0} : p \in Nat
  BY Bounds

-----------------------------------------------------------------------------
\* What becomes of a tick, field by field.
OnlyTick(d) == \A e \in Drivers \ {d} : tick'[e] = tick[e]
Labels == {"idle", "fetch", "save", "holdings", "drawdown", "judge", "end", "patrol",
           "clear", "sell", "budget", "decide", "risk", "execute"}
Jobs == {"none", "goal", "bare", "manual", "snapshot"}
Stages == {"none", "judge", "patrol", "clear", "end", "risk"}
Falls == {"unknown", "ok", "breached"}
Endings == {"none", "expired", "achieved", "aborted"}
Wants == {"none", "buy", "sell"}
Whys == {"none", "stop", "drawdown"}
Lows == Prices \cup {0}
LEMMA Fields ==
    Ticks = [job : Jobs, pc : Labels, stage : Stages, got : Snaps, view : Snaps, fall : Falls,
             ending : Endings, want : Wants, closed : Whys, low : Lows, top : Lows]
  BY DEF Ticks, Labels, Jobs, Stages, Falls, Endings, Wants, Whys, Lows

\* A tick at rest.
LEMMA RestType ==
    /\ Rest \in Ticks
    /\ Rest.job = "none" /\ Rest.pc = "idle" /\ Rest.stage = "none" /\ Rest.ending = "none"
    /\ Rest.want = "none" /\ Rest.closed = "none" /\ Rest.low = 0 /\ Rest.top = 0
  BY DEF Rest, Ticks, Snaps, NoSnap
LEMMA WhysType == "none" \in Whys /\ \A fall : Reason(fall) \in Whys
  BY DEF Whys, Reason
\* A step of one tick leaves the other alone.
LEMMA TickUpdate ==
    ASSUME TypeOK, NEW d \in Drivers, NEW t \in Ticks, tick' = [tick EXCEPT ![d] = t]
    PROVE  tick' \in [Drivers -> Ticks] /\ tick'[d] = t /\ OnlyTick(d)
  BY DEF TypeOK, OnlyTick
\* A tick that ends,
LEMMA FinishEffect ==
    ASSUME TypeOK, NEW d \in Drivers, Finish(d)
    PROVE  tick' \in [Drivers -> Ticks] /\ tick'[d] = Rest /\ OnlyTick(d)
  BY RestType, TickUpdate DEF Finish
\* begins,
LEMMA BeginEffect ==
    ASSUME TypeOK, NEW d \in Drivers, NEW job \in Jobs, NEW label \in Labels, NEW stage \in Stages,
           Begin(d, job, label, stage)
    PROVE  /\ tick' \in [Drivers -> Ticks] /\ OnlyTick(d)
           /\ tick'[d].job = job /\ tick'[d].pc = label /\ tick'[d].stage = stage
           /\ tick'[d].ending = "none" /\ tick'[d].closed = "none" /\ tick'[d].low = price /\ tick'[d].top = high
  <1> DEFINE t == [Rest EXCEPT !.job = job, !.pc = label, !.stage = stage, !.low = price, !.top = high]
  <1>1. /\ t \in Ticks
        /\ t.job = job /\ t.pc = label /\ t.stage = stage
        /\ t.ending = "none" /\ t.closed = "none" /\ t.low = price /\ t.top = high
    <2>1. price \in Lows /\ high \in Lows /\ Rest.ending = "none" /\ Rest.closed = "none"
      BY RestType DEF TypeOK, Lows
    <2> QED
      BY <2>1, RestType, Fields
  <1>2. tick' = [tick EXCEPT ![d] = t]
    BY DEF Begin
  <1> HIDE DEF t
  <1> QED
    BY <1>1, <1>2, TickUpdate
\* goes on to another place,
LEMMA GotoEffect ==
    ASSUME TypeOK, NEW d \in Drivers, NEW label \in Labels, Goto(d, label)
    PROVE  /\ tick' \in [Drivers -> Ticks] /\ OnlyTick(d)
           /\ tick'[d].pc = label
           /\ tick'[d].job = tick[d].job /\ tick'[d].stage = tick[d].stage
           /\ tick'[d].got = tick[d].got /\ tick'[d].view = tick[d].view
           /\ tick'[d].fall = tick[d].fall /\ tick'[d].ending = tick[d].ending
           /\ tick'[d].want = tick[d].want /\ tick'[d].closed = tick[d].closed
           /\ tick'[d].low = tick[d].low /\ tick'[d].top = tick[d].top
  BY DEF TypeOK, Goto, Ticks, OnlyTick, Labels
\* reads the account,
LEMMA FetchEffect ==
    ASSUME TypeOK, NEW d \in Drivers, Fetch(d)
    PROVE  /\ tick' \in [Drivers -> Ticks] /\ OnlyTick(d)
           /\ tick[d].pc = "fetch" /\ tick'[d].pc = "save"
           /\ tick'[d].got.cash = cash /\ tick'[d].got.held = held
           /\ tick'[d].got.strays = strays
           /\ \/ tick'[d].got.price = price
              \/ tick'[d].got.price = 0 /\ Has("price")
           /\ tick'[d].job = tick[d].job /\ tick'[d].stage = tick[d].stage
           /\ tick'[d].ending = tick[d].ending /\ tick'[d].closed = tick[d].closed
           /\ tick'[d].low = tick[d].low /\ tick'[d].top = tick[d].top
  <1>1. PICK p \in {price} \cup IF Has("price") /\ held > 0 THEN {0} ELSE {} :
            tick' = [tick EXCEPT ![d].pc = "save",
                                 ![d].got = [cash |-> cash, held |-> held, price |-> p, strays |-> strays]]
    BY DEF Fetch
  <1> DEFINE got == [cash |-> cash, held |-> held, price |-> p, strays |-> strays]
             t == [tick[d] EXCEPT !.pc = "save", !.got = got]
  <1>2. got \in Snaps /\ got.cash = cash /\ got.held = held /\ got.price = p /\ got.strays = strays
    BY DEF TypeOK, Snaps
  <1>3. tick' = [tick EXCEPT ![d] = t]
    BY <1>1 DEF TypeOK
  <1> HIDE DEF got
  <1>4. /\ t \in Ticks /\ t.pc = "save" /\ t.got = got
        /\ t.job = tick[d].job /\ t.stage = tick[d].stage /\ t.ending = tick[d].ending
        /\ t.closed = tick[d].closed /\ t.low = tick[d].low /\ t.top = tick[d].top
    <2>1. tick[d] \in Ticks /\ "save" \in Labels
      BY DEF TypeOK, Labels
    <2> QED
      BY <1>2, <2>1, Fields
  <1> HIDE DEF t
  <1>5. tick' \in [Drivers -> Ticks] /\ tick'[d] = t /\ OnlyTick(d)
    BY <1>3, <1>4, TickUpdate
  <1>6. p = price \/ (p = 0 /\ Has("price"))
    BY <1>1
  <1> QED
    BY <1>2, <1>4, <1>5, <1>6 DEF Fetch, At
\* leaves the capture,
LEMMA AfterCaptureEffect ==
    ASSUME TypeOK, NEW d \in Drivers, AfterCapture(d)
    PROVE  /\ tick' \in [Drivers -> Ticks] /\ OnlyTick(d)
           /\ \/ tick'[d] = Rest
              \/ /\ tick[d].job # "snapshot"
                 /\ tick'[d].pc = "holdings"
                 /\ tick'[d].stage = IF tick[d].job = "goal" THEN "judge" ELSE "patrol"
                 /\ tick'[d].job = tick[d].job /\ tick'[d].ending = tick[d].ending
                 /\ tick'[d].closed = tick[d].closed /\ tick'[d].low = tick[d].low /\ tick'[d].top = tick[d].top
  <1>1. CASE tick[d].job = "snapshot"
    BY <1>1, FinishEffect DEF AfterCapture
  <1>2. CASE tick[d].job # "snapshot"
    <2> DEFINE stage == IF tick[d].job = "goal" THEN "judge" ELSE "patrol"
               t == [tick[d] EXCEPT !.got = NoSnap, !.pc = "holdings", !.stage = stage]
    <2>1. stage \in Stages /\ NoSnap \in Snaps
      BY DEF Stages, NoSnap, Snaps
    <2>2. tick' = [tick EXCEPT ![d] = t]
      BY <1>2 DEF AfterCapture, TypeOK
    <2> HIDE DEF stage
    <2>3. /\ t \in Ticks /\ t.pc = "holdings" /\ t.stage = stage
          /\ t.job = tick[d].job /\ t.ending = tick[d].ending
          /\ t.closed = tick[d].closed /\ t.low = tick[d].low /\ t.top = tick[d].top
      <3>1. tick[d] \in Ticks /\ "holdings" \in Labels
        BY DEF TypeOK, Labels
      <3> QED
        BY <2>1, <3>1, Fields
    <2> HIDE DEF t
    <2>4. tick' \in [Drivers -> Ticks] /\ tick'[d] = t /\ OnlyTick(d)
      BY <2>2, <2>3, TickUpdate
    <2> QED
      BY <1>2, <2>3, <2>4 DEF stage
  <1> QED
    BY <1>1, <1>2
\* loads its inputs,
LEMMA ReadHoldingsEffect ==
    ASSUME TypeOK, NEW d \in Drivers, ReadHoldings(d)
    PROVE  /\ tick' \in [Drivers -> Ticks] /\ OnlyTick(d)
           /\ tick[d].pc = "holdings" /\ tick'[d].pc = "drawdown"
           /\ tick'[d].view = snap
           /\ tick'[d].job = tick[d].job /\ tick'[d].stage = tick[d].stage
           /\ tick'[d].ending = tick[d].ending /\ tick'[d].want = tick[d].want
           /\ tick'[d].closed = tick[d].closed /\ tick'[d].low = tick[d].low /\ tick'[d].top = tick[d].top
  BY DEF TypeOK, ReadHoldings, At, Ticks, OnlyTick
LEMMA ReadDrawdownEffect ==
    ASSUME TypeOK, NEW d \in Drivers, ReadDrawdown(d)
    PROVE  /\ OnlyTick(d) /\ (tick[d].stage \in Labels => tick' \in [Drivers -> Ticks])
           /\ tick[d].pc = "drawdown" /\ tick'[d].pc = tick[d].stage
           /\ tick'[d].fall = Drawdown /\ tick'[d].view = tick[d].view
           /\ tick'[d].job = tick[d].job /\ tick'[d].stage = tick[d].stage
           /\ tick'[d].ending = tick[d].ending /\ tick'[d].want = tick[d].want
           /\ tick'[d].closed = tick[d].closed /\ tick'[d].low = tick[d].low /\ tick'[d].top = tick[d].top
  <1>1. Drawdown \in {"unknown", "ok", "breached"}
    BY DEF Drawdown
  <1> QED
    BY <1>1 DEF TypeOK, ReadDrawdown, At, Ticks, OnlyTick, Labels
\* is judged,
LEMMA JudgeEffect ==
    ASSUME TypeOK, NEW d \in Drivers, Judge(d)
    PROVE  /\ tick' \in [Drivers -> Ticks] /\ OnlyTick(d)
           /\ tick[d].pc = "judge"
           /\ \/ /\ due
                 /\ tick'[d].ending = "expired" /\ tick'[d].stage = "end" /\ tick'[d].pc = "end"
              \/ /\ ~due /\ Reached(tick[d].view)
                 /\ tick'[d].ending = "achieved" /\ tick'[d].stage = "clear"
                 /\ tick'[d].pc = "holdings"
              \/ /\ ~due /\ ~Reached(tick[d].view) /\ tick[d].fall = "breached"
                 /\ tick'[d].ending = "aborted" /\ tick'[d].stage = "patrol"
                 /\ tick'[d].pc = "holdings"
              \/ /\ ~due /\ ~Reached(tick[d].view) /\ tick[d].fall # "breached"
                 /\ tick'[d].ending = "none" /\ tick'[d].stage = "patrol"
                 /\ tick'[d].pc = "holdings"
           /\ tick'[d].view = tick[d].view /\ tick'[d].fall = tick[d].fall
           /\ tick'[d].job = tick[d].job /\ tick'[d].want = tick[d].want
           /\ tick'[d].closed = tick[d].closed /\ tick'[d].low = tick[d].low /\ tick'[d].top = tick[d].top
  <1> DEFINE verdict == Verdict(tick[d].view, tick[d].fall)
             stage == NextStage(verdict)
             label == IF stage = "end" THEN "end" ELSE "holdings"
             t == [tick[d] EXCEPT !.ending = verdict, !.stage = stage, !.pc = label]
  <1>1. \/ due /\ verdict = "expired" /\ stage = "end" /\ label = "end"
        \/ /\ ~due /\ Reached(tick[d].view)
           /\ verdict = "achieved" /\ stage = "clear" /\ label = "holdings"
        \/ /\ ~due /\ ~Reached(tick[d].view) /\ tick[d].fall = "breached"
           /\ verdict = "aborted" /\ stage = "patrol" /\ label = "holdings"
        \/ /\ ~due /\ ~Reached(tick[d].view) /\ tick[d].fall # "breached"
           /\ verdict = "none" /\ stage = "patrol" /\ label = "holdings"
    BY DEF Verdict, NextStage
  <1>2. tick' = [tick EXCEPT ![d] = t]
    BY DEF Judge, TypeOK
  <1> HIDE DEF verdict, stage, label
  <1>3. tick[d] \in Ticks /\ verdict \in Endings /\ stage \in Stages /\ label \in Labels
    BY <1>1 DEF TypeOK, Endings, Stages, Labels
  <1>4. /\ t \in Ticks /\ t.pc = label /\ t.stage = stage /\ t.ending = verdict
        /\ t.view = tick[d].view /\ t.fall = tick[d].fall
        /\ t.job = tick[d].job /\ t.want = tick[d].want
        /\ t.closed = tick[d].closed /\ t.low = tick[d].low /\ t.top = tick[d].top
    BY <1>3, Fields
  <1> HIDE DEF t
  <1>5. tick' \in [Drivers -> Ticks] /\ tick'[d] = t /\ OnlyTick(d)
    BY <1>2, <1>4, TickUpdate
  <1> QED
    BY <1>1, <1>4, <1>5 DEF Judge, At
\* leaves the patrol,
LEMMA AfterPatrolEffect ==
    ASSUME TypeOK, NEW d \in Drivers, NEW sold \in Whys, AfterPatrol(d, sold)
    PROVE  /\ tick' \in [Drivers -> Ticks] /\ OnlyTick(d)
           /\ \/ tick[d].job = "bare" /\ tick'[d] = Rest
              \/ /\ tick[d].job # "bare"
                 /\ tick'[d].closed = sold
                 /\ \/ tick[d].ending = "aborted" /\ tick'[d].pc = "end"
                    \/ /\ tick[d].ending # "aborted"
                       /\ tick'[d].pc = IF tick[d].job = "goal" THEN "budget" ELSE "decide"
                 /\ tick'[d].view = tick[d].view /\ tick'[d].fall = tick[d].fall
                 /\ tick'[d].job = tick[d].job /\ tick'[d].stage = tick[d].stage
                 /\ tick'[d].ending = tick[d].ending /\ tick'[d].low = tick[d].low /\ tick'[d].top = tick[d].top
  <1>1. CASE tick[d].job = "bare"
    BY <1>1, FinishEffect DEF AfterPatrol
  <1>2. CASE tick[d].job # "bare"
    <2> DEFINE label == IF tick[d].ending = "aborted" THEN "end"
                        ELSE IF tick[d].job = "goal" THEN "budget" ELSE "decide"
               t == [tick[d] EXCEPT !.closed = sold, !.pc = label]
    <2>1. tick[d] \in Ticks /\ sold \in Whys /\ label \in Labels
      BY DEF TypeOK, Labels
    <2>2. tick' = [tick EXCEPT ![d] = t]
      BY <1>2 DEF AfterPatrol, TypeOK
    <2> HIDE DEF label
    <2>3. /\ t \in Ticks /\ t.pc = label /\ t.closed = sold
          /\ t.view = tick[d].view /\ t.fall = tick[d].fall
          /\ t.job = tick[d].job /\ t.stage = tick[d].stage
          /\ t.ending = tick[d].ending /\ t.low = tick[d].low /\ t.top = tick[d].top
      BY <2>1, Fields
    <2> HIDE DEF t
    <2>4. tick' \in [Drivers -> Ticks] /\ tick'[d] = t /\ OnlyTick(d)
      BY <2>2, <2>3, TickUpdate
    <2> QED
      BY <1>2, <2>3, <2>4 DEF label
  <1> QED
    BY <1>1, <1>2
\* and decides.
LEMMA DecideEffect ==
    ASSUME TypeOK, NEW d \in Drivers, Decide(d)
    PROVE  /\ tick' \in [Drivers -> Ticks] /\ OnlyTick(d)
           /\ tick[d].pc = "decide"
           /\ \/ tick'[d] = Rest
              \/ /\ tick'[d].pc = "holdings" /\ tick'[d].stage = "risk"
                 /\ tick'[d].job = tick[d].job /\ tick'[d].ending = tick[d].ending
                 /\ tick'[d].closed = tick[d].closed /\ tick'[d].low = tick[d].low /\ tick'[d].top = tick[d].top
  <1>1. CASE Finish(d)
    BY <1>1, FinishEffect DEF Decide, At
  <1>2. CASE \E side \in {"buy", "sell"} :
                tick' = [tick EXCEPT ![d].want = side, ![d].pc = "holdings", ![d].stage = "risk"]
    BY <1>2 DEF Decide, At, TypeOK, Ticks, OnlyTick
  <1> QED
    BY <1>1, <1>2 DEF Decide
\* A tick of the runner and one of a user.
LEMMA RunnerTickEffect ==
    ASSUME TypeOK, RunnerTick
    PROVE  /\ "runner" \in Drivers /\ Free("runner")
           /\ tick' \in [Drivers -> Ticks] /\ OnlyTick("runner")
           /\ tick'["runner"].ending = "none" /\ tick'["runner"].closed = "none"
           /\ tick'["runner"].low = price /\ tick'["runner"].top = high
           /\ \/ /\ goal = "active" /\ tick'["runner"].job = "goal"
                 /\ tick'["runner"].pc = "fetch" /\ tick'["runner"].stage = "none"
              \/ /\ goal # "active" /\ tick'["runner"].job = "bare"
                 /\ tick'["runner"].pc = "holdings" /\ tick'["runner"].stage = "patrol"
  <1>1. /\ "runner" \in Drivers
        /\ "goal" \in Jobs /\ "fetch" \in Labels /\ "none" \in Stages
        /\ "bare" \in Jobs /\ "holdings" \in Labels /\ "patrol" \in Stages
    BY DEF Drivers, Jobs, Labels, Stages
  <1>2. CASE goal = "active"
    <2>1. Begin("runner", "goal", "fetch", "none") /\ Free("runner")
      BY <1>2 DEF RunnerTick
    <2>2. /\ tick' \in [Drivers -> Ticks] /\ OnlyTick("runner")
          /\ tick'["runner"].job = "goal" /\ tick'["runner"].pc = "fetch"
          /\ tick'["runner"].stage = "none" /\ tick'["runner"].ending = "none"
          /\ tick'["runner"].closed = "none" /\ tick'["runner"].low = price /\ tick'["runner"].top = high
      BY <1>1, <2>1, BeginEffect, ZenonT(60)
    <2> QED
      BY <1>1, <1>2, <2>1, <2>2
  <1>3. CASE goal # "active"
    <2>1. Begin("runner", "bare", "holdings", "patrol") /\ Free("runner")
      BY <1>3 DEF RunnerTick
    <2> QED
      BY <1>1, <1>3, <2>1, BeginEffect
  <1> QED
    BY <1>2, <1>3
LEMMA UserTickEffect ==
    ASSUME TypeOK, UserTick
    PROVE  /\ "user" \in Drivers /\ Free("user") /\ Has("users")
           /\ tick' \in [Drivers -> Ticks] /\ OnlyTick("user")
           /\ tick'["user"].ending = "none" /\ tick'["user"].closed = "none"
           /\ tick'["user"].low = price /\ tick'["user"].top = high
           /\ tick'["user"].job \in {"manual", "snapshot"}
           /\ tick'["user"].pc = "fetch" /\ tick'["user"].stage = "none"
  <1>1. /\ "user" \in Drivers
        /\ "manual" \in Jobs /\ "snapshot" \in Jobs /\ "fetch" \in Labels /\ "none" \in Stages
    BY DEF Drivers, Jobs, Labels, Stages
  <1>2. PICK job \in {"manual", "snapshot"} : Begin("user", job, "fetch", "none")
    BY DEF UserTick
  <1>3. job \in Jobs
    BY <1>1
  <1>4. Free("user") /\ Has("users")
    BY DEF UserTick
  <1>5. /\ tick' \in [Drivers -> Ticks] /\ OnlyTick("user")
        /\ tick'["user"].job = job /\ tick'["user"].pc = "fetch"
        /\ tick'["user"].stage = "none" /\ tick'["user"].ending = "none"
        /\ tick'["user"].closed = "none" /\ tick'["user"].low = price /\ tick'["user"].top = high
    BY <1>1, <1>2, <1>3, BeginEffect, ZenonT(60)
  <1> QED
    BY <1>1, <1>4, <1>5

-----------------------------------------------------------------------------
\* What becomes of the account.  Multiplied prices keep their signs.
LEMMA Products ==
    /\ \A x \in Nat, y \in Nat : x * y \in Nat
    /\ \A x \in Int, y \in Int : x * y \in Int
    /\ \A x \in Nat, y \in Nat, z \in Nat : y <= z => x * y <= x * z
  BY SMT
LEMMA CountType ==
    ASSUME TypeOK, NEW status
    PROVE  Count(status) \in 0..MaxOrders /\ counted <= Count(status)
  BY Bounds DEF TypeOK, Count
LEMMA OutcomesType ==
    ASSUME NEW n \in Nat, NEW possible \in BOOLEAN, NEW o \in Outcomes(n, possible)
    PROVE  /\ o.lots \in Nat /\ o.lots <= n /\ (o.lots # 0 => possible) /\ o.rest \in Nat
           /\ o.status = "filled" => possible /\ o.lots = n
           /\ ~Has("orders") => o.status = (IF possible THEN "filled" ELSE "failed")
           /\ o.status = "failed" => o.lots = 0
  <1>1. CASE ~possible
    BY <1>1 DEF Outcomes
  <1>2. CASE possible
    BY <1>2 DEF Outcomes
  <1> QED
    BY <1>1, <1>2
\* What stays afloat is bounded.
LEMMA AfloatType ==
    ASSUME TypeOK, NEW side, NEW lots, NEW rest \in Nat, Trade(side, lots, rest)
    PROVE  afloat' \in [Sides -> 0..MaxLate]
  <1>1. side \in Sides => Lesser(afloat[side] + rest, MaxLate) \in 0..MaxLate
    BY Bounds DEF Lesser, TypeOK
  <1>2. afloat' = afloat \/ afloat' = [afloat EXCEPT ![side] = Lesser(@ + rest, MaxLate)]
    BY DEF Trade
  <1> HIDE DEF Trade
  <1> QED
    BY <1>1, <1>2 DEF TypeOK
LEMMA Sale ==
    ASSUME TypeOK, NEW n \in Nat, n <= held, NEW rest \in Nat, NEW side, side # "buy",
           Trade(side, n, rest)
    PROVE  /\ held' = held - n /\ held' \in Nat /\ cash' \in Nat
           /\ afloat' \in [Sides -> 0..MaxLate]
  <1>1. n * price \in Nat /\ (-1) * n * price = -(n * price)
    BY Bounds DEF TypeOK
  <1>2. held' = held + (-1) * n /\ cash' = cash - (-1) * n * price
    BY DEF Trade, Sign
  <1>3. held \in Nat /\ cash \in Nat /\ (-1) * n = -n
    BY DEF TypeOK
  <1>4. held' = held - n
    BY <1>2, <1>3
  <1>5. cash' = cash + n * price
    <2> DEFINE m == n * price
               k == (-1) * n * price
    <2>1. m \in Nat /\ k = -m /\ cash' = cash - k
      BY <1>1, <1>2
    <2> HIDE DEF m, k
    <2>2. cash' = cash + m
      BY <1>3, <2>1
    <2> QED
      BY <2>2 DEF m
  <1> QED
    BY <1>1, <1>2, <1>3, <1>4, <1>5, AfloatType
LEMMA Purchase ==
    ASSUME TypeOK, NEW n \in {0, 1}, n = 1 => price <= cash, NEW rest \in Nat,
           Trade("buy", n, rest)
    PROVE  /\ held' = held + n /\ held' \in Nat /\ cash' \in Nat
           /\ afloat' \in [Sides -> 0..MaxLate]
  <1>1. 1 * n * price = (IF n = 1 THEN price ELSE 0) /\ 1 * n = n
    BY Bounds DEF TypeOK
  <1>2. held' = held + 1 * n /\ cash' = cash - 1 * n * price
    BY DEF Trade, Sign
  <1>3. "buy" \in Sides
    BY DEF Sides
  <1> QED
    BY <1>1, <1>2, <1>3, Bounds, AfloatType DEF TypeOK

AccountType == /\ cash' \in Nat /\ held' \in Nat
               /\ afloat' \in [Sides -> 0..MaxLate] /\ strays' \in Nat
               /\ counted' \in 0..MaxOrders /\ decided' \in Nat
\* The sale of the patrol or the clearance,
LEMMA SellEffect ==
    ASSUME TypeOK, NEW d \in Drivers, Sell(d)
    PROVE  /\ tick[d].pc = "sell" /\ AccountType
           /\ held' <= held /\ counted <= counted' /\ decided' = decided /\ strays' = strays
           /\ UNCHANGED Elsewhere
           /\ \/ tick[d].ending # "achieved" /\ AfterPatrol(d, Reason(tick[d].fall))
              \/ /\ tick[d].ending = "achieved" /\ Goto(d, "end")
                 /\ tick[d].view.held <= held /\ held' = held - tick[d].view.held
              \/ tick[d].ending = "achieved" /\ Finish(d)
           /\ ~Has("orders") => \/ tick[d].view.held <= held /\ held' = held - tick[d].view.held
                                \/ tick[d].view.held > held /\ held' = held
  <1> DEFINE n == tick[d].view.held
  <1>1. n \in Nat
    BY Fields DEF TypeOK, Snaps
  <1>2. PICK o \in Outcomes(n, n <= held) :
            /\ Trade("sell", o.lots, o.rest) /\ counted' = Count(o.status)
            /\ IF tick[d].ending # "achieved" THEN AfterPatrol(d, Reason(tick[d].fall))
               ELSE IF FullyClosed(o.status) THEN Goto(d, "end")
               ELSE Finish(d)
    BY DEF Sell
  <1> HIDE DEF n
  <1>3. (n <= held) \in BOOLEAN
    OBVIOUS
  <1>4. /\ o.lots \in Nat /\ o.lots <= n /\ (o.lots # 0 => n <= held) /\ o.rest \in Nat
        /\ o.status = "filled" => n <= held /\ o.lots = n
        /\ ~Has("orders") => o.status = (IF n <= held THEN "filled" ELSE "failed")
        /\ o.status = "failed" => o.lots = 0
    BY <1>1, <1>2, <1>3, OutcomesType
  <1>5. o.lots <= held
    BY <1>1, <1>4 DEF TypeOK
  <1>6. /\ held' = held - o.lots /\ held' \in Nat /\ cash' \in Nat
        /\ afloat' \in [Sides -> 0..MaxLate]
    BY <1>2, <1>4, <1>5, Sale
  <1>c. counted' \in 0..MaxOrders /\ counted <= counted'
    BY <1>2, CountType
  <1>7. tick[d].pc = "sell" /\ decided' = decided /\ strays' = strays /\ UNCHANGED Elsewhere
    BY DEF Sell, At
  <1>8. \/ tick[d].ending # "achieved" /\ AfterPatrol(d, Reason(tick[d].fall))
        \/ /\ tick[d].ending = "achieved" /\ Goto(d, "end")
           /\ n <= held /\ held' = held - n
        \/ tick[d].ending = "achieved" /\ Finish(d)
    BY <1>2, <1>4, <1>6 DEF FullyClosed
  <1>9. ~Has("orders") => (n <= held /\ held' = held - n) \/ (n > held /\ held' = held)
    BY <1>1, <1>4, <1>6 DEF TypeOK
  <1>10. AccountType /\ held' <= held
    BY <1>4, <1>6, <1>7, <1>c DEF AccountType, TypeOK
  <1> QED
    BY <1>6, <1>7, <1>8, <1>9, <1>10, <1>c DEF n
\* the order of the decision,
Ordered(d) ==
    /\ AccountType /\ strays' = strays
    /\ \/ held' = held
       \/ tick[d].want = "buy" /\ held' = held + 1
       \/ tick[d].want # "buy" /\ held > 0 /\ held' = held - 1
LEMMA TradeOrdered ==
    ASSUME TypeOK, NEW d \in Drivers, NEW lots \in {0, 1}, NEW rest \in Nat,
           lots = 1 => Possible(tick[d].want),
           Trade(tick[d].want, lots, rest), strays' = strays,
           counted' \in 0..MaxOrders, decided' \in Nat
    PROVE  Ordered(d)
  <1>1. strays' \in Nat
    BY DEF TypeOK
  <1>2. CASE tick[d].want = "buy"
    <2>1. Trade("buy", lots, rest) /\ (lots = 1 => price <= cash)
      BY <1>2 DEF Possible
    <2>2. /\ held' = held + lots /\ held' \in Nat /\ cash' \in Nat
          /\ afloat' \in [Sides -> 0..MaxLate]
      BY <2>1, Purchase
    <2>3. held' = held \/ held' = held + 1
      BY <2>2 DEF TypeOK
    <2> QED
      BY <1>1, <1>2, <2>2, <2>3 DEF AccountType, Ordered
  <1>3. CASE tick[d].want # "buy"
    <2>1. lots = 1 => held > 0
      BY <1>3 DEF Possible
    <2>2. lots \in Nat /\ lots <= held
      BY <2>1 DEF TypeOK
    <2>3. /\ held' = held - lots /\ held' \in Nat /\ cash' \in Nat
          /\ afloat' \in [Sides -> 0..MaxLate]
      BY <1>1, <1>3, <2>2, Sale
    <2>4. held' = held \/ (held > 0 /\ held' = held - 1)
      BY <2>1, <2>3 DEF TypeOK
    <2> QED
      BY <1>1, <1>3, <2>3, <2>4 DEF AccountType, Ordered
  <1> QED
    BY <1>2, <1>3
LEMMA ExecuteEffect ==
    ASSUME TypeOK, NEW d \in Drivers, Execute(d)
    PROVE  /\ tick[d].pc = "execute" /\ Finish(d) /\ UNCHANGED Elsewhere
           /\ Ordered(d) /\ counted <= counted'
           /\ \/ decided' = decided
              \/ /\ tick[d].job = "goal" /\ decided' = decided + 1
                 /\ counted' = IF counted = MaxOrders THEN counted ELSE counted + 1
  <1> DEFINE want == tick[d].want
  <1>1. PICK o \in Outcomes(1, Possible(want)) :
            /\ Trade(want, o.lots, o.rest) /\ counted' = Count(o.status)
            /\ decided' = IF tick[d].job = "goal" /\ o.status # "failed"
                          THEN decided + 1 ELSE decided
    BY DEF Execute
  <1>w. strays' = strays
    BY DEF Execute
  <1> HIDE DEF want
  <1>2. Possible(want) \in BOOLEAN
    <2>1. CASE want = "buy"
      BY <2>1 DEF Possible
    <2>2. CASE want # "buy"
      BY <2>2 DEF Possible
    <2> QED
      BY <2>1, <2>2
  <1>3. o.lots \in {0, 1} /\ (o.lots = 1 => Possible(want)) /\ o.rest \in Nat
    BY <1>1, <1>2, OutcomesType
  <1>4. decided' \in Nat
    BY <1>1 DEF TypeOK
  <1>5. counted' \in 0..MaxOrders /\ counted <= counted'
    BY <1>1, CountType
  <1>6. Ordered(d)
    BY <1>1, <1>3, <1>4, <1>5, <1>w, TradeOrdered DEF want
  <1>8. \/ decided' = decided
        \/ /\ tick[d].job = "goal" /\ decided' = decided + 1
           /\ counted' = IF counted = MaxOrders THEN counted ELSE counted + 1
    BY <1>1 DEF Count
  <1> QED
    BY <1>5, <1>6, <1>8 DEF Execute, At
\* and what a tick leaves behind that dies.
LEMMA InterruptEffect ==
    ASSUME TypeOK, NEW d \in Drivers, Interrupt(d)
    PROVE  /\ tick[d].pc # "idle" /\ Finish(d) /\ Has("interrupt")
           /\ UNCHANGED <<world, market, snapshots, goal, due, userTicks, strays>>
           /\ interrupts' \in 0..MaxInterrupts /\ AccountType
           /\ \/ held' = held
              \/ /\ tick[d].pc = "sell" /\ tick[d].view.held <= held
                 /\ held' = held - tick[d].view.held
              \/ tick[d].pc = "execute" /\ Ordered(d)
  <1>1. /\ tick[d].pc # "idle" /\ Finish(d) /\ Has("interrupt")
        /\ UNCHANGED <<world, market, snapshots, goal, due, userTicks, strays, counted>>
    BY DEF Interrupt, At
  <1>2. /\ interrupts' \in 0..MaxInterrupts /\ counted' \in 0..MaxOrders /\ strays' \in Nat
    BY <1>1, Bounds DEF Interrupt, TypeOK
  <1>3. CASE UNCHANGED <<cash, held, afloat, decided>>
    BY <1>1, <1>2, <1>3 DEF AccountType, TypeOK
  <1>4. CASE /\ At(d, "sell") /\ tick[d].view.held <= held
             /\ \E now \in {0, tick[d].view.held} : Trade("sell", now, tick[d].view.held - now)
             /\ UNCHANGED decided
    <2> DEFINE n == tick[d].view.held
    <2>1. n \in Nat /\ n <= held
      BY <1>4, Fields DEF TypeOK, Snaps
    <2>2. PICK now \in {0, n} : Trade("sell", now, n - now)
      BY <1>4
    <2> HIDE DEF n
    <2>3. now \in Nat /\ now <= held /\ n - now \in Nat
      BY <2>1 DEF TypeOK
    <2>4. /\ held' = held - now /\ held' \in Nat /\ cash' \in Nat
          /\ afloat' \in [Sides -> 0..MaxLate]
      BY <2>1, <2>2, <2>3, Sale
    <2>5. held' = held \/ held' = held - n
      BY <2>4 DEF TypeOK
    <2> QED
      BY <1>1, <1>2, <1>4, <2>1, <2>4, <2>5 DEF AccountType, At, TypeOK, n
  <1>5. CASE /\ At(d, "execute") /\ Possible(tick[d].want)
             /\ \E now \in {0, 1} : Trade(tick[d].want, now, 1 - now)
             /\ decided' = IF tick[d].job = "goal" THEN decided + 1 ELSE decided
    <2>1. decided' \in Nat
      BY <1>5 DEF TypeOK
    <2>2. PICK now \in {0, 1} : Trade(tick[d].want, now, 1 - now)
      BY <1>5
    <2>3. 1 - now \in Nat
      OBVIOUS
    <2>4. Ordered(d)
      BY <1>1, <1>2, <1>5, <2>1, <2>2, <2>3, TradeOrdered
    <2> QED
      BY <1>1, <1>2, <1>5, <2>4 DEF Ordered, At
  <1> QED
    BY <1>1, <1>2, <1>3, <1>4, <1>5 DEF Interrupt
\* An order that was given up on trades.
LEMMA ArrivesEffect ==
    ASSUME TypeOK, NEW side \in Sides, Arrives(side)
    PROVE  /\ Has("late") /\ AccountType
           /\ UNCHANGED <<world, market, snapshots, goal, due, counted, decided, tick, bounds>>
           /\ \/ held' = held + 1 /\ strays' = strays + 1
              \/ held > 0 /\ held' = held - 1 /\ strays' = strays
  <1>1. afloat' \in [Sides -> 0..MaxLate]
    BY Bounds DEF Arrives, TypeOK
  <1>2. price \in Nat /\ cash \in Nat /\ held \in Nat /\ strays \in Nat
    BY Numbers DEF TypeOK
  <1>3. CASE side = "buy"
    BY <1>1, <1>2, <1>3 DEF Arrives, Possible, Sign, AccountType, TypeOK
  <1>4. CASE side # "buy"
    BY <1>1, <1>2, <1>4 DEF Arrives, Possible, Sign, AccountType, TypeOK
  <1> QED
    BY <1>3, <1>4
\* The market moves: a tick only takes note of the lowest price,
SameTicks ==
    /\ tick' \in [Drivers -> Ticks]
    /\ \A d \in Drivers :
          /\ tick'[d].job = tick[d].job /\ tick'[d].stage = tick[d].stage
          /\ tick'[d].pc = tick[d].pc
          /\ tick'[d].got = tick[d].got /\ tick'[d].view = tick[d].view
          /\ tick'[d].fall = tick[d].fall /\ tick'[d].ending = tick[d].ending
          /\ tick'[d].want = tick[d].want /\ tick'[d].closed = tick[d].closed
          /\ tick'[d].low \in Lows /\ tick'[d].top \in Lows
LEMMA MoveEffect ==
    ASSUME TypeOK, Move
    PROVE  /\ price' \in Prices /\ bar' \in Prices /\ high' = high /\ moves' \in 0..MaxMoves
           /\ SameTicks
           /\ \A d \in Drivers :
                 /\ tick'[d].low <= tick[d].low /\ tick'[d].low <= price'
                 /\ tick'[d].low = tick[d].low \/ tick'[d].low = price'
                 /\ tick'[d].top = tick[d].top
  <1>1. price' \in Prices /\ price' \in Nat /\ high' = high
    BY Bounds DEF Move, TypeOK
  <1>2. bar' \in Prices
    BY <1>1 DEF Move, TypeOK, Higher
  <1>3. moves' \in 0..MaxMoves
    BY Bounds DEF Move, TypeOK
  <1> DEFINE low(d) == Lesser(tick[d].low, price')
  <1>4. \A d \in Drivers : /\ tick[d] \in Ticks /\ tick[d].low \in Lows /\ tick[d].low \in Nat
                            /\ tick[d].top \in Lows
    <2>1. \A d \in Drivers : tick[d] \in Ticks /\ tick[d].low \in Lows /\ tick[d].top \in Lows
      BY Fields DEF TypeOK
    <2>2. \A n \in Lows : n \in Nat
      BY Bounds DEF Lows
    <2> QED
      BY <2>1, <2>2
  <1>5. \A d \in Drivers : /\ low(d) \in Lows /\ low(d) <= tick[d].low
                           /\ low(d) = tick[d].low \/ low(d) = price'
                           /\ low(d) <= price'
    BY <1>1, <1>4 DEF Lows, Lesser
  <1>6. \A d \in Drivers : tick'[d] = [tick[d] EXCEPT !.low = low(d)]
    BY DEF Move
  <1>7. tick' = [d \in Drivers |-> tick'[d]]
    BY DEF Move
  <1> HIDE DEF low
  <1>8. \A d \in Drivers :
            /\ tick'[d] \in Ticks /\ tick'[d].low = low(d) /\ tick'[d].top = tick[d].top
            /\ tick'[d].job = tick[d].job /\ tick'[d].stage = tick[d].stage
            /\ tick'[d].pc = tick[d].pc
            /\ tick'[d].got = tick[d].got /\ tick'[d].view = tick[d].view
            /\ tick'[d].fall = tick[d].fall /\ tick'[d].ending = tick[d].ending
            /\ tick'[d].want = tick[d].want /\ tick'[d].closed = tick[d].closed
    BY ZenonT(40), <1>4, <1>5, <1>6, Fields
  <1> QED
    BY <1>1, <1>2, <1>3, <1>4, <1>5, <1>7, <1>8 DEF SameTicks
\* and of the highest recent high, when a bar is completed.
LEMMA BarClosesEffect ==
    ASSUME TypeOK, BarCloses
    PROVE  /\ bar' \in Prices /\ high' \in Prices /\ (Has("slide") \/ high <= high')
           /\ SameTicks
           /\ \A d \in Drivers :
                 /\ tick'[d].low = tick[d].low
                 /\ tick[d].pc # "idle" => tick[d].top <= tick'[d].top /\ high' <= tick'[d].top
                 /\ tick'[d].top \in {tick[d].top, high'}
  <1>1. /\ bar' \in Prices /\ high' \in Prices /\ high' \in Nat
        /\ Has("slide") \/ high <= high'
    <2>1. Higher(high, bar) \in Prices /\ high <= Higher(high, bar)
      BY Numbers DEF TypeOK, Higher
    <2> QED
      BY <2>1, Numbers DEF BarCloses, TypeOK
  <1> DEFINE top(d) == IF At(d, "idle") THEN tick[d].top ELSE Higher(tick[d].top, high')
  <1>4. \A d \in Drivers : /\ tick[d] \in Ticks /\ tick[d].low \in Lows /\ tick[d].top \in Nat
                            /\ tick[d].top \in Lows
    <2>1. \A d \in Drivers : tick[d] \in Ticks /\ tick[d].low \in Lows /\ tick[d].top \in Lows
      BY Fields DEF TypeOK
    <2>2. \A n \in Lows : n \in Nat
      BY Bounds DEF Lows
    <2> QED
      BY <2>1, <2>2
  <1>5. \A d \in Drivers :
            /\ top(d) \in Lows /\ top(d) \in {tick[d].top, high'}
            /\ tick[d].pc # "idle" => tick[d].top <= top(d) /\ high' <= top(d)
    BY <1>1, <1>4 DEF Lows, Higher, At
  <1>6. \A d \in Drivers : tick'[d] = [tick[d] EXCEPT !.top = top(d)]
    <2>1. \A d \in Drivers : [tick[d] EXCEPT !.top = tick[d].top] = tick[d]
      BY <1>4, Fields
    <2>2. \A d \in Drivers : tick'[d] = IF At(d, "idle") THEN tick[d]
                                        ELSE [tick[d] EXCEPT !.top = Higher(@, high')]
      BY DEF BarCloses
    <2> QED
      BY <2>1, <2>2
  <1>7. tick' = [d \in Drivers |-> tick'[d]]
    BY DEF BarCloses
  <1> HIDE DEF top
  <1>8. \A d \in Drivers :
            /\ tick'[d] \in Ticks /\ tick'[d].top = top(d) /\ tick'[d].low = tick[d].low
            /\ tick'[d].job = tick[d].job /\ tick'[d].stage = tick[d].stage
            /\ tick'[d].pc = tick[d].pc
            /\ tick'[d].got = tick[d].got /\ tick'[d].view = tick[d].view
            /\ tick'[d].fall = tick[d].fall /\ tick'[d].ending = tick[d].ending
            /\ tick'[d].want = tick[d].want /\ tick'[d].closed = tick[d].closed
    BY ZenonT(40), <1>4, <1>5, <1>6, Fields
  <1> QED
    BY <1>1, <1>4, <1>5, <1>7, <1>8 DEF SameTicks

-----------------------------------------------------------------------------
\* Where a tick may stand, for its job, and what it is there for.
Flow(t) ==
    \/ t.pc = "idle" /\ t.job = "none" /\ t.stage = "none" /\ t.closed = "none"
    \/ /\ t.pc \in {"fetch", "save"} /\ t.stage = "none" /\ t.closed = "none"
       /\ t.job \in {"goal", "manual", "snapshot"}
    \/ /\ t.pc \in {"holdings", "drawdown", "judge"} /\ t.stage = "judge"
       /\ t.job = "goal" /\ t.closed = "none"
    \/ /\ t.pc \in {"holdings", "drawdown", "patrol", "sell"} /\ t.stage = "patrol" /\ t.closed = "none"
       /\ t.job \in {"goal", "manual", "bare"}
    \/ t.pc \in {"holdings", "drawdown", "clear", "sell", "end"} /\ t.stage = "clear"
       /\ t.job = "goal" /\ t.closed = "none"
    \/ t.pc = "end" /\ t.job = "goal" /\ t.stage = "end" /\ t.closed = "none"
    \/ t.pc = "end" /\ t.job = "goal" /\ t.stage = "patrol" /\ t.ending = "aborted"
    \/ t.pc \in {"budget", "decide"} /\ t.stage = "patrol" /\ t.job \in {"goal", "manual"}
       /\ (t.pc = "budget" => t.job = "goal") /\ t.ending = "none"
    \/ /\ t.pc \in {"holdings", "drawdown", "risk", "execute"} /\ t.stage = "risk"
       /\ t.job \in {"goal", "manual"} /\ t.ending = "none"
\* The ending fits the stage, and only the runner drives the goal.
Ending(t) ==
    /\ t.stage \in {"none", "judge", "risk"} => t.ending = "none"
    /\ t.stage = "patrol" => /\ t.ending \in {"none", "aborted"}
                             /\ t.job # "goal" => t.ending = "none"
    /\ t.stage = "clear" => t.ending = "achieved"
    /\ t.stage = "end" => t.ending = "expired"
Flows == \A d \in Drivers : /\ Flow(tick[d]) /\ Ending(tick[d])
                            /\ tick[d].job = "goal" => d = "runner"

\* A tick that is over, or begins.
LEMMA RestFlows == Flow(Rest) /\ Ending(Rest)
  BY RestType DEF Flow, Ending
\* A tick at its patrol, and one that sells.
LEMMA AtPatrol ==
    ASSUME NEW t, Flow(t), Ending(t), t.pc = "patrol"
    PROVE  /\ t.stage = "patrol" /\ t.closed = "none" /\ t.job \in {"goal", "manual", "bare"}
           /\ t.ending \in {"none", "aborted"} /\ (t.job # "goal" => t.ending = "none")
  BY DEF Flow, Ending
LEMMA AtSell ==
    ASSUME NEW t, Flow(t), Ending(t), t.pc = "sell"
    PROVE  /\ t.closed = "none"
           /\ \/ /\ t.stage = "patrol" /\ t.job \in {"goal", "manual", "bare"}
                 /\ t.ending \in {"none", "aborted"} /\ (t.job # "goal" => t.ending = "none")
              \/ t.stage = "clear" /\ t.job = "goal" /\ t.ending = "achieved"
  BY DEF Flow, Ending
\* Only the tick that moves has to be looked at.
LEMMA FlowsRest ==
    ASSUME Flows, NEW d \in Drivers, OnlyTick(d), Flow(tick'[d]), Ending(tick'[d]),
           tick'[d].job = "goal" => d = "runner"
    PROVE  Flows'
  BY DEF Flows, OnlyTick

\* What a tick notes of the market does not move it.
LEMMA SameFlows ==
    ASSUME Flows, SameTicks
    PROVE  Flows'
  <1>1. \A d \in Drivers : Flow(tick'[d]) /\ Ending(tick'[d]) /\ tick'[d].job = tick[d].job
    BY DEF SameTicks, Flows, Flow, Ending
  <1> QED
    BY <1>1 DEF Flows

\* Every step keeps the types.
LEMMA TypeNext == TypeOK /\ Flows /\ [Next]_vars => TypeOK'
  <1> SUFFICES ASSUME TypeOK, Flows, [Next]_vars PROVE TypeOK'
    OBVIOUS
  <1>1. ASSUME RunnerTick PROVE TypeOK'
    BY <1>1, RunnerTickEffect DEF RunnerTick, Elsewhere, account, market, snapshots, bounds,
       TypeOK
  <1>2. ASSUME UserTick PROVE TypeOK'
    <2>1. userTicks' \in 0..MaxUserTicks
      BY <1>2, Bounds DEF UserTick, TypeOK
    <2> QED
      BY <1>2, <2>1, UserTickEffect DEF UserTick, Elsewhere, account, market, snapshots,
         bounds, TypeOK
  <1>3. ASSUME NEW d \in Drivers, Fetch(d) PROVE TypeOK'
    BY <1>3, FetchEffect DEF Fetch, Elsewhere, account, market, snapshots, bounds, TypeOK
  <1>4. ASSUME NEW d \in Drivers, Save(d) PROVE TypeOK'
    <2>1. tick' \in [Drivers -> Ticks]
      BY <1>4, AfterCaptureEffect DEF Save
    <2>2. snap' \in Snaps
      BY <1>4, Fields DEF Save, TypeOK
    <2>3. Equity(snap') \in Int
      <3>1. snap'.cash \in Int /\ snap'.held \in Int /\ snap'.price \in Int
        <4>1. snap'.cash \in Int /\ snap'.held \in Nat /\ snap'.price \in Prices \cup {0}
          BY <2>2 DEF Snaps
        <4> QED
          BY <4>1, Numbers
      <3> QED
        BY <3>1, Products DEF Equity
    <2>4. peak' \in Nat
      <3>1. peak \in Nat /\ peak' = IF Equity(snap') > peak THEN Equity(snap') ELSE peak
        BY <1>4 DEF Save, TypeOK, Higher
      <3> HIDE DEF Equity
      <3> QED
        BY <2>3, <3>1
    <2> QED
      BY <1>4, <2>1, <2>2, <2>4 DEF Save, Elsewhere, account, market, snapshots, bounds, TypeOK
  <1>5. ASSUME NEW d \in Drivers, CaptureFails(d) PROVE TypeOK'
    BY <1>5, AfterCaptureEffect DEF CaptureFails, Elsewhere, account, market, snapshots,
       bounds, TypeOK
  <1>6. ASSUME NEW d \in Drivers, ReadHoldings(d) PROVE TypeOK'
    BY <1>6, ReadHoldingsEffect DEF ReadHoldings, Elsewhere, account, market, snapshots,
       bounds, TypeOK
  <1>7. ASSUME NEW d \in Drivers, ReadDrawdown(d) PROVE TypeOK'
    <2>1. tick[d].stage \in Labels
      BY <1>7, ReadDrawdownEffect DEF Flows, Flow, Labels
    <2> QED
      BY <1>7, <2>1, ReadDrawdownEffect DEF ReadDrawdown, Elsewhere, account, market,
         snapshots, bounds, TypeOK
  <1>8. ASSUME NEW d \in Drivers, Judge(d) PROVE TypeOK'
    BY <1>8, JudgeEffect DEF Judge, Elsewhere, account, market, snapshots, bounds, TypeOK
  <1>9. ASSUME NEW d \in Drivers, End(d) PROVE TypeOK'
    <2>1. goal' = tick[d].ending /\ tick[d].ending \in {"none", "expired", "achieved", "aborted"}
      BY <1>9, Fields DEF End, TypeOK, Endings
    <2> QED
      BY <1>9, <2>1, FinishEffect DEF End, Elsewhere, account, market, snapshots, bounds, TypeOK
  <1>10. ASSUME NEW d \in Drivers, Patrol(d) PROVE TypeOK'
    <2>1. tick' \in [Drivers -> Ticks]
      <3>1. Goto(d, "sell") \/ AfterPatrol(d, "none")
        BY <1>10 DEF Patrol
      <3> QED
        BY <3>1, GotoEffect, AfterPatrolEffect, WhysType DEF Labels
    <2> QED
      BY <1>10, <2>1 DEF Patrol, Elsewhere, account, market, snapshots, bounds, TypeOK
  <1>11. ASSUME NEW d \in Drivers, Clear(d) PROVE TypeOK'
    <2>1. tick' \in [Drivers -> Ticks]
      <3>1. Goto(d, "sell") \/ Goto(d, "end") \/ Finish(d)
        BY <1>11 DEF Clear
      <3> QED
        BY <3>1, GotoEffect, FinishEffect DEF Labels
    <2> QED
      BY <1>11, <2>1 DEF Clear, Elsewhere, account, market, snapshots, bounds, TypeOK
  <1>12. ASSUME NEW d \in Drivers, Sell(d) PROVE TypeOK'
    <2>1. tick' \in [Drivers -> Ticks]
      <3>1. AfterPatrol(d, Reason(tick[d].fall)) \/ Goto(d, "end") \/ Finish(d)
        BY <1>12, SellEffect
      <3> QED
        BY <3>1, GotoEffect, FinishEffect, AfterPatrolEffect, WhysType DEF Labels
    <2> QED
      BY <1>12, <2>1, SellEffect DEF AccountType, Elsewhere, account, market, snapshots,
         bounds, TypeOK
  <1>13. ASSUME NEW d \in Drivers, Budget(d) PROVE TypeOK'
    <2>1. tick' \in [Drivers -> Ticks]
      <3>1. Goto(d, "decide") \/ Finish(d)
        BY <1>13 DEF Budget
      <3> QED
        BY <3>1, GotoEffect, FinishEffect DEF Labels
    <2> QED
      BY <1>13, <2>1 DEF Budget, Elsewhere, account, market, snapshots, bounds, TypeOK
  <1>14. ASSUME NEW d \in Drivers, Decide(d) PROVE TypeOK'
    BY <1>14, DecideEffect DEF Decide, Elsewhere, account, market, snapshots, bounds, TypeOK
  <1>15. ASSUME NEW d \in Drivers, Risk(d) PROVE TypeOK'
    <2>1. tick' \in [Drivers -> Ticks]
      <3>1. Goto(d, "execute") \/ Finish(d)
        BY <1>15 DEF Risk
      <3> QED
        BY <3>1, GotoEffect, FinishEffect DEF Labels
    <2> QED
      BY <1>15, <2>1 DEF Risk, Elsewhere, account, market, snapshots, bounds, TypeOK
  <1>16. ASSUME NEW d \in Drivers, Execute(d) PROVE TypeOK'
    BY <1>16, ExecuteEffect, FinishEffect DEF Ordered, AccountType, Elsewhere, account,
       market, snapshots, bounds, TypeOK
  <1>17. ASSUME NEW d \in Drivers, Interrupt(d) PROVE TypeOK'
    <2>1. tick' \in [Drivers -> Ticks]
      BY <1>17, InterruptEffect, FinishEffect
    <2>2. AccountType
      BY <1>17, InterruptEffect
    <2> QED
      BY <1>17, <2>1, <2>2, InterruptEffect DEF AccountType, Elsewhere, account, market,
         snapshots, bounds, TypeOK
  <1>18. ASSUME Confirm PROVE TypeOK'
    BY <1>18 DEF Confirm, Elsewhere, account, market, snapshots, bounds, TypeOK
  <1>19. ASSUME Deadline PROVE TypeOK'
    BY <1>19 DEF Deadline, Elsewhere, account, market, snapshots, bounds, TypeOK
  <1>20. ASSUME Move PROVE TypeOK'
    BY <1>20, MoveEffect DEF Move, SameTicks, Elsewhere, account, market, snapshots, bounds,
       TypeOK
  <1>21. ASSUME Reset PROVE TypeOK'
    BY <1>21 DEF Reset, Elsewhere, account, market, snapshots, bounds, TypeOK
  <1>22. CASE UNCHANGED vars
    BY <1>22 DEF vars, Elsewhere, account, market, snapshots, bounds, TypeOK
  <1>23. ASSUME NEW side \in Sides, Arrives(side) PROVE TypeOK'
    BY <1>23, ArrivesEffect DEF AccountType, market, snapshots, bounds, TypeOK
  <1>24. ASSUME BarCloses PROVE TypeOK'
    BY <1>24, BarClosesEffect DEF BarCloses, SameTicks, account, snapshots, bounds, TypeOK
  <1> QED
    BY <1>1, <1>2, <1>3, <1>4, <1>5, <1>6, <1>7, <1>8, <1>9, <1>10, <1>11, <1>12, <1>13,
       <1>14, <1>15, <1>16, <1>17, <1>18, <1>19, <1>20, <1>21, <1>22, <1>23,
       <1>24 DEF Next, Step

\* Every step keeps to the flow.
LEMMA FlowsNext == TypeOK /\ Flows /\ [Next]_vars => Flows'
  <1> SUFFICES ASSUME TypeOK, Flows, [Next]_vars PROVE Flows'
    OBVIOUS
  <1>1. ASSUME RunnerTick PROVE Flows'
    <2>1. Flow(tick'["runner"]) /\ Ending(tick'["runner"])
      BY <1>1, RunnerTickEffect DEF Flow, Ending
    <2> QED
      BY <1>1, <2>1, RunnerTickEffect, FlowsRest
  <1>2. ASSUME UserTick PROVE Flows'
    <2>1. Flow(tick'["user"]) /\ Ending(tick'["user"])
      BY <1>2, UserTickEffect DEF Flow, Ending
    <2> QED
      BY <1>2, <2>1, UserTickEffect, FlowsRest
  <1>3. ASSUME NEW d \in Drivers, Fetch(d) PROVE Flows'
    <2>1. Flow(tick[d]) /\ Ending(tick[d]) /\ (tick[d].job = "goal" => d = "runner")
      BY DEF Flows
    <2>2. /\ OnlyTick(d) /\ Flow(tick'[d]) /\ Ending(tick'[d])
          /\ tick'[d].job \in {tick[d].job, "none"}
      BY <1>3, <2>1, FetchEffect, RestFlows, RestType DEF Flow, Ending
    <2> QED
      BY <2>1, <2>2, FlowsRest
  <1>4. ASSUME NEW d \in Drivers, Save(d) PROVE Flows'
    <2>1. tick[d].pc \in {"fetch", "save"} /\ AfterCapture(d)
      BY <1>4 DEF Save, At
    <2>2. Flow(tick[d]) /\ Ending(tick[d]) /\ (tick[d].job = "goal" => d = "runner")
      BY DEF Flows
    <2>3. /\ OnlyTick(d) /\ Flow(tick'[d]) /\ Ending(tick'[d])
          /\ tick'[d].job \in {tick[d].job, "none"}
      BY <2>1, <2>2, AfterCaptureEffect, RestFlows, RestType DEF Flow, Ending
    <2> QED
      BY <2>2, <2>3, FlowsRest
  <1>5. ASSUME NEW d \in Drivers, CaptureFails(d) PROVE Flows'
    <2>1. tick[d].pc \in {"fetch", "save"} /\ AfterCapture(d)
      BY <1>5 DEF CaptureFails, At
    <2>2. Flow(tick[d]) /\ Ending(tick[d]) /\ (tick[d].job = "goal" => d = "runner")
      BY DEF Flows
    <2>3. /\ OnlyTick(d) /\ Flow(tick'[d]) /\ Ending(tick'[d])
          /\ tick'[d].job \in {tick[d].job, "none"}
      BY <2>1, <2>2, AfterCaptureEffect, RestFlows, RestType DEF Flow, Ending
    <2> QED
      BY <2>2, <2>3, FlowsRest
  <1>6. ASSUME NEW d \in Drivers, ReadHoldings(d) PROVE Flows'
    <2>1. Flow(tick[d]) /\ Ending(tick[d]) /\ (tick[d].job = "goal" => d = "runner")
      BY DEF Flows
    <2>2. /\ OnlyTick(d) /\ Flow(tick'[d]) /\ Ending(tick'[d])
          /\ tick'[d].job \in {tick[d].job, "none"}
      BY <1>6, <2>1, ReadHoldingsEffect, RestFlows, RestType DEF Flow, Ending
    <2> QED
      BY <2>1, <2>2, FlowsRest
  <1>7. ASSUME NEW d \in Drivers, ReadDrawdown(d) PROVE Flows'
    <2>1. Flow(tick[d]) /\ Ending(tick[d]) /\ (tick[d].job = "goal" => d = "runner")
      BY DEF Flows
    <2>2. /\ OnlyTick(d) /\ Flow(tick'[d]) /\ Ending(tick'[d])
          /\ tick'[d].job \in {tick[d].job, "none"}
      BY <1>7, <2>1, ReadDrawdownEffect, RestFlows, RestType DEF Flow, Ending
    <2> QED
      BY <2>1, <2>2, FlowsRest
  <1>8. ASSUME NEW d \in Drivers, Judge(d) PROVE Flows'
    <2>1. Flow(tick[d]) /\ Ending(tick[d]) /\ (tick[d].job = "goal" => d = "runner")
      BY DEF Flows
    <2>2. /\ OnlyTick(d) /\ Flow(tick'[d]) /\ Ending(tick'[d])
          /\ tick'[d].job \in {tick[d].job, "none"}
      BY <1>8, <2>1, JudgeEffect, RestFlows, RestType DEF Flow, Ending
    <2> QED
      BY <2>1, <2>2, FlowsRest
  <1>9. ASSUME NEW d \in Drivers, End(d) PROVE Flows'
    <2>1. Finish(d)
      BY <1>9 DEF End
    <2> QED
      BY <2>1, FinishEffect, RestFlows, RestType, FlowsRest
  <1>10. ASSUME NEW d \in Drivers, Patrol(d) PROVE Flows'
    <2>1. tick[d].pc = "patrol" /\ (Goto(d, "sell") \/ AfterPatrol(d, "none"))
      BY <1>10 DEF Patrol, At
    <2>2. Flow(tick[d]) /\ Ending(tick[d]) /\ (tick[d].job = "goal" => d = "runner")
      BY DEF Flows
    <2>3. /\ OnlyTick(d) /\ Flow(tick'[d]) /\ Ending(tick'[d])
          /\ tick'[d].job \in {tick[d].job, "none"}
      <3>1. /\ tick[d].stage = "patrol" /\ tick[d].job \in {"goal", "manual", "bare"}
            /\ tick[d].ending \in {"none", "aborted"}
            /\ tick[d].job # "goal" => tick[d].ending = "none"
            /\ tick[d].closed = "none"
        BY <2>1, <2>2, AtPatrol
      <3>2. CASE Goto(d, "sell")
        BY <2>1, <3>1, <3>2, GotoEffect DEF Labels, Flow, Ending
      <3>3. CASE AfterPatrol(d, "none")
        BY <2>1, <3>1, <3>3, AfterPatrolEffect, WhysType, RestFlows, RestType DEF Flow, Ending
      <3> QED
        BY <2>1, <3>2, <3>3
    <2> QED
      BY <2>2, <2>3, FlowsRest
  <1>11. ASSUME NEW d \in Drivers, Clear(d) PROVE Flows'
    <2>1. tick[d].pc = "clear" /\ (Goto(d, "sell") \/ Goto(d, "end") \/ Finish(d))
      BY <1>11 DEF Clear, At
    <2>2. Flow(tick[d]) /\ Ending(tick[d]) /\ (tick[d].job = "goal" => d = "runner")
      BY DEF Flows
    <2>3. /\ OnlyTick(d) /\ Flow(tick'[d]) /\ Ending(tick'[d])
          /\ tick'[d].job \in {tick[d].job, "none"}
      BY <2>1, <2>2, GotoEffect, FinishEffect, RestFlows, RestType DEF Flow, Ending, Labels
    <2> QED
      BY <2>2, <2>3, FlowsRest
  <1>12. ASSUME NEW d \in Drivers, Sell(d) PROVE Flows'
    <2>1. tick[d].pc = "sell" /\ \/ tick[d].ending # "achieved" /\ AfterPatrol(d, Reason(tick[d].fall))
                                 \/ tick[d].ending = "achieved" /\ Goto(d, "end")
                                 \/ Finish(d)
      BY <1>12, SellEffect
    <2>2. Flow(tick[d]) /\ Ending(tick[d]) /\ (tick[d].job = "goal" => d = "runner")
      BY DEF Flows
    <2>3. /\ OnlyTick(d) /\ Flow(tick'[d]) /\ Ending(tick'[d])
          /\ tick'[d].job \in {tick[d].job, "none"}
      <3>1. /\ tick[d].closed = "none"
            /\ \/ /\ tick[d].stage = "patrol" /\ tick[d].job \in {"goal", "manual", "bare"}
                  /\ tick[d].ending \in {"none", "aborted"}
                  /\ tick[d].job # "goal" => tick[d].ending = "none"
               \/ tick[d].stage = "clear" /\ tick[d].job = "goal" /\ tick[d].ending = "achieved"
        BY <2>1, <2>2, AtSell
      <3>2. CASE tick[d].ending # "achieved" /\ AfterPatrol(d, Reason(tick[d].fall))
        BY <2>1, <3>1, <3>2, AfterPatrolEffect, WhysType, RestFlows, RestType DEF Flow, Ending
      <3>3. CASE tick[d].ending = "achieved" /\ Goto(d, "end")
        BY <2>1, <3>1, <3>3, GotoEffect DEF Labels, Flow, Ending
      <3>4. CASE Finish(d)
        BY <2>1, <3>1, <3>4, FinishEffect, RestFlows, RestType
      <3> QED
        BY <2>1, <3>2, <3>3, <3>4
    <2> QED
      BY <2>2, <2>3, FlowsRest
  <1>13. ASSUME NEW d \in Drivers, Budget(d) PROVE Flows'
    <2>1. tick[d].pc = "budget" /\ (Goto(d, "decide") \/ Finish(d))
      BY <1>13 DEF Budget, At
    <2>2. Flow(tick[d]) /\ Ending(tick[d]) /\ (tick[d].job = "goal" => d = "runner")
      BY DEF Flows
    <2>3. /\ OnlyTick(d) /\ Flow(tick'[d]) /\ Ending(tick'[d])
          /\ tick'[d].job \in {tick[d].job, "none"}
      BY <2>1, <2>2, GotoEffect, FinishEffect, RestFlows, RestType DEF Flow, Ending, Labels
    <2> QED
      BY <2>2, <2>3, FlowsRest
  <1>14. ASSUME NEW d \in Drivers, Decide(d) PROVE Flows'
    <2>1. Flow(tick[d]) /\ Ending(tick[d]) /\ (tick[d].job = "goal" => d = "runner")
      BY DEF Flows
    <2>2. /\ OnlyTick(d) /\ Flow(tick'[d]) /\ Ending(tick'[d])
          /\ tick'[d].job \in {tick[d].job, "none"}
      BY <1>14, <2>1, DecideEffect, RestFlows, RestType DEF Flow, Ending
    <2> QED
      BY <2>1, <2>2, FlowsRest
  <1>15. ASSUME NEW d \in Drivers, Risk(d) PROVE Flows'
    <2>1. tick[d].pc = "risk" /\ (Goto(d, "execute") \/ Finish(d))
      BY <1>15 DEF Risk, At
    <2>2. Flow(tick[d]) /\ Ending(tick[d]) /\ (tick[d].job = "goal" => d = "runner")
      BY DEF Flows
    <2>3. /\ OnlyTick(d) /\ Flow(tick'[d]) /\ Ending(tick'[d])
          /\ tick'[d].job \in {tick[d].job, "none"}
      BY <2>1, <2>2, GotoEffect, FinishEffect, RestFlows, RestType DEF Flow, Ending, Labels
    <2> QED
      BY <2>2, <2>3, FlowsRest
  <1>16. ASSUME NEW d \in Drivers, Execute(d) PROVE Flows'
    <2>1. Finish(d)
      BY <1>16, ExecuteEffect
    <2> QED
      BY <2>1, FinishEffect, RestFlows, RestType, FlowsRest
  <1>17. ASSUME NEW d \in Drivers, Interrupt(d) PROVE Flows'
    <2>1. Finish(d)
      BY <1>17, InterruptEffect
    <2> QED
      BY <2>1, FinishEffect, RestFlows, RestType, FlowsRest
  <1>18. ASSUME Confirm PROVE Flows'
    BY <1>18 DEF Confirm, Flows
  <1>19. ASSUME Deadline PROVE Flows'
    BY <1>19 DEF Deadline, Flows
  <1>20. ASSUME Move PROVE Flows'
    BY <1>20, MoveEffect, SameFlows
  <1>21. ASSUME Reset PROVE Flows'
    BY <1>21 DEF Reset, Flows
  <1>22. CASE UNCHANGED vars
    BY <1>22 DEF vars, Flows
  <1>23. ASSUME NEW side \in Sides, Arrives(side) PROVE Flows'
    BY <1>23, ArrivesEffect DEF Flows
  <1>24. ASSUME BarCloses PROVE Flows'
    BY <1>24, BarClosesEffect, SameFlows
  <1> QED
    BY <1>1, <1>2, <1>3, <1>4, <1>5, <1>6, <1>7, <1>8, <1>9, <1>10, <1>11, <1>12, <1>13,
       <1>14, <1>15, <1>16, <1>17, <1>18, <1>19, <1>20, <1>21, <1>22, <1>23,
       <1>24 DEF Next, Step

-----------------------------------------------------------------------------
\* The budget: what was decided is counted, and a goal's tick that is past its
\* budget check has an order left.
Past(t) == t.job = "goal" /\ (t.pc = "decide" \/ t.stage = "risk")
Budgeted ==
    FreeOf({"interrupt"}) =>
        /\ decided <= counted
        /\ \A d \in Drivers : Past(tick[d]) => decided < MaxOrders

LEMMA BudgetedRest ==
    ASSUME TypeOK, Budgeted, UNCHANGED <<world, decided>>, counted' \in Nat, counted <= counted',
           NEW d \in Drivers, OnlyTick(d), Past(tick'[d]) => Past(tick[d])
    PROVE  Budgeted'
  <1>1. ASSUME FreeOf({"interrupt"}) PROVE decided' <= counted'
    BY <1>1 DEF Budgeted, TypeOK
  <1>2. ASSUME FreeOf({"interrupt"}), NEW e \in Drivers, Past(tick'[e]) PROVE decided' < MaxOrders
    <2>1. Past(tick[e])
      BY <1>2 DEF OnlyTick
    <2> QED
      BY <1>2, <2>1 DEF Budgeted
  <1> QED
    BY <1>1, <1>2 DEF Budgeted, FreeOf
\* Every step respects the budget.
LEMMA BudgetedNext == TypeOK /\ Flows /\ Budgeted /\ [Next]_vars => Budgeted'
  <1> SUFFICES ASSUME TypeOK, Flows, Budgeted, [Next]_vars PROVE Budgeted'
    OBVIOUS
  <1>1. ASSUME RunnerTick PROVE Budgeted'
    <2>1. ~Past(tick'["runner"]) /\ OnlyTick("runner") /\ "runner" \in Drivers
      BY <1>1, RunnerTickEffect DEF Past
    <2>2. UNCHANGED <<world, decided, counted>> /\ counted \in Nat
      BY <1>1, Bounds DEF RunnerTick, Elsewhere, account, market, snapshots, bounds, TypeOK
    <2> QED
      BY <2>1, <2>2, BudgetedRest DEF TypeOK
  <1>2. ASSUME UserTick PROVE Budgeted'
    <2>1. ~Past(tick'["user"]) /\ OnlyTick("user") /\ "user" \in Drivers
      BY <1>2, UserTickEffect DEF Past
    <2>2. UNCHANGED <<world, decided, counted>> /\ counted \in Nat
      BY <1>2, Bounds DEF UserTick, Elsewhere, account, market, snapshots, bounds, TypeOK
    <2> QED
      BY <2>1, <2>2, BudgetedRest DEF TypeOK
  <1>3. ASSUME NEW d \in Drivers, Fetch(d) PROVE Budgeted'
    <2>1. tick[d].pc = "fetch" /\ Fetch(d)
      BY <1>3, FetchEffect
    <2>2. UNCHANGED <<world, decided, counted>> /\ counted \in Nat /\ counted <= counted
      BY <1>3, Bounds DEF Fetch, Elsewhere, account, market, snapshots, bounds, TypeOK
    <2>3. Flow(tick[d])
      BY DEF Flows
    <2>4. OnlyTick(d) /\ (Past(tick'[d]) => Past(tick[d]))
      BY <2>1, <2>3, FetchEffect DEF Past, Labels, Flow
    <2> QED
      BY <2>2, <2>4, BudgetedRest
  <1>4. ASSUME NEW d \in Drivers, Save(d) PROVE Budgeted'
    <2>1. tick[d].pc \in {"fetch", "save"} /\ AfterCapture(d)
      BY <1>4 DEF Save, At
    <2>2. UNCHANGED <<world, decided, counted>> /\ counted \in Nat /\ counted <= counted
      BY <1>4, Bounds DEF Save, Elsewhere, account, market, snapshots, bounds, TypeOK
    <2>3. Flow(tick[d])
      BY DEF Flows
    <2>4. OnlyTick(d) /\ (Past(tick'[d]) => Past(tick[d]))
      BY <2>1, <2>3, AfterCaptureEffect, RestType DEF Past, Labels, Flow
    <2> QED
      BY <2>2, <2>4, BudgetedRest
  <1>5. ASSUME NEW d \in Drivers, CaptureFails(d) PROVE Budgeted'
    <2>1. tick[d].pc \in {"fetch", "save"} /\ AfterCapture(d)
      BY <1>5 DEF CaptureFails, At
    <2>2. UNCHANGED <<world, decided, counted>> /\ counted \in Nat /\ counted <= counted
      BY <1>5, Bounds DEF CaptureFails, Elsewhere, account, market, snapshots, bounds, TypeOK
    <2>3. Flow(tick[d])
      BY DEF Flows
    <2>4. OnlyTick(d) /\ (Past(tick'[d]) => Past(tick[d]))
      BY <2>1, <2>3, AfterCaptureEffect, RestType DEF Past, Labels, Flow
    <2> QED
      BY <2>2, <2>4, BudgetedRest
  <1>6. ASSUME NEW d \in Drivers, ReadHoldings(d) PROVE Budgeted'
    <2>1. tick[d].pc = "holdings" /\ ReadHoldings(d)
      BY <1>6, ReadHoldingsEffect
    <2>2. UNCHANGED <<world, decided, counted>> /\ counted \in Nat /\ counted <= counted
      BY <1>6, Bounds DEF ReadHoldings, Elsewhere, account, market, snapshots, bounds, TypeOK
    <2>3. Flow(tick[d])
      BY DEF Flows
    <2>4. OnlyTick(d) /\ (Past(tick'[d]) => Past(tick[d]))
      BY <2>1, <2>3, ReadHoldingsEffect DEF Past, Labels, Flow
    <2> QED
      BY <2>2, <2>4, BudgetedRest
  <1>7. ASSUME NEW d \in Drivers, ReadDrawdown(d) PROVE Budgeted'
    <2>1. tick[d].pc = "drawdown" /\ ReadDrawdown(d)
      BY <1>7, ReadDrawdownEffect
    <2>2. UNCHANGED <<world, decided, counted>> /\ counted \in Nat /\ counted <= counted
      BY <1>7, Bounds DEF ReadDrawdown, Elsewhere, account, market, snapshots, bounds, TypeOK
    <2>3. Flow(tick[d])
      BY DEF Flows
    <2>4. OnlyTick(d) /\ (Past(tick'[d]) => Past(tick[d]))
      BY <2>1, <2>3, ReadDrawdownEffect DEF Past, Labels, Flow
    <2> QED
      BY <2>2, <2>4, BudgetedRest
  <1>8. ASSUME NEW d \in Drivers, Judge(d) PROVE Budgeted'
    <2>1. tick[d].pc = "judge" /\ Judge(d)
      BY <1>8, JudgeEffect
    <2>2. UNCHANGED <<world, decided, counted>> /\ counted \in Nat /\ counted <= counted
      BY <1>8, Bounds DEF Judge, Elsewhere, account, market, snapshots, bounds, TypeOK
    <2>3. Flow(tick[d])
      BY DEF Flows
    <2>4. OnlyTick(d) /\ (Past(tick'[d]) => Past(tick[d]))
      BY <2>1, <2>3, JudgeEffect DEF Past, Labels, Flow
    <2> QED
      BY <2>2, <2>4, BudgetedRest
  <1>9. ASSUME NEW d \in Drivers, End(d) PROVE Budgeted'
    <2>1. tick[d].pc = "end" /\ Finish(d)
      BY <1>9 DEF End, At
    <2>2. UNCHANGED <<world, decided, counted>> /\ counted \in Nat /\ counted <= counted
      BY <1>9, Bounds DEF End, Elsewhere, account, market, snapshots, bounds, TypeOK
    <2>3. Flow(tick[d])
      BY DEF Flows
    <2>4. OnlyTick(d) /\ (Past(tick'[d]) => Past(tick[d]))
      BY <2>1, <2>3, FinishEffect, RestType DEF Past, Labels, Flow
    <2> QED
      BY <2>2, <2>4, BudgetedRest
  <1>10. ASSUME NEW d \in Drivers, Patrol(d) PROVE Budgeted'
    <2>1. tick[d].pc = "patrol" /\ (Goto(d, "sell") \/ AfterPatrol(d, "none"))
      BY <1>10 DEF Patrol, At
    <2>2. UNCHANGED <<world, decided, counted>> /\ counted \in Nat /\ counted <= counted
      BY <1>10, Bounds DEF Patrol, Elsewhere, account, market, snapshots, bounds, TypeOK
    <2>3. Flow(tick[d])
      BY DEF Flows
    <2>4. OnlyTick(d) /\ (Past(tick'[d]) => Past(tick[d]))
      BY <2>1, <2>3, GotoEffect, AfterPatrolEffect, WhysType, RestType DEF Past, Labels, Flow
    <2> QED
      BY <2>2, <2>4, BudgetedRest
  <1>11. ASSUME NEW d \in Drivers, Clear(d) PROVE Budgeted'
    <2>1. tick[d].pc = "clear" /\ (Goto(d, "sell") \/ Goto(d, "end") \/ Finish(d))
      BY <1>11 DEF Clear, At
    <2>2. UNCHANGED <<world, decided, counted>> /\ counted \in Nat /\ counted <= counted
      BY <1>11, Bounds DEF Clear, Elsewhere, account, market, snapshots, bounds, TypeOK
    <2>3. Flow(tick[d])
      BY DEF Flows
    <2>4. OnlyTick(d) /\ (Past(tick'[d]) => Past(tick[d]))
      BY <2>1, <2>3, GotoEffect, FinishEffect, RestType DEF Past, Labels, Flow
    <2> QED
      BY <2>2, <2>4, BudgetedRest
  <1>12. ASSUME NEW d \in Drivers, Sell(d) PROVE Budgeted'
    <2>1. tick[d].pc = "sell" /\ (AfterPatrol(d, Reason(tick[d].fall)) \/ Goto(d, "end") \/ Finish(d))
      BY <1>12, SellEffect
    <2>2. UNCHANGED <<world, decided>> /\ counted' \in Nat /\ counted <= counted'
      <3>1. /\ UNCHANGED <<world, decided>> /\ counted <= counted'
            /\ counted' \in 0..MaxOrders
        BY <1>12, SellEffect DEF Elsewhere, AccountType
      <3> QED
        BY <3>1, Bounds
    <2>3. Flow(tick[d])
      BY DEF Flows
    <2>4. OnlyTick(d) /\ (Past(tick'[d]) => Past(tick[d]))
      BY <2>1, <2>3, GotoEffect, AfterPatrolEffect, WhysType, FinishEffect, RestType DEF Past, Labels, Flow
    <2> QED
      BY <2>2, <2>4, BudgetedRest
  <1>13. ASSUME NEW d \in Drivers, Budget(d) PROVE Budgeted'
    <2>1. UNCHANGED <<world, decided, counted>> /\ decided \in Nat /\ counted \in Nat
      BY <1>13, Bounds DEF Budget, Elsewhere, account, market, snapshots, bounds, TypeOK
    <2>2. CASE counted >= MaxOrders
      <3>1. Finish(d)
        BY <1>13, <2>2 DEF Budget
      <3>2. ~Past(tick'[d]) /\ OnlyTick(d)
        BY <3>1, FinishEffect, RestType DEF Past
      <3>3. counted' \in Nat /\ counted <= counted' /\ UNCHANGED <<world, decided>>
        BY <2>1
      <3> QED
        BY <3>2, <3>3, BudgetedRest
    <2>3. CASE ~(counted >= MaxOrders)
      <3>1. FreeOf({"interrupt"}) => decided < MaxOrders
        BY <2>1, <2>3, Bounds DEF Budgeted
      <3> QED
        BY <2>1, <3>1 DEF Budgeted, FreeOf
    <2> QED
      BY <2>2, <2>3
  <1>14. ASSUME NEW d \in Drivers, Decide(d) PROVE Budgeted'
    <2>1. tick[d].pc = "decide" /\ Decide(d)
      BY <1>14, DecideEffect
    <2>2. UNCHANGED <<world, decided, counted>> /\ counted \in Nat /\ counted <= counted
      BY <1>14, Bounds DEF Decide, Elsewhere, account, market, snapshots, bounds, TypeOK
    <2>3. Flow(tick[d])
      BY DEF Flows
    <2>4. OnlyTick(d) /\ (Past(tick'[d]) => Past(tick[d]))
      BY <2>1, <2>3, DecideEffect, RestType DEF Past, Labels, Flow
    <2> QED
      BY <2>2, <2>4, BudgetedRest
  <1>15. ASSUME NEW d \in Drivers, Risk(d) PROVE Budgeted'
    <2>1. tick[d].pc = "risk" /\ (Goto(d, "execute") \/ Finish(d))
      BY <1>15 DEF Risk, At
    <2>2. UNCHANGED <<world, decided, counted>> /\ counted \in Nat /\ counted <= counted
      BY <1>15, Bounds DEF Risk, Elsewhere, account, market, snapshots, bounds, TypeOK
    <2>3. Flow(tick[d])
      BY DEF Flows
    <2>4. OnlyTick(d) /\ (Past(tick'[d]) => Past(tick[d]))
      BY <2>1, <2>3, GotoEffect, FinishEffect, RestType DEF Past, Labels, Flow
    <2> QED
      BY <2>2, <2>4, BudgetedRest
  <1>16. ASSUME NEW d \in Drivers, Execute(d) PROVE Budgeted'
    <2>1. tick[d].pc = "execute" /\ Finish(d)
      BY <1>16, ExecuteEffect
    <2>2. ~Past(tick'[d]) /\ OnlyTick(d)
      BY <2>1, FinishEffect, RestType DEF Past
    <2>3. /\ world' = world /\ counted <= counted' /\ counted' \in 0..MaxOrders
      BY <1>16, ExecuteEffect DEF Elsewhere, Ordered, AccountType
    <2>4. CASE decided' = decided
      BY <2>2, <2>3, <2>4, BudgetedRest, Bounds
    <2>5. CASE /\ tick[d].job = "goal" /\ decided' = decided + 1
               /\ counted' = IF counted = MaxOrders THEN counted ELSE counted + 1
      <3>1. \A e \in Drivers : ~Past(tick'[e])
        <4>1. \A e \in Drivers \ {d} : tick[e].job # "goal"
          BY <2>5 DEF Flows
        <4> QED
          BY <2>2, <4>1 DEF Past, OnlyTick
      <3>2. Past(tick[d])
        BY <2>1, <2>5 DEF Flows, Flow, Past
      <3>3. FreeOf({"interrupt"}) => decided' <= counted'
        BY <2>5, <3>2, Bounds DEF Budgeted, TypeOK
      <3> QED
        BY <2>3, <3>1, <3>3 DEF Budgeted, FreeOf
    <2> QED
      BY <1>16, <2>4, <2>5, ExecuteEffect
  <1>17. ASSUME NEW d \in Drivers, Interrupt(d) PROVE Budgeted'
    <2>1. Has("interrupt") /\ world' = world
      BY <1>17, InterruptEffect
    <2> QED
      BY <2>1 DEF Has, Budgeted, FreeOf
  <1>18. ASSUME Confirm PROVE Budgeted'
    BY <1>18 DEF Confirm, Elsewhere, account, market, snapshots, bounds, Budgeted, FreeOf
  <1>19. ASSUME Deadline PROVE Budgeted'
    BY <1>19 DEF Deadline, Elsewhere, account, market, snapshots, bounds, Budgeted, FreeOf
  <1>20. ASSUME Move PROVE Budgeted'
    <2>1. \A d \in Drivers : Past(tick'[d]) => Past(tick[d])
      BY <1>20, MoveEffect DEF Past, SameTicks
    <2>2. UNCHANGED <<world, decided, counted>>
      BY <1>20 DEF Move, Elsewhere, account, market, snapshots, bounds
    <2> QED
      BY <2>1, <2>2 DEF Budgeted, FreeOf
  <1>21. ASSUME Reset PROVE Budgeted'
    BY <1>21 DEF Reset, Elsewhere, account, market, snapshots, bounds, Budgeted, FreeOf
  <1>22. CASE UNCHANGED vars
    BY <1>22 DEF vars, Elsewhere, account, market, snapshots, bounds, Budgeted, FreeOf
  <1>23. ASSUME NEW side \in Sides, Arrives(side) PROVE Budgeted'
    BY <1>23, ArrivesEffect DEF Budgeted, FreeOf
  <1>24. ASSUME BarCloses PROVE Budgeted'
    <2>1. \A d \in Drivers : Past(tick'[d]) => Past(tick[d])
      BY <1>24, BarClosesEffect DEF Past, SameTicks
    <2>2. UNCHANGED <<world, decided, counted>>
      BY <1>24 DEF BarCloses, account
    <2> QED
      BY <2>1, <2>2 DEF Budgeted, FreeOf
  <1> QED
    BY <1>1, <1>2, <1>3, <1>4, <1>5, <1>6, <1>7, <1>8, <1>9, <1>10, <1>11, <1>12, <1>13,
       <1>14, <1>15, <1>16, <1>17, <1>18, <1>19, <1>20, <1>21, <1>22, <1>23,
       <1>24 DEF Next, Step

-----------------------------------------------------------------------------
\* One tick at a time, where ticks do not overlap.
Alone ==
    FreeOf({"overlap"}) =>
        \A d \in Drivers : \A e \in Drivers \ {d} : tick[d].pc = "idle" \/ tick[e].pc = "idle"

LEMMA AloneRest ==
    ASSUME Alone, world' = world, NEW d \in Drivers, OnlyTick(d), tick[d].pc # "idle"
    PROVE  Alone'
  BY DEF Alone, OnlyTick, FreeOf
\* Every step leaves one tick at a time.
LEMMA AloneNext == TypeOK /\ Alone /\ [Next]_vars => Alone'
  <1> SUFFICES ASSUME TypeOK, Alone, [Next]_vars PROVE Alone'
    OBVIOUS
  <1>1. ASSUME RunnerTick PROVE Alone'
    <2>1. "runner" \in Drivers /\ OnlyTick("runner") /\ Free("runner") /\ world' = world
      BY <1>1, RunnerTickEffect DEF RunnerTick, Elsewhere
    <2>2. FreeOf({"overlap"}) => \A e \in Drivers \ {"runner"} : tick'[e].pc = "idle"
      BY <2>1 DEF Free, At, Has, FreeOf, OnlyTick
    <2> QED
      BY <2>1, <2>2 DEF Alone, FreeOf
  <1>2. ASSUME UserTick PROVE Alone'
    <2>1. "user" \in Drivers /\ OnlyTick("user") /\ Free("user") /\ world' = world
      BY <1>2, UserTickEffect DEF UserTick, Elsewhere
    <2>2. FreeOf({"overlap"}) => \A e \in Drivers \ {"user"} : tick'[e].pc = "idle"
      BY <2>1 DEF Free, At, Has, FreeOf, OnlyTick
    <2> QED
      BY <2>1, <2>2 DEF Alone, FreeOf
  <1>3. ASSUME NEW d \in Drivers, Fetch(d) PROVE Alone'
    <2>1. tick[d].pc = "fetch" /\ Fetch(d)
      BY <1>3, FetchEffect
    <2>2. UNCHANGED <<world>>
      BY <1>3 DEF Fetch, Elsewhere, account, market, snapshots, bounds
    <2>3. OnlyTick(d)
      BY <2>1, FetchEffect
    <2> QED
      BY <2>1, <2>2, <2>3, AloneRest
  <1>4. ASSUME NEW d \in Drivers, Save(d) PROVE Alone'
    <2>1. tick[d].pc \in {"fetch", "save"} /\ AfterCapture(d)
      BY <1>4 DEF Save, At
    <2>2. UNCHANGED <<world>>
      BY <1>4 DEF Save, Elsewhere, account, market, snapshots, bounds
    <2>3. OnlyTick(d)
      BY <2>1, AfterCaptureEffect, RestType
    <2> QED
      BY <2>1, <2>2, <2>3, AloneRest
  <1>5. ASSUME NEW d \in Drivers, CaptureFails(d) PROVE Alone'
    <2>1. tick[d].pc \in {"fetch", "save"} /\ AfterCapture(d)
      BY <1>5 DEF CaptureFails, At
    <2>2. UNCHANGED <<world>>
      BY <1>5 DEF CaptureFails, Elsewhere, account, market, snapshots, bounds
    <2>3. OnlyTick(d)
      BY <2>1, AfterCaptureEffect, RestType
    <2> QED
      BY <2>1, <2>2, <2>3, AloneRest
  <1>6. ASSUME NEW d \in Drivers, ReadHoldings(d) PROVE Alone'
    <2>1. tick[d].pc = "holdings" /\ ReadHoldings(d)
      BY <1>6, ReadHoldingsEffect
    <2>2. UNCHANGED <<world>>
      BY <1>6 DEF ReadHoldings, Elsewhere, account, market, snapshots, bounds
    <2>3. OnlyTick(d)
      BY <2>1, ReadHoldingsEffect
    <2> QED
      BY <2>1, <2>2, <2>3, AloneRest
  <1>7. ASSUME NEW d \in Drivers, ReadDrawdown(d) PROVE Alone'
    <2>1. tick[d].pc = "drawdown" /\ ReadDrawdown(d)
      BY <1>7, ReadDrawdownEffect
    <2>2. UNCHANGED <<world>>
      BY <1>7 DEF ReadDrawdown, Elsewhere, account, market, snapshots, bounds
    <2>3. OnlyTick(d)
      BY <2>1, ReadDrawdownEffect
    <2> QED
      BY <2>1, <2>2, <2>3, AloneRest
  <1>8. ASSUME NEW d \in Drivers, Judge(d) PROVE Alone'
    <2>1. tick[d].pc = "judge" /\ Judge(d)
      BY <1>8, JudgeEffect
    <2>2. UNCHANGED <<world>>
      BY <1>8 DEF Judge, Elsewhere, account, market, snapshots, bounds
    <2>3. OnlyTick(d)
      BY <2>1, JudgeEffect
    <2> QED
      BY <2>1, <2>2, <2>3, AloneRest
  <1>9. ASSUME NEW d \in Drivers, End(d) PROVE Alone'
    <2>1. tick[d].pc = "end" /\ Finish(d)
      BY <1>9 DEF End, At
    <2>2. UNCHANGED <<world>>
      BY <1>9 DEF End, Elsewhere, account, market, snapshots, bounds
    <2>3. OnlyTick(d)
      BY <2>1, FinishEffect, RestType
    <2> QED
      BY <2>1, <2>2, <2>3, AloneRest
  <1>10. ASSUME NEW d \in Drivers, Patrol(d) PROVE Alone'
    <2>1. tick[d].pc = "patrol" /\ (Goto(d, "sell") \/ AfterPatrol(d, "none"))
      BY <1>10 DEF Patrol, At
    <2>2. UNCHANGED <<world>>
      BY <1>10 DEF Patrol, Elsewhere, account, market, snapshots, bounds
    <2>3. OnlyTick(d)
      BY <2>1, GotoEffect, AfterPatrolEffect, WhysType, RestType DEF Labels
    <2> QED
      BY <2>1, <2>2, <2>3, AloneRest
  <1>11. ASSUME NEW d \in Drivers, Clear(d) PROVE Alone'
    <2>1. tick[d].pc = "clear" /\ (Goto(d, "sell") \/ Goto(d, "end") \/ Finish(d))
      BY <1>11 DEF Clear, At
    <2>2. UNCHANGED <<world>>
      BY <1>11 DEF Clear, Elsewhere, account, market, snapshots, bounds
    <2>3. OnlyTick(d)
      BY <2>1, GotoEffect, FinishEffect, RestType DEF Labels
    <2> QED
      BY <2>1, <2>2, <2>3, AloneRest
  <1>12. ASSUME NEW d \in Drivers, Sell(d) PROVE Alone'
    <2>1. tick[d].pc = "sell" /\ (AfterPatrol(d, Reason(tick[d].fall)) \/ Goto(d, "end") \/ Finish(d))
      BY <1>12, SellEffect
    <2>2. UNCHANGED <<world>>
      BY <1>12, SellEffect DEF Elsewhere, account, market, snapshots, bounds
    <2>3. OnlyTick(d)
      BY <2>1, GotoEffect, AfterPatrolEffect, WhysType, FinishEffect, RestType DEF Labels
    <2> QED
      BY <2>1, <2>2, <2>3, AloneRest
  <1>13. ASSUME NEW d \in Drivers, Budget(d) PROVE Alone'
    <2>1. tick[d].pc = "budget" /\ (Goto(d, "decide") \/ Finish(d))
      BY <1>13 DEF Budget, At
    <2>2. UNCHANGED <<world>>
      BY <1>13 DEF Budget, Elsewhere, account, market, snapshots, bounds
    <2>3. OnlyTick(d)
      BY <2>1, GotoEffect, FinishEffect, RestType DEF Labels
    <2> QED
      BY <2>1, <2>2, <2>3, AloneRest
  <1>14. ASSUME NEW d \in Drivers, Decide(d) PROVE Alone'
    <2>1. tick[d].pc = "decide" /\ Decide(d)
      BY <1>14, DecideEffect
    <2>2. UNCHANGED <<world>>
      BY <1>14 DEF Decide, Elsewhere, account, market, snapshots, bounds
    <2>3. OnlyTick(d)
      BY <2>1, DecideEffect, RestType
    <2> QED
      BY <2>1, <2>2, <2>3, AloneRest
  <1>15. ASSUME NEW d \in Drivers, Risk(d) PROVE Alone'
    <2>1. tick[d].pc = "risk" /\ (Goto(d, "execute") \/ Finish(d))
      BY <1>15 DEF Risk, At
    <2>2. UNCHANGED <<world>>
      BY <1>15 DEF Risk, Elsewhere, account, market, snapshots, bounds
    <2>3. OnlyTick(d)
      BY <2>1, GotoEffect, FinishEffect, RestType DEF Labels
    <2> QED
      BY <2>1, <2>2, <2>3, AloneRest
  <1>16. ASSUME NEW d \in Drivers, Execute(d) PROVE Alone'
    <2>1. tick[d].pc = "execute" /\ Finish(d)
      BY <1>16, ExecuteEffect
    <2>2. UNCHANGED <<world>>
      BY <1>16, ExecuteEffect DEF Elsewhere, account, market, snapshots, bounds
    <2>3. OnlyTick(d)
      BY <2>1, FinishEffect, RestType
    <2> QED
      BY <2>1, <2>2, <2>3, AloneRest
  <1>17. ASSUME NEW d \in Drivers, Interrupt(d) PROVE Alone'
    <2>1. tick[d].pc # "idle" /\ Finish(d)
      BY <1>17, InterruptEffect
    <2>2. UNCHANGED <<world>>
      BY <1>17, InterruptEffect DEF Elsewhere, account, market, snapshots, bounds
    <2>3. OnlyTick(d)
      BY <2>1, FinishEffect, RestType
    <2> QED
      BY <2>1, <2>2, <2>3, AloneRest
  <1>18. ASSUME Confirm PROVE Alone'
    BY <1>18 DEF Confirm, Alone, FreeOf
  <1>19. ASSUME Deadline PROVE Alone'
    BY <1>19 DEF Deadline, Alone, FreeOf
  <1>20. ASSUME Move PROVE Alone'
    BY <1>20, MoveEffect DEF Move, SameTicks, Alone, FreeOf
  <1>21. ASSUME Reset PROVE Alone'
    BY <1>21 DEF Reset, Alone, FreeOf
  <1>22. CASE UNCHANGED vars
    BY <1>22 DEF vars, Alone, FreeOf
  <1>23. ASSUME NEW side \in Sides, Arrives(side) PROVE Alone'
    BY <1>23, ArrivesEffect DEF Alone, FreeOf
  <1>24. ASSUME BarCloses PROVE Alone'
    BY <1>24, BarClosesEffect DEF BarCloses, SameTicks, Alone, FreeOf
  <1> QED
    BY <1>1, <1>2, <1>3, <1>4, <1>5, <1>6, <1>7, <1>8, <1>9, <1>10, <1>11, <1>12, <1>13,
       <1>14, <1>15, <1>16, <1>17, <1>18, <1>19, <1>20, <1>21, <1>22, <1>23,
       <1>24 DEF Next, Step

-----------------------------------------------------------------------------
\* What a tick loaded is what there is: no other tick writes a snapshot meanwhile,
\* and a reset of the peak leaves none.
View(d) ==
    /\ tick[d].pc \notin {"idle", "fetch", "save", "holdings"} => tick[d].view = snap
    /\ tick[d].pc \notin {"idle", "fetch", "save", "holdings", "drawdown"} =>
          tick[d].fall = Drawdown \/ (peak = 0 /\ Has("reset"))
Views == FreeOf({"overlap"}) => \A d \in Drivers : View(d)

LEMMA ViewsRest ==
    ASSUME Views, UNCHANGED <<world, snap, peak>>, NEW d \in Drivers, OnlyTick(d),
           FreeOf({"overlap"}) => View(d)'
    PROVE  Views'
  <1>1. UNCHANGED <<snap, peak>> => Drawdown' = Drawdown
    BY DEF Drawdown, Equity
  <1>2. ASSUME FreeOf({"overlap"}), NEW e \in Drivers \ {d} PROVE View(e)'
    <2>1. View(e) /\ tick'[e] = tick[e]
      BY <1>2 DEF Views, OnlyTick
    <2> QED
      BY <1>1, <2>1 DEF View, Has
  <1> QED
    BY <1>2 DEF Views, FreeOf
\* Every step keeps the views.
LEMMA ViewsNext == TypeOK /\ Alone /\ Views /\ [Next]_vars => Views'
  <1> SUFFICES ASSUME TypeOK, Alone, Views, [Next]_vars PROVE Views'
    OBVIOUS
  <1> DEFINE Begins == {"idle", "fetch", "save", "holdings"}
  <1>1. ASSUME RunnerTick PROVE Views'
    <2>1. "runner" \in Drivers /\ OnlyTick("runner") /\ tick'["runner"].pc \in Begins
      BY <1>1, RunnerTickEffect
    <2>2. UNCHANGED <<world, snap, peak>>
      BY <1>1 DEF RunnerTick, Elsewhere, account, market, snapshots, bounds
    <2> QED
      BY <2>1, <2>2, ViewsRest DEF View
  <1>2. ASSUME UserTick PROVE Views'
    <2>1. "user" \in Drivers /\ OnlyTick("user") /\ tick'["user"].pc \in Begins
      BY <1>2, UserTickEffect
    <2>2. UNCHANGED <<world, snap, peak>>
      BY <1>2 DEF UserTick, Elsewhere, account, market, snapshots, bounds
    <2> QED
      BY <2>1, <2>2, ViewsRest DEF View
  <1>3. ASSUME NEW d \in Drivers, Fetch(d) PROVE Views'
    <2>1. tick[d].pc = "fetch" /\ Fetch(d)
      BY <1>3, FetchEffect
    <2>2. UNCHANGED <<world, snap, peak>>
      BY <1>3 DEF Fetch, Elsewhere, account, market, snapshots, bounds
    <2>3. OnlyTick(d) /\ tick'[d].pc \in Begins
      BY <2>1, FetchEffect
    <2> QED
      BY <2>2, <2>3, ViewsRest DEF View
  <1>4. ASSUME NEW d \in Drivers, Save(d) PROVE Views'
    <2>1. tick[d].pc \in {"fetch", "save"} /\ AfterCapture(d)
      BY <1>4 DEF Save, At
    <2>2. OnlyTick(d) /\ tick'[d].pc \in Begins /\ world' = world
      BY <1>4, <2>1, AfterCaptureEffect, RestType DEF Save
    <2>3. FreeOf({"overlap"}) => \A e \in Drivers \ {d} : tick'[e].pc = "idle"
      BY <2>1, <2>2 DEF Alone, OnlyTick
    <2> QED
      BY <2>2, <2>3 DEF Views, View, FreeOf
  <1>5. ASSUME NEW d \in Drivers, CaptureFails(d) PROVE Views'
    <2>1. tick[d].pc \in {"fetch", "save"} /\ AfterCapture(d)
      BY <1>5 DEF CaptureFails, At
    <2>2. UNCHANGED <<world, snap, peak>>
      BY <1>5 DEF CaptureFails, Elsewhere, account, market, snapshots, bounds
    <2>3. OnlyTick(d) /\ tick'[d].pc \in Begins
      BY <2>1, AfterCaptureEffect, RestType
    <2> QED
      BY <2>2, <2>3, ViewsRest DEF View
  <1>6. ASSUME NEW d \in Drivers, ReadHoldings(d) PROVE Views'
    <2>1. tick[d].pc = "holdings" /\ ReadHoldings(d)
      BY <1>6, ReadHoldingsEffect
    <2>2. UNCHANGED <<world, snap, peak>>
      BY <1>6 DEF ReadHoldings, Elsewhere, account, market, snapshots, bounds
    <2>3. OnlyTick(d) /\ tick'[d].pc = "drawdown" /\ tick'[d].view = snap
      BY <2>1, ReadHoldingsEffect
    <2> QED
      BY <2>2, <2>3, ViewsRest DEF View
  <1>7. ASSUME NEW d \in Drivers, ReadDrawdown(d) PROVE Views'
    <2>1. tick[d].pc = "drawdown" /\ ReadDrawdown(d)
      BY <1>7, ReadDrawdownEffect
    <2>2. UNCHANGED <<world, snap, peak>>
      BY <1>7 DEF ReadDrawdown, Elsewhere, account, market, snapshots, bounds
    <2>3. OnlyTick(d) /\ tick'[d].view = tick[d].view /\ tick'[d].fall = Drawdown
      BY <2>1, ReadDrawdownEffect
    <2>4. Drawdown' = Drawdown
      BY <2>2 DEF Drawdown, Equity
    <2>5. FreeOf({"overlap"}) => View(d)'
      BY <2>1, <2>2, <2>3, <2>4 DEF View, Views
    <2> QED
      BY <2>2, <2>3, <2>5, ViewsRest
  <1>8. ASSUME NEW d \in Drivers, Judge(d) PROVE Views'
    <2>1. tick[d].pc = "judge" /\ Judge(d)
      BY <1>8, JudgeEffect
    <2>2. UNCHANGED <<world, snap, peak>>
      BY <1>8 DEF Judge, Elsewhere, account, market, snapshots, bounds
    <2>3. OnlyTick(d)
          /\ \/ tick'[d].pc \in Begins
             \/ tick'[d].view = tick[d].view /\ tick'[d].fall = tick[d].fall
      BY <2>1, JudgeEffect DEF Labels
    <2>4. Drawdown' = Drawdown
      BY <2>2 DEF Drawdown, Equity
    <2>5. FreeOf({"overlap"}) => View(d)'
      BY <2>1, <2>2, <2>3, <2>4 DEF View, Views, Has
    <2> QED
      BY <2>2, <2>3, <2>5, ViewsRest
  <1>9. ASSUME NEW d \in Drivers, End(d) PROVE Views'
    <2>1. tick[d].pc = "end" /\ Finish(d)
      BY <1>9 DEF End, At
    <2>2. UNCHANGED <<world, snap, peak>>
      BY <1>9 DEF End, Elsewhere, account, market, snapshots, bounds
    <2>3. OnlyTick(d) /\ tick'[d].pc \in Begins
      BY <2>1, FinishEffect, RestType
    <2> QED
      BY <2>2, <2>3, ViewsRest DEF View
  <1>10. ASSUME NEW d \in Drivers, Patrol(d) PROVE Views'
    <2>1. tick[d].pc = "patrol" /\ (Goto(d, "sell") \/ AfterPatrol(d, "none"))
      BY <1>10 DEF Patrol, At
    <2>2. UNCHANGED <<world, snap, peak>>
      BY <1>10 DEF Patrol, Elsewhere, account, market, snapshots, bounds
    <2>3. OnlyTick(d)
          /\ \/ tick'[d].pc \in Begins
             \/ tick'[d].view = tick[d].view /\ tick'[d].fall = tick[d].fall
      BY <2>1, GotoEffect, AfterPatrolEffect, WhysType, RestType DEF Labels
    <2>4. Drawdown' = Drawdown
      BY <2>2 DEF Drawdown, Equity
    <2>5. FreeOf({"overlap"}) => View(d)'
      BY <2>1, <2>2, <2>3, <2>4 DEF View, Views, Has
    <2> QED
      BY <2>2, <2>3, <2>5, ViewsRest
  <1>11. ASSUME NEW d \in Drivers, Clear(d) PROVE Views'
    <2>1. tick[d].pc = "clear" /\ (Goto(d, "sell") \/ Goto(d, "end") \/ Finish(d))
      BY <1>11 DEF Clear, At
    <2>2. UNCHANGED <<world, snap, peak>>
      BY <1>11 DEF Clear, Elsewhere, account, market, snapshots, bounds
    <2>3. OnlyTick(d)
          /\ \/ tick'[d].pc \in Begins
             \/ tick'[d].view = tick[d].view /\ tick'[d].fall = tick[d].fall
      BY <2>1, GotoEffect, FinishEffect, RestType DEF Labels
    <2>4. Drawdown' = Drawdown
      BY <2>2 DEF Drawdown, Equity
    <2>5. FreeOf({"overlap"}) => View(d)'
      BY <2>1, <2>2, <2>3, <2>4 DEF View, Views, Has
    <2> QED
      BY <2>2, <2>3, <2>5, ViewsRest
  <1>12. ASSUME NEW d \in Drivers, Sell(d) PROVE Views'
    <2>1. tick[d].pc = "sell" /\ (AfterPatrol(d, Reason(tick[d].fall)) \/ Goto(d, "end") \/ Finish(d))
      BY <1>12, SellEffect
    <2>2. UNCHANGED <<world, snap, peak>>
      BY <1>12, SellEffect DEF Elsewhere, account, market, snapshots, bounds
    <2>3. OnlyTick(d)
          /\ \/ tick'[d].pc \in Begins
             \/ tick'[d].view = tick[d].view /\ tick'[d].fall = tick[d].fall
      BY <2>1, GotoEffect, AfterPatrolEffect, WhysType, FinishEffect, RestType DEF Labels
    <2>4. Drawdown' = Drawdown
      BY <2>2 DEF Drawdown, Equity
    <2>5. FreeOf({"overlap"}) => View(d)'
      BY <2>1, <2>2, <2>3, <2>4 DEF View, Views, Has
    <2> QED
      BY <2>2, <2>3, <2>5, ViewsRest
  <1>13. ASSUME NEW d \in Drivers, Budget(d) PROVE Views'
    <2>1. tick[d].pc = "budget" /\ (Goto(d, "decide") \/ Finish(d))
      BY <1>13 DEF Budget, At
    <2>2. UNCHANGED <<world, snap, peak>>
      BY <1>13 DEF Budget, Elsewhere, account, market, snapshots, bounds
    <2>3. OnlyTick(d)
          /\ \/ tick'[d].pc \in Begins
             \/ tick'[d].view = tick[d].view /\ tick'[d].fall = tick[d].fall
      BY <2>1, GotoEffect, FinishEffect, RestType DEF Labels
    <2>4. Drawdown' = Drawdown
      BY <2>2 DEF Drawdown, Equity
    <2>5. FreeOf({"overlap"}) => View(d)'
      BY <2>1, <2>2, <2>3, <2>4 DEF View, Views, Has
    <2> QED
      BY <2>2, <2>3, <2>5, ViewsRest
  <1>14. ASSUME NEW d \in Drivers, Decide(d) PROVE Views'
    <2>1. tick[d].pc = "decide" /\ Decide(d)
      BY <1>14, DecideEffect
    <2>2. UNCHANGED <<world, snap, peak>>
      BY <1>14 DEF Decide, Elsewhere, account, market, snapshots, bounds
    <2>3. OnlyTick(d) /\ tick'[d].pc \in Begins
      BY <2>1, DecideEffect, RestType
    <2> QED
      BY <2>2, <2>3, ViewsRest DEF View
  <1>15. ASSUME NEW d \in Drivers, Risk(d) PROVE Views'
    <2>1. tick[d].pc = "risk" /\ (Goto(d, "execute") \/ Finish(d))
      BY <1>15 DEF Risk, At
    <2>2. UNCHANGED <<world, snap, peak>>
      BY <1>15 DEF Risk, Elsewhere, account, market, snapshots, bounds
    <2>3. OnlyTick(d)
          /\ \/ tick'[d].pc \in Begins
             \/ tick'[d].view = tick[d].view /\ tick'[d].fall = tick[d].fall
      BY <2>1, GotoEffect, FinishEffect, RestType DEF Labels
    <2>4. Drawdown' = Drawdown
      BY <2>2 DEF Drawdown, Equity
    <2>5. FreeOf({"overlap"}) => View(d)'
      BY <2>1, <2>2, <2>3, <2>4 DEF View, Views, Has
    <2> QED
      BY <2>2, <2>3, <2>5, ViewsRest
  <1>16. ASSUME NEW d \in Drivers, Execute(d) PROVE Views'
    <2>1. tick[d].pc = "execute" /\ Finish(d)
      BY <1>16, ExecuteEffect
    <2>2. UNCHANGED <<world, snap, peak>>
      BY <1>16, ExecuteEffect DEF Elsewhere, account, market, snapshots, bounds
    <2>3. OnlyTick(d) /\ tick'[d].pc \in Begins
      BY <2>1, FinishEffect, RestType
    <2> QED
      BY <2>2, <2>3, ViewsRest DEF View
  <1>17. ASSUME NEW d \in Drivers, Interrupt(d) PROVE Views'
    <2>1. tick[d].pc # "idle" /\ Finish(d)
      BY <1>17, InterruptEffect
    <2>2. UNCHANGED <<world, snap, peak>>
      BY <1>17, InterruptEffect DEF Elsewhere, account, market, snapshots, bounds
    <2>3. OnlyTick(d) /\ tick'[d].pc \in Begins
      BY <2>1, FinishEffect, RestType
    <2> QED
      BY <2>2, <2>3, ViewsRest DEF View
  <1>18. ASSUME Confirm PROVE Views'
    <2>1. UNCHANGED <<world, snap, peak, tick>>
      BY <1>18 DEF Confirm, Elsewhere, account, market, snapshots, bounds
    <2>2. Drawdown' = Drawdown
      BY <2>1 DEF Drawdown, Equity
    <2> QED
      BY <2>1, <2>2 DEF Views, View, FreeOf, Has
  <1>19. ASSUME Deadline PROVE Views'
    <2>1. UNCHANGED <<world, snap, peak, tick>>
      BY <1>19 DEF Deadline, Elsewhere, account, market, snapshots, bounds
    <2>2. Drawdown' = Drawdown
      BY <2>1 DEF Drawdown, Equity
    <2> QED
      BY <2>1, <2>2 DEF Views, View, FreeOf, Has
  <1>20. ASSUME Move PROVE Views'
    <2>1. UNCHANGED <<world, snap, peak>>
      BY <1>20 DEF Move, Elsewhere, account, market, snapshots, bounds
    <2>2. Drawdown' = Drawdown
      BY <2>1 DEF Drawdown, Equity
    <2> QED
      BY <1>20, <2>1, <2>2, MoveEffect DEF SameTicks, Views, View, FreeOf, Has
  <1>21. ASSUME Reset PROVE Views'
    <2>1. peak' = 0 /\ Has("reset") /\ UNCHANGED <<world, snap, tick>>
      BY <1>21 DEF Reset
    <2> QED
      BY <2>1 DEF Views, View, FreeOf, Has
  <1>22. CASE UNCHANGED vars
    <2>1. UNCHANGED <<world, snap, peak, tick>>
      BY <1>22 DEF vars, Elsewhere, account, market, snapshots, bounds
    <2>2. Drawdown' = Drawdown
      BY <2>1 DEF Drawdown, Equity
    <2> QED
      BY <2>1, <2>2 DEF Views, View, FreeOf, Has
  <1>23. ASSUME NEW side \in Sides, Arrives(side) PROVE Views'
    <2>1. UNCHANGED <<world, snap, peak, tick>>
      BY <1>23, ArrivesEffect DEF snapshots
    <2>2. Drawdown' = Drawdown
      BY <2>1 DEF Drawdown, Equity
    <2> QED
      BY <2>1, <2>2 DEF Views, View, FreeOf, Has
  <1>24. ASSUME BarCloses PROVE Views'
    <2>1. UNCHANGED <<world, snap, peak>>
      BY <1>24 DEF BarCloses, snapshots
    <2>2. Drawdown' = Drawdown
      BY <2>1 DEF Drawdown, Equity
    <2> QED
      BY <1>24, <2>1, <2>2, BarClosesEffect DEF SameTicks, Views, View, FreeOf, Has
  <1> QED
    BY <1>1, <1>2, <1>3, <1>4, <1>5, <1>6, <1>7, <1>8, <1>9, <1>10, <1>11, <1>12, <1>13,
       <1>14, <1>15, <1>16, <1>17, <1>18, <1>19, <1>20, <1>21, <1>22, <1>23,
       <1>24 DEF Next, Step

-----------------------------------------------------------------------------
\* A higher high leaves a stopped position stopped, and no high stops none.
LEMMA StoppedStays ==
    ASSUME NEW top \in Nat, NEW higher \in Nat, top <= higher, NEW p \in Nat, Stopped(top, p)
    PROVE  Stopped(higher, p) /\ top # 0
  <1> DEFINE more == higher - top
  <1>1. p > 0 /\ (top - p) * 100 >= StopLoss * top /\ StopLoss \in Nat
    BY Bounds DEF Stopped
  <1>2. StopLoss * top \in Nat
    BY <1>1, Products
  <1>3. top # 0
    BY <1>1
  <1>4. StopLoss < 100
    <2>1. SUFFICES ASSUME StopLoss >= 100 PROVE FALSE
      BY <1>1
    <2>2. 100 * top <= StopLoss * top
      BY <1>1, <2>1, Products, SMT
    <2> HIDE DEF Stopped
    <2> QED
      BY <1>1, <1>2, <2>2
  <1>5. more \in Nat /\ higher = top + more
    OBVIOUS
  <1>6. StopLoss * more <= 100 * more
    BY <1>1, <1>4, <1>5, Products, SMT
  <1>7. StopLoss * higher = StopLoss * top + StopLoss * more /\ StopLoss * more \in Nat
    BY <1>1, <1>5, SMT
  <1>8. (higher - p) * 100 = (top - p) * 100 + 100 * more
    BY <1>5
  <1> QED
    BY <1>1, <1>2, <1>3, <1>5, <1>6, <1>7, <1>8, Products DEF Stopped
\* A patrol that finds a breach finds it against the high there is.
LEMMA HighsStop ==
    ASSUME TypeOK, NEW top \in Highs, NEW p \in Nat, Stopped(top, p)
    PROVE  top = high /\ Stopped(high, p)
  <1>1. high \in Nat /\ top \in {0, high}
    BY Bounds DEF TypeOK, Highs
  <1>2. top # 0
    BY <1>1, StoppedStays
  <1> QED
    BY <1>1, <1>2

\* A position that the patrol had to sell is one that no rule lets the tick buy.
\* For a stop this holds until the high that stopped it leaves the window.
Barred == Has("slide") \/ Stopped(high, snap.price)
Bad(why) == snap.held > 0 /\ (Drawdown # "ok" \/ (why = "stop" /\ Barred))
Refuses(d) ==
    /\ tick[d].pc = "sell" /\ tick[d].stage = "patrol" => Bad(Reason(tick[d].fall))
    /\ tick[d].closed # "none" => Bad(tick[d].closed)
    /\ tick[d].closed # "none" /\ tick[d].pc = "risk" =>
          tick[d].fall # "ok" \/ (tick[d].closed = "stop" /\ Barred)
    /\ tick[d].closed # "none" /\ tick[d].pc = "execute" =>
          tick[d].want # "buy" \/ (tick[d].closed = "stop" /\ Has("slide"))
Refused == FreeOf({"overlap"}) => \A d \in Drivers : Refuses(d)

\* As long as snapshots stay, only the tick that moves has to be looked at.
LEMMA BadStays ==
    ASSUME TypeOK, TypeOK', UNCHANGED <<world, snap>>, peak' = peak \/ peak' = 0,
           Has("slide") \/ high <= high'
    PROVE  /\ \A why : Bad(why) => Bad(why)'
           /\ Barred => Barred'
  <1>1. high \in Nat /\ high' \in Nat /\ snap.price \in Nat
    <2>1. snap.price \in Prices \cup {0}
      BY DEF TypeOK, Snaps
    <2> QED
      BY <2>1, Numbers DEF TypeOK
  <1>2. Barred => Barred'
    <2>1. CASE Has("slide")
      BY <2>1 DEF Barred, Has
    <2>2. CASE ~Has("slide")
      BY <1>1, <2>2, StoppedStays DEF Barred
    <2> QED
      BY <2>1, <2>2
  <1>3. Drawdown # "ok" => Drawdown' # "ok"
    BY DEF Drawdown, Equity
  <1> QED
    BY <1>2, <1>3 DEF Bad
LEMMA RefusedRest ==
    ASSUME TypeOK, TypeOK', Refused, UNCHANGED <<world, snap, peak, high>>,
           NEW d \in Drivers, OnlyTick(d), FreeOf({"overlap"}) => Refuses(d)'
    PROVE  Refused'
  <1>1. high \in Nat
    BY Numbers DEF TypeOK
  <1>2. ASSUME FreeOf({"overlap"}), NEW e \in Drivers \ {d} PROVE Refuses(e)'
    <2>1. Refuses(e) /\ tick'[e] = tick[e]
      BY <1>2 DEF Refused, OnlyTick
    <2> QED
      BY <1>1, <2>1, BadStays DEF Refuses, Has
  <1> QED
    BY <1>2 DEF Refused, FreeOf
LEMMA RefusedSame ==
    ASSUME Refused, SameTicks, world' = world, \A why : Bad(why) => Bad(why)',
           Barred => Barred'
    PROVE  Refused'
  BY DEF SameTicks, Refused, Refuses, FreeOf, Has
\* Every step refuses what the patrol sold.
LEMMA RefusedNext ==
    /\ TypeOK /\ Flows /\ Alone /\ Views /\ Refused /\ [Next]_vars
    /\ TypeOK'
    => Refused'
  <1> SUFFICES ASSUME TypeOK, Flows, Alone, Views, Refused, [Next]_vars, TypeOK' PROVE Refused'
    OBVIOUS
  <1>1. ASSUME RunnerTick PROVE Refused'
    <2>1. /\ "runner" \in Drivers /\ OnlyTick("runner")
          /\ tick'["runner"].closed = "none" /\ tick'["runner"].pc # "sell"
      BY <1>1, RunnerTickEffect
    <2>2. UNCHANGED <<world, snap, peak, high>>
      BY <1>1 DEF RunnerTick, Elsewhere, account, market, snapshots, bounds
    <2> QED
      BY <2>1, <2>2, RefusedRest DEF Refuses
  <1>2. ASSUME UserTick PROVE Refused'
    <2>1. /\ "user" \in Drivers /\ OnlyTick("user")
          /\ tick'["user"].closed = "none" /\ tick'["user"].pc # "sell"
      BY <1>2, UserTickEffect
    <2>2. UNCHANGED <<world, snap, peak, high>>
      BY <1>2 DEF UserTick, Elsewhere, account, market, snapshots, bounds
    <2> QED
      BY <2>1, <2>2, RefusedRest DEF Refuses
  <1>3. ASSUME NEW d \in Drivers, Fetch(d) PROVE Refused'
    <2>1. tick[d].pc = "fetch" /\ Fetch(d)
      BY <1>3, FetchEffect
    <2>2. UNCHANGED <<world, snap, peak, high>>
      BY <1>3 DEF Fetch, Elsewhere, account, market, snapshots, bounds
    <2>high. high <= high' /\ high \in Nat
      BY <2>2, Numbers DEF TypeOK
    <2>3. Flow(tick[d])
      BY DEF Flows
    <2>4. /\ OnlyTick(d) /\ tick'[d].closed \in {tick[d].closed, "none"}
          /\ tick'[d].pc \notin {"risk", "execute"} /\ (tick'[d].pc # "sell")
      BY <2>1, <2>3, FetchEffect DEF Labels, Flow
    <2>5. \A why : Bad(why) => Bad(why)'
      BY <2>2, <2>high, BadStays
    <2>6. FreeOf({"overlap"}) => Refuses(d)'
      BY <2>4, <2>5 DEF Refused, Refuses
    <2> QED
      BY <2>2, <2>4, <2>6, RefusedRest
  <1>4. ASSUME NEW d \in Drivers, Save(d) PROVE Refused'
    <2>1. tick[d].pc \in {"fetch", "save"} /\ AfterCapture(d)
      BY <1>4 DEF Save, At
    <2>2. OnlyTick(d) /\ tick'[d].closed = "none" /\ tick'[d].pc # "sell" /\ world' = world
      BY <1>4, <2>1, AfterCaptureEffect, RestType DEF Save, Flows, Flow
    <2>3. FreeOf({"overlap"}) =>
             \A e \in Drivers \ {d} : tick'[e].pc = "idle" /\ tick'[e].closed = "none"
      BY <2>1, <2>2 DEF Alone, OnlyTick, Flows, Flow
    <2> QED
      BY <2>2, <2>3 DEF Refused, Refuses, FreeOf
  <1>5. ASSUME NEW d \in Drivers, CaptureFails(d) PROVE Refused'
    <2>1. tick[d].pc \in {"fetch", "save"} /\ AfterCapture(d)
      BY <1>5 DEF CaptureFails, At
    <2>2. UNCHANGED <<world, snap, peak, high>>
      BY <1>5 DEF CaptureFails, Elsewhere, account, market, snapshots, bounds
    <2>high. high <= high' /\ high \in Nat
      BY <2>2, Numbers DEF TypeOK
    <2>3. Flow(tick[d])
      BY DEF Flows
    <2>4. /\ OnlyTick(d) /\ tick'[d].closed \in {tick[d].closed, "none"}
          /\ tick'[d].pc \notin {"risk", "execute"} /\ (tick'[d].pc # "sell")
      BY <2>1, <2>3, AfterCaptureEffect, RestType DEF Labels, Flow
    <2>5. \A why : Bad(why) => Bad(why)'
      BY <2>2, <2>high, BadStays
    <2>6. FreeOf({"overlap"}) => Refuses(d)'
      BY <2>4, <2>5 DEF Refused, Refuses
    <2> QED
      BY <2>2, <2>4, <2>6, RefusedRest
  <1>6. ASSUME NEW d \in Drivers, ReadHoldings(d) PROVE Refused'
    <2>1. tick[d].pc = "holdings" /\ ReadHoldings(d)
      BY <1>6, ReadHoldingsEffect
    <2>2. UNCHANGED <<world, snap, peak, high>>
      BY <1>6 DEF ReadHoldings, Elsewhere, account, market, snapshots, bounds
    <2>high. high <= high' /\ high \in Nat
      BY <2>2, Numbers DEF TypeOK
    <2>3. Flow(tick[d])
      BY DEF Flows
    <2>4. /\ OnlyTick(d) /\ tick'[d].closed \in {tick[d].closed, "none"}
          /\ tick'[d].pc \notin {"risk", "execute"} /\ (tick'[d].pc # "sell")
      BY <2>1, <2>3, ReadHoldingsEffect DEF Labels, Flow
    <2>5. \A why : Bad(why) => Bad(why)'
      BY <2>2, <2>high, BadStays
    <2>6. FreeOf({"overlap"}) => Refuses(d)'
      BY <2>4, <2>5 DEF Refused, Refuses
    <2> QED
      BY <2>2, <2>4, <2>6, RefusedRest
  <1>7. ASSUME NEW d \in Drivers, ReadDrawdown(d) PROVE Refused'
    <2>1. tick[d].pc = "drawdown" /\ ReadDrawdown(d)
      BY <1>7, ReadDrawdownEffect
    <2>2. UNCHANGED <<world, snap, peak, high>>
      BY <1>7 DEF ReadDrawdown, Elsewhere, account, market, snapshots, bounds
    <2>high. high <= high' /\ high \in Nat
      BY <2>2, Numbers DEF TypeOK
    <2>3. /\ OnlyTick(d) /\ tick'[d].closed = tick[d].closed
          /\ tick'[d].pc = tick[d].stage /\ tick'[d].fall = Drawdown
      BY <2>1, ReadDrawdownEffect
    <2>4. tick[d].stage \in {"judge", "patrol", "clear", "risk"}
      BY <2>1 DEF Flows, Flow
    <2>5. /\ \A why : Bad(why) => Bad(why)'
          /\ Barred => Barred'
      BY <2>2, <2>high, BadStays
    <2>6. FreeOf({"overlap"}) => Refuses(d)'
      BY <2>3, <2>4, <2>5 DEF Refused, Refuses, Bad
    <2> QED
      BY <2>2, <2>3, <2>6, RefusedRest
  <1>8. ASSUME NEW d \in Drivers, Judge(d) PROVE Refused'
    <2>1. tick[d].pc = "judge" /\ Judge(d)
      BY <1>8, JudgeEffect
    <2>2. UNCHANGED <<world, snap, peak, high>>
      BY <1>8 DEF Judge, Elsewhere, account, market, snapshots, bounds
    <2>high. high <= high' /\ high \in Nat
      BY <2>2, Numbers DEF TypeOK
    <2>3. Flow(tick[d])
      BY DEF Flows
    <2>4. /\ OnlyTick(d) /\ tick'[d].closed \in {tick[d].closed, "none"}
          /\ tick'[d].pc \notin {"risk", "execute"} /\ (tick'[d].pc # "sell")
      BY <2>1, <2>3, JudgeEffect DEF Labels, Flow
    <2>5. \A why : Bad(why) => Bad(why)'
      BY <2>2, <2>high, BadStays
    <2>6. FreeOf({"overlap"}) => Refuses(d)'
      BY <2>4, <2>5 DEF Refused, Refuses
    <2> QED
      BY <2>2, <2>4, <2>6, RefusedRest
  <1>9. ASSUME NEW d \in Drivers, End(d) PROVE Refused'
    <2>1. tick[d].pc = "end" /\ Finish(d)
      BY <1>9 DEF End, At
    <2>2. UNCHANGED <<world, snap, peak, high>>
      BY <1>9 DEF End, Elsewhere, account, market, snapshots, bounds
    <2>3. OnlyTick(d) /\ tick'[d].closed = "none" /\ tick'[d].pc # "sell"
      BY <2>1, FinishEffect, RestType
    <2> QED
      BY <2>2, <2>3, RefusedRest DEF Refuses
  <1>10. ASSUME NEW d \in Drivers, Patrol(d) PROVE Refused'
    <2>1. PICK top \in Highs :
             \/ Breaches(tick[d].view, tick[d].fall, top) /\ Goto(d, "sell")
             \/ AfterPatrol(d, "none")
      BY <1>10 DEF Patrol
    <2>2. tick[d].pc = "patrol" /\ UNCHANGED <<world, snap, peak, high>>
      BY <1>10 DEF Patrol, At, Elsewhere, account, market, snapshots, bounds
    <2>3. tick[d].closed = "none"
      BY <2>2 DEF Flows, Flow
    <2>4. CASE Breaches(tick[d].view, tick[d].fall, top) /\ Goto(d, "sell")
      <3>1. /\ OnlyTick(d) /\ tick'[d].pc = "sell" /\ tick'[d].closed = tick[d].closed
            /\ tick'[d].fall = tick[d].fall
        BY <2>4, GotoEffect DEF Labels
      <3>2. FreeOf({"overlap"}) => Bad(Reason(tick[d].fall))
        <4>1. SUFFICES ASSUME FreeOf({"overlap"}) PROVE Bad(Reason(tick[d].fall))
          OBVIOUS
        <4>2. tick[d].view = snap /\ (tick[d].fall = Drawdown \/ peak = 0)
          BY <2>2, <4>1 DEF Views, View
        <4>3. snap.price \in Nat
          <5>1. snap.price \in Prices \cup {0}
            BY DEF TypeOK, Snaps
          <5> QED
            BY <5>1, Numbers
        <4>4. snap.held > 0 /\ (tick[d].fall = "breached" \/ Stopped(high, snap.price))
          BY <2>4, <4>2, <4>3, HighsStop DEF Breaches
        <4> QED
          BY <4>2, <4>4 DEF Bad, Barred, Drawdown, Reason
      <3>3. FreeOf({"overlap"}) => Bad(Reason(tick[d].fall))'
        <4>1. high <= high'
          BY <2>2, Numbers DEF TypeOK
        <4> QED
          BY <2>2, <3>1, <3>2, <4>1, BadStays DEF Reason
      <3> QED
        BY <2>2, <2>3, <3>1, <3>3, RefusedRest DEF Refuses
    <2>5. CASE AfterPatrol(d, "none")
      <3>1. OnlyTick(d) /\ tick'[d].closed = "none" /\ tick'[d].pc # "sell"
        BY <2>3, <2>5, AfterPatrolEffect, WhysType, RestType
      <3> QED
        BY <2>2, <3>1, RefusedRest DEF Refuses
    <2> QED
      BY <2>1, <2>4, <2>5
  <1>11. ASSUME NEW d \in Drivers, Clear(d) PROVE Refused'
    <2>1. tick[d].pc = "clear" /\ (Goto(d, "sell") \/ Goto(d, "end") \/ Finish(d))
      BY <1>11 DEF Clear, At
    <2>2. UNCHANGED <<world, snap, peak, high>>
      BY <1>11 DEF Clear, Elsewhere, account, market, snapshots, bounds
    <2>high. high <= high' /\ high \in Nat
      BY <2>2, Numbers DEF TypeOK
    <2>3. Flow(tick[d])
      BY DEF Flows
    <2>4. /\ OnlyTick(d) /\ tick'[d].closed \in {tick[d].closed, "none"}
          /\ tick'[d].pc \notin {"risk", "execute"}
          /\ (tick'[d].pc = "sell" => tick'[d].stage = "clear")
      BY <2>1, <2>3, GotoEffect, FinishEffect, RestType DEF Labels, Flow
    <2>5. \A why : Bad(why) => Bad(why)'
      BY <2>2, <2>high, BadStays
    <2>6. FreeOf({"overlap"}) => Refuses(d)'
      BY <2>4, <2>5 DEF Refused, Refuses
    <2> QED
      BY <2>2, <2>4, <2>6, RefusedRest
  <1>12. ASSUME NEW d \in Drivers, Sell(d) PROVE Refused'
    <2>1. tick[d].pc = "sell" /\ (AfterPatrol(d, Reason(tick[d].fall)) \/ Goto(d, "end") \/ Finish(d))
      BY <1>12, SellEffect
    <2>2. UNCHANGED <<world, snap, peak, high>>
      BY <1>12, SellEffect DEF Elsewhere, account, market, snapshots, bounds
    <2>high. high <= high' /\ high \in Nat
      BY <2>2, Numbers DEF TypeOK
    <2>3. \A why : Bad(why) => Bad(why)'
      BY <2>2, <2>high, BadStays
    <2>4. tick[d].stage \in {"patrol", "clear"} /\ tick[d].closed = "none" /\ Ending(tick[d])
      BY <2>1 DEF Flows, Flow
    <2>5. OnlyTick(d) /\ tick'[d].pc \notin {"sell", "risk", "execute"}
      BY <2>1, GotoEffect, AfterPatrolEffect, WhysType, FinishEffect, RestType DEF Labels
    <2>6. tick'[d].closed # "none" =>
             tick[d].stage = "patrol" /\ tick'[d].closed = Reason(tick[d].fall)
      <3>1. tick[d].stage = "clear" => tick'[d].closed = "none"
        BY <1>12, <2>4, SellEffect, GotoEffect, FinishEffect, RestType DEF Ending, Labels
      <3>2. tick'[d].closed \in {"none", Reason(tick[d].fall)}
        BY <2>1, <2>4, GotoEffect, AfterPatrolEffect, WhysType, FinishEffect, RestType DEF Labels
      <3> QED
        BY <2>4, <3>1, <3>2
    <2>7. FreeOf({"overlap"}) => Refuses(d)'
      BY <2>1, <2>3, <2>5, <2>6 DEF Refused, Refuses
    <2> QED
      BY <2>2, <2>5, <2>7, RefusedRest
  <1>13. ASSUME NEW d \in Drivers, Budget(d) PROVE Refused'
    <2>1. tick[d].pc = "budget" /\ (Goto(d, "decide") \/ Finish(d))
      BY <1>13 DEF Budget, At
    <2>2. UNCHANGED <<world, snap, peak, high>>
      BY <1>13 DEF Budget, Elsewhere, account, market, snapshots, bounds
    <2>high. high <= high' /\ high \in Nat
      BY <2>2, Numbers DEF TypeOK
    <2>3. Flow(tick[d])
      BY DEF Flows
    <2>4. /\ OnlyTick(d) /\ tick'[d].closed \in {tick[d].closed, "none"}
          /\ tick'[d].pc \notin {"risk", "execute"} /\ (tick'[d].pc # "sell")
      BY <2>1, <2>3, GotoEffect, FinishEffect, RestType DEF Labels, Flow
    <2>5. \A why : Bad(why) => Bad(why)'
      BY <2>2, <2>high, BadStays
    <2>6. FreeOf({"overlap"}) => Refuses(d)'
      BY <2>4, <2>5 DEF Refused, Refuses
    <2> QED
      BY <2>2, <2>4, <2>6, RefusedRest
  <1>14. ASSUME NEW d \in Drivers, Decide(d) PROVE Refused'
    <2>1. tick[d].pc = "decide" /\ Decide(d)
      BY <1>14, DecideEffect
    <2>2. UNCHANGED <<world, snap, peak, high>>
      BY <1>14 DEF Decide, Elsewhere, account, market, snapshots, bounds
    <2>high. high <= high' /\ high \in Nat
      BY <2>2, Numbers DEF TypeOK
    <2>3. Flow(tick[d])
      BY DEF Flows
    <2>4. /\ OnlyTick(d) /\ tick'[d].closed \in {tick[d].closed, "none"}
          /\ tick'[d].pc \notin {"risk", "execute"} /\ (tick'[d].pc # "sell")
      BY <2>1, <2>3, DecideEffect, RestType DEF Labels, Flow
    <2>5. \A why : Bad(why) => Bad(why)'
      BY <2>2, <2>high, BadStays
    <2>6. FreeOf({"overlap"}) => Refuses(d)'
      BY <2>4, <2>5 DEF Refused, Refuses
    <2> QED
      BY <2>2, <2>4, <2>6, RefusedRest
  <1>15. ASSUME NEW d \in Drivers, Risk(d) PROVE Refused'
    <2>1. tick[d].pc = "risk" /\ UNCHANGED <<world, snap, peak, high>>
      BY <1>15 DEF Risk, At, Elsewhere, account, market, snapshots, bounds
    <2>2. CASE Finish(d)
      <3>1. OnlyTick(d) /\ tick'[d].closed = "none" /\ tick'[d].pc # "sell"
        BY <2>2, FinishEffect, RestType
      <3> QED
        BY <2>1, <3>1, RefusedRest DEF Refuses
    <2>3. CASE /\ tick[d].want = "buy" =>
                    \E top \in Highs : MayBuy(tick[d].view, tick[d].fall, top)
               /\ Goto(d, "execute")
      <3>1. /\ OnlyTick(d) /\ tick'[d].closed = tick[d].closed
            /\ tick'[d].pc = "execute" /\ tick'[d].want = tick[d].want
        BY <2>3, GotoEffect DEF Labels
      <3>2. ASSUME FreeOf({"overlap"}), tick[d].closed # "none", tick[d].want = "buy",
                   tick[d].closed # "stop" \/ ~Has("slide")
            PROVE  FALSE
        <4>1. PICK top \in Highs : MayBuy(tick[d].view, tick[d].fall, top)
          BY <2>3, <3>2
        <4>2. tick[d].view = snap /\ snap.held > 0
          BY <2>1, <3>2 DEF Views, View, Refused, Refuses, Bad
        <4>3. tick[d].fall = "ok" /\ top > 0 /\ ~Stopped(top, snap.price)
          BY <4>1, <4>2 DEF MayBuy
        <4>4. top = high
          BY <4>3, Numbers DEF Highs, TypeOK
        <4>5. Stopped(high, snap.price)
          BY <2>1, <3>2, <4>3 DEF Refused, Refuses, Barred
        <4> QED
          BY <4>3, <4>4, <4>5
      <3>3. high <= high'
        BY <2>1, Numbers DEF TypeOK
      <3>4. \A why : Bad(why) => Bad(why)'
        BY <2>1, <3>3, BadStays
      <3>5. FreeOf({"overlap"}) => Refuses(d)'
        BY <2>1, <3>1, <3>2, <3>4 DEF Refused, Refuses, Has
      <3> QED
        BY <2>1, <3>1, <3>5, RefusedRest
    <2> QED
      BY <1>15, <2>2, <2>3 DEF Risk
  <1>16. ASSUME NEW d \in Drivers, Execute(d) PROVE Refused'
    <2>1. tick[d].pc = "execute" /\ Finish(d)
      BY <1>16, ExecuteEffect
    <2>2. UNCHANGED <<world, snap, peak, high>>
      BY <1>16, ExecuteEffect DEF Elsewhere, account, market, snapshots, bounds
    <2>3. OnlyTick(d) /\ tick'[d].closed = "none" /\ tick'[d].pc # "sell"
      BY <2>1, FinishEffect, RestType
    <2> QED
      BY <2>2, <2>3, RefusedRest DEF Refuses
  <1>17. ASSUME NEW d \in Drivers, Interrupt(d) PROVE Refused'
    <2>1. tick[d].pc # "idle" /\ Finish(d)
      BY <1>17, InterruptEffect
    <2>2. UNCHANGED <<world, snap, peak, high>>
      BY <1>17, InterruptEffect DEF Elsewhere, account, market, snapshots, bounds
    <2>3. OnlyTick(d) /\ tick'[d].closed = "none" /\ tick'[d].pc # "sell"
      BY <2>1, FinishEffect, RestType
    <2> QED
      BY <2>2, <2>3, RefusedRest DEF Refuses
  <1>18. ASSUME Confirm PROVE Refused'
    <2>1. UNCHANGED <<world, snap, tick, high>> /\ (peak' = peak \/ peak' = 0)
      BY <1>18 DEF Confirm, Elsewhere, account, market, snapshots, bounds
    <2>2. high <= high'
      BY <2>1, Numbers DEF TypeOK
    <2>3. /\ \A why : Bad(why) => Bad(why)'
          /\ Barred => Barred'
      BY <2>1, <2>2, BadStays
    <2> QED
      BY <2>1, <2>3 DEF Refused, Refuses, FreeOf, Has
  <1>19. ASSUME Deadline PROVE Refused'
    <2>1. UNCHANGED <<world, snap, tick, high>> /\ (peak' = peak \/ peak' = 0)
      BY <1>19 DEF Deadline, Elsewhere, account, market, snapshots, bounds
    <2>2. high <= high'
      BY <2>1, Numbers DEF TypeOK
    <2>3. /\ \A why : Bad(why) => Bad(why)'
          /\ Barred => Barred'
      BY <2>1, <2>2, BadStays
    <2> QED
      BY <2>1, <2>3 DEF Refused, Refuses, FreeOf, Has
  <1>20. ASSUME Move PROVE Refused'
    <2>1. UNCHANGED <<world, snap, peak>> /\ high <= high'
      BY <1>20, Numbers DEF Move, Elsewhere, account, market, snapshots, bounds, TypeOK
    <2>2. /\ \A why : Bad(why) => Bad(why)'
          /\ Barred => Barred'
      BY <2>1, BadStays
    <2> QED
      BY <1>20, <2>1, <2>2, MoveEffect, RefusedSame
  <1>21. ASSUME Reset PROVE Refused'
    <2>1. UNCHANGED <<world, snap, tick, high>> /\ (peak' = peak \/ peak' = 0)
      BY <1>21 DEF Reset, Elsewhere, account, market, snapshots, bounds
    <2>2. high <= high'
      BY <2>1, Numbers DEF TypeOK
    <2>3. /\ \A why : Bad(why) => Bad(why)'
          /\ Barred => Barred'
      BY <2>1, <2>2, BadStays
    <2> QED
      BY <2>1, <2>3 DEF Refused, Refuses, FreeOf, Has
  <1>22. CASE UNCHANGED vars
    <2>1. UNCHANGED <<world, snap, peak, high, tick>>
      BY <1>22 DEF vars, Elsewhere, account, market, snapshots, bounds
    <2>2. high <= high'
      BY <2>1, Numbers DEF TypeOK
    <2>3. /\ \A why : Bad(why) => Bad(why)'
          /\ Barred => Barred'
      BY <2>1, <2>2, BadStays
    <2> QED
      BY <2>1, <2>3 DEF Refused, Refuses, FreeOf, Has
  <1>23. ASSUME NEW side \in Sides, Arrives(side) PROVE Refused'
    <2>1. UNCHANGED <<world, snap, tick, high, peak>>
      BY <1>23, ArrivesEffect DEF market, snapshots
    <2>2. high <= high'
      BY <2>1, Numbers DEF TypeOK
    <2>3. /\ \A why : Bad(why) => Bad(why)'
          /\ Barred => Barred'
      BY <2>1, <2>2, BadStays
    <2> QED
      BY <2>1, <2>3 DEF Refused, Refuses, FreeOf, Has
  <1>24. ASSUME BarCloses PROVE Refused'
    <2>1. UNCHANGED <<world, snap, peak>> /\ (Has("slide") \/ high <= high')
      BY <1>24, BarClosesEffect DEF BarCloses, snapshots
    <2>2. /\ \A why : Bad(why) => Bad(why)'
          /\ Barred => Barred'
      BY <2>1, BadStays
    <2> QED
      BY <1>24, <2>1, <2>2, BarClosesEffect, RefusedSame
  <1> QED
    BY <1>1, <1>2, <1>3, <1>4, <1>5, <1>6, <1>7, <1>8, <1>9, <1>10, <1>11, <1>12, <1>13,
       <1>14, <1>15, <1>16, <1>17, <1>18, <1>19, <1>20, <1>21, <1>22, <1>23,
       <1>24 DEF Next, Step

-----------------------------------------------------------------------------
\* The lowest price and the highest high a tick has seen are prices, not above the
\* market's and not below its high.
Lowest(d) ==
    tick[d].pc # "idle" =>
        /\ tick[d].low \in Prices /\ tick[d].low <= price
        /\ tick[d].top \in Prices /\ high <= tick[d].top
Lowests == \A d \in Drivers : Lowest(d)

LEMMA LowestRest ==
    ASSUME TypeOK, Lowests, UNCHANGED <<price, high>>, NEW d \in Drivers, OnlyTick(d), Lowest(d)'
    PROVE  Lowests'
  BY DEF Lowests, Lowest, OnlyTick
\* Every step keeps the lowest price.
LEMMA LowestNext == TypeOK /\ Flows /\ Lowests /\ [Next]_vars => Lowests'
  <1> SUFFICES ASSUME TypeOK, Flows, Lowests, [Next]_vars PROVE Lowests'
    OBVIOUS
  <1>1. ASSUME RunnerTick PROVE Lowests'
    <2>1. /\ UNCHANGED <<price, high>> /\ price \in Prices /\ price <= price
          /\ high \in Prices /\ high <= high
      BY <1>1, Numbers DEF RunnerTick, Elsewhere, account, market, snapshots, bounds, TypeOK
    <2> QED
      BY <1>1, <2>1, RunnerTickEffect, LowestRest DEF Lowest
  <1>2. ASSUME UserTick PROVE Lowests'
    <2>1. /\ UNCHANGED <<price, high>> /\ price \in Prices /\ price <= price
          /\ high \in Prices /\ high <= high
      BY <1>2, Numbers DEF UserTick, Elsewhere, account, market, snapshots, bounds, TypeOK
    <2> QED
      BY <1>2, <2>1, UserTickEffect, LowestRest DEF Lowest
  <1>3. ASSUME NEW d \in Drivers, Fetch(d) PROVE Lowests'
    <2>1. tick[d].pc = "fetch" /\ Fetch(d)
      BY <1>3, FetchEffect
    <2>2. UNCHANGED <<price, high>>
      BY <1>3 DEF Fetch, Elsewhere, account, market, snapshots, bounds
    <2>3. OnlyTick(d) /\ \/ tick'[d].pc = "idle"
                         \/ tick'[d].low = tick[d].low /\ tick'[d].top = tick[d].top
      BY <2>1, FetchEffect
    <2>4. Lowest(d)'
      BY <2>1, <2>2, <2>3 DEF Lowests, Lowest
    <2> QED
      BY <2>2, <2>3, <2>4, LowestRest
  <1>4. ASSUME NEW d \in Drivers, Save(d) PROVE Lowests'
    <2>1. tick[d].pc \in {"fetch", "save"} /\ AfterCapture(d)
      BY <1>4 DEF Save, At
    <2>2. UNCHANGED <<price, high>>
      BY <1>4 DEF Save, Elsewhere, account, market, snapshots, bounds
    <2>3. OnlyTick(d) /\ \/ tick'[d].pc = "idle"
                         \/ tick'[d].low = tick[d].low /\ tick'[d].top = tick[d].top
      BY <2>1, AfterCaptureEffect, RestType
    <2>4. Lowest(d)'
      BY <2>1, <2>2, <2>3 DEF Lowests, Lowest
    <2> QED
      BY <2>2, <2>3, <2>4, LowestRest
  <1>5. ASSUME NEW d \in Drivers, CaptureFails(d) PROVE Lowests'
    <2>1. tick[d].pc \in {"fetch", "save"} /\ AfterCapture(d)
      BY <1>5 DEF CaptureFails, At
    <2>2. UNCHANGED <<price, high>>
      BY <1>5 DEF CaptureFails, Elsewhere, account, market, snapshots, bounds
    <2>3. OnlyTick(d) /\ \/ tick'[d].pc = "idle"
                         \/ tick'[d].low = tick[d].low /\ tick'[d].top = tick[d].top
      BY <2>1, AfterCaptureEffect, RestType
    <2>4. Lowest(d)'
      BY <2>1, <2>2, <2>3 DEF Lowests, Lowest
    <2> QED
      BY <2>2, <2>3, <2>4, LowestRest
  <1>6. ASSUME NEW d \in Drivers, ReadHoldings(d) PROVE Lowests'
    <2>1. tick[d].pc = "holdings" /\ ReadHoldings(d)
      BY <1>6, ReadHoldingsEffect
    <2>2. UNCHANGED <<price, high>>
      BY <1>6 DEF ReadHoldings, Elsewhere, account, market, snapshots, bounds
    <2>3. OnlyTick(d) /\ \/ tick'[d].pc = "idle"
                         \/ tick'[d].low = tick[d].low /\ tick'[d].top = tick[d].top
      BY <2>1, ReadHoldingsEffect
    <2>4. Lowest(d)'
      BY <2>1, <2>2, <2>3 DEF Lowests, Lowest
    <2> QED
      BY <2>2, <2>3, <2>4, LowestRest
  <1>7. ASSUME NEW d \in Drivers, ReadDrawdown(d) PROVE Lowests'
    <2>1. tick[d].pc = "drawdown" /\ ReadDrawdown(d)
      BY <1>7, ReadDrawdownEffect
    <2>2. UNCHANGED <<price, high>>
      BY <1>7 DEF ReadDrawdown, Elsewhere, account, market, snapshots, bounds
    <2>3. OnlyTick(d) /\ \/ tick'[d].pc = "idle"
                         \/ tick'[d].low = tick[d].low /\ tick'[d].top = tick[d].top
      BY <2>1, ReadDrawdownEffect
    <2>4. Lowest(d)'
      BY <2>1, <2>2, <2>3 DEF Lowests, Lowest
    <2> QED
      BY <2>2, <2>3, <2>4, LowestRest
  <1>8. ASSUME NEW d \in Drivers, Judge(d) PROVE Lowests'
    <2>1. tick[d].pc = "judge" /\ Judge(d)
      BY <1>8, JudgeEffect
    <2>2. UNCHANGED <<price, high>>
      BY <1>8 DEF Judge, Elsewhere, account, market, snapshots, bounds
    <2>3. OnlyTick(d) /\ \/ tick'[d].pc = "idle"
                         \/ tick'[d].low = tick[d].low /\ tick'[d].top = tick[d].top
      BY <2>1, JudgeEffect
    <2>4. Lowest(d)'
      BY <2>1, <2>2, <2>3 DEF Lowests, Lowest
    <2> QED
      BY <2>2, <2>3, <2>4, LowestRest
  <1>9. ASSUME NEW d \in Drivers, End(d) PROVE Lowests'
    <2>1. tick[d].pc = "end" /\ Finish(d)
      BY <1>9 DEF End, At
    <2>2. UNCHANGED <<price, high>>
      BY <1>9 DEF End, Elsewhere, account, market, snapshots, bounds
    <2>3. OnlyTick(d) /\ \/ tick'[d].pc = "idle"
                         \/ tick'[d].low = tick[d].low /\ tick'[d].top = tick[d].top
      BY <2>1, FinishEffect, RestType
    <2>4. Lowest(d)'
      BY <2>1, <2>2, <2>3 DEF Lowests, Lowest
    <2> QED
      BY <2>2, <2>3, <2>4, LowestRest
  <1>10. ASSUME NEW d \in Drivers, Patrol(d) PROVE Lowests'
    <2>1. tick[d].pc = "patrol" /\ (Goto(d, "sell") \/ AfterPatrol(d, "none"))
      BY <1>10 DEF Patrol, At
    <2>2. UNCHANGED <<price, high>>
      BY <1>10 DEF Patrol, Elsewhere, account, market, snapshots, bounds
    <2>3. OnlyTick(d) /\ \/ tick'[d].pc = "idle"
                         \/ tick'[d].low = tick[d].low /\ tick'[d].top = tick[d].top
      BY <2>1, GotoEffect, AfterPatrolEffect, WhysType, RestType DEF Labels
    <2>4. Lowest(d)'
      BY <2>1, <2>2, <2>3 DEF Lowests, Lowest
    <2> QED
      BY <2>2, <2>3, <2>4, LowestRest
  <1>11. ASSUME NEW d \in Drivers, Clear(d) PROVE Lowests'
    <2>1. tick[d].pc = "clear" /\ (Goto(d, "sell") \/ Goto(d, "end") \/ Finish(d))
      BY <1>11 DEF Clear, At
    <2>2. UNCHANGED <<price, high>>
      BY <1>11 DEF Clear, Elsewhere, account, market, snapshots, bounds
    <2>3. OnlyTick(d) /\ \/ tick'[d].pc = "idle"
                         \/ tick'[d].low = tick[d].low /\ tick'[d].top = tick[d].top
      BY <2>1, GotoEffect, FinishEffect, RestType DEF Labels
    <2>4. Lowest(d)'
      BY <2>1, <2>2, <2>3 DEF Lowests, Lowest
    <2> QED
      BY <2>2, <2>3, <2>4, LowestRest
  <1>12. ASSUME NEW d \in Drivers, Sell(d) PROVE Lowests'
    <2>1. tick[d].pc = "sell" /\ (AfterPatrol(d, Reason(tick[d].fall)) \/ Goto(d, "end") \/ Finish(d))
      BY <1>12, SellEffect
    <2>2. UNCHANGED <<price, high>>
      BY <1>12, SellEffect DEF Elsewhere, account, market, snapshots, bounds
    <2>3. OnlyTick(d) /\ \/ tick'[d].pc = "idle"
                         \/ tick'[d].low = tick[d].low /\ tick'[d].top = tick[d].top
      BY <2>1, GotoEffect, AfterPatrolEffect, WhysType, FinishEffect, RestType DEF Labels
    <2>4. Lowest(d)'
      BY <2>1, <2>2, <2>3 DEF Lowests, Lowest
    <2> QED
      BY <2>2, <2>3, <2>4, LowestRest
  <1>13. ASSUME NEW d \in Drivers, Budget(d) PROVE Lowests'
    <2>1. tick[d].pc = "budget" /\ (Goto(d, "decide") \/ Finish(d))
      BY <1>13 DEF Budget, At
    <2>2. UNCHANGED <<price, high>>
      BY <1>13 DEF Budget, Elsewhere, account, market, snapshots, bounds
    <2>3. OnlyTick(d) /\ \/ tick'[d].pc = "idle"
                         \/ tick'[d].low = tick[d].low /\ tick'[d].top = tick[d].top
      BY <2>1, GotoEffect, FinishEffect, RestType DEF Labels
    <2>4. Lowest(d)'
      BY <2>1, <2>2, <2>3 DEF Lowests, Lowest
    <2> QED
      BY <2>2, <2>3, <2>4, LowestRest
  <1>14. ASSUME NEW d \in Drivers, Decide(d) PROVE Lowests'
    <2>1. tick[d].pc = "decide" /\ Decide(d)
      BY <1>14, DecideEffect
    <2>2. UNCHANGED <<price, high>>
      BY <1>14 DEF Decide, Elsewhere, account, market, snapshots, bounds
    <2>3. OnlyTick(d) /\ \/ tick'[d].pc = "idle"
                         \/ tick'[d].low = tick[d].low /\ tick'[d].top = tick[d].top
      BY <2>1, DecideEffect, RestType
    <2>4. Lowest(d)'
      BY <2>1, <2>2, <2>3 DEF Lowests, Lowest
    <2> QED
      BY <2>2, <2>3, <2>4, LowestRest
  <1>15. ASSUME NEW d \in Drivers, Risk(d) PROVE Lowests'
    <2>1. tick[d].pc = "risk" /\ (Goto(d, "execute") \/ Finish(d))
      BY <1>15 DEF Risk, At
    <2>2. UNCHANGED <<price, high>>
      BY <1>15 DEF Risk, Elsewhere, account, market, snapshots, bounds
    <2>3. OnlyTick(d) /\ \/ tick'[d].pc = "idle"
                         \/ tick'[d].low = tick[d].low /\ tick'[d].top = tick[d].top
      BY <2>1, GotoEffect, FinishEffect, RestType DEF Labels
    <2>4. Lowest(d)'
      BY <2>1, <2>2, <2>3 DEF Lowests, Lowest
    <2> QED
      BY <2>2, <2>3, <2>4, LowestRest
  <1>16. ASSUME NEW d \in Drivers, Execute(d) PROVE Lowests'
    <2>1. tick[d].pc = "execute" /\ Finish(d)
      BY <1>16, ExecuteEffect
    <2>2. UNCHANGED <<price, high>>
      BY <1>16, ExecuteEffect DEF Elsewhere, account, market, snapshots, bounds
    <2>3. OnlyTick(d) /\ \/ tick'[d].pc = "idle"
                         \/ tick'[d].low = tick[d].low /\ tick'[d].top = tick[d].top
      BY <2>1, FinishEffect, RestType
    <2>4. Lowest(d)'
      BY <2>1, <2>2, <2>3 DEF Lowests, Lowest
    <2> QED
      BY <2>2, <2>3, <2>4, LowestRest
  <1>17. ASSUME NEW d \in Drivers, Interrupt(d) PROVE Lowests'
    <2>1. tick[d].pc # "idle" /\ Finish(d)
      BY <1>17, InterruptEffect
    <2>2. UNCHANGED <<price, high>>
      BY <1>17, InterruptEffect DEF Elsewhere, account, market, snapshots, bounds
    <2>3. OnlyTick(d) /\ \/ tick'[d].pc = "idle"
                         \/ tick'[d].low = tick[d].low /\ tick'[d].top = tick[d].top
      BY <2>1, FinishEffect, RestType
    <2>4. Lowest(d)'
      BY <2>1, <2>2, <2>3 DEF Lowests, Lowest
    <2> QED
      BY <2>2, <2>3, <2>4, LowestRest
  <1>18. ASSUME Confirm PROVE Lowests'
    BY <1>18 DEF Confirm, Elsewhere, account, market, snapshots, bounds, Lowests, Lowest
  <1>19. ASSUME Deadline PROVE Lowests'
    BY <1>19 DEF Deadline, Elsewhere, account, market, snapshots, bounds, Lowests, Lowest
  <1>20. ASSUME Move PROVE Lowests'
    <2>1. price' \in Prices /\ price' <= price'
      BY <1>20, MoveEffect, Numbers
    <2>2. ASSUME NEW d \in Drivers PROVE Lowest(d)'
      <3>1. /\ tick'[d].low <= tick[d].low /\ tick'[d].low <= price'
            /\ tick'[d].low \in {tick[d].low, price'} /\ tick'[d].pc = tick[d].pc
            /\ tick'[d].top = tick[d].top /\ high' = high
        BY <1>20, MoveEffect DEF SameTicks
      <3>2. tick[d].pc # "idle" => /\ tick[d].low \in Prices /\ tick[d].low # 0
                                   /\ tick[d].top \in Prices /\ high <= tick[d].top
        BY Numbers DEF Lowests, Lowest
      <3> QED
        BY <2>1, <3>1, <3>2 DEF Lowest
    <2> QED
      BY <2>2 DEF Lowests
  <1>21. ASSUME Reset PROVE Lowests'
    BY <1>21 DEF Reset, Elsewhere, account, market, snapshots, bounds, Lowests, Lowest
  <1>22. CASE UNCHANGED vars
    BY <1>22 DEF vars, Elsewhere, account, market, snapshots, bounds, Lowests, Lowest
  <1>23. ASSUME NEW side \in Sides, Arrives(side) PROVE Lowests'
    BY <1>23, ArrivesEffect DEF market, Lowests, Lowest
  <1>24. ASSUME BarCloses PROVE Lowests'
    <2>1. price' = price /\ high' \in Prices
      BY <1>24, BarClosesEffect DEF BarCloses
    <2>2. ASSUME NEW d \in Drivers PROVE Lowest(d)'
      <3>1. /\ tick'[d].low = tick[d].low /\ tick'[d].pc = tick[d].pc
            /\ tick[d].pc # "idle" => high' <= tick'[d].top
            /\ tick'[d].top \in {tick[d].top, high'}
        BY <1>24, BarClosesEffect DEF SameTicks
      <3> QED
        BY <2>1, <3>1 DEF Lowests, Lowest
    <2> QED
      BY <2>2 DEF Lowests
  <1> QED
    BY <1>1, <1>2, <1>3, <1>4, <1>5, <1>6, <1>7, <1>8, <1>9, <1>10, <1>11, <1>12, <1>13,
       <1>14, <1>15, <1>16, <1>17, <1>18, <1>19, <1>20, <1>21, <1>22, <1>23,
       <1>24 DEF Next, Step

-----------------------------------------------------------------------------
\* Where nothing overlaps, the snapshot a tick is about to save is the account, but
\* for what orders trade late, and so is, where no capture fails, the latest one
\* until the patrol or the clearance is through.  Late orders only add to what is
\* held what they have bought.
Own(t) ==
    /\ t.job \in {"goal", "manual"} /\ t.stage \in {"judge", "patrol", "clear"}
    /\ t.pc \in {"holdings", "drawdown", "judge", "patrol", "clear", "sell"}
Shows(s) == /\ ~Has("late") => s.cash = cash /\ s.held = held
            /\ held - strays <= s.held - s.strays
Loaded(d) ==
    /\ tick[d].pc = "save" => Shows(tick[d].got)
    /\ ~Has("capture") /\ Own(tick[d]) => Shows(snap)
Loads == FreeOf({"overlap"}) => \A d \in Drivers : Loaded(d)

\* The other tick is idle, so only the tick that moves has to be looked at.
LEMMA LoadsAlone ==
    ASSUME Alone, world' = world, NEW d \in Drivers, tick[d].pc # "idle", OnlyTick(d),
           FreeOf({"overlap"}) => Loaded(d)'
    PROVE  Loads'
  <1>1. ASSUME FreeOf({"overlap"}), NEW e \in Drivers \ {d} PROVE Loaded(e)'
    <2>1. tick'[e].pc = "idle"
      BY <1>1 DEF Alone, OnlyTick
    <2> QED
      BY <2>1 DEF Loaded, Own
  <1> QED
    BY <1>1 DEF Loads, FreeOf
\* Every step keeps what was loaded.
LEMMA LoadsNext == TypeOK /\ Flows /\ Alone /\ Loads /\ [Next]_vars => Loads'
  <1> SUFFICES ASSUME TypeOK, Flows, Alone, Loads, [Next]_vars PROVE Loads'
    OBVIOUS
  <1>1. ASSUME RunnerTick PROVE Loads'
    <2>1. /\ "runner" \in Drivers /\ OnlyTick("runner")
          /\ tick'["runner"].pc # "save" /\ ~Own(tick'["runner"])
      BY <1>1, RunnerTickEffect DEF Own
    <2>2. UNCHANGED <<world, snap, cash, held, strays>>
      BY <1>1 DEF RunnerTick, Elsewhere, account, market, snapshots, bounds
    <2> QED
      BY <2>1, <2>2 DEF Loads, Loaded, Shows, OnlyTick, FreeOf, Has
  <1>2. ASSUME UserTick PROVE Loads'
    <2>1. /\ "user" \in Drivers /\ OnlyTick("user")
          /\ tick'["user"].pc # "save" /\ ~Own(tick'["user"])
      BY <1>2, UserTickEffect DEF Own
    <2>2. UNCHANGED <<world, snap, cash, held, strays>>
      BY <1>2 DEF UserTick, Elsewhere, account, market, snapshots, bounds
    <2> QED
      BY <2>1, <2>2 DEF Loads, Loaded, Shows, OnlyTick, FreeOf, Has
  <1>3. ASSUME NEW d \in Drivers, Fetch(d) PROVE Loads'
    <2>1. tick[d].pc = "fetch" /\ Fetch(d)
      BY <1>3, FetchEffect
    <2>2. UNCHANGED <<world, snap, cash, held, strays>>
      BY <1>3 DEF Fetch, Elsewhere, account, market, snapshots, bounds
    <2>3. /\ OnlyTick(d) /\ tick'[d].pc = "save"
          /\ tick'[d].got.cash = cash /\ tick'[d].got.held = held
          /\ tick'[d].got.strays = strays
      BY <2>1, FetchEffect
    <2>4. held - strays <= held - strays
      BY DEF TypeOK
    <2>5. Shows(tick[d].got)'
      BY <2>2, <2>3, <2>4 DEF Shows
    <2> QED
      BY <2>1, <2>2, <2>3, <2>5, LoadsAlone DEF Loaded, Own
  <1>4. ASSUME NEW d \in Drivers, Save(d) PROVE Loads'
    <2>1. /\ tick[d].pc = "save" /\ AfterCapture(d) /\ snap' = tick[d].got
          /\ UNCHANGED <<world, cash, held, strays>>
      BY <1>4 DEF Save, At, account
    <2>2. OnlyTick(d) /\ tick'[d].pc # "save"
      BY <2>1, AfterCaptureEffect, RestType
    <2>3. FreeOf({"overlap"}) => Loaded(d)'
      BY <2>1, <2>2 DEF Loads, Loaded, Shows, Has
    <2> QED
      BY <2>1, <2>2, <2>3, LoadsAlone
  <1>5. ASSUME NEW d \in Drivers, CaptureFails(d) PROVE Loads'
    <2>1. tick[d].pc \in {"fetch", "save"} /\ AfterCapture(d)
      BY <1>5 DEF CaptureFails, At
    <2>2. Has("capture") /\ world' = world
      BY <1>5 DEF CaptureFails, Elsewhere
    <2>3. OnlyTick(d) /\ tick'[d].pc # "save"
      BY <2>1, AfterCaptureEffect, RestType
    <2> QED
      BY <2>1, <2>2, <2>3, LoadsAlone DEF Loaded, Has
  <1>6. ASSUME NEW d \in Drivers, ReadHoldings(d) PROVE Loads'
    <2>1. tick[d].pc = "holdings" /\ ReadHoldings(d)
      BY <1>6, ReadHoldingsEffect
    <2>2. UNCHANGED <<world, snap, cash, held, strays>>
      BY <1>6 DEF ReadHoldings, Elsewhere, account, market, snapshots, bounds
    <2>3. Flow(tick[d])
      BY DEF Flows
    <2>4. /\ OnlyTick(d) /\ tick'[d].pc # "save"
          /\ Own(tick'[d]) => Own(tick[d])
      BY <2>1, <2>3, ReadHoldingsEffect DEF Own, Flow
    <2>5. FreeOf({"overlap"}) => Loaded(d)'
      BY <2>2, <2>4 DEF Loads, Loaded, Shows, Has
    <2> QED
      BY <2>1, <2>2, <2>4, <2>5, LoadsAlone
  <1>7. ASSUME NEW d \in Drivers, ReadDrawdown(d) PROVE Loads'
    <2>1. tick[d].pc = "drawdown" /\ ReadDrawdown(d)
      BY <1>7, ReadDrawdownEffect
    <2>2. UNCHANGED <<world, snap, cash, held, strays>>
      BY <1>7 DEF ReadDrawdown, Elsewhere, account, market, snapshots, bounds
    <2>3. Flow(tick[d])
      BY DEF Flows
    <2>4. /\ OnlyTick(d) /\ tick'[d].pc # "save"
          /\ Own(tick'[d]) => Own(tick[d])
      BY <2>1, <2>3, ReadDrawdownEffect DEF Own, Flow
    <2>5. FreeOf({"overlap"}) => Loaded(d)'
      BY <2>2, <2>4 DEF Loads, Loaded, Shows, Has
    <2> QED
      BY <2>1, <2>2, <2>4, <2>5, LoadsAlone
  <1>8. ASSUME NEW d \in Drivers, Judge(d) PROVE Loads'
    <2>1. tick[d].pc = "judge" /\ Judge(d)
      BY <1>8, JudgeEffect
    <2>2. UNCHANGED <<world, snap, cash, held, strays>>
      BY <1>8 DEF Judge, Elsewhere, account, market, snapshots, bounds
    <2>3. Flow(tick[d])
      BY DEF Flows
    <2>4. /\ OnlyTick(d) /\ tick'[d].pc # "save"
          /\ Own(tick'[d]) => Own(tick[d])
      BY <2>1, <2>3, JudgeEffect DEF Own, Flow
    <2>5. FreeOf({"overlap"}) => Loaded(d)'
      BY <2>2, <2>4 DEF Loads, Loaded, Shows, Has
    <2> QED
      BY <2>1, <2>2, <2>4, <2>5, LoadsAlone
  <1>9. ASSUME NEW d \in Drivers, End(d) PROVE Loads'
    <2>1. tick[d].pc = "end" /\ Finish(d)
      BY <1>9 DEF End, At
    <2>2. UNCHANGED <<world>>
      BY <1>9 DEF End, Elsewhere, account, market, snapshots, bounds
    <2>3. OnlyTick(d) /\ tick'[d].pc \in {"idle", "end", "budget", "decide", "execute"}
      BY <2>1, FinishEffect, RestType DEF Own
    <2> QED
      BY <2>1, <2>2, <2>3, LoadsAlone DEF Loaded, Own
  <1>10. ASSUME NEW d \in Drivers, Patrol(d) PROVE Loads'
    <2>1. tick[d].pc = "patrol" /\ (Goto(d, "sell") \/ AfterPatrol(d, "none"))
      BY <1>10 DEF Patrol, At
    <2>2. UNCHANGED <<world, snap, cash, held, strays>>
      BY <1>10 DEF Patrol, Elsewhere, account, market, snapshots, bounds
    <2>3. Flow(tick[d])
      BY DEF Flows
    <2>4. /\ OnlyTick(d) /\ tick'[d].pc # "save"
          /\ Own(tick'[d]) => Own(tick[d])
      BY <2>1, <2>3, GotoEffect, AfterPatrolEffect, WhysType, RestType DEF Labels, Own, Flow
    <2>5. FreeOf({"overlap"}) => Loaded(d)'
      BY <2>2, <2>4 DEF Loads, Loaded, Shows, Has
    <2> QED
      BY <2>1, <2>2, <2>4, <2>5, LoadsAlone
  <1>11. ASSUME NEW d \in Drivers, Clear(d) PROVE Loads'
    <2>1. tick[d].pc = "clear" /\ (Goto(d, "sell") \/ Goto(d, "end") \/ Finish(d))
      BY <1>11 DEF Clear, At
    <2>2. UNCHANGED <<world, snap, cash, held, strays>>
      BY <1>11 DEF Clear, Elsewhere, account, market, snapshots, bounds
    <2>3. Flow(tick[d])
      BY DEF Flows
    <2>4. /\ OnlyTick(d) /\ tick'[d].pc # "save"
          /\ Own(tick'[d]) => Own(tick[d])
      BY <2>1, <2>3, GotoEffect, FinishEffect, RestType DEF Labels, Own, Flow
    <2>5. FreeOf({"overlap"}) => Loaded(d)'
      BY <2>2, <2>4 DEF Loads, Loaded, Shows, Has
    <2> QED
      BY <2>1, <2>2, <2>4, <2>5, LoadsAlone
  <1>12. ASSUME NEW d \in Drivers, Sell(d) PROVE Loads'
    <2>1. tick[d].pc = "sell" /\ (AfterPatrol(d, Reason(tick[d].fall)) \/ Goto(d, "end") \/ Finish(d))
      BY <1>12, SellEffect
    <2>2. UNCHANGED <<world>>
      BY <1>12, SellEffect DEF Elsewhere, account, market, snapshots, bounds
    <2>3. OnlyTick(d) /\ tick'[d].pc \in {"idle", "end", "budget", "decide", "execute"}
      BY <2>1, GotoEffect, AfterPatrolEffect, WhysType, FinishEffect, RestType DEF Labels, Own
    <2> QED
      BY <2>1, <2>2, <2>3, LoadsAlone DEF Loaded, Own
  <1>13. ASSUME NEW d \in Drivers, Budget(d) PROVE Loads'
    <2>1. tick[d].pc = "budget" /\ (Goto(d, "decide") \/ Finish(d))
      BY <1>13 DEF Budget, At
    <2>2. UNCHANGED <<world>>
      BY <1>13 DEF Budget, Elsewhere, account, market, snapshots, bounds
    <2>3. OnlyTick(d) /\ tick'[d].pc \in {"idle", "end", "budget", "decide", "execute"}
      BY <2>1, GotoEffect, FinishEffect, RestType DEF Labels, Own
    <2> QED
      BY <2>1, <2>2, <2>3, LoadsAlone DEF Loaded, Own
  <1>14. ASSUME NEW d \in Drivers, Decide(d) PROVE Loads'
    <2>1. tick[d].pc = "decide" /\ Decide(d)
      BY <1>14, DecideEffect
    <2>2. UNCHANGED <<world>>
      BY <1>14 DEF Decide, Elsewhere, account, market, snapshots, bounds
    <2>3. OnlyTick(d) /\ tick'[d].pc # "save" /\ ~Own(tick'[d])
      BY <2>1, DecideEffect, RestType DEF Own
    <2> QED
      BY <2>1, <2>2, <2>3, LoadsAlone DEF Loaded, Own
  <1>15. ASSUME NEW d \in Drivers, Risk(d) PROVE Loads'
    <2>1. tick[d].pc = "risk" /\ (Goto(d, "execute") \/ Finish(d))
      BY <1>15 DEF Risk, At
    <2>2. UNCHANGED <<world>>
      BY <1>15 DEF Risk, Elsewhere, account, market, snapshots, bounds
    <2>3. OnlyTick(d) /\ tick'[d].pc \in {"idle", "end", "budget", "decide", "execute"}
      BY <2>1, GotoEffect, FinishEffect, RestType DEF Labels, Own
    <2> QED
      BY <2>1, <2>2, <2>3, LoadsAlone DEF Loaded, Own
  <1>16. ASSUME NEW d \in Drivers, Execute(d) PROVE Loads'
    <2>1. tick[d].pc = "execute" /\ Finish(d)
      BY <1>16, ExecuteEffect
    <2>2. UNCHANGED <<world>>
      BY <1>16, ExecuteEffect DEF Elsewhere, account, market, snapshots, bounds
    <2>3. OnlyTick(d) /\ tick'[d].pc \in {"idle", "end", "budget", "decide", "execute"}
      BY <2>1, FinishEffect, RestType DEF Own
    <2> QED
      BY <2>1, <2>2, <2>3, LoadsAlone DEF Loaded, Own
  <1>17. ASSUME NEW d \in Drivers, Interrupt(d) PROVE Loads'
    <2>1. tick[d].pc # "idle" /\ Finish(d)
      BY <1>17, InterruptEffect
    <2>2. UNCHANGED <<world>>
      BY <1>17, InterruptEffect DEF Elsewhere, account, market, snapshots, bounds
    <2>3. OnlyTick(d) /\ tick'[d].pc \in {"idle", "end", "budget", "decide", "execute"}
      BY <2>1, FinishEffect, RestType DEF Own
    <2> QED
      BY <2>1, <2>2, <2>3, LoadsAlone DEF Loaded, Own
  <1>18. ASSUME Confirm PROVE Loads'
    BY <1>18 DEF Confirm, Elsewhere, account, market, snapshots, bounds, Loads, Loaded,
       Shows, FreeOf, Has
  <1>19. ASSUME Deadline PROVE Loads'
    BY <1>19 DEF Deadline, Elsewhere, account, market, snapshots, bounds, Loads, Loaded,
       Shows, FreeOf, Has
  <1>20. ASSUME Move PROVE Loads'
    <2>1. UNCHANGED <<world, snap, cash, held, strays>>
      BY <1>20 DEF Move, Elsewhere, account, market, snapshots, bounds
    <2> QED
      BY <1>20, <2>1, MoveEffect DEF SameTicks, Loads, Loaded, Shows, Own, FreeOf, Has
  <1>21. ASSUME Reset PROVE Loads'
    BY <1>21 DEF Reset, Elsewhere, account, market, snapshots, bounds, Loads, Loaded, Shows,
       FreeOf, Has
  <1>22. CASE UNCHANGED vars
    BY <1>22 DEF vars, Elsewhere, account, market, snapshots, bounds, Loads, Loaded, Shows,
       FreeOf, Has
  <1>23. ASSUME NEW side \in Sides, Arrives(side) PROVE Loads'
    <2>1. /\ Has("late") /\ UNCHANGED <<world, snap, tick>> /\ strays' \in Int
          /\ \/ held' = held + 1 /\ strays' = strays + 1
             \/ held' = held - 1 /\ strays' = strays
      BY <1>23, ArrivesEffect DEF snapshots, AccountType
    <2>2. held \in Int /\ strays \in Int /\ snap \in Snaps
      BY DEF TypeOK
    <2>3. \A d \in Drivers : tick[d].got \in Snaps
      BY Fields DEF TypeOK
    <2>4. \A s \in Snaps : s.held - s.strays \in Int
      BY DEF Snaps
    <2>5. \A s \in Snaps : Shows(s) => held' - strays' <= s.held - s.strays
      BY <2>1, <2>2, <2>4 DEF Shows
    <2> QED
      BY <2>1, <2>2, <2>3, <2>5 DEF Loads, Loaded, Shows, FreeOf, Has
  <1>24. ASSUME BarCloses PROVE Loads'
    <2>1. UNCHANGED <<world, snap, cash, held, strays>>
      BY <1>24 DEF BarCloses, snapshots, account
    <2> QED
      BY <1>24, <2>1, BarClosesEffect DEF SameTicks, Loads, Loaded, Shows, Own, FreeOf, Has
  <1> QED
    BY <1>1, <1>2, <1>3, <1>4, <1>5, <1>6, <1>7, <1>8, <1>9, <1>10, <1>11, <1>12, <1>13,
       <1>14, <1>15, <1>16, <1>17, <1>18, <1>19, <1>20, <1>21, <1>22, <1>23,
       <1>24 DEF Next, Step

-----------------------------------------------------------------------------
\* A breach at one price is a breach at a lower one and against a higher high.
LEMMA BreachDeepens ==
    ASSUME TypeOK, UNCHANGED <<cash, held, peak>>, NEW h \in Nat, NEW k \in Nat, h <= k,
           NEW p \in Nat, NEW q \in Nat, 0 < q, q <= p, InBreach(p, h)
    PROVE  InBreach(q, k)'
  <1>1. cash \in Nat /\ held \in Nat /\ peak \in Nat
    BY DEF TypeOK
  <1>2. Stopped(h, p) => Stopped(k, q)
    <2>1. Stopped(h, p) => Stopped(h, q)
      <3>1. StopLoss * h \in Nat
        BY <1>1, Bounds, Products
      <3> QED
        BY <1>1, <3>1 DEF Stopped
    <2> QED
      BY <1>1, <2>1, StoppedStays
  <1>3. Fallen(peak, cash + held * p) => Fallen(peak, cash + held * q)
    <2>1. held * q \in Nat /\ held * p \in Nat /\ held * q <= held * p /\ MaxDrawdown * peak \in Nat
      BY <1>1, Bounds, Products
    <2> QED
      BY <1>1, <2>1 DEF Fallen
  <1> QED
    BY <1>2, <1>3 DEF InBreach
\* Where also no price is missing, no order trades late and nobody resets the peak,
\* the position was in breach at the lowest price and the highest high since the
\* tick began.
Calm == FreeOf({"capture", "price", "late", "reset", "overlap"})
Priced(d) ==
    /\ tick[d].pc = "save" => tick[d].low <= tick[d].got.price
    /\ Own(tick[d]) /\ tick[d].pc \notin {"clear", "sell"} => tick[d].low <= snap.price
    /\ tick[d].pc = "sell" /\ tick[d].stage = "patrol" /\ tick[d].job # "bare" =>
          InBreach(tick[d].low, tick[d].top)
Justified == Calm => \A d \in Drivers : Priced(d)

LEMMA JustifiedAlone ==
    ASSUME Alone, world' = world, NEW d \in Drivers, tick[d].pc # "idle", OnlyTick(d),
           Calm => Priced(d)'
    PROVE  Justified'
  <1>1. ASSUME Calm, NEW e \in Drivers \ {d} PROVE Priced(e)'
    <2>1. tick'[e].pc = "idle"
      BY <1>1 DEF Calm, FreeOf, Alone, OnlyTick
    <2> QED
      BY <2>1 DEF Priced, Own
  <1> QED
    BY <1>1 DEF Justified, Calm, FreeOf
\* What a tick notes of the market only makes a breach deeper.
LEMMA SamePriced ==
    ASSUME TypeOK, Flows, Lowests, Justified, [Next]_vars, SameTicks,
           UNCHANGED <<world, snap, peak, cash, held>>,
           \A d \in Drivers : /\ tick'[d].low <= tick[d].low
                              /\ tick[d].pc # "idle" => tick[d].top <= tick'[d].top
                                 \/ tick'[d].top = tick[d].top
    PROVE  Justified'
  <1>1. ASSUME Calm, NEW d \in Drivers PROVE Priced(d)'
    <2>1. /\ tick'[d].low <= tick[d].low
          /\ tick'[d].job = tick[d].job /\ tick'[d].stage = tick[d].stage
          /\ tick'[d].pc = tick[d].pc /\ tick'[d].got = tick[d].got
      BY DEF SameTicks
    <2>2. /\ tick[d].low \in Nat /\ tick'[d].low \in Nat
          /\ tick[d].top \in Nat /\ tick'[d].top \in Nat
          /\ tick[d].pc # "idle" => tick'[d].low > 0 /\ tick[d].top <= tick'[d].top
      <3>1. /\ tick[d].low \in Lows /\ tick'[d].low \in Lows
            /\ tick[d].top \in Lows /\ tick'[d].top \in Lows
        BY Fields DEF SameTicks, TypeOK
      <3>2. tick[d].pc # "idle" => tick'[d].low \in Prices
        BY <2>1, LowestNext DEF Lowests, Lowest
      <3> QED
        BY <3>1, <3>2, Numbers DEF Lows
    <2>3. tick[d].got.price \in Nat /\ snap.price \in Nat
      <3>1. tick[d].got \in Snaps /\ snap \in Snaps
        BY Fields DEF TypeOK
      <3> QED
        BY <3>1, Numbers DEF Snaps
    <2>4. InBreach(tick[d].low, tick[d].top) /\ tick[d].pc # "idle" =>
             InBreach(tick[d].low, tick[d].top)'
      BY <2>1, <2>2, BreachDeepens
    <2>5. Priced(d)
      BY <1>1 DEF Justified
    <2> QED
      BY <2>1, <2>2, <2>3, <2>4, <2>5 DEF Priced, Own
  <1>2. Calm' => Calm
    BY DEF Calm, FreeOf
  <1> QED
    BY <1>1, <1>2 DEF Justified
\* Every step of the patrol is justified.
LEMMA JustifiedNext ==
    TypeOK /\ Flows /\ Alone /\ Views /\ Lowests /\ Loads /\ Justified /\ [Next]_vars => Justified'
  <1> SUFFICES ASSUME TypeOK, Flows, Alone, Views, Lowests, Loads, Justified, [Next]_vars
               PROVE  Justified'
    OBVIOUS
  <1>0. Calm => FreeOf({"overlap"}) /\ ~Has("capture") /\ ~Has("price") /\ ~Has("reset")
               /\ ~Has("late")
    BY DEF Calm, FreeOf, Has
  <1>1. ASSUME RunnerTick PROVE Justified'
    <2>1. /\ "runner" \in Drivers /\ OnlyTick("runner")
          /\ tick'["runner"].pc \notin {"save", "sell"} /\ ~Own(tick'["runner"])
      BY <1>1, RunnerTickEffect DEF Own
    <2>2. UNCHANGED <<world, snap, peak, high, cash, held>>
      BY <1>1 DEF RunnerTick, Elsewhere, account, market, snapshots, bounds
    <2>3. ASSUME Calm, NEW e \in Drivers \ {"runner"} PROVE Priced(e)'
      BY <2>1, <2>2, <2>3 DEF Justified, Priced, OnlyTick, InBreach
    <2>4. Calm' => Calm
      BY <2>2 DEF Calm, FreeOf
    <2> QED
      BY <2>1, <2>3, <2>4 DEF Justified, Priced
  <1>2. ASSUME UserTick PROVE Justified'
    <2>1. /\ "user" \in Drivers /\ OnlyTick("user")
          /\ tick'["user"].pc \notin {"save", "sell"} /\ ~Own(tick'["user"])
      BY <1>2, UserTickEffect DEF Own
    <2>2. UNCHANGED <<world, snap, peak, high, cash, held>>
      BY <1>2 DEF UserTick, Elsewhere, account, market, snapshots, bounds
    <2>3. ASSUME Calm, NEW e \in Drivers \ {"user"} PROVE Priced(e)'
      BY <2>1, <2>2, <2>3 DEF Justified, Priced, OnlyTick, InBreach
    <2>4. Calm' => Calm
      BY <2>2 DEF Calm, FreeOf
    <2> QED
      BY <2>1, <2>3, <2>4 DEF Justified, Priced
  <1>3. ASSUME NEW d \in Drivers, Fetch(d) PROVE Justified'
    <2>1. tick[d].pc = "fetch" /\ Fetch(d)
      BY <1>3, FetchEffect
    <2>2. UNCHANGED <<world, price>>
      BY <1>3 DEF Fetch, Elsewhere, account, market, snapshots, bounds
    <2>3. /\ OnlyTick(d) /\ tick'[d].pc = "save" /\ tick'[d].low = tick[d].low
          /\ tick'[d].got.price = price \/ Has("price")
      BY <2>1, FetchEffect
    <2>4. tick[d].low <= price
      BY <2>1 DEF Lowests, Lowest
    <2>5. Calm => Priced(d)'
      BY <1>0, <2>3, <2>4 DEF Priced, Own
    <2> QED
      BY <2>1, <2>2, <2>3, <2>5, JustifiedAlone
  <1>4. ASSUME NEW d \in Drivers, Save(d) PROVE Justified'
    <2>1. /\ tick[d].pc = "save" /\ AfterCapture(d) /\ snap' = tick[d].got
          /\ world' = world
      BY <1>4 DEF Save, At
    <2>2. OnlyTick(d) /\ tick'[d].pc \in {"idle", "holdings"}
          /\ (tick'[d].pc # "idle" => tick'[d].low = tick[d].low)
      BY <2>1, AfterCaptureEffect, RestType
    <2>3. Calm => Priced(d)'
      BY <2>1, <2>2 DEF Justified, Priced, Own
    <2> QED
      BY <2>1, <2>2, <2>3, JustifiedAlone
  <1>5. ASSUME NEW d \in Drivers, CaptureFails(d) PROVE Justified'
    <2>1. tick[d].pc \in {"fetch", "save"} /\ AfterCapture(d)
      BY <1>5 DEF CaptureFails, At
    <2>2. Has("capture") /\ world' = world
      BY <1>5 DEF CaptureFails, Elsewhere
    <2> QED
      BY <2>2 DEF Justified, Calm, FreeOf, Has
  <1>6. ASSUME NEW d \in Drivers, ReadHoldings(d) PROVE Justified'
    <2>1. tick[d].pc = "holdings" /\ ReadHoldings(d)
      BY <1>6, ReadHoldingsEffect
    <2>2. UNCHANGED <<world, snap>>
      BY <1>6 DEF ReadHoldings, Elsewhere, account, market, snapshots, bounds
    <2>3. Flow(tick[d])
      BY DEF Flows
    <2>4. /\ OnlyTick(d) /\ tick'[d].pc # "save"
          /\ tick'[d].pc = "sell" => tick'[d].stage = "clear"
          /\ Own(tick'[d]) /\ tick'[d].pc \notin {"clear", "sell"} =>
                Own(tick[d]) /\ tick[d].pc \notin {"clear", "sell"} /\ tick'[d].low = tick[d].low
      BY <2>1, <2>3, ReadHoldingsEffect DEF Own, Flow
    <2>5. Calm => Priced(d)'
      BY <2>2, <2>4 DEF Justified, Priced
    <2> QED
      BY <2>1, <2>2, <2>4, <2>5, JustifiedAlone
  <1>7. ASSUME NEW d \in Drivers, ReadDrawdown(d) PROVE Justified'
    <2>1. tick[d].pc = "drawdown" /\ ReadDrawdown(d)
      BY <1>7, ReadDrawdownEffect
    <2>2. UNCHANGED <<world, snap>>
      BY <1>7 DEF ReadDrawdown, Elsewhere, account, market, snapshots, bounds
    <2>3. Flow(tick[d])
      BY DEF Flows
    <2>4. /\ OnlyTick(d) /\ tick'[d].pc # "save"
          /\ tick'[d].pc = "sell" => tick'[d].stage = "clear"
          /\ Own(tick'[d]) /\ tick'[d].pc \notin {"clear", "sell"} =>
                Own(tick[d]) /\ tick[d].pc \notin {"clear", "sell"} /\ tick'[d].low = tick[d].low
      BY <2>1, <2>3, ReadDrawdownEffect DEF Own, Flow
    <2>5. Calm => Priced(d)'
      BY <2>2, <2>4 DEF Justified, Priced
    <2> QED
      BY <2>1, <2>2, <2>4, <2>5, JustifiedAlone
  <1>8. ASSUME NEW d \in Drivers, Judge(d) PROVE Justified'
    <2>1. tick[d].pc = "judge" /\ Judge(d)
      BY <1>8, JudgeEffect
    <2>2. UNCHANGED <<world, snap>>
      BY <1>8 DEF Judge, Elsewhere, account, market, snapshots, bounds
    <2>3. Flow(tick[d])
      BY DEF Flows
    <2>4. /\ OnlyTick(d) /\ tick'[d].pc # "save"
          /\ tick'[d].pc = "sell" => tick'[d].stage = "clear"
          /\ Own(tick'[d]) /\ tick'[d].pc \notin {"clear", "sell"} =>
                Own(tick[d]) /\ tick[d].pc \notin {"clear", "sell"} /\ tick'[d].low = tick[d].low
      BY <2>1, <2>3, JudgeEffect DEF Own, Flow
    <2>5. Calm => Priced(d)'
      BY <2>2, <2>4 DEF Justified, Priced
    <2> QED
      BY <2>1, <2>2, <2>4, <2>5, JustifiedAlone
  <1>9. ASSUME NEW d \in Drivers, End(d) PROVE Justified'
    <2>1. tick[d].pc = "end" /\ Finish(d)
      BY <1>9 DEF End, At
    <2>2. UNCHANGED <<world>>
      BY <1>9 DEF End, Elsewhere, account, market, snapshots, bounds
    <2>3. OnlyTick(d) /\ tick'[d].pc \in {"idle", "end", "budget", "decide", "execute"}
      BY <2>1, FinishEffect, RestType DEF Own
    <2> QED
      BY <2>1, <2>2, <2>3, JustifiedAlone DEF Priced, Own
  <1>10. ASSUME NEW d \in Drivers, Patrol(d) PROVE Justified'
    <2>1. PICK top \in Highs :
             \/ Breaches(tick[d].view, tick[d].fall, top) /\ Goto(d, "sell")
             \/ AfterPatrol(d, "none")
      BY <1>10 DEF Patrol
    <2>2. tick[d].pc = "patrol" /\ UNCHANGED <<world, snap, peak, high, cash, held>>
      BY <1>10 DEF Patrol, At, Elsewhere, account, market, snapshots, bounds
    <2>3. CASE Breaches(tick[d].view, tick[d].fall, top) /\ Goto(d, "sell")
      <3>1. /\ OnlyTick(d) /\ tick'[d].pc = "sell" /\ tick'[d].low = tick[d].low
            /\ tick'[d].top = tick[d].top
            /\ tick'[d].job = tick[d].job /\ tick'[d].stage = tick[d].stage
        BY <2>3, GotoEffect DEF Labels
      <3>2. ASSUME Calm, tick[d].job # "bare" PROVE InBreach(tick[d].low, tick[d].top)'
        <4>1. tick[d].view = snap /\ tick[d].fall = Drawdown
          BY <1>0, <2>2, <3>2 DEF Views, View
        <4>2. Own(tick[d])
          BY <2>2, <3>2 DEF Flows, Flow, Own
        <4>3. snap.cash = cash /\ snap.held = held /\ tick[d].low <= snap.price
          BY <1>0, <2>2, <3>2, <4>2 DEF Loads, Loaded, Shows, Justified, Priced
        <4>4. /\ snap.price \in Nat /\ tick[d].low \in Nat /\ tick[d].low > 0
              /\ high \in Nat /\ tick[d].top \in Nat /\ high <= tick[d].top
          <5>1. snap.price \in Prices \cup {0} /\ high \in Prices
            BY DEF TypeOK, Snaps
          <5>2. tick[d].low \in Prices /\ tick[d].top \in Prices /\ high <= tick[d].top
            BY <2>2 DEF Lowests, Lowest
          <5> QED
            BY <5>1, <5>2, Numbers
        <4>5. InBreach(snap.price, high)
          <5>1. CASE tick[d].fall = "breached"
            BY <2>3, <4>1, <4>3, <5>1 DEF Drawdown, Breaches, InBreach, Equity, TypeOK
          <5>2. CASE tick[d].fall # "breached"
            <6>1. Stopped(high, snap.price) /\ snap.held > 0
              BY <2>3, <4>1, <4>4, <5>2, HighsStop DEF Breaches
            <6> QED
              BY <4>3, <6>1 DEF InBreach
          <5> QED
            BY <5>1, <5>2
        <4>6. /\ UNCHANGED <<cash, held, peak>>
              /\ tick'[d].low = tick[d].low /\ tick'[d].top = tick[d].top
          BY <2>2, <3>1
        <4>7. InBreach(tick[d].low, tick[d].top)'
          BY <4>3, <4>4, <4>5, <4>6, BreachDeepens
        <4> QED
          BY <4>7
      <3>3. Calm => Priced(d)'
        BY <3>1, <3>2 DEF Priced
      <3> QED
        BY <2>2, <3>1, <3>3, JustifiedAlone
    <2>4. CASE AfterPatrol(d, "none")
      <3>1. OnlyTick(d) /\ tick'[d].pc \in {"idle", "end", "budget", "decide"}
        BY <2>4, AfterPatrolEffect, WhysType, RestType
      <3> QED
        BY <2>2, <3>1, JustifiedAlone DEF Priced, Own
    <2> QED
      BY <2>1, <2>3, <2>4
  <1>11. ASSUME NEW d \in Drivers, Clear(d) PROVE Justified'
    <2>1. tick[d].pc = "clear" /\ (Goto(d, "sell") \/ Goto(d, "end") \/ Finish(d))
      BY <1>11 DEF Clear, At
    <2>2. UNCHANGED <<world, snap>>
      BY <1>11 DEF Clear, Elsewhere, account, market, snapshots, bounds
    <2>3. Flow(tick[d])
      BY DEF Flows
    <2>4. /\ OnlyTick(d) /\ tick'[d].pc # "save"
          /\ tick'[d].pc = "sell" => tick'[d].stage = "clear"
          /\ Own(tick'[d]) /\ tick'[d].pc \notin {"clear", "sell"} =>
                Own(tick[d]) /\ tick[d].pc \notin {"clear", "sell"} /\ tick'[d].low = tick[d].low
      BY <2>1, <2>3, GotoEffect, FinishEffect, RestType DEF Labels, Own, Flow
    <2>5. Calm => Priced(d)'
      BY <2>2, <2>4 DEF Justified, Priced
    <2> QED
      BY <2>1, <2>2, <2>4, <2>5, JustifiedAlone
  <1>12. ASSUME NEW d \in Drivers, Sell(d) PROVE Justified'
    <2>1. tick[d].pc = "sell" /\ (AfterPatrol(d, Reason(tick[d].fall)) \/ Goto(d, "end") \/ Finish(d))
      BY <1>12, SellEffect
    <2>2. UNCHANGED <<world>>
      BY <1>12, SellEffect DEF Elsewhere, account, market, snapshots, bounds
    <2>3. OnlyTick(d) /\ tick'[d].pc \in {"idle", "end", "budget", "decide", "execute"}
      BY <2>1, GotoEffect, AfterPatrolEffect, WhysType, FinishEffect, RestType DEF Labels, Own
    <2> QED
      BY <2>1, <2>2, <2>3, JustifiedAlone DEF Priced, Own
  <1>13. ASSUME NEW d \in Drivers, Budget(d) PROVE Justified'
    <2>1. tick[d].pc = "budget" /\ (Goto(d, "decide") \/ Finish(d))
      BY <1>13 DEF Budget, At
    <2>2. UNCHANGED <<world>>
      BY <1>13 DEF Budget, Elsewhere, account, market, snapshots, bounds
    <2>3. OnlyTick(d) /\ tick'[d].pc \in {"idle", "end", "budget", "decide", "execute"}
      BY <2>1, GotoEffect, FinishEffect, RestType DEF Labels, Own
    <2> QED
      BY <2>1, <2>2, <2>3, JustifiedAlone DEF Priced, Own
  <1>14. ASSUME NEW d \in Drivers, Decide(d) PROVE Justified'
    <2>1. tick[d].pc = "decide" /\ Decide(d)
      BY <1>14, DecideEffect
    <2>2. UNCHANGED <<world>>
      BY <1>14 DEF Decide, Elsewhere, account, market, snapshots, bounds
    <2>3. OnlyTick(d) /\ tick'[d].pc \notin {"save", "sell"} /\ ~Own(tick'[d])
      BY <2>1, DecideEffect, RestType DEF Own
    <2> QED
      BY <2>1, <2>2, <2>3, JustifiedAlone DEF Priced, Own
  <1>15. ASSUME NEW d \in Drivers, Risk(d) PROVE Justified'
    <2>1. tick[d].pc = "risk" /\ (Goto(d, "execute") \/ Finish(d))
      BY <1>15 DEF Risk, At
    <2>2. UNCHANGED <<world>>
      BY <1>15 DEF Risk, Elsewhere, account, market, snapshots, bounds
    <2>3. OnlyTick(d) /\ tick'[d].pc \in {"idle", "end", "budget", "decide", "execute"}
      BY <2>1, GotoEffect, FinishEffect, RestType DEF Labels, Own
    <2> QED
      BY <2>1, <2>2, <2>3, JustifiedAlone DEF Priced, Own
  <1>16. ASSUME NEW d \in Drivers, Execute(d) PROVE Justified'
    <2>1. tick[d].pc = "execute" /\ Finish(d)
      BY <1>16, ExecuteEffect
    <2>2. UNCHANGED <<world>>
      BY <1>16, ExecuteEffect DEF Elsewhere, account, market, snapshots, bounds
    <2>3. OnlyTick(d) /\ tick'[d].pc \in {"idle", "end", "budget", "decide", "execute"}
      BY <2>1, FinishEffect, RestType DEF Own
    <2> QED
      BY <2>1, <2>2, <2>3, JustifiedAlone DEF Priced, Own
  <1>17. ASSUME NEW d \in Drivers, Interrupt(d) PROVE Justified'
    <2>1. tick[d].pc # "idle" /\ Finish(d)
      BY <1>17, InterruptEffect
    <2>2. UNCHANGED <<world>>
      BY <1>17, InterruptEffect DEF Elsewhere, account, market, snapshots, bounds
    <2>3. OnlyTick(d) /\ tick'[d].pc \in {"idle", "end", "budget", "decide", "execute"}
      BY <2>1, FinishEffect, RestType DEF Own
    <2> QED
      BY <2>1, <2>2, <2>3, JustifiedAlone DEF Priced, Own
  <1>18. ASSUME Confirm PROVE Justified'
    BY <1>18 DEF Confirm, Elsewhere, account, market, snapshots, bounds, Justified, Priced,
       InBreach, Calm, FreeOf
  <1>19. ASSUME Deadline PROVE Justified'
    BY <1>19 DEF Deadline, Elsewhere, account, market, snapshots, bounds, Justified, Priced,
       InBreach, Calm, FreeOf
  <1>20. ASSUME Move PROVE Justified'
    <2>1. UNCHANGED <<world, snap, peak, cash, held>>
      BY <1>20 DEF Move, Elsewhere, account, market, snapshots, bounds
    <2>2. \A d \in Drivers : tick'[d].low <= tick[d].low /\ tick'[d].top = tick[d].top
      BY <1>20, MoveEffect
    <2> QED
      BY <1>20, <2>1, <2>2, MoveEffect, SamePriced DEF Next
  <1>21. ASSUME Reset PROVE Justified'
    <2>1. Has("reset") /\ world' = world
      BY <1>21 DEF Reset
    <2> QED
      BY <2>1 DEF Justified, Calm, FreeOf, Has
  <1>22. CASE UNCHANGED vars
    BY <1>22 DEF vars, Elsewhere, account, market, snapshots, bounds, Justified, Priced,
       InBreach, Calm, FreeOf
  <1>23. ASSUME NEW side \in Sides, Arrives(side) PROVE Justified'
    <2>1. Has("late") /\ world' = world
      BY <1>23, ArrivesEffect
    <2> QED
      BY <2>1 DEF Justified, Calm, FreeOf, Has
  <1>24. ASSUME BarCloses PROVE Justified'
    <2>1. UNCHANGED <<world, snap, peak, cash, held>>
      BY <1>24 DEF BarCloses, snapshots, account
    <2>2. \A d \in Drivers : /\ tick'[d].low = tick[d].low /\ tick[d].low \in Nat
                             /\ tick[d].pc # "idle" => tick[d].top <= tick'[d].top
      <3>1. \A d \in Drivers : tick[d].low \in Lows
        BY Fields DEF TypeOK
      <3> QED
        BY <1>24, <3>1, BarClosesEffect, Numbers DEF Lows
    <2>3. \A d \in Drivers : tick'[d].low <= tick[d].low
      BY <2>2
    <2> QED
      BY <1>24, <2>1, <2>2, <2>3, BarClosesEffect, SamePriced
  <1> QED
    BY <1>1, <1>2, <1>3, <1>4, <1>5, <1>6, <1>7, <1>8, <1>9, <1>10, <1>11, <1>12, <1>13,
       <1>14, <1>15, <1>16, <1>17, <1>18, <1>19, <1>20, <1>21, <1>22, <1>23,
       <1>24 DEF Next, Step

-----------------------------------------------------------------------------
\* The clearance of an achieved goal.  Either each tick of the goal is judged by
\* its own snapshot, or nobody but the runner trades, and what it buys it does
\* not buy on a snapshot that reaches the target.  What orders without a final word
\* buy late is left out on both sides.
Solo == FreeOf({"overlap"}) /\ ~({"capture", "users"} \subseteq world)
Kept == held - strays <= snap.held - snap.strays
Emptied == held - strays <= -snap.strays
NotBought == ~Has("users") /\ Reached(snap) => Kept
Clears(d) ==
    /\ tick[d].stage = "clear" => IF tick[d].pc = "end" THEN Emptied ELSE Kept
    /\ ~Has("users") => /\ tick[d].job \notin {"manual", "snapshot"}
                        /\ tick[d].stage \in {"patrol", "risk"} /\ tick[d].ending = "none" =>
                              tick[d].job = "bare" \/ ~Reached(snap)
Cleared == Solo => NotBought /\ \A d \in Drivers : Clears(d)

LEMMA ClearedAlone ==
    ASSUME Flows, Alone, world' = world, NEW d \in Drivers, tick[d].pc # "idle", OnlyTick(d),
           Solo => NotBought' /\ Clears(d)'
    PROVE  Cleared'
  <1>1. ASSUME Solo, NEW e \in Drivers \ {d} PROVE Clears(e)'
    <2>1. tick'[e].job = "none" /\ tick'[e].stage = "none"
      BY <1>1 DEF Solo, Alone, OnlyTick, Flows, Flow
    <2> QED
      BY <2>1 DEF Clears
  <1> QED
    BY <1>1 DEF Cleared, Solo, FreeOf
\* Every step keeps to it.
LEMMA ClearedNext ==
    TypeOK /\ Flows /\ Alone /\ Views /\ Loads /\ Cleared /\ [Next]_vars => Cleared'
  <1> SUFFICES ASSUME TypeOK, Flows, Alone, Views, Loads, Cleared, [Next]_vars PROVE Cleared'
    OBVIOUS
  <1>0. Solo => FreeOf({"overlap"}) /\ (Has("users") => ~Has("capture"))
    BY DEF Solo, Has
  <1>1. ASSUME RunnerTick PROVE Cleared'
    <2>1. /\ "runner" \in Drivers /\ OnlyTick("runner")
          /\ tick'["runner"].job = "bare" \/ tick'["runner"].stage = "none"
          /\ tick'["runner"].job \in {"goal", "bare"} /\ tick'["runner"].stage # "clear"
      BY <1>1, RunnerTickEffect
    <2>2. UNCHANGED <<world, snap, held, strays>>
      BY <1>1 DEF RunnerTick, Elsewhere, account, market, snapshots, bounds
    <2>3. ASSUME Solo, NEW e \in Drivers PROVE Clears(e)'
      BY <2>1, <2>2, <2>3 DEF Cleared, Clears, Kept, Emptied, OnlyTick, Has
    <2>4. Solo => NotBought'
      BY <2>2 DEF Cleared, NotBought, Kept, Emptied, Has
    <2> QED
      BY <2>2, <2>3, <2>4 DEF Cleared, Solo, FreeOf
  <1>2. ASSUME UserTick PROVE Cleared'
    <2>1. /\ "user" \in Drivers /\ OnlyTick("user")
          /\ Has("users") /\ tick'["user"].stage = "none"
      BY <1>2, UserTickEffect
    <2>2. UNCHANGED <<world, snap, held, strays>>
      BY <1>2 DEF UserTick, Elsewhere, account, market, snapshots, bounds
    <2>3. ASSUME Solo, NEW e \in Drivers PROVE Clears(e)'
      BY <2>1, <2>2, <2>3 DEF Cleared, Clears, Kept, Emptied, OnlyTick, Has
    <2>4. Solo => NotBought'
      BY <2>2 DEF Cleared, NotBought, Kept, Emptied, Has
    <2> QED
      BY <2>2, <2>3, <2>4 DEF Cleared, Solo, FreeOf
  <1>3. ASSUME NEW d \in Drivers, Fetch(d) PROVE Cleared'
    <2>1. tick[d].pc = "fetch" /\ Fetch(d)
      BY <1>3, FetchEffect
    <2>2. UNCHANGED <<world, snap, held, strays>>
      BY <1>3 DEF Fetch, Elsewhere, account, market, snapshots, bounds
    <2>nb. Solo => NotBought'
      BY <2>2 DEF Cleared, NotBought, Kept, Emptied, Has
    <2>flow. Flow(tick[d]) /\ Ending(tick[d])
      BY DEF Flows
    <2>3. /\ OnlyTick(d)
          /\ tick'[d] = Rest
             \/ (/\ tick'[d].job = tick[d].job /\ tick'[d].ending = tick[d].ending
                 /\ tick'[d].stage = tick[d].stage
                 /\ (tick'[d].stage = "clear" => tick[d].pc # "end" /\ tick'[d].pc # "end"))
      BY <2>1, <2>flow, FetchEffect DEF Flow, Ending
    <2>4. Solo => Clears(d)'
      BY <2>2, <2>3, RestType DEF Cleared, Clears, Kept, Emptied, Has
    <2> QED
      BY <2>1, <2>2, <2>nb, <2>3, <2>4, ClearedAlone
  <1>4. ASSUME NEW d \in Drivers, Save(d) PROVE Cleared'
    <2>1. /\ tick[d].pc = "save" /\ AfterCapture(d) /\ snap' = tick[d].got
          /\ UNCHANGED <<world, held, strays>>
      BY <1>4 DEF Save, At, account
    <2>2. /\ OnlyTick(d)
          /\ tick'[d] = Rest \/ (/\ tick'[d].job = tick[d].job /\ tick[d].job # "snapshot"
                                 /\ tick'[d].stage = IF tick[d].job = "goal" THEN "judge"
                                                     ELSE "patrol")
      BY <2>1, AfterCaptureEffect
    <2>3. tick[d].job \in {"goal", "manual", "snapshot"}
      BY <2>1 DEF Flows, Flow
    <2>4. Solo => NotBought'
      <3>1. FreeOf({"overlap"}) => Kept'
        BY <2>1 DEF Loads, Loaded, Shows, Kept
      <3> QED
        BY <1>0, <2>1, <3>1 DEF NotBought
    <2>5. Solo => Clears(d)'
      BY <2>1, <2>2, <2>3, RestType DEF Cleared, Clears, Kept, Emptied, Has
    <2> QED
      BY <2>1, <2>2, <2>4, <2>5, ClearedAlone
  <1>5. ASSUME NEW d \in Drivers, CaptureFails(d) PROVE Cleared'
    <2>1. tick[d].pc \in {"fetch", "save"} /\ AfterCapture(d)
      BY <1>5 DEF CaptureFails, At
    <2>2. UNCHANGED <<world, snap, held, strays>>
      BY <1>5 DEF CaptureFails, Elsewhere, account, market, snapshots, bounds
    <2>nb. Solo => NotBought'
      BY <2>2 DEF Cleared, NotBought, Kept, Emptied, Has
    <2>3. /\ OnlyTick(d)
          /\ tick'[d] = Rest \/ (/\ tick'[d].job = tick[d].job /\ tick[d].job # "snapshot"
                                 /\ tick'[d].stage = IF tick[d].job = "goal" THEN "judge"
                                                     ELSE "patrol")
      BY <2>1, AfterCaptureEffect
    <2>4. tick[d].job \in {"goal", "manual", "snapshot"}
      BY <2>1 DEF Flows, Flow
    <2>5. Solo => Clears(d)'
      BY <2>2, <2>3, <2>4, RestType DEF Cleared, Clears, Kept, Emptied, Has
    <2> QED
      BY <2>1, <2>2, <2>nb, <2>3, <2>5, ClearedAlone
  <1>6. ASSUME NEW d \in Drivers, ReadHoldings(d) PROVE Cleared'
    <2>1. tick[d].pc = "holdings" /\ ReadHoldings(d)
      BY <1>6, ReadHoldingsEffect
    <2>2. UNCHANGED <<world, snap, held, strays>>
      BY <1>6 DEF ReadHoldings, Elsewhere, account, market, snapshots, bounds
    <2>nb. Solo => NotBought'
      BY <2>2 DEF Cleared, NotBought, Kept, Emptied, Has
    <2>flow. Flow(tick[d]) /\ Ending(tick[d])
      BY DEF Flows
    <2>3. /\ OnlyTick(d)
          /\ tick'[d] = Rest
             \/ (/\ tick'[d].job = tick[d].job /\ tick'[d].ending = tick[d].ending
                 /\ tick'[d].stage = tick[d].stage
                 /\ (tick'[d].stage = "clear" => tick[d].pc # "end" /\ tick'[d].pc # "end"))
      BY <2>1, <2>flow, ReadHoldingsEffect DEF Flow, Ending
    <2>4. Solo => Clears(d)'
      BY <2>2, <2>3, RestType DEF Cleared, Clears, Kept, Emptied, Has
    <2> QED
      BY <2>1, <2>2, <2>nb, <2>3, <2>4, ClearedAlone
  <1>7. ASSUME NEW d \in Drivers, ReadDrawdown(d) PROVE Cleared'
    <2>1. tick[d].pc = "drawdown" /\ ReadDrawdown(d)
      BY <1>7, ReadDrawdownEffect
    <2>2. UNCHANGED <<world, snap, held, strays>>
      BY <1>7 DEF ReadDrawdown, Elsewhere, account, market, snapshots, bounds
    <2>nb. Solo => NotBought'
      BY <2>2 DEF Cleared, NotBought, Kept, Emptied, Has
    <2>flow. Flow(tick[d]) /\ Ending(tick[d])
      BY DEF Flows
    <2>3. /\ OnlyTick(d)
          /\ tick'[d] = Rest
             \/ (/\ tick'[d].job = tick[d].job /\ tick'[d].ending = tick[d].ending
                 /\ tick'[d].stage = tick[d].stage
                 /\ (tick'[d].stage = "clear" => tick[d].pc # "end" /\ tick'[d].pc # "end"))
      BY <2>1, <2>flow, ReadDrawdownEffect DEF Flow, Ending
    <2>4. Solo => Clears(d)'
      BY <2>2, <2>3, RestType DEF Cleared, Clears, Kept, Emptied, Has
    <2> QED
      BY <2>1, <2>2, <2>nb, <2>3, <2>4, ClearedAlone
  <1>8. ASSUME NEW d \in Drivers, Judge(d) PROVE Cleared'
    <2>1. tick[d].pc = "judge" /\ Judge(d)
      BY <1>8, JudgeEffect
    <2>2. UNCHANGED <<world, snap, held, strays>>
      BY <1>8 DEF Judge, Elsewhere, account, market, snapshots, bounds
    <2>nb. Solo => NotBought'
      BY <2>2 DEF Cleared, NotBought, Kept, Emptied, Has
    <2>3. OnlyTick(d) /\ tick'[d].job = "goal" /\ tick[d].job = "goal" /\ tick[d].stage = "judge"
      BY <2>1, JudgeEffect DEF Flows, Flow
    <2>4. FreeOf({"overlap"}) => tick[d].view = snap
      BY <2>1 DEF Views, View
    <2>5. \/ tick'[d].stage = "end"
          \/ tick'[d].stage = "clear" /\ tick'[d].pc = "holdings" /\ Reached(tick[d].view)
          \/ tick'[d].stage = "patrol" /\ (tick'[d].ending = "none" => ~Reached(tick[d].view))
      BY <2>1, JudgeEffect
    <2>6. Solo /\ Reached(snap) => Kept
      <3>1. CASE Has("users")
        <4>1. Own(tick[d])
          BY <2>1, <2>3 DEF Own
        <4> QED
          BY <1>0, <3>1, <4>1 DEF Loads, Loaded, Shows, Kept
      <3>2. CASE ~Has("users")
        BY <3>2 DEF Cleared, NotBought, Kept, Emptied
      <3> QED
        BY <3>1, <3>2
    <2>7. Solo => Clears(d)'
      BY <1>0, <2>2, <2>3, <2>4, <2>5, <2>6 DEF Clears, Kept
    <2> QED
      BY <2>1, <2>2, <2>nb, <2>3, <2>7, ClearedAlone
  <1>9. ASSUME NEW d \in Drivers, End(d) PROVE Cleared'
    <2>1. tick[d].pc = "end" /\ Finish(d)
      BY <1>9 DEF End, At
    <2>2. UNCHANGED <<world, snap, held, strays>>
      BY <1>9 DEF End, Elsewhere, account, market, snapshots, bounds
    <2>nb. Solo => NotBought'
      BY <2>2 DEF Cleared, NotBought, Kept, Emptied, Has
    <2>3. OnlyTick(d) /\ tick'[d] = Rest
      BY <2>1, FinishEffect
    <2> QED
      BY <2>1, <2>2, <2>nb, <2>3, RestType, ClearedAlone DEF Clears
  <1>10. ASSUME NEW d \in Drivers, Patrol(d) PROVE Cleared'
    <2>1. tick[d].pc = "patrol" /\ (Goto(d, "sell") \/ AfterPatrol(d, "none"))
      BY <1>10 DEF Patrol, At
    <2>2. UNCHANGED <<world, snap, held, strays>>
      BY <1>10 DEF Patrol, Elsewhere, account, market, snapshots, bounds
    <2>nb. Solo => NotBought'
      BY <2>2 DEF Cleared, NotBought, Kept, Emptied, Has
    <2>flow. Flow(tick[d]) /\ Ending(tick[d])
      BY DEF Flows
    <2>3. /\ OnlyTick(d)
          /\ tick'[d] = Rest
             \/ (/\ tick'[d].job = tick[d].job /\ tick'[d].ending = tick[d].ending
                 /\ tick'[d].stage = tick[d].stage
                 /\ (tick'[d].stage = "clear" => tick[d].pc # "end" /\ tick'[d].pc # "end"))
      BY <2>1, <2>flow, GotoEffect, AfterPatrolEffect, WhysType, RestType DEF Labels, Flow, Ending
    <2>4. Solo => Clears(d)'
      BY <2>2, <2>3, RestType DEF Cleared, Clears, Kept, Emptied, Has
    <2> QED
      BY <2>1, <2>2, <2>nb, <2>3, <2>4, ClearedAlone
  <1>11. ASSUME NEW d \in Drivers, Clear(d) PROVE Cleared'
    <2>1. UNCHANGED <<world, snap, held, strays>>
      BY <1>11 DEF Clear, Elsewhere, account, market, snapshots, bounds
    <2>2. tick[d].pc = "clear" /\ tick[d].stage = "clear" /\ tick[d].job = "goal"
      BY <1>11 DEF Clear, At, Flows, Flow
    <2>3. \/ Finish(d)
          \/ Goto(d, "sell")
          \/ Goto(d, "end") /\ ~(tick[d].view.held > 0)
      BY <1>11 DEF Clear
    <2>4. Solo => NotBought'
      BY <2>1 DEF Cleared, NotBought, Kept, Emptied, Has
    <2>5. Solo => Kept /\ tick[d].view = snap
      BY <1>0, <2>2 DEF Cleared, Clears, Views, View
    <2>6. CASE Finish(d)
      <3>1. OnlyTick(d) /\ tick'[d] = Rest
        BY <2>6, FinishEffect
      <3> QED
        BY <2>1, <2>2, <2>4, <3>1, RestType, ClearedAlone DEF Clears
    <2>7. CASE Goto(d, "sell")
      <3>1. /\ OnlyTick(d) /\ tick'[d].pc = "sell" /\ tick'[d].stage = "clear"
            /\ tick'[d].job = "goal"
        BY <2>2, <2>7, GotoEffect DEF Labels
      <3>2. Solo => Clears(d)'
        BY <2>1, <2>5, <3>1 DEF Clears, Kept
      <3> QED
        BY <2>1, <2>2, <2>4, <3>1, <3>2, ClearedAlone
    <2>8. CASE Goto(d, "end") /\ ~(tick[d].view.held > 0)
      <3>1. /\ OnlyTick(d) /\ tick'[d].pc = "end" /\ tick'[d].stage = "clear"
            /\ tick'[d].job = "goal"
        BY <2>2, <2>8, GotoEffect DEF Labels
      <3>2. Solo => Emptied
        <4>1. /\ held \in Int /\ strays \in Int /\ snap.held \in Nat /\ snap.strays \in Int
          BY DEF TypeOK, Snaps
        <4> QED
          BY <2>5, <2>8, <4>1 DEF Kept, Emptied
      <3>3. Solo => Clears(d)'
        BY <2>1, <3>1, <3>2 DEF Clears, Emptied
      <3> QED
        BY <2>1, <2>2, <2>4, <3>1, <3>3, ClearedAlone
    <2> QED
      BY <2>3, <2>6, <2>7, <2>8
  <1>12. ASSUME NEW d \in Drivers, Sell(d) PROVE Cleared'
    <2>1. /\ tick[d].pc = "sell" /\ UNCHANGED <<world, snap, strays>> /\ held' <= held
          /\ AccountType
      BY <1>12, SellEffect DEF Elsewhere, account, market, snapshots, bounds
    <2>2. /\ held \in Nat /\ held' \in Nat /\ snap.held \in Nat
          /\ strays \in Nat /\ snap.strays \in Nat
      BY <2>1 DEF AccountType, TypeOK, Snaps
    <2>3. Solo => NotBought'
      BY <2>1, <2>2 DEF Cleared, NotBought, Kept, Emptied, Has
    <2>4. Flow(tick[d]) /\ Ending(tick[d])
      BY DEF Flows
    <2>5. CASE tick[d].ending # "achieved" /\ AfterPatrol(d, Reason(tick[d].fall))
      <3>1. /\ OnlyTick(d)
            /\ tick'[d] = Rest \/ (/\ tick'[d].stage = tick[d].stage /\ tick'[d].job = tick[d].job
                                   /\ tick'[d].ending = tick[d].ending)
        BY <2>5, AfterPatrolEffect, WhysType
      <3>2. tick[d].stage # "clear"
        BY <2>4, <2>5 DEF Ending
      <3>3. Solo => Clears(d)'
        BY <2>1, <3>1, <3>2, RestType DEF Cleared, Clears, Kept, Emptied, Has
      <3> QED
        BY <2>1, <2>3, <3>1, <3>3, ClearedAlone
    <2>6. CASE /\ tick[d].ending = "achieved" /\ Goto(d, "end")
               /\ tick[d].view.held <= held /\ held' = held - tick[d].view.held
      <3>1. tick[d].stage = "clear" /\ tick[d].job = "goal"
        BY <2>1, <2>4, <2>6, AtSell
      <3>2. /\ OnlyTick(d) /\ tick'[d].pc = "end" /\ tick'[d].stage = "clear"
            /\ tick'[d].job = "goal"
        BY <2>6, <3>1, GotoEffect DEF Labels
      <3>3. Solo => Kept /\ tick[d].view = snap
        BY <1>0, <2>1, <3>1 DEF Cleared, Clears, Views, View
      <3>4. Solo => Emptied'
        BY <2>1, <2>2, <2>6, <3>3 DEF Kept, Emptied
      <3>5. Solo => Clears(d)'
        BY <3>2, <3>4 DEF Clears
      <3> QED
        BY <2>1, <2>3, <3>2, <3>5, ClearedAlone
    <2>7. CASE Finish(d)
      <3>1. OnlyTick(d) /\ tick'[d] = Rest
        BY <2>7, FinishEffect
      <3> QED
        BY <2>1, <2>3, <3>1, RestType, ClearedAlone DEF Clears
    <2> QED
      BY <1>12, <2>5, <2>6, <2>7, SellEffect
  <1>13. ASSUME NEW d \in Drivers, Budget(d) PROVE Cleared'
    <2>1. tick[d].pc = "budget" /\ (Goto(d, "decide") \/ Finish(d))
      BY <1>13 DEF Budget, At
    <2>2. UNCHANGED <<world, snap, held, strays>>
      BY <1>13 DEF Budget, Elsewhere, account, market, snapshots, bounds
    <2>nb. Solo => NotBought'
      BY <2>2 DEF Cleared, NotBought, Kept, Emptied, Has
    <2>flow. Flow(tick[d]) /\ Ending(tick[d])
      BY DEF Flows
    <2>3. /\ OnlyTick(d)
          /\ tick'[d] = Rest
             \/ (/\ tick'[d].job = tick[d].job /\ tick'[d].ending = tick[d].ending
                 /\ tick'[d].stage = tick[d].stage
                 /\ (tick'[d].stage = "clear" => tick[d].pc # "end" /\ tick'[d].pc # "end"))
      BY <2>1, <2>flow, GotoEffect, FinishEffect, RestType DEF Labels, Flow, Ending
    <2>4. Solo => Clears(d)'
      BY <2>2, <2>3, RestType DEF Cleared, Clears, Kept, Emptied, Has
    <2> QED
      BY <2>1, <2>2, <2>nb, <2>3, <2>4, ClearedAlone
  <1>14. ASSUME NEW d \in Drivers, Decide(d) PROVE Cleared'
    <2>1. tick[d].pc = "decide" /\ Decide(d)
      BY <1>14, DecideEffect
    <2>2. UNCHANGED <<world, snap, held, strays>>
      BY <1>14 DEF Decide, Elsewhere, account, market, snapshots, bounds
    <2>nb. Solo => NotBought'
      BY <2>2 DEF Cleared, NotBought, Kept, Emptied, Has
    <2>flow. Flow(tick[d]) /\ Ending(tick[d])
      BY DEF Flows
    <2>3. /\ OnlyTick(d)
          /\ tick'[d] = Rest
             \/ (/\ tick'[d].job = tick[d].job /\ tick'[d].ending = tick[d].ending
                 /\ tick[d].stage = "patrol" /\ tick'[d].stage = "risk")
      BY <2>1, <2>flow, DecideEffect, RestType DEF Flow, Ending
    <2>4. Solo => Clears(d)'
      BY <2>2, <2>3, RestType DEF Cleared, Clears, Kept, Emptied, Has
    <2> QED
      BY <2>1, <2>2, <2>nb, <2>3, <2>4, ClearedAlone
  <1>15. ASSUME NEW d \in Drivers, Risk(d) PROVE Cleared'
    <2>1. tick[d].pc = "risk" /\ (Goto(d, "execute") \/ Finish(d))
      BY <1>15 DEF Risk, At
    <2>2. UNCHANGED <<world, snap, held, strays>>
      BY <1>15 DEF Risk, Elsewhere, account, market, snapshots, bounds
    <2>nb. Solo => NotBought'
      BY <2>2 DEF Cleared, NotBought, Kept, Emptied, Has
    <2>flow. Flow(tick[d]) /\ Ending(tick[d])
      BY DEF Flows
    <2>3. /\ OnlyTick(d)
          /\ tick'[d] = Rest
             \/ (/\ tick'[d].job = tick[d].job /\ tick'[d].ending = tick[d].ending
                 /\ tick'[d].stage = tick[d].stage
                 /\ (tick'[d].stage = "clear" => tick[d].pc # "end" /\ tick'[d].pc # "end"))
      BY <2>1, <2>flow, GotoEffect, FinishEffect, RestType DEF Labels, Flow, Ending
    <2>4. Solo => Clears(d)'
      BY <2>2, <2>3, RestType DEF Cleared, Clears, Kept, Emptied, Has
    <2> QED
      BY <2>1, <2>2, <2>nb, <2>3, <2>4, ClearedAlone
  <1>16. ASSUME NEW d \in Drivers, Execute(d) PROVE Cleared'
    <2>1. tick[d].pc = "execute" /\ Finish(d)
      BY <1>16, ExecuteEffect
    <2>2. UNCHANGED <<world, snap, strays>>
      BY <1>16, ExecuteEffect DEF Ordered, Elsewhere, account, market, snapshots, bounds
    <2>a. AccountType
      BY <1>16, ExecuteEffect DEF Ordered
    <2>4. Solo => held' <= held \/ Has("users") \/ ~Reached(snap)
      BY <2>1 DEF Cleared, Clears, Flows, Flow
    <2>5. /\ held \in Nat /\ held' \in Nat /\ snap.held \in Nat
          /\ strays \in Nat /\ snap.strays \in Nat
      BY <2>a DEF AccountType, TypeOK, Snaps
    <2>6. Solo => NotBought'
      BY <2>2, <2>4, <2>5 DEF Cleared, NotBought, Kept, Emptied, Has
    <2>7. OnlyTick(d) /\ tick'[d] = Rest
      BY <2>1, FinishEffect
    <2> QED
      BY <2>1, <2>2, <2>6, <2>7, RestType, ClearedAlone DEF Clears
  <1>17. ASSUME NEW d \in Drivers, Interrupt(d) PROVE Cleared'
    <2>1. tick[d].pc # "idle" /\ Finish(d)
      BY <1>17, InterruptEffect
    <2>2. UNCHANGED <<world, snap, strays>>
      BY <1>17, InterruptEffect DEF Elsewhere, account, market, snapshots, bounds
    <2>a. AccountType
      BY <1>17, InterruptEffect
    <2>3. \/ held' = held
          \/ tick[d].pc = "sell" /\ AccountType /\ held' = held - tick[d].view.held
          \/ tick[d].pc = "execute"
      BY <1>17, InterruptEffect
    <2>4. Solo => held' <= held \/ Has("users") \/ ~Reached(snap)
      <3>1. CASE held' = held
        BY <3>1 DEF TypeOK
      <3>2. CASE tick[d].pc = "sell" /\ AccountType /\ held' = held - tick[d].view.held
        <4>1. tick[d].view.held \in Nat
          BY Fields DEF TypeOK, Snaps
        <4> QED
          BY <3>2, <4>1 DEF TypeOK
      <3>3. CASE tick[d].pc = "execute"
        BY <3>3 DEF Cleared, Clears, Flows, Flow
      <3> QED
        BY <2>3, <3>1, <3>2, <3>3
    <2>5. /\ held \in Nat /\ held' \in Nat /\ snap.held \in Nat
          /\ strays \in Nat /\ snap.strays \in Nat
      BY <2>a DEF AccountType, TypeOK, Snaps
    <2>6. Solo => NotBought'
      BY <2>2, <2>4, <2>5 DEF Cleared, NotBought, Kept, Emptied, Has
    <2>7. OnlyTick(d) /\ tick'[d] = Rest
      BY <2>1, FinishEffect
    <2> QED
      BY <2>1, <2>2, <2>6, <2>7, RestType, ClearedAlone DEF Clears
  <1>18. ASSUME Confirm PROVE Cleared'
    <2>1. UNCHANGED <<world, snap, held, strays, tick>>
      BY <1>18 DEF Confirm, Elsewhere, account, market, snapshots, bounds
    <2> QED
      BY <2>1 DEF Cleared, NotBought, Kept, Emptied, Clears, Solo,
         FreeOf, Has
  <1>19. ASSUME Deadline PROVE Cleared'
    <2>1. UNCHANGED <<world, snap, held, strays, tick>>
      BY <1>19 DEF Deadline, Elsewhere, account, market, snapshots, bounds
    <2> QED
      BY <2>1 DEF Cleared, NotBought, Kept, Emptied, Clears, Solo,
         FreeOf, Has
  <1>20. ASSUME Move PROVE Cleared'
    <2>1. UNCHANGED <<world, snap, held, strays>>
      BY <1>20 DEF Move, Elsewhere, account, market, snapshots, bounds
    <2> QED
      BY <1>20, <2>1, MoveEffect DEF SameTicks, Cleared, NotBought, Kept, Emptied, Clears,
         Solo, FreeOf, Has
  <1>21. ASSUME Reset PROVE Cleared'
    <2>1. UNCHANGED <<world, snap, held, strays, tick>>
      BY <1>21 DEF Reset, Elsewhere, account, market, snapshots, bounds
    <2> QED
      BY <2>1 DEF Cleared, NotBought, Kept, Emptied, Clears, Solo,
         FreeOf, Has
  <1>22. CASE UNCHANGED vars
    <2>1. UNCHANGED <<world, snap, held, strays, tick>>
      BY <1>22 DEF vars, Elsewhere, account, market, snapshots, bounds
    <2> QED
      BY <2>1 DEF Cleared, NotBought, Kept, Emptied, Clears, Solo,
         FreeOf, Has
  <1>23. ASSUME NEW side \in Sides, Arrives(side) PROVE Cleared'
    <2>1. /\ UNCHANGED <<world, snap, tick>> /\ strays' \in Int /\ held' \in Int
          /\ \/ held' = held + 1 /\ strays' = strays + 1
             \/ held' = held - 1 /\ strays' = strays
      BY <1>23, ArrivesEffect DEF snapshots, AccountType
    <2>2. held \in Int /\ strays \in Int /\ snap.held \in Int /\ snap.strays \in Int
      BY DEF TypeOK, Snaps
    <2>3. (Kept => Kept') /\ (Emptied => Emptied')
      BY <2>1, <2>2 DEF Kept, Emptied
    <2> QED
      BY <2>1, <2>3 DEF Cleared, NotBought, Clears, Solo, FreeOf, Has
  <1>24. ASSUME BarCloses PROVE Cleared'
    <2>1. UNCHANGED <<world, snap, held, strays>>
      BY <1>24 DEF BarCloses, snapshots, account
    <2> QED
      BY <1>24, <2>1, BarClosesEffect DEF SameTicks, Cleared, NotBought, Kept, Emptied, Clears,
         Solo, FreeOf, Has
  <1> QED
    BY <1>1, <1>2, <1>3, <1>4, <1>5, <1>6, <1>7, <1>8, <1>9, <1>10, <1>11, <1>12, <1>13,
       <1>14, <1>15, <1>16, <1>17, <1>18, <1>19, <1>20, <1>21, <1>22, <1>23,
       <1>24 DEF Next, Step

-----------------------------------------------------------------------------
\* The end of an aborted goal.  From the snapshot on that shows the breach, the
\* account only holds what that snapshot says, or nothing any more.
Orderly == FreeOf({"orders", "late", "patrol", "disabled", "reset", "overlap"})
Breached == Drawdown = "breached"
SoldOut == Breached => held = 0 \/ held = snap.held
Drops(d) ==
    /\ tick[d].ending = "aborted" => Breached
    /\ tick[d].pc = "end" /\ tick[d].stage = "patrol" => held = 0
    /\ Breached /\ (tick[d].pc \in {"budget", "decide"} \/ tick[d].stage = "risk") => held = 0
    /\ tick[d].pc = "execute" /\ tick[d].want = "buy" => ~Breached
Dropped == Orderly => SoldOut /\ \A d \in Drivers : Drops(d)

LEMMA DroppedAlone ==
    ASSUME Flows, Alone, world' = world, NEW d \in Drivers, tick[d].pc # "idle", OnlyTick(d),
           Orderly => SoldOut' /\ Drops(d)'
    PROVE  Dropped'
  <1>1. ASSUME Orderly, NEW e \in Drivers \ {d} PROVE Drops(e)'
    <2>1. /\ tick'[e].pc = "idle" /\ tick'[e].stage = "none" /\ tick'[e].ending # "aborted"
      BY <1>1 DEF Orderly, FreeOf, Alone, OnlyTick, Flows, Flow, Ending
    <2> QED
      BY <2>1 DEF Drops
  <1> QED
    BY <1>1 DEF Dropped, Orderly, FreeOf
\* Snapshots and peak tell whether the account is in breach.
LEMMA BreachedSame == ASSUME UNCHANGED <<snap, peak>> PROVE Breached' = Breached
  BY DEF Breached, Drawdown, Equity
\* Every step keeps to it.
LEMMA DroppedNext ==
    TypeOK /\ Flows /\ Alone /\ Views /\ Loads /\ Dropped /\ [Next]_vars => Dropped'
  <1> SUFFICES ASSUME TypeOK, Flows, Alone, Views, Loads, Dropped, [Next]_vars PROVE Dropped'
    OBVIOUS
  <1>0. Orderly => /\ FreeOf({"overlap"}) /\ ~Has("orders") /\ ~Has("patrol")
                   /\ ~Has("disabled") /\ ~Has("reset") /\ ~Has("late")
    BY DEF Orderly, FreeOf, Has
  <1>1. ASSUME RunnerTick PROVE Dropped'
    <2>1. /\ "runner" \in Drivers /\ OnlyTick("runner") /\ tick'["runner"].ending = "none"
          /\ tick'["runner"].pc \in {"fetch", "holdings"} /\ tick'["runner"].stage # "risk"
      BY <1>1, RunnerTickEffect
    <2>2. UNCHANGED <<world, snap, peak, held>>
      BY <1>1 DEF RunnerTick, Elsewhere, account, market, snapshots, bounds
    <2>3. Breached' = Breached
      BY <2>2, BreachedSame
    <2>4. ASSUME Orderly, NEW e \in Drivers PROVE Drops(e)'
      BY <2>1, <2>2, <2>3, <2>4 DEF Dropped, Drops, OnlyTick
    <2>5. Orderly => SoldOut'
      BY <2>2, <2>3 DEF Dropped, SoldOut
    <2> QED
      BY <2>2, <2>4, <2>5 DEF Dropped, Orderly, FreeOf
  <1>2. ASSUME UserTick PROVE Dropped'
    <2>1. /\ "user" \in Drivers /\ OnlyTick("user") /\ tick'["user"].ending = "none"
          /\ tick'["user"].pc \in {"fetch", "holdings"} /\ tick'["user"].stage # "risk"
      BY <1>2, UserTickEffect
    <2>2. UNCHANGED <<world, snap, peak, held>>
      BY <1>2 DEF UserTick, Elsewhere, account, market, snapshots, bounds
    <2>3. Breached' = Breached
      BY <2>2, BreachedSame
    <2>4. ASSUME Orderly, NEW e \in Drivers PROVE Drops(e)'
      BY <2>1, <2>2, <2>3, <2>4 DEF Dropped, Drops, OnlyTick
    <2>5. Orderly => SoldOut'
      BY <2>2, <2>3 DEF Dropped, SoldOut
    <2> QED
      BY <2>2, <2>4, <2>5 DEF Dropped, Orderly, FreeOf
  <1>3. ASSUME NEW d \in Drivers, Fetch(d) PROVE Dropped'
    <2>1. tick[d].pc = "fetch" /\ Fetch(d)
      BY <1>3, FetchEffect
    <2>2. UNCHANGED <<world, snap, peak, held>>
      BY <1>3 DEF Fetch, Elsewhere, account, market, snapshots, bounds
    <2>br. Breached' = Breached
      BY <2>2, BreachedSame
    <2>so. Orderly => SoldOut'
      BY <2>2, <2>br DEF Dropped, SoldOut
    <2>3. Flow(tick[d]) /\ Ending(tick[d])
      BY DEF Flows
    <2>4. /\ OnlyTick(d) /\ tick'[d].pc # "execute"
          /\ tick'[d].ending = "aborted" => tick[d].ending = "aborted"
          /\ tick'[d].pc = "end" => tick'[d].stage # "patrol"
          /\ tick'[d].pc \in {"budget", "decide"} \/ tick'[d].stage = "risk" =>
                tick[d].pc \in {"budget", "decide"} \/ tick[d].stage = "risk"
      BY <2>1, <2>3, FetchEffect DEF Flow, Ending
    <2>5. Orderly => Drops(d)'
      BY <2>2, <2>br, <2>4 DEF Dropped, Drops
    <2> QED
      BY <2>1, <2>2, <2>so, <2>4, <2>5, DroppedAlone
  <1>4. ASSUME NEW d \in Drivers, Save(d) PROVE Dropped'
    <2>1. /\ tick[d].pc = "save" /\ AfterCapture(d) /\ snap' = tick[d].got
          /\ UNCHANGED <<world, held>>
      BY <1>4 DEF Save, At, account
    <2>2. tick[d].ending = "none"
      BY <2>1 DEF Flows, Flow, Ending
    <2>3. /\ OnlyTick(d)
          /\ tick'[d].pc \in {"idle", "holdings"} /\ tick'[d].ending = "none"
          /\ tick'[d].stage # "risk"
      BY <2>1, <2>2, AfterCaptureEffect, RestType
    <2>4. Orderly => snap'.held = held'
      BY <1>0, <2>1 DEF Loads, Loaded, Shows
    <2>5. Orderly => SoldOut' /\ Drops(d)'
      BY <2>3, <2>4 DEF SoldOut, Drops
    <2> QED
      BY <2>1, <2>3, <2>5, DroppedAlone
  <1>5. ASSUME NEW d \in Drivers, CaptureFails(d) PROVE Dropped'
    <2>1. tick[d].pc \in {"fetch", "save"} /\ AfterCapture(d)
      BY <1>5 DEF CaptureFails, At
    <2>2. UNCHANGED <<world, snap, peak, held>>
      BY <1>5 DEF CaptureFails, Elsewhere, account, market, snapshots, bounds
    <2>br. Breached' = Breached
      BY <2>2, BreachedSame
    <2>so. Orderly => SoldOut'
      BY <2>2, <2>br DEF Dropped, SoldOut
    <2>3. Flow(tick[d]) /\ Ending(tick[d])
      BY DEF Flows
    <2>4. /\ OnlyTick(d) /\ tick'[d].pc # "execute"
          /\ tick'[d].ending = "aborted" => tick[d].ending = "aborted"
          /\ tick'[d].pc = "end" => tick'[d].stage # "patrol"
          /\ tick'[d].pc \in {"budget", "decide"} \/ tick'[d].stage = "risk" =>
                tick[d].pc \in {"budget", "decide"} \/ tick[d].stage = "risk"
      BY <2>1, <2>3, AfterCaptureEffect, RestType DEF Flow, Ending
    <2>5. Orderly => Drops(d)'
      BY <2>2, <2>br, <2>4 DEF Dropped, Drops
    <2> QED
      BY <2>1, <2>2, <2>so, <2>4, <2>5, DroppedAlone
  <1>6. ASSUME NEW d \in Drivers, ReadHoldings(d) PROVE Dropped'
    <2>1. tick[d].pc = "holdings" /\ ReadHoldings(d)
      BY <1>6, ReadHoldingsEffect
    <2>2. UNCHANGED <<world, snap, peak, held>>
      BY <1>6 DEF ReadHoldings, Elsewhere, account, market, snapshots, bounds
    <2>br. Breached' = Breached
      BY <2>2, BreachedSame
    <2>so. Orderly => SoldOut'
      BY <2>2, <2>br DEF Dropped, SoldOut
    <2>3. Flow(tick[d]) /\ Ending(tick[d])
      BY DEF Flows
    <2>4. /\ OnlyTick(d) /\ tick'[d].pc # "execute"
          /\ tick'[d].ending = "aborted" => tick[d].ending = "aborted"
          /\ tick'[d].pc = "end" => tick'[d].stage # "patrol"
          /\ tick'[d].pc \in {"budget", "decide"} \/ tick'[d].stage = "risk" =>
                tick[d].pc \in {"budget", "decide"} \/ tick[d].stage = "risk"
      BY <2>1, <2>3, ReadHoldingsEffect DEF Flow, Ending
    <2>5. Orderly => Drops(d)'
      BY <2>2, <2>br, <2>4 DEF Dropped, Drops
    <2> QED
      BY <2>1, <2>2, <2>so, <2>4, <2>5, DroppedAlone
  <1>7. ASSUME NEW d \in Drivers, ReadDrawdown(d) PROVE Dropped'
    <2>1. tick[d].pc = "drawdown" /\ ReadDrawdown(d)
      BY <1>7, ReadDrawdownEffect
    <2>2. UNCHANGED <<world, snap, peak, held>>
      BY <1>7 DEF ReadDrawdown, Elsewhere, account, market, snapshots, bounds
    <2>br. Breached' = Breached
      BY <2>2, BreachedSame
    <2>so. Orderly => SoldOut'
      BY <2>2, <2>br DEF Dropped, SoldOut
    <2>3. Flow(tick[d]) /\ Ending(tick[d])
      BY DEF Flows
    <2>4. /\ OnlyTick(d) /\ tick'[d].pc # "execute"
          /\ tick'[d].ending = "aborted" => tick[d].ending = "aborted"
          /\ tick'[d].pc = "end" => tick'[d].stage # "patrol"
          /\ tick'[d].pc \in {"budget", "decide"} \/ tick'[d].stage = "risk" =>
                tick[d].pc \in {"budget", "decide"} \/ tick[d].stage = "risk"
      BY <2>1, <2>3, ReadDrawdownEffect DEF Flow, Ending
    <2>5. Orderly => Drops(d)'
      BY <2>2, <2>br, <2>4 DEF Dropped, Drops
    <2> QED
      BY <2>1, <2>2, <2>so, <2>4, <2>5, DroppedAlone
  <1>8. ASSUME NEW d \in Drivers, Judge(d) PROVE Dropped'
    <2>1. tick[d].pc = "judge" /\ Judge(d)
      BY <1>8, JudgeEffect
    <2>2. UNCHANGED <<world, snap, peak, held>>
      BY <1>8 DEF Judge, Elsewhere, account, market, snapshots, bounds
    <2>br. Breached' = Breached
      BY <2>2, BreachedSame
    <2>so. Orderly => SoldOut'
      BY <2>2, <2>br DEF Dropped, SoldOut
    <2>3. /\ OnlyTick(d) /\ tick'[d].stage # "risk"
          /\ tick'[d].pc \in {"end", "holdings"}
          /\ tick'[d].pc = "end" => tick'[d].stage = "end"
          /\ tick'[d].ending = "aborted" => tick[d].fall = "breached"
      BY <2>1, JudgeEffect
    <2>4. Orderly => tick[d].fall = Drawdown
      BY <1>0, <2>1 DEF Views, View
    <2>5. Orderly => Drops(d)'
      BY <2>br, <2>3, <2>4 DEF Drops, Breached
    <2> QED
      BY <2>1, <2>2, <2>so, <2>3, <2>5, DroppedAlone
  <1>9. ASSUME NEW d \in Drivers, End(d) PROVE Dropped'
    <2>1. tick[d].pc = "end" /\ Finish(d)
      BY <1>9 DEF End, At
    <2>2. UNCHANGED <<world, snap, peak, held>>
      BY <1>9 DEF End, Elsewhere, account, market, snapshots, bounds
    <2>br. Breached' = Breached
      BY <2>2, BreachedSame
    <2>so. Orderly => SoldOut'
      BY <2>2, <2>br DEF Dropped, SoldOut
    <2>3. OnlyTick(d) /\ tick'[d] = Rest
      BY <2>1, FinishEffect
    <2>4. Drops(d)'
      BY <2>3, RestType DEF Drops
    <2> QED
      BY <2>1, <2>2, <2>so, <2>3, <2>4, DroppedAlone
  <1>10. ASSUME NEW d \in Drivers, Patrol(d) PROVE Dropped'
    <2>1. tick[d].pc = "patrol"
      BY <1>10 DEF Patrol, At
    <2>2. UNCHANGED <<world, snap, peak, held>>
      BY <1>10 DEF Patrol, Elsewhere, account, market, snapshots, bounds
    <2>br. Breached' = Breached
      BY <2>2, BreachedSame
    <2>so. Orderly => SoldOut'
      BY <2>2, <2>br DEF Dropped, SoldOut
    <2>3. PICK top \in Highs :
             \/ Goto(d, "sell")
             \/ /\ Has("disabled") \/ Has("patrol") \/ ~Breaches(tick[d].view, tick[d].fall, top)
                /\ AfterPatrol(d, "none")
      BY <1>10 DEF Patrol
    <2>4. tick[d].stage = "patrol"
      BY <2>1 DEF Flows, Flow
    <2>5. CASE Goto(d, "sell")
      <3>1. /\ OnlyTick(d) /\ tick'[d].pc = "sell" /\ tick'[d].stage = "patrol"
            /\ tick'[d].ending = tick[d].ending
        BY <2>4, <2>5, GotoEffect DEF Labels
      <3>2. Orderly => Drops(d)'
        BY <2>br, <3>1 DEF Dropped, Drops
      <3> QED
        BY <2>1, <2>2, <2>so, <3>1, <3>2, DroppedAlone
    <2>6. CASE /\ Has("disabled") \/ Has("patrol") \/ ~Breaches(tick[d].view, tick[d].fall, top)
               /\ AfterPatrol(d, "none")
      <3>1. /\ OnlyTick(d)
            /\ \/ tick'[d] = Rest
               \/ /\ tick'[d].pc \in {"end", "budget", "decide"} /\ tick'[d].stage = "patrol"
                  /\ tick'[d].ending = tick[d].ending
                  /\ tick'[d].pc = "end" => tick[d].ending = "aborted"
        BY <2>4, <2>6, AfterPatrolEffect, WhysType
      <3>2. Orderly /\ Breached => held = 0
        <4>1. SUFFICES ASSUME Orderly, Breached PROVE held = 0
          OBVIOUS
        <4>2. tick[d].view = snap /\ tick[d].fall = "breached"
          BY <1>0, <2>1, <4>1 DEF Views, View, Breached
        <4>3. ~(snap.held > 0) /\ snap.held \in Nat
          BY <1>0, <2>6, <4>1, <4>2 DEF Breaches, TypeOK, Snaps
        <4> QED
          BY <4>1, <4>3 DEF Dropped, SoldOut
      <3>3. Orderly => Drops(d)'
        BY <2>2, <2>br, <3>1, <3>2, RestType DEF Dropped, Drops
      <3> QED
        BY <2>1, <2>2, <2>so, <3>1, <3>3, DroppedAlone
    <2> QED
      BY <2>3, <2>5, <2>6
  <1>11. ASSUME NEW d \in Drivers, Clear(d) PROVE Dropped'
    <2>1. tick[d].pc = "clear" /\ (Goto(d, "sell") \/ Goto(d, "end") \/ Finish(d))
      BY <1>11 DEF Clear, At
    <2>2. UNCHANGED <<world, snap, peak, held>>
      BY <1>11 DEF Clear, Elsewhere, account, market, snapshots, bounds
    <2>br. Breached' = Breached
      BY <2>2, BreachedSame
    <2>so. Orderly => SoldOut'
      BY <2>2, <2>br DEF Dropped, SoldOut
    <2>3. Flow(tick[d]) /\ Ending(tick[d])
      BY DEF Flows
    <2>4. /\ OnlyTick(d) /\ tick'[d].pc # "execute"
          /\ tick'[d].ending = "aborted" => tick[d].ending = "aborted"
          /\ tick'[d].pc = "end" => tick'[d].stage # "patrol"
          /\ tick'[d].pc \in {"budget", "decide"} \/ tick'[d].stage = "risk" =>
                tick[d].pc \in {"budget", "decide"} \/ tick[d].stage = "risk"
      BY <2>1, <2>3, GotoEffect, FinishEffect, RestType DEF Labels, Flow, Ending
    <2>5. Orderly => Drops(d)'
      BY <2>2, <2>br, <2>4 DEF Dropped, Drops
    <2> QED
      BY <2>1, <2>2, <2>so, <2>4, <2>5, DroppedAlone
  <1>12. ASSUME NEW d \in Drivers, Sell(d) PROVE Dropped'
    <2>1. tick[d].pc = "sell"
      BY <1>12, SellEffect
    <2>2. UNCHANGED <<world, snap, peak>>
      BY <1>12, SellEffect DEF Elsewhere, account, market, snapshots, bounds
    <2>br. Breached' = Breached
      BY <2>2, BreachedSame
    <2>3. Orderly /\ Breached => held' = 0
      <3>1. SUFFICES ASSUME Orderly, Breached PROVE held' = 0
        OBVIOUS
      <3>2. tick[d].view = snap
        BY <1>0, <2>1, <3>1 DEF Views, View
      <3>3. held = 0 \/ held = snap.held
        BY <3>1 DEF Dropped, SoldOut
      <3>4. \/ tick[d].view.held <= held /\ held' = held - tick[d].view.held
            \/ tick[d].view.held > held /\ held' = held
        BY <1>12, <1>0, <3>1, SellEffect
      <3>5. held \in Nat /\ snap.held \in Nat
        BY DEF TypeOK, Snaps
      <3> QED
        BY <3>2, <3>3, <3>4, <3>5
    <2>4. Flow(tick[d]) /\ Ending(tick[d])
      BY DEF Flows
    <2>5. /\ OnlyTick(d) /\ tick'[d].pc # "execute"
          /\ tick'[d].ending = "aborted" => tick[d].ending = "aborted"
          /\ tick'[d].pc = "end" /\ tick'[d].stage = "patrol" => tick[d].ending = "aborted"
      <3>1. CASE tick[d].ending # "achieved" /\ AfterPatrol(d, Reason(tick[d].fall))
        BY <3>1, AfterPatrolEffect, WhysType, RestType
      <3>2. CASE tick[d].ending = "achieved" /\ Goto(d, "end")
        BY <2>1, <2>4, <3>2, AtSell, GotoEffect DEF Labels
      <3>3. CASE Finish(d)
        BY <3>3, FinishEffect, RestType
      <3> QED
        BY <1>12, <3>1, <3>2, <3>3, SellEffect
    <2>6. Orderly => SoldOut' /\ Drops(d)'
      BY <2>br, <2>3, <2>5 DEF Dropped, SoldOut, Drops
    <2> QED
      BY <2>1, <2>2, <2>5, <2>6, DroppedAlone
  <1>13. ASSUME NEW d \in Drivers, Budget(d) PROVE Dropped'
    <2>1. tick[d].pc = "budget" /\ (Goto(d, "decide") \/ Finish(d))
      BY <1>13 DEF Budget, At
    <2>2. UNCHANGED <<world, snap, peak, held>>
      BY <1>13 DEF Budget, Elsewhere, account, market, snapshots, bounds
    <2>br. Breached' = Breached
      BY <2>2, BreachedSame
    <2>so. Orderly => SoldOut'
      BY <2>2, <2>br DEF Dropped, SoldOut
    <2>3. Flow(tick[d]) /\ Ending(tick[d])
      BY DEF Flows
    <2>4. /\ OnlyTick(d) /\ tick'[d].pc # "execute"
          /\ tick'[d].ending = "aborted" => tick[d].ending = "aborted"
          /\ tick'[d].pc = "end" => tick'[d].stage # "patrol"
          /\ tick'[d].pc \in {"budget", "decide"} \/ tick'[d].stage = "risk" =>
                tick[d].pc \in {"budget", "decide"} \/ tick[d].stage = "risk"
      BY <2>1, <2>3, GotoEffect, FinishEffect, RestType DEF Labels, Flow, Ending
    <2>5. Orderly => Drops(d)'
      BY <2>2, <2>br, <2>4 DEF Dropped, Drops
    <2> QED
      BY <2>1, <2>2, <2>so, <2>4, <2>5, DroppedAlone
  <1>14. ASSUME NEW d \in Drivers, Decide(d) PROVE Dropped'
    <2>1. tick[d].pc = "decide" /\ Decide(d)
      BY <1>14, DecideEffect
    <2>2. UNCHANGED <<world, snap, peak, held>>
      BY <1>14 DEF Decide, Elsewhere, account, market, snapshots, bounds
    <2>br. Breached' = Breached
      BY <2>2, BreachedSame
    <2>so. Orderly => SoldOut'
      BY <2>2, <2>br DEF Dropped, SoldOut
    <2>3. Flow(tick[d]) /\ Ending(tick[d])
      BY DEF Flows
    <2>4. /\ OnlyTick(d) /\ tick'[d].pc # "execute"
          /\ tick'[d].ending = "aborted" => tick[d].ending = "aborted"
          /\ tick'[d].pc = "end" => tick'[d].stage # "patrol"
          /\ tick'[d].pc \in {"budget", "decide"} \/ tick'[d].stage = "risk" =>
                tick[d].pc \in {"budget", "decide"} \/ tick[d].stage = "risk"
      BY <2>1, <2>3, DecideEffect, RestType DEF Flow, Ending
    <2>5. Orderly => Drops(d)'
      BY <2>2, <2>br, <2>4 DEF Dropped, Drops
    <2> QED
      BY <2>1, <2>2, <2>so, <2>4, <2>5, DroppedAlone
  <1>15. ASSUME NEW d \in Drivers, Risk(d) PROVE Dropped'
    <2>1. tick[d].pc = "risk" /\ tick[d].stage = "risk" /\ tick[d].ending = "none"
      BY <1>15 DEF Risk, At, Flows, Flow
    <2>2. UNCHANGED <<world, snap, peak, held>>
      BY <1>15 DEF Risk, Elsewhere, account, market, snapshots, bounds
    <2>br. Breached' = Breached
      BY <2>2, BreachedSame
    <2>so. Orderly => SoldOut'
      BY <2>2, <2>br DEF Dropped, SoldOut
    <2>3. CASE Finish(d)
      <3>1. OnlyTick(d) /\ tick'[d] = Rest
        BY <2>3, FinishEffect
      <3>2. Drops(d)'
        BY <3>1, RestType DEF Drops
      <3> QED
        BY <2>1, <2>2, <2>so, <3>1, <3>2, DroppedAlone
    <2>4. CASE /\ tick[d].want = "buy" =>
                    \E top \in Highs : MayBuy(tick[d].view, tick[d].fall, top)
               /\ Goto(d, "execute")
      <3>1. /\ OnlyTick(d) /\ tick'[d].pc = "execute" /\ tick'[d].ending = "none"
            /\ tick'[d].want = tick[d].want
        BY <2>1, <2>4, GotoEffect DEF Labels
      <3>2. Orderly /\ tick[d].want = "buy" => ~Breached
        <4>1. Orderly => tick[d].fall = Drawdown
          BY <1>0, <2>1 DEF Views, View
        <4> QED
          BY <2>4, <4>1 DEF MayBuy, Breached
      <3>3. Orderly => Drops(d)'
        BY <2>1, <2>2, <2>br, <3>1, <3>2 DEF Dropped, Drops
      <3> QED
        BY <2>1, <2>2, <2>so, <3>1, <3>3, DroppedAlone
    <2> QED
      BY <1>15, <2>3, <2>4 DEF Risk
  <1>16. ASSUME NEW d \in Drivers, Execute(d) PROVE Dropped'
    <2>1. tick[d].pc = "execute" /\ Finish(d)
      BY <1>16, ExecuteEffect
    <2>2. UNCHANGED <<world, snap, peak>>
      BY <1>16, ExecuteEffect DEF Elsewhere, account, market, snapshots, bounds
    <2>br. Breached' = Breached
      BY <2>2, BreachedSame
    <2>3. Ordered(d) /\ tick[d].pc = "execute"
      BY <1>16, ExecuteEffect DEF account
    <2>4. Orderly /\ Breached => held' = held \/ held' = 0
      <3>1. SUFFICES ASSUME Orderly, Breached PROVE held' = held \/ held' = 0
        OBVIOUS
      <3>2. held \in Nat /\ snap.held \in Nat /\ (held = 0 \/ held = snap.held)
        BY <3>1 DEF Dropped, SoldOut, TypeOK, Snaps
      <3>3. ASSUME tick[d].pc = "sell", tick[d].view.held <= held,
                   held' = held - tick[d].view.held
            PROVE  held' = held \/ held' = 0
        <4>1. tick[d].view = snap
          BY <1>0, <3>1, <3>3 DEF Views, View
        <4> QED
          BY <3>2, <3>3, <4>1
      <3>4. ASSUME tick[d].pc = "execute", Ordered(d) PROVE held' = held
        <4>1. held = 0 /\ tick[d].want # "buy"
          BY <3>1, <3>4 DEF Dropped, Drops, Flows, Flow
        <4> QED
          BY <3>4, <4>1 DEF Ordered
      <3> QED
        BY <2>3, <3>3, <3>4
    <2>5. OnlyTick(d) /\ tick'[d] = Rest
      BY <2>1, FinishEffect
    <2>6. Orderly => SoldOut' /\ Drops(d)'
      BY <2>2, <2>br, <2>4, <2>5, RestType DEF Dropped, SoldOut, Drops
    <2> QED
      BY <2>1, <2>2, <2>5, <2>6, DroppedAlone
  <1>17. ASSUME NEW d \in Drivers, Interrupt(d) PROVE Dropped'
    <2>1. tick[d].pc # "idle" /\ Finish(d)
      BY <1>17, InterruptEffect
    <2>2. UNCHANGED <<world, snap, peak>>
      BY <1>17, InterruptEffect DEF Elsewhere, account, market, snapshots, bounds
    <2>br. Breached' = Breached
      BY <2>2, BreachedSame
    <2>3. \/ held' = held
          \/ /\ tick[d].pc = "sell" /\ tick[d].view.held <= held
             /\ held' = held - tick[d].view.held
          \/ tick[d].pc = "execute" /\ Ordered(d)
      BY <1>17, InterruptEffect DEF account
    <2>4. Orderly /\ Breached => held' = held \/ held' = 0
      <3>1. SUFFICES ASSUME Orderly, Breached PROVE held' = held \/ held' = 0
        OBVIOUS
      <3>2. held \in Nat /\ snap.held \in Nat /\ (held = 0 \/ held = snap.held)
        BY <3>1 DEF Dropped, SoldOut, TypeOK, Snaps
      <3>3. ASSUME tick[d].pc = "sell", tick[d].view.held <= held,
                   held' = held - tick[d].view.held
            PROVE  held' = held \/ held' = 0
        <4>1. tick[d].view = snap
          BY <1>0, <3>1, <3>3 DEF Views, View
        <4> QED
          BY <3>2, <3>3, <4>1
      <3>4. ASSUME tick[d].pc = "execute", Ordered(d) PROVE held' = held
        <4>1. held = 0 /\ tick[d].want # "buy"
          BY <3>1, <3>4 DEF Dropped, Drops, Flows, Flow
        <4> QED
          BY <3>4, <4>1 DEF Ordered
      <3> QED
        BY <2>3, <3>3, <3>4
    <2>5. OnlyTick(d) /\ tick'[d] = Rest
      BY <2>1, FinishEffect
    <2>6. Orderly => SoldOut' /\ Drops(d)'
      BY <2>2, <2>br, <2>4, <2>5, RestType DEF Dropped, SoldOut, Drops
    <2> QED
      BY <2>1, <2>2, <2>5, <2>6, DroppedAlone
  <1>18. ASSUME Confirm PROVE Dropped'
    <2>1. UNCHANGED <<world, snap, peak, held, tick>>
      BY <1>18 DEF Confirm, Elsewhere, account, market, snapshots, bounds
    <2>2. Breached' = Breached
      BY <2>1, BreachedSame
    <2> QED
      BY <2>1, <2>2 DEF Dropped, SoldOut, Drops, Orderly, FreeOf
  <1>19. ASSUME Deadline PROVE Dropped'
    <2>1. UNCHANGED <<world, snap, peak, held, tick>>
      BY <1>19 DEF Deadline, Elsewhere, account, market, snapshots, bounds
    <2>2. Breached' = Breached
      BY <2>1, BreachedSame
    <2> QED
      BY <2>1, <2>2 DEF Dropped, SoldOut, Drops, Orderly, FreeOf
  <1>20. ASSUME Move PROVE Dropped'
    <2>1. UNCHANGED <<world, snap, peak, held>>
      BY <1>20 DEF Move, Elsewhere, account, market, snapshots, bounds
    <2>2. Breached' = Breached
      BY <2>1, BreachedSame
    <2> QED
      BY <1>20, <2>1, <2>2, MoveEffect DEF SameTicks, Dropped, SoldOut, Drops, Orderly, FreeOf
  <1>21. ASSUME Reset PROVE Dropped'
    <2>1. Has("reset") /\ world' = world
      BY <1>21 DEF Reset
    <2> QED
      BY <2>1 DEF Dropped, Orderly, FreeOf, Has
  <1>22. CASE UNCHANGED vars
    <2>1. UNCHANGED <<world, snap, peak, held, tick>>
      BY <1>22 DEF vars, Elsewhere, account, market, snapshots, bounds
    <2>2. Breached' = Breached
      BY <2>1, BreachedSame
    <2> QED
      BY <2>1, <2>2 DEF Dropped, SoldOut, Drops, Orderly, FreeOf
  <1>23. ASSUME NEW side \in Sides, Arrives(side) PROVE Dropped'
    <2>1. Has("late") /\ world' = world
      BY <1>23, ArrivesEffect
    <2> QED
      BY <2>1 DEF Dropped, Orderly, FreeOf, Has
  <1>24. ASSUME BarCloses PROVE Dropped'
    <2>1. UNCHANGED <<world, snap, peak, held>>
      BY <1>24 DEF BarCloses, snapshots, account
    <2>2. Breached' = Breached
      BY <2>1, BreachedSame
    <2> QED
      BY <1>24, <2>1, <2>2, BarClosesEffect DEF SameTicks, Dropped, SoldOut, Drops, Orderly,
         FreeOf
  <1> QED
    BY <1>1, <1>2, <1>3, <1>4, <1>5, <1>6, <1>7, <1>8, <1>9, <1>10, <1>11, <1>12, <1>13,
       <1>14, <1>15, <1>16, <1>17, <1>18, <1>19, <1>20, <1>21, <1>22, <1>23,
       <1>24 DEF Next, Step

-----------------------------------------------------------------------------
\* The inductive invariant: what no step of any tick, of the market or of a user
\* breaks.
IInv ==
    /\ TypeOK /\ Flows /\ Alone /\ Budgeted
    /\ Views /\ Refused
    /\ Lowests /\ Loads /\ Justified
    /\ Cleared /\ Dropped

LEMMA InitInv == Init => IInv
  <1> SUFFICES ASSUME Init PROVE IInv
    OBVIOUS
  <1>1. TypeOK
    <2>1. tick \in [Drivers -> Ticks]
      BY RestType DEF Init
    <2>2. snap \in Snaps
      BY DEF Init, Snaps, NoSnap
    <2>3. /\ cash \in Nat /\ held \in Nat /\ peak \in Nat /\ decided \in Nat
          /\ counted \in 0..MaxOrders /\ moves \in 0..MaxMoves
          /\ userTicks \in 0..MaxUserTicks /\ interrupts \in 0..MaxInterrupts
          /\ strays \in Nat /\ afloat \in [Sides -> 0..MaxLate]
      BY Bounds DEF Init
    <2>4. price \in Prices /\ high \in Prices /\ bar \in Prices /\ world \in Worlds
      BY Bounds DEF Init
    <2>5. goal \in {"none", "active", "expired", "achieved", "aborted"} /\ due \in BOOLEAN
      BY DEF Init
    <2> QED
      BY <2>1, <2>2, <2>3, <2>4, <2>5 DEF TypeOK
  <1>2. \A d \in Drivers :
            /\ tick[d] = Rest /\ tick[d].pc = "idle" /\ tick[d].job = "none"
            /\ tick[d].stage = "none" /\ tick[d].ending = "none" /\ tick[d].closed = "none"
    BY RestType DEF Init
  <1>3. Flows /\ Alone /\ Views /\ Refused /\ Lowests /\ Loads /\ Justified
    BY <1>2 DEF Flows, Flow, Ending, Alone, Views, View, Refused, Refuses, Lowests, Lowest,
                Loads, Loaded, Own, Justified, Priced
  <1>4. Budgeted
    BY <1>2, Bounds DEF Budgeted, Past, Init
  <1>5. snap = NoSnap /\ held = 0 /\ ~Reached(snap) /\ Drawdown = "unknown"
    BY DEF Init, Reached, Drawdown
  <1>6. Cleared
    BY <1>2, <1>5 DEF Cleared, NotBought, Clears
  <1>7. Dropped
    BY <1>2, <1>5 DEF Dropped, SoldOut, Drops, Breached
  <1> QED
    BY <1>1, <1>3, <1>4, <1>6, <1>7 DEF IInv
LEMMA NextInv == IInv /\ [Next]_vars => IInv'
  BY TypeNext, FlowsNext, AloneNext, BudgetedNext, ViewsNext, RefusedNext, LowestNext, LoadsNext,
     JustifiedNext, ClearedNext, DroppedNext DEF IInv
\* The inductive invariant holds in every behaviour.
THEOREM Invariant == Spec => []IInv
  BY InitInv, NextInv, PTL DEF Spec

\* Types: cash and holdings never go negative, counters keep to their bounds.
THEOREM TypeCorrect == Spec => []TypeOK
  <1>1. IInv => TypeOK
    BY DEF IInv
  <1> QED
    BY <1>1, Invariant, PTL

\* The goal's decisions keep to the daily budget, for every budget, any number of
\* ticks and any outcome of their orders.
THEOREM BudgetKept == Spec => []BudgetRespected
  <1>1. IInv => BudgetRespected
    BY Bounds DEF IInv, Budgeted, BudgetRespected, TypeOK
  <1> QED
    BY <1>1, Invariant, PTL

\* No tick buys after its own patrol sold for the drawdown of the account, for every
\* stop, line, price and high; after a stop, only when old highs may leave the window.
THEOREM OneDirection == Spec => []OneDirectionPerTick
  <1>1. IInv => OneDirectionPerTick
    BY DEF IInv, Refused, Refuses, OneDirectionPerTick, At
  <1> QED
    BY <1>1, Invariant, PTL

\* What the patrol of a tick with its own snapshot sells was in breach at the
\* lowest price and the highest recent high since the tick began.
THEOREM PatrolJustified == Spec => []PatrolIsJustified
  <1>1. IInv => PatrolIsJustified
    <2>1. SUFFICES ASSUME IInv, Calm, NEW d \in Drivers, tick[d].pc = "sell",
                          tick[d].ending # "achieved", tick[d].job # "bare"
                   PROVE  InBreach(tick[d].low, tick[d].top)
      BY DEF PatrolIsJustified, SalesJudgedNow, Calm, At
    <2>2. tick[d].stage = "patrol"
      BY <2>1 DEF IInv, Flows, Flow, Ending
    <2> QED
      BY <2>1, <2>2 DEF IInv, Justified, Priced
  <1> QED
    BY <1>1, Invariant, PTL

\* Time and the goal, step by step.
LEMMA StepSpares ==
    ASSUME NEW d \in Drivers, Step(d) \/ Interrupt(d)
    PROVE  due' = due /\ (goal' = goal \/ End(d))
  <1>1. CASE Fetch(d) \/ Save(d) \/ CaptureFails(d) \/ ReadHoldings(d) \/ ReadDrawdown(d)
    BY <1>1 DEF Fetch, Save, CaptureFails, ReadHoldings, ReadDrawdown, Elsewhere
  <1>2. CASE Judge(d) \/ End(d) \/ Patrol(d) \/ Clear(d) \/ Sell(d)
    BY <1>2 DEF Judge, End, Patrol, Clear, Sell, Elsewhere
  <1>3. CASE Budget(d) \/ Decide(d) \/ Risk(d) \/ Execute(d) \/ Interrupt(d)
    BY <1>3 DEF Budget, Decide, Risk, Execute, Interrupt, Elsewhere
  <1> QED
    BY <1>1, <1>2, <1>3 DEF Step
LEMMA OthersSpare ==
    ASSUME \/ RunnerTick \/ UserTick \/ (\E side \in Sides : Arrives(side))
           \/ Move \/ BarCloses \/ Reset \/ UNCHANGED vars
    PROVE  due' = due /\ goal' = goal
  <1>1. CASE RunnerTick \/ UserTick \/ \E side \in Sides : Arrives(side)
    BY <1>1 DEF RunnerTick, UserTick, Arrives, Elsewhere
  <1>2. CASE Move \/ BarCloses \/ Reset \/ UNCHANGED vars
    BY <1>2 DEF Move, BarCloses, Reset, vars
  <1> QED
    BY <1>1, <1>2

\* Only the end of a tick ends a goal.
LEMMA OnlyEndEnds ==
    ASSUME TypeOK, Flows, [Next]_vars, NEW status \in {"achieved", "aborted"}, Becomes(status)
    PROVE  \E d \in Drivers : /\ tick[d].pc = "end" /\ tick[d].ending = status
                              /\ held' = held /\ Ending(tick[d]) /\ Flow(tick[d])
  <1>1. goal # status /\ goal' = status
    BY DEF Becomes
  <1>2. PICK d \in Drivers : End(d)
    <2>1. goal' = goal \/ goal' = "active" \/ \E d \in Drivers : End(d)
      BY StepSpares, OthersSpare DEF Next, Confirm, Deadline
    <2> QED
      BY <1>1, <2>1
  <1>3. tick[d].pc = "end" /\ goal' = tick[d].ending /\ held' = held
    BY <1>2 DEF End, At, account
  <1> QED
    BY <1>1, <1>3 DEF Flows

\* When a goal is achieved, nothing is held but what orders without a final word have
\* bought behind its snapshot, for every target and any number of ticks, orders and
\* interruptions, unless ticks overlap, or users trade between ticks whose
\* snapshots fail.
THEOREM AchievedFlat == Spec => AchievedIsFlat
  <1>1. IInv /\ [Next]_vars =>
            [ Becomes("achieved") /\ FreeOf({"overlap"}) /\ ~({"capture", "users"} \subseteq world)
                => held <= strays - snap.strays ]_vars
    <2>1. SUFFICES ASSUME IInv, [Next]_vars, Becomes("achieved"), Solo
                   PROVE  held <= strays - snap.strays
      BY DEF Solo
    <2>2. PICK d \in Drivers : /\ tick[d].pc = "end" /\ tick[d].ending = "achieved"
                               /\ Ending(tick[d]) /\ Flow(tick[d])
      BY <2>1, OnlyEndEnds DEF IInv
    <2>3. tick[d].stage = "clear"
      BY <2>2 DEF Ending, Flow
    <2>4. Emptied
      BY <2>1, <2>2, <2>3 DEF IInv, Cleared, Clears
    <2>5. held \in Nat /\ strays \in Nat /\ snap.strays \in Nat
      BY <2>1 DEF IInv, TypeOK, Snaps
    <2> QED
      BY <2>4, <2>5 DEF Emptied
  <1> QED
    BY <1>1, Invariant, PTL DEF Spec, AchievedIsFlat

\* A goal aborted for its drawdown leaves no position, for every line and any
\* number of ticks, also on snapshots that fail and with users in between, as
\* long as orders are filled and the patrol may act.
THEOREM AbortedFlat == Spec => AbortedIsFlat
  <1>1. IInv /\ [Next]_vars =>
            [ Becomes("aborted") /\ FreeOf(
                    {"orders", "late", "patrol", "disabled", "reset", "overlap"})
                => held = 0 ]_vars
    <2>1. SUFFICES ASSUME IInv, [Next]_vars, Becomes("aborted"), Orderly PROVE held = 0
      BY DEF Orderly
    <2>2. PICK d \in Drivers : /\ tick[d].pc = "end" /\ tick[d].ending = "aborted"
                               /\ Ending(tick[d]) /\ Flow(tick[d])
      BY <2>1, OnlyEndEnds DEF IInv
    <2>3. tick[d].stage = "patrol"
      BY <2>2 DEF Ending, Flow
    <2> QED
      BY <2>1, <2>2, <2>3 DEF IInv, Dropped, Drops
  <1> QED
    BY <1>1, Invariant, PTL DEF Spec, AbortedIsFlat

-----------------------------------------------------------------------------
(***************************************************************************)
(* A tick comes to its end.                                                *)
(***************************************************************************)
\* How much of a tick is left when its inputs have been loaded, and from where it
\* stands.
Ahead(stage) == IF stage = "judge" THEN 11 ELSE IF stage = "risk" THEN 2 ELSE 8
Left(t) ==
    CASE t.pc = "holdings" -> Ahead(t.stage) + 2
      [] t.pc = "drawdown" -> Ahead(t.stage) + 1
      [] t.pc = "fetch" -> 15
      [] t.pc = "save" -> 14
      [] t.pc = "judge" -> 11
      [] t.pc \in {"patrol", "clear"} -> 8
      [] t.pc = "sell" -> 7
      [] t.pc = "budget" -> 6
      [] t.pc = "decide" -> 5
      [] t.pc = "risk" -> 2
      [] t.pc \in {"execute", "end"} -> 1
      [] t.pc = "idle" -> 0

\* Every step of a tick brings it nearer to its end, and nothing else, of the market,
\* the users or the other tick, takes it back: what remains open in GoalEnds is that
\* ticks are taken, which is for the fairness of the loop.
Nearer ==
    \A d \in Drivers :
        /\ Step(d) => Left(tick'[d]) < Left(tick[d])
        /\ tick[d].pc # "idle" => Left(tick'[d]) <= Left(tick[d])
TicksAdvance == [][Nearer]_vars

\* What is left is a number, and nothing only at rest.
LEMMA LeftType ==
    ASSUME NEW t \in Ticks
    PROVE  Left(t) \in Nat /\ (t.pc # "idle" => Left(t) > 0)
  <1>1. t.pc \in Labels
    BY Fields
  <1>2. Ahead(t.stage) \in Nat
    BY DEF Ahead
  <1> QED
    BY <1>1, <1>2 DEF Left, Labels
LEMMA LeftOfRest == Left(Rest) = 0
  BY RestType DEF Left
LEMMA LeftOfIdle ==
    ASSUME NEW t, t.pc = "idle"
    PROVE  Left(t) = 0
  BY DEF Left

\* A tick that steps has less left, ...
LEMMA StepNearer ==
    ASSUME TypeOK, Flows, NEW d \in Drivers, Step(d)
    PROVE  Left(tick'[d]) < Left(tick[d]) /\ OnlyTick(d)
  <1>1. tick[d] \in Ticks /\ Flow(tick[d]) /\ Ending(tick[d])
    BY DEF TypeOK, Flows
  <1>2. ASSUME tick[d].pc # "idle", Finish(d)
        PROVE  Left(tick'[d]) < Left(tick[d]) /\ OnlyTick(d)
    BY <1>1, <1>2, FinishEffect, LeftType, LeftOfRest
  <1>3. CASE Fetch(d)
    BY <1>3, FetchEffect DEF Left
  <1>4. CASE Save(d) \/ CaptureFails(d)
    <2>1. tick[d].pc \in {"fetch", "save"} /\ AfterCapture(d)
      BY <1>4 DEF Save, CaptureFails, At
    <2>2. Left(tick[d]) >= 14
      BY <2>1 DEF Left
    <2>3. OnlyTick(d) /\ Left(tick'[d]) < 14
      <3>1. /\ OnlyTick(d) /\ tick' \in [Drivers -> Ticks]
            /\ \/ tick'[d] = Rest
               \/ tick'[d].pc = "holdings" /\ tick'[d].stage \in {"judge", "patrol"}
        BY <2>1, AfterCaptureEffect
      <3>2. CASE tick'[d] = Rest
        BY <3>1, <3>2, LeftOfRest
      <3>3. CASE tick'[d].pc = "holdings" /\ tick'[d].stage \in {"judge", "patrol"}
        BY <3>1, <3>3 DEF Left, Ahead
      <3> QED
        BY <3>1, <3>2, <3>3
    <2>4. Left(tick[d]) \in Nat /\ Left(tick'[d]) \in Nat
      BY <1>1, <2>1, AfterCaptureEffect, LeftType
    <2> QED
      BY <2>2, <2>3, <2>4
  <1>5. CASE ReadHoldings(d)
    <2>1. Ahead(tick[d].stage) \in Nat
      BY DEF Ahead
    <2> QED
      BY <1>5, <2>1, ReadHoldingsEffect DEF Left
  <1>6. CASE ReadDrawdown(d)
    <2>1. /\ tick[d].pc = "drawdown" /\ tick'[d].pc = tick[d].stage /\ OnlyTick(d)
          /\ tick[d].stage \in {"judge", "patrol", "clear", "risk"}
      BY <1>1, <1>6, ReadDrawdownEffect DEF Flow
    <2> QED
      BY <2>1 DEF Left, Ahead
  <1>7. CASE Judge(d)
    <2>1. /\ tick[d].pc = "judge" /\ OnlyTick(d)
          /\ \/ tick'[d].pc = "end"
             \/ tick'[d].pc = "holdings" /\ tick'[d].stage \in {"clear", "patrol"}
      BY <1>7, JudgeEffect
    <2> QED
      BY <2>1 DEF Left, Ahead
  <1>8. CASE End(d)
    BY <1>2, <1>8 DEF End, At
  <1>9. ASSUME NEW sold \in Whys, tick[d].pc \in {"patrol", "sell"}, AfterPatrol(d, sold)
        PROVE  Left(tick'[d]) < Left(tick[d]) /\ OnlyTick(d)
    <2>1. /\ OnlyTick(d)
          /\ tick'[d] = Rest \/ tick'[d].pc \in {"end", "budget", "decide"}
      BY <1>9, AfterPatrolEffect, WhysType
    <2>2. CASE tick'[d] = Rest
      <3>1. Left(tick'[d]) = 0 /\ Left(tick[d]) > 0
        BY <1>1, <1>9, <2>2, LeftOfRest, LeftType
      <3> QED
        BY <2>1, <3>1
    <2>3. CASE tick'[d].pc \in {"end", "budget", "decide"}
      BY <1>9, <2>1, <2>3 DEF Left
    <2> QED
      BY <2>1, <2>2, <2>3
  <1>10. CASE Patrol(d)
    <2>1. tick[d].pc = "patrol" /\ (Goto(d, "sell") \/ AfterPatrol(d, "none"))
      BY <1>10 DEF Patrol, At
    <2>2. CASE Goto(d, "sell")
      BY <2>1, <2>2, GotoEffect DEF Labels, Left
    <2> QED
      BY <1>9, <2>1, <2>2, WhysType
  <1>11. CASE Clear(d)
    <2>1. tick[d].pc = "clear" /\ (Goto(d, "sell") \/ Goto(d, "end") \/ Finish(d))
      BY <1>11 DEF Clear, At
    <2>2. CASE Goto(d, "sell") \/ Goto(d, "end")
      BY <2>1, <2>2, GotoEffect DEF Labels, Left
    <2> QED
      BY <1>2, <2>1, <2>2
  <1>12. CASE Sell(d)
    <2>1. tick[d].pc = "sell" /\ (AfterPatrol(d, Reason(tick[d].fall)) \/ Goto(d, "end") \/ Finish(d))
      BY <1>12, SellEffect
    <2>2. CASE Goto(d, "end")
      BY <2>1, <2>2, GotoEffect DEF Labels, Left
    <2> QED
      BY <1>2, <1>9, <2>1, <2>2, WhysType
  <1>13. CASE Budget(d)
    <2>1. tick[d].pc = "budget" /\ (Goto(d, "decide") \/ Finish(d))
      BY <1>13 DEF Budget, At
    <2>2. CASE Goto(d, "decide")
      BY <2>1, <2>2, GotoEffect DEF Labels, Left
    <2> QED
      BY <1>2, <2>1, <2>2
  <1>14. CASE Decide(d)
    <2>1. /\ tick[d].pc = "decide" /\ OnlyTick(d)
          /\ tick'[d] = Rest \/ (tick'[d].pc = "holdings" /\ tick'[d].stage = "risk")
      BY <1>14, DecideEffect
    <2>2. CASE tick'[d] = Rest
      <3>1. Left(tick'[d]) = 0 /\ Left(tick[d]) > 0
        BY <1>1, <2>1, <2>2, LeftOfRest, LeftType
      <3> QED
        BY <2>1, <3>1
    <2>3. CASE tick'[d].pc = "holdings" /\ tick'[d].stage = "risk"
      BY <2>1, <2>3 DEF Left, Ahead
    <2> QED
      BY <2>1, <2>2, <2>3
  <1>15. CASE Risk(d)
    <2>1. tick[d].pc = "risk" /\ (Goto(d, "execute") \/ Finish(d))
      BY <1>15 DEF Risk, At
    <2>2. CASE Goto(d, "execute")
      BY <2>1, <2>2, GotoEffect DEF Labels, Left
    <2> QED
      BY <1>2, <2>1, <2>2
  <1>16. CASE Execute(d)
    BY <1>2, <1>16, ExecuteEffect
  <1> QED
    BY <1>3, <1>4, <1>5, <1>6, <1>7, <1>8, <1>10, <1>11, <1>12, <1>13, <1>14, <1>15, <1>16 DEF Step

\* ... and whatever else happens, none has more.
LEMMA NoneFurther ==
    ASSUME TypeOK, Flows, [Next]_vars, NEW d \in Drivers, tick[d].pc # "idle"
    PROVE  Left(tick'[d]) <= Left(tick[d])
  <1>1. Left(tick[d]) \in Nat
    BY LeftType DEF TypeOK
  <1>2. ASSUME tick'[d] = tick[d] PROVE Left(tick'[d]) <= Left(tick[d])
    BY <1>1, <1>2
  <1>3. ASSUME NEW e \in Drivers, Step(e) PROVE Left(tick'[d]) <= Left(tick[d])
    <2>1. CASE e = d
      <3>1. tick'[d] \in Ticks
        BY TypeNext DEF TypeOK
      <3> QED
        BY <1>1, <1>3, <2>1, <3>1, StepNearer, LeftType
    <2> QED
      BY <1>2, <1>3, <2>1, StepNearer DEF OnlyTick
  <1>4. ASSUME NEW e \in Drivers, Interrupt(e) PROVE Left(tick'[d]) <= Left(tick[d])
    <2>1. tick'[e] = Rest /\ OnlyTick(e)
      BY <1>4, InterruptEffect, FinishEffect
    <2> QED
      BY <1>1, <1>2, <2>1, LeftOfRest DEF OnlyTick
  <1>5. CASE RunnerTick
    <2>1. OnlyTick("runner") /\ tick["runner"].pc = "idle"
      BY <1>5, RunnerTickEffect DEF Free, At
    <2> QED
      BY <1>2, <2>1 DEF OnlyTick
  <1>6. CASE UserTick
    <2>1. OnlyTick("user") /\ tick["user"].pc = "idle"
      BY <1>6, UserTickEffect DEF Free, At
    <2> QED
      BY <1>2, <2>1 DEF OnlyTick
  <1>7. CASE Move \/ BarCloses
    <2>1. tick'[d].pc = tick[d].pc /\ tick'[d].stage = tick[d].stage
      BY <1>7, MoveEffect, BarClosesEffect DEF SameTicks
    <2>2. Left(tick'[d]) = Left(tick[d])
      BY <2>1 DEF Left
    <2> QED
      BY <1>1, <2>2
  <1>8. CASE Confirm \/ Deadline \/ Reset \/ UNCHANGED vars
    BY <1>2, <1>8 DEF Confirm, Deadline, Reset, vars
  <1>9. ASSUME NEW side \in Sides, Arrives(side) PROVE Left(tick'[d]) <= Left(tick[d])
    BY <1>2, <1>9, ArrivesEffect
  <1> QED
    BY <1>3, <1>4, <1>5, <1>6, <1>7, <1>8, <1>9 DEF Next

\* No tick goes on for ever, for every world, market and model: each of its steps
\* leaves less to do, and no step of anybody else leaves it more.
THEOREM TicksEnd == Spec => TicksAdvance
  <1>1. IInv /\ [Next]_vars => [Nearer]_vars
    <2>1. SUFFICES ASSUME IInv, [Next]_vars PROVE Nearer
      OBVIOUS
    <2>2. TypeOK /\ Flows
      BY <2>1 DEF IInv
    <2> QED
      BY <2>1, <2>2, StepNearer, NoneFurther DEF Nearer
  <1> QED
    BY <1>1, Invariant, PTL DEF Spec, TicksAdvance

\* How far a goal whose time is up is from its end: what is left of a tick that will
\* judge it or is about to end it; else this tick, and one more.
Wait(t) ==
    IF t.pc = "idle" THEN 16
    ELSE IF t.pc = "end" \/ t.stage \in {"none", "judge"} THEN Left(t) ELSE 16 + Left(t)

\* While a goal is active after its deadline, every step of the runner ends it or brings
\* its end nearer, and nothing but an interruption, of which there are few, takes it
\* back: whatever was achieved or breached, however orders and snapshots fail.
Overdue == due /\ goal = "active"
Hastens ==
    Overdue =>
        \/ goal' # "active"
        \/ /\ Overdue'
           /\ RunnerTick \/ Step("runner") => Wait(tick'["runner"]) < Wait(tick["runner"])
           /\ \/ Wait(tick'["runner"]) <= Wait(tick["runner"])
              \/ interrupts' > interrupts
DeadlinesAdvance == [][Hastens]_vars

\* The runner only runs ticks of the goal and bare patrols.
RunnerJob == tick["runner"].job \in {"none", "goal", "bare"}
LEMMA JobNext == TypeOK /\ Flows /\ RunnerJob /\ [Next]_vars => RunnerJob'
  <1> SUFFICES ASSUME TypeOK, Flows, RunnerJob, [Next]_vars PROVE RunnerJob'
    OBVIOUS
  <1>1. ASSUME NEW d \in Drivers, OnlyTick(d), tick'[d].job \in {tick[d].job, "none"}
        PROVE  RunnerJob'
    <2>1. "runner" \in Drivers
      BY DEF Drivers
    <2> QED
      BY <1>1, <2>1 DEF RunnerJob, OnlyTick
  <1>2. ASSUME NEW d \in Drivers, Finish(d) PROVE RunnerJob'
    BY <1>1, <1>2, FinishEffect, RestType
  <1>3. ASSUME NEW d \in Drivers, NEW label \in Labels, Goto(d, label) PROVE RunnerJob'
    BY <1>1, <1>3, GotoEffect
  <1>4. CASE RunnerTick
    BY <1>4, RunnerTickEffect DEF RunnerJob
  <1>5. CASE UserTick
    <2>1. "runner" \in Drivers \ {"user"}
      BY DEF Drivers
    <2> QED
      BY <1>5, <2>1, UserTickEffect DEF RunnerJob, OnlyTick
  <1>6. ASSUME NEW d \in Drivers, Fetch(d) PROVE RunnerJob'
    BY <1>1, <1>6, FetchEffect
  <1>7. ASSUME NEW d \in Drivers, Save(d) \/ CaptureFails(d) PROVE RunnerJob'
    BY <1>1, <1>7, AfterCaptureEffect, RestType DEF Save, CaptureFails
  <1>8. ASSUME NEW d \in Drivers, ReadHoldings(d) \/ ReadDrawdown(d) PROVE RunnerJob'
    BY <1>1, <1>8, ReadHoldingsEffect, ReadDrawdownEffect
  <1>9. ASSUME NEW d \in Drivers, Judge(d) PROVE RunnerJob'
    BY <1>1, <1>9, JudgeEffect
  <1>10. ASSUME NEW d \in Drivers, End(d) \/ Execute(d) \/ Interrupt(d) PROVE RunnerJob'
    BY <1>2, <1>10, ExecuteEffect, InterruptEffect DEF End
  <1>11. ASSUME NEW d \in Drivers, NEW sold \in Whys, AfterPatrol(d, sold) PROVE RunnerJob'
    BY <1>1, <1>11, AfterPatrolEffect, WhysType, RestType
  <1>12. "sell" \in Labels /\ "end" \in Labels /\ "decide" \in Labels /\ "execute" \in Labels
    BY DEF Labels
  <1>13. ASSUME NEW d \in Drivers, Patrol(d) \/ Clear(d) PROVE RunnerJob'
    <2>1. Goto(d, "sell") \/ Goto(d, "end") \/ AfterPatrol(d, "none") \/ Finish(d)
      BY <1>13 DEF Patrol, Clear
    <2> QED
      BY <1>2, <1>3, <1>11, <1>12, <2>1, WhysType
  <1>14. ASSUME NEW d \in Drivers, Sell(d) PROVE RunnerJob'
    BY <1>2, <1>3, <1>11, <1>12, <1>14, SellEffect, WhysType
  <1>15. ASSUME NEW d \in Drivers, Budget(d) \/ Risk(d) PROVE RunnerJob'
    <2>1. Goto(d, "decide") \/ Goto(d, "execute") \/ Finish(d)
      BY <1>15 DEF Budget, Risk
    <2> QED
      BY <1>2, <1>3, <1>12, <2>1
  <1>16. ASSUME NEW d \in Drivers, Decide(d) PROVE RunnerJob'
    BY <1>1, <1>16, DecideEffect, RestType
  <1>17. CASE Move \/ BarCloses
    BY <1>17, MoveEffect, BarClosesEffect DEF SameTicks, RunnerJob, Drivers
  <1>18. CASE Confirm \/ Deadline \/ Reset \/ UNCHANGED vars
    BY <1>18 DEF Confirm, Deadline, Reset, vars, RunnerJob
  <1>19. ASSUME NEW side \in Sides, Arrives(side) PROVE RunnerJob'
    BY <1>19, ArrivesEffect DEF RunnerJob
  <1> QED
    BY <1>4, <1>5, <1>6, <1>7, <1>8, <1>9, <1>10, <1>13, <1>14, <1>15, <1>16, <1>17, <1>18, <1>19
       DEF Next, Step

\* Only the runner's tick ends a goal, and only with an ending.
LEMMA EndEnds ==
    ASSUME TypeOK, Flows, NEW d \in Drivers, End(d)
    PROVE  d = "runner" /\ goal' # "active"
  <1>1. tick[d].pc = "end" /\ Flow(tick[d]) /\ Ending(tick[d]) /\ goal' = tick[d].ending
    BY DEF End, At, Flows
  <1>2. tick[d].job = "goal" /\ tick[d].ending \in {"expired", "achieved", "aborted"}
    BY <1>1 DEF Flow, Ending
  <1> QED
    BY <1>1, <1>2 DEF Flows

\* Nothing else takes time back or ends the goal.
LEMMA OverdueKept ==
    ASSUME TypeOK, Flows, Overdue, [Next]_vars, goal' = "active"
    PROVE  Overdue'
  <1>1. due' = due
    BY StepSpares, OthersSpare DEF Next, Confirm, Deadline, Overdue
  <1> QED
    BY <1>1 DEF Overdue

LEMMA WaitType ==
    ASSUME NEW t \in Ticks
    PROVE  Wait(t) \in Nat /\ Left(t) \in Nat
  BY LeftType DEF Wait
LEMMA WaitOfRest == Wait(Rest) = 16
  BY RestType DEF Wait

\* A step of the runner's tick.
LEMMA RunnerHastens ==
    ASSUME TypeOK, Flows, RunnerJob, TypeOK', Overdue, Step("runner"), goal' = "active"
    PROVE  Wait(tick'["runner"]) < Wait(tick["runner"])
  <1> DEFINE t == tick["runner"]
             u == tick'["runner"]
  <1>1. "runner" \in Drivers /\ t \in Ticks /\ u \in Ticks /\ Flow(t) /\ Ending(t)
    BY DEF Drivers, TypeOK, Flows
  <1>2. Left(u) < Left(t) /\ Left(t) \in Nat /\ Left(u) \in Nat
    BY <1>1, StepNearer, LeftType
  <1>3. t.pc # "idle"
    BY <1>1, <1>2, LeftOfIdle
  <1>4. t.pc # "end"
    <2>1. ~End("runner")
      BY <1>1, EndEnds
    <2> QED
      BY <2>1 DEF Step, Fetch, Save, CaptureFails, ReadHoldings, ReadDrawdown, Judge, Patrol,
                  Clear, Sell, Budget, Decide, Risk, Execute, At
  <1>5. CASE t.stage \notin {"none", "judge"}
    <2>1. Wait(t) = 16 + Left(t)
      BY <1>3, <1>4, <1>5 DEF Wait
    <2>2. Wait(u) \in {16, Left(u), 16 + Left(u)}
      BY DEF Wait
    <2>3. Left(t) > 0
      BY <1>2
    <2> QED
      BY <1>2, <2>1, <2>2, <2>3
  <1>6. CASE t.stage \in {"none", "judge"}
    <2>1. Wait(t) = Left(t)
      BY <1>3, <1>6 DEF Wait
    <2>2. /\ t.job = "goal"
          /\ t.pc \in {"fetch", "save", "holdings", "drawdown", "judge"}
      BY <1>1, <1>3, <1>6 DEF Flow, RunnerJob
    <2>3. u.pc # "idle" /\ (u.pc = "end" \/ u.stage \in {"none", "judge"})
      <3>1. CASE Fetch("runner")
        BY <1>1, <1>6, <3>1, FetchEffect
      <3>2. CASE Save("runner") \/ CaptureFails("runner")
        <4>1. AfterCapture("runner")
          BY <3>2 DEF Save, CaptureFails
        <4>2. tick' = [tick EXCEPT !["runner"].got = NoSnap, !["runner"].pc = "holdings",
                                   !["runner"].stage = "judge"]
          BY <2>2, <4>1 DEF AfterCapture
        <4> QED
          BY <1>1, <4>2 DEF TypeOK, Ticks
      <3>3. CASE ReadHoldings("runner")
        BY <1>1, <1>6, <3>3, ReadHoldingsEffect
      <3>4. CASE ReadDrawdown("runner")
        <4>1. t.pc = "drawdown" /\ u.pc = t.stage /\ u.stage = t.stage
          BY <1>1, <3>4, ReadDrawdownEffect
        <4>2. t.stage = "judge"
          BY <1>1, <1>6, <4>1 DEF Flow
        <4> QED
          BY <4>1, <4>2
      <3>5. CASE Judge("runner")
        BY <1>1, <3>5, JudgeEffect DEF Overdue
      <3> QED
        BY <2>2, <3>1, <3>2, <3>3, <3>4, <3>5
           DEF Step, End, Patrol, Clear, Sell, Budget, Decide, Risk, Execute, At
    <2>4. Wait(u) = Left(u)
      BY <2>3 DEF Wait
    <2> QED
      BY <1>2, <2>1, <2>4
  <1> QED
    BY <1>5, <1>6

\* A goal whose time is up gets nearer to its end with every step of the runner, for
\* every world, target and line: it is never passed over for good because it is
\* achieved and cannot be cleared, or because orders fail.
THEOREM DeadlineNears == Spec => DeadlinesAdvance
  <1>1. Init => RunnerJob
    BY RestType DEF Init, RunnerJob, Drivers
  <1>2. IInv /\ RunnerJob /\ [Next]_vars => RunnerJob'
    BY JobNext DEF IInv
  <1>3. IInv /\ IInv' /\ RunnerJob /\ [Next]_vars => [Hastens]_vars
    <2>1. SUFFICES ASSUME IInv, IInv', RunnerJob, [Next]_vars, Overdue, goal' = "active"
                   PROVE  /\ Overdue'
                          /\ RunnerTick \/ Step("runner") =>
                                Wait(tick'["runner"]) < Wait(tick["runner"])
                          /\ \/ Wait(tick'["runner"]) <= Wait(tick["runner"])
                             \/ interrupts' > interrupts
      BY DEF Hastens
    <2>2. TypeOK /\ Flows /\ TypeOK' /\ "runner" \in Drivers
      BY <2>1 DEF IInv, Drivers
    <2>3. Overdue'
      BY <2>1, <2>2, OverdueKept
    <2>4. Wait(tick["runner"]) \in Nat /\ Wait(tick'["runner"]) \in Nat
      BY <2>2, WaitType DEF TypeOK
    <2>5. ASSUME RunnerTick PROVE Wait(tick'["runner"]) < Wait(tick["runner"])
      <3>1. /\ tick["runner"].pc = "idle"
            /\ tick'["runner"].pc = "fetch" /\ tick'["runner"].stage = "none"
        BY <2>1, <2>2, <2>5, RunnerTickEffect DEF Free, At, Overdue
      <3> QED
        BY <3>1 DEF Wait, Left
    <2>6. ASSUME Step("runner") PROVE Wait(tick'["runner"]) < Wait(tick["runner"])
      BY <2>1, <2>2, <2>6, RunnerHastens
    <2>7. ASSUME tick'["runner"] = tick["runner"]
          PROVE  Wait(tick'["runner"]) <= Wait(tick["runner"])
      BY <2>4, <2>7
    <2>8. ASSUME NEW d \in Drivers \ {"runner"}, OnlyTick(d)
          PROVE  Wait(tick'["runner"]) <= Wait(tick["runner"])
      BY <2>2, <2>7, <2>8 DEF OnlyTick
    <2>9. CASE UserTick
      <3>1. "user" \in Drivers \ {"runner"} /\ OnlyTick("user")
        BY <2>2, <2>9, UserTickEffect
      <3> QED
        BY <2>3, <2>5, <2>6, <2>8, <3>1
    <2>10. CASE \E d \in Drivers \ {"runner"} : Step(d)
      BY <2>2, <2>3, <2>5, <2>6, <2>8, <2>10, StepNearer
    <2>11. CASE \E d \in Drivers : Interrupt(d)
      <3>1. interrupts' = interrupts + 1 /\ interrupts \in Nat
        BY <2>2, <2>11, Bounds DEF Interrupt, TypeOK
      <3> QED
        BY <2>3, <2>5, <2>6, <3>1
    <2>12. CASE Move \/ BarCloses
      <3>1. /\ tick'["runner"].pc = tick["runner"].pc
            /\ tick'["runner"].stage = tick["runner"].stage
        BY <2>2, <2>12, MoveEffect, BarClosesEffect DEF SameTicks
      <3>2. Wait(tick'["runner"]) = Wait(tick["runner"])
        BY <3>1 DEF Wait, Left
      <3> QED
        BY <2>3, <2>4, <2>5, <2>6, <3>2
    <2>13. CASE Confirm \/ Deadline \/ Reset \/ UNCHANGED vars
      <3>1. tick' = tick
        BY <2>13 DEF Confirm, Deadline, Reset, vars
      <3> QED
        BY <2>3, <2>5, <2>6, <2>7, <3>1
    <2>14. CASE RunnerTick \/ Step("runner")
      BY <2>3, <2>4, <2>5, <2>6, <2>14
    <2>15. CASE \E side \in Sides : Arrives(side)
      <3>1. tick' = tick
        BY <2>2, <2>15, ArrivesEffect
      <3> QED
        BY <2>3, <2>5, <2>6, <2>7, <3>1
    <2> QED
      BY <2>1, <2>9, <2>10, <2>11, <2>12, <2>13, <2>14, <2>15 DEF Next
  <1> QED
    BY <1>1, <1>2, <1>3, Invariant, PTL DEF Spec, DeadlinesAdvance
=============================================================================

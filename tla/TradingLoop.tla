----------------------------- MODULE TradingLoop -----------------------------
(***************************************************************************)
(* One tick after another: the background runner, which drives the active  *)
(* goal or, without one, only the account patrol; the ticks and snapshots  *)
(* a user asks for over HTTP; the equity snapshots all of them judge by;   *)
(* and the account and the market underneath.                              *)
(*                                                                         *)
(* The account holds cash and lots of one asset.  Nothing reads the        *)
(* account directly: capture writes a snapshot, and the termination        *)
(* criteria, the patrol and the risk rules each read the latest snapshot   *)
(* again when their turn comes.  Each action is what runs between two      *)
(* awaits that matter.                                                     *)
(*                                                                         *)
(* A definition commented "Variant" is no part of the specification.       *)
(***************************************************************************)
EXTENDS Integers

CONSTANTS
    Prices,         \* the prices the market moves between, an interval of Nat
    StartPrice, StartCash,   \* what the market and the account begin with
    Target,         \* target_equity_of the goal
    MaxDrawdown,    \* max_drawdown_pct of goal and settings, in percent
    StopLoss,       \* stop_loss_pct, in percent
    MaxOrders,      \* max_orders_per_day; the model is one day long
    MaxMoves,       \* bound: market moves
    MaxUserTicks,   \* bound: ticks and snapshots asked for by users
    MaxInterrupts,  \* bound: ticks that die half way
    MaxLate,        \* bound: lots to buy, and to sell, that may still trade late
    Worlds          \* the environments to consider, each a set of troubles

(***************************************************************************)
(*   capture    the account or the market cannot be read for a snapshot    *)
(*   price      the held asset's price is missing from a snapshot          *)
(*   highs      the recent high cannot be fetched                          *)
(*   slide      old highs leave the window the recent high is taken over   *)
(*   orders     an order may end otherwise than filled                     *)
(*   late       ... and trade after its tick, if its fate was not known    *)
(*   patrol     force_close raises                                         *)
(*   disabled   force_close_enabled is false                               *)
(*   interrupt  a tick is cancelled (AgentRunner.stop) or its process dies *)
(*   reset      the drawdown peak is reset by the user                     *)
(*   users      users ask for ticks and snapshots between the runner's     *)
(*   overlap    ... and during them                                        *)
(***************************************************************************)
Troubles == {"capture", "price", "highs", "slide", "orders", "late", "patrol", "disabled",
             "interrupt", "reset", "users", "overlap"}

ASSUME WorldsAssumption == Worlds \subseteq SUBSET Troubles
ASSUME BoundsAssumption ==
    /\ Prices \subseteq Nat \ {0} /\ StartPrice \in Prices
    /\ {StartCash, Target, MaxOrders} \subseteq Nat \ {0}
    /\ {MaxDrawdown, StopLoss, MaxMoves, MaxUserTicks, MaxInterrupts, MaxLate}
          \subseteq Nat

Drivers == {"runner", "user"}
Sides == {"buy", "sell"}

VARIABLES
    world,      \* the environment of this behaviour; never changes
    price,      \* the market
    high,       \* the highest price of the completed bars of the stop-loss window
    bar,        \* the highest price of the bar that is still forming
    cash, held, \* the account, as the exchange has it
    afloat,     \* side -> lots of orders without a final word that may still trade
    strays,     \* lots such orders have bought so far, kept for the properties
    snap,       \* the latest equity snapshot
    peak,       \* the highest equity in a snapshot since the last reset; 0 for none
    goal,       \* status of the goal
    due,        \* its deadline has passed
    counted,    \* count_maybe_reached_since, up to MaxOrders
    decided,    \* how many decisions of the goal reached the exchange
    tick,       \* driver -> the tick it is running
    moves, userTicks, interrupts   \* what is used up of the bounds

account == <<cash, held, afloat, strays, counted, decided>>
market == <<price, high, bar, moves>>
snapshots == <<snap, peak>>
bounds == <<userTicks, interrupts>>
vars == <<world, market, account, snapshots, goal, due, tick, bounds>>

-----------------------------------------------------------------------------
Has(trouble) == trouble \in world
Higher(m, n) == IF m > n THEN m ELSE n
Lesser(m, n) == IF m < n THEN m ELSE n

NoSnap == [cash |-> 0, held |-> 0, price |-> 0, strays |-> 0]

\* Variant: what is held is not asked a price for.
EquityOfCash(s) == s.cash
\* value_portfolio: a holding without a price (0) is left out of the equity.
Equity(s) == s.cash + s.held * s.price

\* drawdown_breached, over drawdown's answer.
Fallen(top, equity) == (top - equity) * 100 >= MaxDrawdown * top
Drawdown ==
    IF snap = NoSnap \/ peak = 0 THEN "unknown"
    ELSE IF Fallen(peak, Equity(snap)) THEN "breached" ELSE "ok"

\* drop_from_high >= stop_loss_pct; without a price it cannot be judged.
Stopped(top, p) == p > 0 /\ (top - p) * 100 >= StopLoss * top

\* What fetch_recent_highs may answer: the high of the completed bars (parse_klines
\* drops the one still forming), fetched anew each time; 0 is "not available".
Highs == {high} \cup IF Has("highs") THEN {0} ELSE {}

\* Variant: whatever may have been sold counts as closed.
FullyClosedLoosely(status) == status # "failed"
\* _FULLY_CLOSED
FullyClosed(status) == status = "filled"

\* What run_execute_agent reports of a market order for n lots, and how many have
\* changed hands by then: OrderExecution's promises, seen from here.  "partial"
\* and "unknown" are given up on, not final: the rest may trade later.
Outcomes(n, possible) ==
    IF ~possible THEN {[status |-> "failed", lots |-> 0, rest |-> 0]}
    ELSE {[status |-> "filled", lots |-> n, rest |-> 0]} \cup
         IF Has("orders")
         THEN {[status |-> "partial", lots |-> k, rest |-> n - k] : k \in 1..n}
                \cup {[status |-> "unknown", lots |-> k, rest |-> n - k] : k \in {0, n}}
                \cup {[status |-> "failed", lots |-> 0, rest |-> 0]}
         ELSE {}

\* Variant: counted without end.
CountForever(status) == IF status = "failed" THEN counted ELSE counted + 1
Count(status) ==
    IF status = "failed" \/ counted = MaxOrders THEN counted ELSE counted + 1

-----------------------------------------------------------------------------
\* A tick: what it is, where it stands, what it loads inputs for, the snapshot
\* it is about to save, the holdings and the drawdown it loaded, the status its
\* verdict gives the goal, and the order it decided on; then, for the
\* properties, why its patrol sold, and the lowest price and the highest recent
\* high since it began.
Rest == [job |-> "none", pc |-> "idle", stage |-> "none", got |-> NoSnap, view |-> NoSnap,
         fall |-> "unknown", ending |-> "none", want |-> "none", closed |-> "none", low |-> 0,
         top |-> 0]

Init ==
    /\ world \in Worlds
    /\ price = StartPrice /\ high = StartPrice /\ bar = StartPrice
    /\ cash = StartCash /\ held = 0
    /\ afloat = [side \in Sides |-> 0] /\ strays = 0
    /\ snap = NoSnap /\ peak = 0
    /\ goal = "none" /\ due = FALSE
    /\ counted = 0 /\ decided = 0
    /\ tick = [d \in Drivers |-> Rest]
    /\ moves = 0 /\ userTicks = 0 /\ interrupts = 0

At(d, label) == tick[d].pc = label
Goto(d, label) == tick' = [tick EXCEPT ![d].pc = label]
Finish(d) == tick' = [tick EXCEPT ![d] = Rest]

\* What a step of a tick leaves alone unless it says otherwise.
Elsewhere == <<world, market, snapshots, goal, due, bounds>>

Free(d) == At(d, "idle") /\ (Has("overlap") \/ \A e \in Drivers : At(e, "idle"))
Begin(d, job, label, stage) ==
    tick' = [tick EXCEPT ![d] =
                [Rest EXCEPT !.job = job, !.pc = label, !.stage = stage, !.low = price,
                             !.top = high]]

\* AgentRunner._run_one_tick: the active goal, or else the patrol alone, which
\* takes no snapshot.
RunnerTick ==
    /\ Free("runner")
    /\ IF goal = "active" THEN Begin("runner", "goal", "fetch", "none")
                          ELSE Begin("runner", "bare", "holdings", "patrol")
    /\ UNCHANGED <<Elsewhere, account>>

\* POST /agent/tick and POST /portfolio/snapshot.
UserTick ==
    /\ Has("users")
    /\ userTicks < MaxUserTicks
    /\ userTicks' = userTicks + 1
    /\ Free("user")
    /\ \E job \in {"manual", "snapshot"} : Begin("user", job, "fetch", "none")
    /\ UNCHANGED <<world, market, snapshots, goal, due, interrupts, account>>

\* capture: balances and prices are read ...
Fetch(d) ==
    /\ At(d, "fetch")
    /\ \E p \in {price} \cup IF Has("price") /\ held > 0 THEN {0} ELSE {} :
          tick' = [tick EXCEPT ![d].pc = "save",
                               ![d].got = [cash |-> cash, held |-> held, price |-> p,
                                           strays |-> strays]]
    /\ UNCHANGED <<Elsewhere, account>>

AfterCapture(d) ==
    IF tick[d].job = "snapshot" THEN Finish(d)
    ELSE tick' = [tick EXCEPT ![d].got = NoSnap, ![d].pc = "holdings",
                              ![d].stage = IF tick[d].job = "goal" THEN "judge" ELSE "patrol"]

\* ... and the snapshot is written, the latest from now on.
Save(d) ==
    /\ At(d, "save")
    /\ snap' = tick[d].got
    /\ peak' = Higher(Equity(snap'), peak)
    /\ AfterCapture(d)
    /\ UNCHANGED <<world, market, account, goal, due, bounds>>
\* _capture_equity_snapshot logs a failure; the tick goes on with the last one.
CaptureFails(d) ==
    /\ tick[d].pc \in {"fetch", "save"}
    /\ Has("capture")
    /\ AfterCapture(d)
    /\ UNCHANGED <<Elsewhere, account>>

\* load_portfolio_inputs reads the latest snapshot twice: for the holdings ...
ReadHoldings(d) ==
    /\ At(d, "holdings")
    /\ tick' = [tick EXCEPT ![d].view = snap, ![d].pc = "drawdown"]
    /\ UNCHANGED <<Elsewhere, account>>
\* ... and for the drawdown.
ReadDrawdown(d) ==
    /\ At(d, "drawdown")
    /\ tick' = [tick EXCEPT ![d].fall = Drawdown, ![d].pc = tick[d].stage]
    /\ UNCHANGED <<Elsewhere, account>>

Reached(s) == s # NoSnap /\ Equity(s) >= Target
\* Variant: the target is asked before the deadline.
VerdictTargetFirst(s, drawdown) ==
    IF Reached(s) THEN "achieved"
    ELSE IF due THEN "expired"
    ELSE IF drawdown = "breached" THEN "aborted" ELSE "none"
\* evaluate_termination
Verdict(s, drawdown) ==
    IF due THEN "expired"
    ELSE IF Reached(s) THEN "achieved"
    ELSE IF drawdown = "breached" THEN "aborted" ELSE "none"

\* Variant: the goal is aborted before its positions are closed.
NextStageEndsFirst(verdict) ==
    CASE verdict \in {"expired", "aborted"} -> "end"
      [] verdict = "achieved" -> "clear"
      [] OTHER -> "patrol"
\* _settle_termination: a deadline closes nothing, an achieved goal is cleared, a
\* breach is left to the patrol, and ended after it.
NextStage(verdict) ==
    CASE verdict = "expired" -> "end"
      [] verdict = "achieved" -> "clear"
      [] OTHER -> "patrol"

\* The patrol and the clearance load their inputs again.
Judge(d) ==
    /\ At(d, "judge")
    /\ LET verdict == Verdict(tick[d].view, tick[d].fall)
           stage == NextStage(verdict)
       IN tick' = [tick EXCEPT ![d].ending = verdict, ![d].stage = stage,
                               ![d].pc = IF stage = "end" THEN "end" ELSE "holdings"]
    /\ UNCHANGED <<Elsewhere, account>>

\* apply_termination: GoalRepository.end.
End(d) ==
    /\ At(d, "end")
    /\ goal' = tick[d].ending
    /\ Finish(d)
    /\ UNCHANGED <<world, market, account, snapshots, due, bounds>>

\* What follows the patrol in each kind of tick.
AfterPatrol(d, sold) ==
    IF tick[d].job = "bare" THEN Finish(d)
    ELSE tick' = [tick EXCEPT ![d].closed = sold,
                              ![d].pc = IF tick[d].ending = "aborted" THEN "end"
                                        ELSE IF tick[d].job = "goal" THEN "budget"
                                        ELSE "decide"]

\* Variant: the patrol looks at the account, not at the single position.
BreachesDrawdownOnly(s, drawdown, top) == s.held > 0 /\ drawdown = "breached"
\* plan_closes
Breaches(s, drawdown, top) ==
    s.held > 0 /\ (drawdown = "breached" \/ Stopped(top, s.price))
\* ... which asks for the drawdown of the account first.
Reason(drawdown) == IF drawdown = "breached" THEN "drawdown" ELSE "stop"

\* _force_close_if_needed finds a breach and sells what the snapshot holds, or
\* finds nothing, may not act, or fails, which is only logged.
Patrol(d) ==
    /\ At(d, "patrol")
    /\ \E top \in Highs :
          \/ /\ ~Has("disabled") /\ Breaches(tick[d].view, tick[d].fall, top)
             /\ Goto(d, "sell")
          \/ /\ Has("disabled") \/ Has("patrol") \/ ~Breaches(tick[d].view, tick[d].fall, top)
             /\ AfterPatrol(d, "none")
    /\ UNCHANGED <<Elsewhere, account>>

\* The achieved goal: plan_close_all, or "achieved_close_pending" when the
\* positions may not be closed or closing them fails.
Clear(d) ==
    /\ At(d, "clear")
    /\ \/ ~Has("disabled") /\ Goto(d, IF tick[d].view.held > 0 THEN "sell" ELSE "end")
       \/ (Has("disabled") \/ Has("patrol")) /\ Finish(d)
    /\ UNCHANGED <<Elsewhere, account>>

Possible(side) == IF side = "buy" THEN price <= cash ELSE held > 0
Sign(side) == IF side = "buy" THEN 1 ELSE -1

\* An order trades `lots`, and `rest` may follow.
Trade(side, lots, rest) ==
    /\ held' = held + Sign(side) * lots
    /\ cash' = cash - Sign(side) * lots * price
    /\ afloat' = IF Has("late") THEN [afloat EXCEPT ![side] = Lesser(@ + rest, MaxLate)]
                                ELSE afloat

\* _close_one: run_execute_agent sells the quantity of the snapshot.
Sell(d) ==
    /\ At(d, "sell")
    /\ \E o \in Outcomes(tick[d].view.held, tick[d].view.held <= held) :
          /\ Trade("sell", o.lots, o.rest)
          /\ counted' = Count(o.status)
          /\ IF tick[d].ending # "achieved" THEN AfterPatrol(d, Reason(tick[d].fall))
             ELSE IF FullyClosed(o.status) THEN Goto(d, "end")
             ELSE Finish(d)
    /\ UNCHANGED <<Elsewhere, decided, strays>>

\* Variant: one order too many.
BudgetOffByOne(d) ==
    /\ At(d, "budget")
    /\ IF counted > MaxOrders THEN Finish(d) ELSE Goto(d, "decide")
    /\ UNCHANGED <<Elsewhere, account>>
\* The daily budget, counted after the patrol and before the decision.
Budget(d) ==
    /\ At(d, "budget")
    /\ IF counted >= MaxOrders THEN Finish(d) ELSE Goto(d, "decide")
    /\ UNCHANGED <<Elsewhere, account>>

\* Manager.decide, or the analysis of a manual tick.  HOLD, or no market data
\* for the symbol, ends the tick.
Decide(d) ==
    /\ At(d, "decide")
    /\ \/ Finish(d)
       \/ \E side \in {"buy", "sell"} :
             tick' = [tick EXCEPT ![d].want = side, ![d].pc = "holdings", ![d].stage = "risk"]
    /\ UNCHANGED <<Elsewhere, account>>

\* Variant: a position past its stop may be added to.
MayBuyStopped(s, drawdown, top) == s # NoSnap /\ drawdown = "ok"
\* DrawdownRule, TrailingStopRule and PositionLimitRule on a BUY: what cannot be
\* judged is refused.
MayBuy(s, drawdown, top) ==
    /\ s # NoSnap
    /\ drawdown = "ok"
    /\ s.held > 0 => s.price > 0 /\ top > 0 /\ ~Stopped(top, s.price)

\* run_risk_agent.  The limits on amounts and losses may refuse anything.
Risk(d) ==
    /\ At(d, "risk")
    /\ \/ Finish(d)
       \/ /\ tick[d].want = "buy" =>
               \E top \in Highs : MayBuy(tick[d].view, tick[d].fall, top)
          /\ Goto(d, "execute")
    /\ UNCHANGED <<Elsewhere, account>>

\* run_execute_agent, one lot.
Execute(d) ==
    /\ At(d, "execute")
    /\ \E o \in Outcomes(1, Possible(tick[d].want)) :
          /\ Trade(tick[d].want, o.lots, o.rest)
          /\ counted' = Count(o.status)
          /\ decided' = IF tick[d].job = "goal" /\ o.status # "failed" THEN decided + 1 ELSE decided
    /\ Finish(d)
    /\ UNCHANGED <<Elsewhere, strays>>

\* AgentRunner.stop cancels the tick at an await, or the process dies.  An order
\* it was sending may be carried out all the same, at once or late; its row stays
\* "pending", which is not counted.
Interrupt(d) ==
    /\ Has("interrupt")
    /\ interrupts < MaxInterrupts
    /\ interrupts' = interrupts + 1
    /\ ~At(d, "idle")
    /\ \/ UNCHANGED <<cash, held, afloat, decided>>
       \/ /\ At(d, "sell") /\ tick[d].view.held <= held
          /\ \E now \in {0, tick[d].view.held} : Trade("sell", now, tick[d].view.held - now)
          /\ UNCHANGED decided
       \/ /\ At(d, "execute") /\ Possible(tick[d].want)
          /\ \E now \in {0, 1} : Trade(tick[d].want, now, 1 - now)
          /\ decided' = IF tick[d].job = "goal" THEN decided + 1 ELSE decided
    /\ Finish(d)
    /\ UNCHANGED <<strays, counted, world, market, snapshots, goal, due, userTicks>>

Step(d) ==
    \/ Fetch(d) \/ Save(d) \/ CaptureFails(d)
    \/ ReadHoldings(d) \/ ReadDrawdown(d)
    \/ Judge(d) \/ End(d)
    \/ Patrol(d) \/ Clear(d) \/ Sell(d)
    \/ Budget(d) \/ Decide(d) \/ Risk(d) \/ Execute(d)

-----------------------------------------------------------------------------
\* The exchange carries out what an order was given up on: execute_agent.py and
\* orders.py call such an order "unknown" or "partial" and ask no more.
Arrives(side) ==
    /\ Has("late") /\ afloat[side] > 0
    /\ Possible(side)
    /\ held' = held + Sign(side)
    /\ cash' = cash - Sign(side) * price
    /\ afloat' = [afloat EXCEPT ![side] = @ - 1]
    /\ strays' = IF side = "buy" THEN strays + 1 ELSE strays
    /\ UNCHANGED <<world, market, snapshots, goal, due, counted, decided, tick, bounds>>

\* The user confirms a goal; its time runs out; the price moves; a bar of the
\* stop-loss window is completed, and old ones may leave it; reset_drawdown drops
\* the peak.
Confirm ==
    /\ goal = "none"
    /\ goal' = "active"
    /\ UNCHANGED <<world, market, account, snapshots, due, tick, bounds>>
Deadline ==
    /\ goal = "active"
    /\ ~due
    /\ due' = TRUE
    /\ UNCHANGED <<world, market, account, snapshots, goal, tick, bounds>>
Move ==
    /\ moves < MaxMoves
    /\ moves' = moves + 1
    /\ price' \in Prices \ {price}
    /\ bar' = Higher(bar, price')
    /\ tick' = [d \in Drivers |-> [tick[d] EXCEPT !.low = Lesser(@, price')]]
    /\ UNCHANGED <<world, high, account, snapshots, goal, due, bounds>>
BarCloses ==
    /\ bar' = price
    /\ high' \in {Higher(high, bar)}
                  \cup IF Has("slide") THEN {p \in Prices : bar <= p /\ p <= high} ELSE {}
    /\ tick' = [d \in Drivers |->
                  IF At(d, "idle") THEN tick[d] ELSE [tick[d] EXCEPT !.top = Higher(@, high')]]
    /\ UNCHANGED <<world, price, moves, account, snapshots, goal, due, bounds>>
Reset ==
    /\ Has("reset")
    /\ peak > 0
    /\ peak' = 0
    /\ UNCHANGED <<world, market, account, snap, goal, due, tick, bounds>>

Next ==
    \/ RunnerTick
    \/ UserTick
    \/ \E d \in Drivers : Step(d) \/ Interrupt(d)
    \/ \E side \in Sides : Arrives(side)
    \/ Confirm \/ Deadline \/ Move \/ BarCloses \/ Reset

\* The runner's loop ticks every agent_tick_interval, and every await ends.
Fairness == WF_vars(RunnerTick) /\ \A d \in Drivers : WF_vars(Step(d))

Spec == Init /\ [][Next]_vars /\ Fairness

-----------------------------------------------------------------------------
(***************************************************************************)
(* Properties.                                                             *)
(***************************************************************************)
Becomes(status) == goal # status /\ goal' = status
FreeOf(troubles) == world \cap troubles = {}

Snaps == [cash : Int, held : Nat, price : Prices \cup {0}, strays : Nat]
Ticks == [job : {"none", "goal", "bare", "manual", "snapshot"},
          pc : {"idle", "fetch", "save", "holdings", "drawdown", "judge", "end", "patrol",
                "clear", "sell", "budget", "decide", "risk", "execute"},
          stage : {"none", "judge", "patrol", "clear", "end", "risk"},
          got : Snaps, view : Snaps, fall : {"unknown", "ok", "breached"},
          ending : {"none", "expired", "achieved", "aborted"}, want : {"none", "buy", "sell"},
          closed : {"none", "stop", "drawdown"}, low : Prices \cup {0}, top : Prices \cup {0}]

TypeOK ==
    /\ world \in Worlds
    /\ price \in Prices /\ high \in Prices /\ bar \in Prices
    /\ cash \in Nat /\ held \in Nat
    /\ afloat \in [Sides -> 0..MaxLate] /\ strays \in Nat
    /\ snap \in Snaps /\ peak \in Nat
    /\ goal \in {"none", "active", "expired", "achieved", "aborted"} /\ due \in BOOLEAN
    /\ counted \in 0..MaxOrders /\ decided \in Nat
    /\ tick \in [Drivers -> Ticks]
    /\ moves \in 0..MaxMoves /\ userTicks \in 0..MaxUserTicks /\ interrupts \in 0..MaxInterrupts

\* The account is past its drawdown line or the position past its stop, at price
\* p and a recent high of h, against what was recorded so far.
InBreach(p, h) ==
    /\ held > 0
    /\ Stopped(h, p) \/ (peak > 0 /\ Fallen(peak, cash + held * p))

\* "achieved" is never written over an open position (goal_agent.py
\* _settle_termination, ADR-038): clearance that failed, filled in part or was
\* interrupted does not count, nor does an old snapshot.  What is held then is what
\* orders without a final word bought behind the snapshot that was cleared.
AchievedMeansFlat == [][Becomes("achieved") => held = 0]_vars
AchievedIsFlat ==
    [][ Becomes("achieved") /\ FreeOf({"overlap"}) /\ ~({"capture", "users"} \subseteq world)
            => held <= strays - snap.strays ]_vars

\* A goal aborted for its drawdown leaves no position, as long as its orders are
\* filled and the patrol may act ("first close, then end", goal_agent.py): the
\* verdict and the patrol load their inputs apart and still agree.
AbortedIsFlat ==
    [][ Becomes("aborted")
            /\ FreeOf({"orders", "late", "patrol", "disabled", "reset", "overlap"})
            => held = 0 ]_vars

\* No tick buys after its own patrol closed the position for the drawdown of the
\* account, however prices, highs and peak change between the two: the patrol and
\* the risk rules load their inputs apart and must not contradict each other
\* (engine.py PortfolioInputs).  After a stop of this asset it may buy it again
\* only when the high that stopped it has left the window meanwhile.
OneDirectionPerTick ==
    FreeOf({"overlap"}) =>
        \A d \in Drivers :
            At(d, "execute") /\ tick[d].want = "buy" =>
                \/ tick[d].closed = "none"
                \/ tick[d].closed = "stop" /\ Has("slide")

\* A patrol of a tick that takes its own snapshot only sells what was in breach
\* at some moment of that tick.
SalesJudgedNow ==
    \A d \in Drivers :
        At(d, "sell") /\ tick[d].ending # "achieved" /\ tick[d].job # "bare" =>
            InBreach(tick[d].low, tick[d].top)
PatrolIsJustified ==
    FreeOf({"capture", "price", "late", "reset", "overlap"}) => SalesJudgedNow

\* The goal's decisions never send more orders than the budget allows, whatever
\* became of them (count_maybe_reached_since), as long as no tick dies while it
\* sends one.
BudgetRespected == FreeOf({"interrupt"}) => decided <= MaxOrders

\* A goal whose time is up is ended, even when it is achieved and its positions
\* cannot be closed.
GoalEnds == due /\ goal = "active" ~> goal # "active"

\* While a goal is active and nothing fails, no position stays in breach: the
\* patrol acts, whatever the model says or the users do.
BreachIsClosed ==
    FreeOf(Troubles \ {"users", "slide"}) => []<>(goal # "active" \/ ~InBreach(price, high))

\* The same without a goal (runner.py: the patrol does not stop).
BreachIsClosedAlways ==
    FreeOf(Troubles \ {"users"}) => []<>(~InBreach(price, high))
=============================================================================

# Bianca in TLA+

Bianca is a trading agent: a user states a goal in a dialogue and confirms it, a
background runner drives the confirmed goal tick by tick (a model proposes, code
judges, limits and executes), and the orders go to an exchange over a network
that loses answers. Money depends on what happens between two awaits. This
directory models those parts, checks them with TLC and proves the most important
results with TLAPS.

## 1. The system

| Component | State it keeps | Operations | What is hard about it |
|---|---|---|---|
| Order execution (`agent/graph/execute_agent.py`, `agent/trading/orders.py`, `OrderRepository`) | `order_logs`, `trade_logs`, the exchange's own orders | look up, register, submit, reconcile, settle | lost answers, crashes between two writes, execution again, an exchange that does not deduplicate |
| Goal tick (`agent/graph/goal_agent.py`, `agent/dialogue/termination.py`) | `goals.status` | capture, terminate, clear, patrol, budget, decide, limit, execute | state read before an await and used after it |
| Manual tick and patrol (`agent/graph/supervisor.py`, `agent/risk/close.py`, `monitor.py`) | none of its own | `POST /agent/tick`, force close | runs beside the runner's tick without a lock |
| Runner (`agent/runner.py`) | its task, its stop event | start, stop, one tick per interval | cancels a tick anywhere; start and stop race |
| Snapshots and drawdown (`agent/portfolio/*`) | `equity_snapshots`, the reset moment | capture, drawdown, reset, recent highs | missing prices, old snapshots |
| Risk engine (`agent/risk/engine.py`, `rules.py`) | none | load inputs, five rules | inputs read apart from each other |
| Dialogue (`agent/dialogue/session.py`, `goal.py`, `GoalRepository`) | `goals`, `plans`, `messages` | start, say, confirm, plan | concurrent requests, a model call of minutes between check and write |
| Manager (`agent/manager/*`), analysis (`agent/llm/*`) | transcripts, `decision_logs`, `plans` | plan, decide, analyse | answers may be anything, tools fail, rounds run out |
| Attribution (`agent/portfolio/attribution.py`, `service.py`) | `attribution_baseline`, `equity_snapshots.gaps` | seed, attribute, compare | account, ledger and baseline are read one after the other; a first capture twice |
| Market data (`agent/market/*`, `scripts/backfill_market_history.py`) | `klines`, a lock file | stream, backfill, fill gaps | restart in the middle, several writers, a row is never corrected |
| API, storage, CLI, frontend, scripts | - | - | thin |

How they interact: the runner and the HTTP handlers are coroutines of one
process over one SQLite database, without locks; they meet only in rows (goals,
snapshots, orders) and at the exchange. The runner's tick calls the snapshot
capture, the risk engine, the manager and order execution one after the other
and awaits each. The market collector lives in the API process or in one of its
own, kept apart by a lock file; it shares with the rest only its table of candles,
which the manager's tools and the stop rule read.

What makes each part correct is the list `hazards` of `PROJECT.json`, each at
its line and with the properties that would catch it going wrong.

## 2. The modules

| Module | Models | Runs |
|---|---|---|
| `OrderExecution` | one decision's order through `run_execute_agent`, with rows, exchange and wire | `order_all`, `order_rejected` |
| `OrderPromise` | what the ledger promises about that order | refined in `order_all` |
| `OrderExecutionProofs` | theorems about `OrderExecution` | - |
| `TradingLoop` | the runner's ticks, manual ticks and snapshots, account, market, snapshots, goal, budget | `trading_*` |
| `GoalDialogue` | concurrent dialogue requests and the runner over goals and plans | `dialogue_*` |
| `GoalLife` | what a goal promises its user | refined in `dialogue_all` |
| `GoalDialogueProofs` | theorems about `GoalDialogue` | - |
| `TradingLoopProofs` | theorems about `TradingLoop` | - |
| `MarketCollector` | collectors, lock, stream, gap check and backfills over one series of candles | `market_all` |
| `MarketCollectorProofs` | theorems about `MarketCollector` | - |
| `ManagerRounds` | one run of plan, decide or analyze against a model that answers anything | `manager_all` |
| `Attribution` | captures over account, ledger, baseline and snapshots | `ledger_all` |
| `AttributionProofs` | theorems about `Attribution` | - |
| `ManagerRoundsProofs` | theorems about `ManagerRounds` | - |
| `Induction` | induction over numbers, and least and largest members, for the proofs | - |
| `MC*` | instances for TLC | |

The component modules use one convention. An action is what runs between
two awaits that matter, named for the function; `pc` labels say where a
coroutine stands. What may go wrong is a set of *troubles* (or *faults*) chosen
once in `Init` and never changed, so that one run covers many environments and a
property can say in which of them it holds. A definition whose comment begins
with "Variant" is no part of a specification: it is the slip a programmer could
make in the definition after it, kept to show which property would notice.

### OrderExecution

Executions of different decisions touch different rows and different client
order ids, so the module follows one decision, which may be executed
`MaxRuns` times one after the other. `row` is the `order_logs` row (status,
exchange order id, fill), `trade` the status of `trade_logs`, `ex` the order the
exchange holds, `placed` how many it accepted, `wire` whether a create request
is under way that nobody waits for any more. `upd`, `last`, `tries`, `verdict`
are the coroutine's locals. Quantities are `absent`, `zero`, `part`, `full`.

`Begin` .. `Settle` are `run_execute_agent` in order; `failrow`/`failtrade` is
`_record_failure` inside the `try`, `errrow`/`errtrade` the same function in the
outer handler, whose status depends on `committed` and so on the place it is
reached from (`OuterHandler`). A request left on the wire is delivered
(`LateArrival`) or lost (`LateLoss`) by the exchange in its own time; `late`
lets the next execution begin before that.

The exchange may answer with any field missing, with a quantity that lags behind
at zero, in any state of the order, or not at all; `crash`, `connect`, `db`, `close` and `late` add the rest. Run
`order_all` takes all 32 combinations, with `Attempts = 2` polls (the code makes
5; one poll that sees nothing and one that exhausts is all that polls can
differ in) and `MaxRuns = 3` (one execution that leaves a trace, one that
stumbles over it, one that finds what both left).

`Candid` names the environments in which an earlier execution cannot be
misjudged; there the executions implement `OrderPromise`: at most one order, one
verdict, given once and with grounds. `order_rejected` shows why `crash` and
`connect` together are not candid. `TerminalIsFinal` is asked of every environment
and names the one way in which the code breaks its own rule: a timeout is filed as
"unknown", then `_mark_trade` or the closing session raises, and the outer handler,
for which nothing was committed, writes "rejected" over it.

### TradingLoop

One asset, one goal, one day. `cash` and `held` are the account as the exchange
has it, `snap` the latest equity snapshot, `peak` the highest equity since the
last reset, `high` the recent high the stop is measured from: the highest price of
the completed bars of a window that is fetched anew for patrol and risk rules. A bar
that completes (`BarCloses`) raises it to `bar`, the high of the bar that was
forming, and where the world has `slide` old bars leave the window and the high
falls, down to that bar. `tick[d]` is the
tick that driver `d` runs: the runner (a goal tick, or the bare patrol when no
goal is active) or a user (`POST /agent/tick`, `POST /portfolio/snapshot`).
Verdict, patrol, clearance and risk rules each load their inputs again, in two
reads (`ReadHoldings`, `ReadDrawdown`), as `load_portfolio_inputs` does. What
`run_execute_agent` does is reduced to `Outcomes`: filled, or with `orders`
partial, unknown or failed. "partial" and "unknown" are what the code gives up on:
the rest of such an order, or of one that was interrupted, stays `afloat`, and with
`late` it trades at any later moment (`Arrives`), in that tick or a later one.
`strays` counts what was bought in this way; a snapshot remembers it, so that a
property can say what was bought behind it. The model may decide anything
(`Decide`), the limits on amounts and on the daily loss may refuse anything
(`Risk`).

What the properties claim is limited by that. `AchievedIsFlat`: a goal may be
achieved while an order the code has given up on buys behind the snapshot that was
cleared, and nothing else may be left. `OneDirectionPerTick`: a sale for the
drawdown of the account excludes a buy in the same tick; a sale by a stop excludes
one of that asset only as long as the high that stopped it stays in the window, and
never one of another asset (`TrailingStopRule` looks at the asset being bought), for
which the module, with its one asset, has nothing to check. Comments in the code
(`engine.py:108`, `supervisor.py:205`) promise more.

`trading_ticks` checks ten worlds, with three prices, a target of 5 and a
drawdown limit of 25% on a start of 4: two price moves are enough to reach the
target, the drawdown line and the stop, in either order; one user tick and one
interruption are enough, as each is a tick at an arbitrary moment; one lot in each
direction may trade late (`MaxLate`), which is one more than a property needs to
break. `due` may happen at any time. The world `overlap` is not among them: there
`trading_overlap` shows the property broken.

### GoalDialogue

`goals` and `plans` are the tables; a goal's number is its place in the order of
`created_at`, which `open_goal` and `active_goal` sort by. Two dimensions stand
for the seven: the drawdown limit, from which the risk snapshot is computed, and
everything else. `req[h]` is an HTTP request in progress, `tick` the runner's
tick. Every repository call that reads, decides and writes is two actions
(`Save`/`SaveCommit`, `Activate`/`ActivateCommit`, `Attach`/`AttachCommit`,
`End`/`EndCommit`): the UPDATE writes the columns that differ from what was
read, not the row.

The worlds grade how finely requests interleave. Without `requests` only the
model call of `plan` lets others in, with it every await between two repository
calls does, with `calls` also the one between SELECT and UPDATE. The properties
say which grade they need: what the repository checks itself (terms, limits,
endings) holds with `requests`; what `Dialogue` checks before it calls the
repository (one goal at a time, drafts) does not; a plan that is replaced needs
no more than the model call. No lock or transaction excludes `calls`; there
nothing but `PlanIsUsable` and `GoalsEnd` is promised.

### MarketCollector

One series of candles ("bars"), numbered by opening time. `stored` is the table
(a bar is absent, stored while it was forming, or final; `insert_rows` never
overwrites), `latest` the last bar that has closed, `lock` the holder of the lock
file. `loop[p]` is the collector of process `p`, in the API or alone:
`connect`, `scan` and `gaps` (the gap check, while the messages of this
connection already wait in `inbox`), `live`, `stopping`. `fill[w]` is a backfill
of the history: of a collector that starts, of `POST /market/backfill` (which
needs no lock) or of the script. `todo` holds the chunks that are left, any of
which may be the next to end: the semaphore limits how many requests are open, and
the rows are inserted outside of it. `report` is what the script's final report
called complete.

`Start` .. `Reconnect` are `MarketCollector.start`, `_stream_once`, `_fill_gaps`
and `_loop`; `LookUp` .. `FillDone` are `backfill_history` and `_run`;
`Stop`/`Release` are `stop`, which waits for the tasks first; `Crash` is a kill,
after which the kernel frees the lock. A failing chunk (four attempts) is only
counted, a gap check that raises is only logged, a write that raises costs the
connection.

Abstracted: the waits between attempts (merged into `Reconnect` and the failure
of a chunk); the request and the insert of a chunk are one step, since nothing
reads what lies between them; when one chunk's insert raises, the chunks that
`gather` leaves running are not followed; the clock of the machine and the
exchange agree; `market_backfill_on_start` is on. Two processes with
different working directories compute different lock paths and do not exclude
each other, and on systems where the probe cannot tell, it says "unknown": both
are outside of the model.

`market_all` takes six worlds (lost connections with kills, stops with losses,
failing requests with losses, the endpoint with kills, the script with failures,
the script until today), one of each event, with `MaxBar = 5`, `History = 3`,
`Lookback = 2` and `ChunkBars = 2`: two bars close while something runs, the
history is longer than a chunk, longer than the window of the gap check and no
multiple of either, and there are always two chunks whose order can be swapped.

### ManagerRounds

One run of `Manager.plan`, `Manager.decide` or `MarketAnalyzer.analyze`. `messages`
is the conversation, `todo` the calls of the round that were not run yet, `ran`
what the registry returned (a history), `tables` which tables hold rows, `log`
the rows the run wrote. An answer is a text of a class (a plan, a signal, a BUY
without an amount, prose, nothing) with calls in one of five notations;
`Understood` says what `parse_reply` makes of it, `Usable` what
`parse_plan`, `parse_decision` with `unusable_reason` and `parse_trade_signal`
accept. A number of a call is its round and place, or none when the server gave
none; a message of the model keeps the numbers of its calls as a set, since each
is the number of one call. `Invoke`/`Observe` are `ToolRegistry.call`, `_invoke` and
`_observation_message`; `GiveUp`, `Unreachable`, `Garbled` are the ends
of the rounds without a result; `Save`, `SaveFails`, `Cancel` the row.

Left out: prompts, the arguments of a call beyond their form (the only registry
that is built accepts every object, so its refusal of arguments is unreachable),
and how old the rows are that a tool shows. In the other modules a manager may
answer anything (`TradingLoop.Decide`, `GoalDialogue.Answered`), so that nothing
they prove depends on this one.

`manager_all`: three rounds (one that calls tools, one that stumbles, one that
answers, or three of a kind), fifteen answers that cover each notation with
well-formed, malformed and invented calls, and four worlds.

### Attribution

One pair of assets; an order moves units of the base asset against as many of
the quote asset (prices are one). `account` is the exchange's, `orders` the
ledger, each order with what the ledger says of it (`status`, `filled`) and what
really traded, `baseline` the table, `snaps` the snapshots with
their differences and the drift they reported. `capture[c]` is a capture of the
runner's tick or of a request; its steps are the awaits of
`service.capture`: balances, ledger, baseline, `seed` (which checks and
inserts in two sessions), the comparison with the latest snapshot, the row.
`beyond` remembers what, at the moment the balances were read, others had moved
and orders had traded without the ledger knowing: what a report should be
about. A capture lists the assets that the balances, the ledger or the baseline name
(`Listed`), and a balance of zero is not named by the balances: of an asset that
others brought and took away again, the snapshot that misses it reports nothing,
although `compare` says that what is on one side only is what should be seen
(`attribution.py:113-117`). `DriftIsNotOurs` speaks of the assets that are listed.

Left out: fees, symbols that cannot be split, and the threshold below which
a difference is noise. `DriftIsNotOurs` says in its premise where the code
promises nothing: a request that overlaps, and a ledger longer than the window. A
capture that writes the baseline over old snapshots compares with nothing; the
property asks it for nothing, and asks the next one for everything since, also
when the first failed after it had written the baseline and the snapshot before is
an old one.

`ledger_all`: two orders of two units (one that is settled, one that goes on
trading), two movements by others, three snapshots (one that seeds, two to
compare), one request, on accounts that begin with nothing, one asset or both.

## 3. The runs

Passing runs:

* `order_all` - the ten properties of `OrderExecution`, among them: never two
  orders (`AtMostOneOrder`), the ledger first (`LedgerBeforeExchange`), "filled"
  and "rejected" only with grounds (`FilledIsEvidenced`,
  `RejectedMeansNothingPlaced`), verdicts that stand (`TerminalIsFinal`), a
  budget that sees every live order (`ReachedIsCounted`), the end of every
  execution (`ExecutionEnds`) and the refinement (`ImplementsPromise`).
* `trading_ticks` - no "achieved" over a position, but for what an order that was
  given up on bought since (`AchievedIsFlat`), no
  "aborted" before the positions are closed (`AbortedIsFlat`), no tick that sells
  for the drawdown and buys (`OneDirectionPerTick`), no sale without a breach
  (`PatrolIsJustified`), the budget (`BudgetRespected`), and that a goal ends
  (`GoalEnds`) and a breach is acted on (`BreachIsClosed`).
* `dialogue_all` - confirmed terms and limits that stay (`FrozenAsConfirmed`,
  `TermsAreKept`, `TickOnFrozenTerms`), goals that end and stay ended
  (`GoalsEnd`, `EndedIsFinal`), one goal at a time (`OneGoalAtATime`), plans
  that could be parsed (`PlanIsUsable`), sentences that only add
  (`WordsOnlyAdd`), and the refinement of `GoalLife` (`GoalsLive`).

* `market_all` - one collector at a time (`OneWriter`), only finished bars
  (`StoredIsFinal`), nothing missed while a connection lives (`NothingMissed`),
  nothing left out by a backfill and true reports of the script
  (`BackfillIsComplete`), and recent data that becomes complete and healthy again
  (`RecentIsComplete`).
* `manager_all` - every call of the model gets one answer, the right one and
  under its own number (`AnswersAreTrue`), and what is returned is what the model
  said last, and stands in one row that was written before (`SaidAndRecorded`).
* `ledger_all` - a baseline that is written once (`BaselineIsKept`), and a
  reported drift that is, for every asset listed, exactly what the ledger cannot
  vouch for
  (`DriftIsNotOurs`).

Runs that show a disagreement between the code and what it says of itself
(`findings` in `PROJECT.json` quotes both):

* `order_rejected` - a crash, then a connection that cannot be opened, and an
  existing order is filed as rejected for good.
* `trading_no_goal` - without an active goal the patrol never takes a snapshot,
  so it never sees a breach that came later.
* `trading_unpriced` - a missing price looks like a drawdown, and everything is
  sold.
* `trading_overlap` - a manual tick buys while an achieved goal is cleared.
* `dialogue_two_goals` - two starts, two open goals.
* `dialogue_replan` - two plans, and the second replaces the first.

Fairness. `OrderExecution`: a started execution goes on (`WF(RunStep)`), because
the exchange client and the database driver time out; nobody is obliged to
execute, and the exchange to nothing. `TradingLoop`: the loop of `AgentRunner`
ticks again after each interval and every await ends, whatever its outcome;
nothing is assumed of users or market. `GoalDialogue`: the same, and that time
passes; the runner is assumed to be running, which an operator starts over
HTTP. `MarketCollector`: the scheduled task wakes the collector up again and
again (`WF(Start)`; `task.py` registers a repetition without an end, and a
process that finds the lock taken gives up), connecting succeeds
in the end, requests and writes return, time goes on. `ManagerRounds` and
`Attribution` assume nothing and claim safety only. `CHECK_DEADLOCK` is off:
everything may rest (an order settled, a market that no longer moves, a bound
used up).

## 4. The proofs

### OrderExecutionProofs

For every `Attempts`, `MaxRuns` and every set of environments, from the three
assumptions of `OrderExecution`. `TypeOK` and the safety properties are not
inductive: whether `placed` may grow depends on what the coroutine learned
earlier. `IInv` adds, as named parts: what each program point knows of row,
wire and exchange (`Phases`), that no execution places an order while one exists
or is under way (`Alone`), what an update or the last answer is grounded in
(`Grounds`), what holds between executions (`Quiet`), what the handlers may
still write (`Handlers`), what terminal rows mean (`Honest`) and how the trade
record follows the row (`Recorded`). One lemma per part
shows it preserved, with one step per action; `IInvHolds` combines them, and the
theorems on `AtMostOneOrder`, `LedgerBeforeExchange`, `FilledIsEvidenced`,
`RejectedMeansNothingPlaced`, `ReachedIsCounted`, `TradeFollowsOrder` and
`TerminalIsFinal` read them off. `ExecutionsKeepThePromise` shows that every step
maps to `Reach`, to `Judge`, or to a stutter of `OrderPromise`.
`ExecutionsAdvance` is the part of `ExecutionEnds` that needs no fairness: every
step of an execution brings it nearer to its end, whatever the exchange answers,
so that an execution cannot go on for ever.

### GoalDialogueProofs

For every number of goals, requests and handlers, every set of sentences and
every set of environments, from the four assumptions of `GoalDialogue`. The
properties are not inductive: that an UPDATE does no harm depends on what its
repository call read before. `IInv` adds, as named parts: that everybody works
on rows that exist and attaches usable plans (`Serving`), that calls exclude
each other (`Exclusive`), that what a call has read is still so when it writes
(`Current`), that limits are those of the confirmation (`Confirmed`), that
requests which do not interleave are alone (`Single`), and that rows not yet
created are blank (`Numbered`). What an action changes is stated once, in a
lemma of its own (`StartEffect` .. `CrashEffect`), so that the lemmas on the
parts need not look into the records. `RowChanges` says which moves a goal can
make in a step; `TermsStand` and the refinement of `GoalLife`
(`GoalsKeepThePromise`) follow from it. A part that needs
requests or calls not to interleave says so, as the properties do.
`EndingsNear` is the part of `GoalsEnd` that needs no fairness: once the goal the
runner picks is due, each step of the runner ends it or brings its end nearer.
Steps of requests do not take that back, whatever they interleave with; only a
restart (the tick begins again) or a confirmation (another goal may be picked)
does.

### TradingLoopProofs

For every account, price range, target, limit, budget, number of ticks and set
of environments, from the assumptions of `TradingLoop`. That a sale or an ending
is right depends on what the tick read some steps before, and on nobody having
changed it since. `IInv` adds to `TypeOK`: where a tick of each job and stage may
stand (`Flows`); that past its budget check a tick has an order left
(`Budgeted`); that without overlap there is one tick at a time (`Alone`), and
what it loaded is what the tables say (`Views`); that what its patrol sold for the
drawdown no rule lets it buy, and what it sold by a stop none does while the high
stands (`Refused`); that the lowest price of the tick is one
(`Lowests`), the snapshot it took is the account (`Loads`), and what is in breach
at the snapshot's price is so at the lowest (`Justified`); and
what is left of the position when the goal was achieved (`Cleared`) or aborted
(`Dropped`). A breach stays one when the price falls and the high rises
(`BreachDeepens`, `StoppedStays`): these lemmas carry the arithmetic, and the rest
is cases.

Two theorems are the part of `GoalEnds` that needs no fairness. `TicksEnd`: each
step of a tick brings it nearer to its end, through verdict, patrol or clearance,
budget, decision, rules and order, and no step of anybody else takes that back.
`DeadlineNears`: while an active goal is due, each step of the runner ends it or
lowers the distance to the step that does, which is at the end of this tick or of
the next; only an interruption of the tick raises it. So nothing the market, the
model or an order does can put an ending off for ever.

### MarketCollectorProofs

For every window, chunk size, number of events and set of
environments, from the assumptions of `MarketCollector`. The lemmas `GapAround`
and `ChunkAround` say that every missing bar lies in a gap of `find_gaps` and
every bar of a range in a chunk of `chunk_ranges`, whatever the sizes. `IInv`
adds to `TypeOK`: who is running holds the lock (`Locked`); ranges and messages
are of bars that have closed (`Closed`), from which `StoredIsFinal` follows; the
window of a gap check, up to now, is stored, under way or in the
buffer (`Covered`); and the range of a backfill is stored or under way
(`Filled`).

Two theorems are what `RecentIsComplete` has besides fairness.
`CollectorsSettle`: between two disturbances (a lost connection, a stop, a
failure, a bar that closes) each step of a loop lowers its phase or the work left
in it. `SettledComplete`: a loop that is live, connected and has read its
messages has its whole window stored, and `collector_health` calls it "ok", if no
request failed.

### ManagerRoundsProofs

For every number of rounds, registry of tools, set of environments and set of
answers a model may give, from the assumptions of `ManagerRounds`. `IInv` adds
to `TypeOK`: that what the conversation owes and has not paid is what is left to
do (`Spoken`), that it tells what the registry returned, in that order
(`Truthful`), and that a row says what was said (`Filed`). Of these `Spoken` is
the strengthening: that an answer bears a number nobody has answered yet does not
follow from the conversation, but from the calls still in the queue. A
conversation only grows at its end. So the operators on it (what is owed, what
is paid, which messages are answers) are shown once to change by what one
message changes, and the actions cite that. `HitsDefined` says what the
recursive function `Hits` returns. `ResultsRecorded` and `AnswersTold` state the
properties of the run. `RunsAdvance` says that no run goes on for ever: each
step ends a stage, or else uses up a round, or else a piece of the work of the
round, or else it fills a table, of which there are finitely many.

### AttributionProofs

For every account, ledger, window, number of captures and set of environments,
from the assumptions of `Attribution`. `DriftReported` is the property the module
is about: where captures do not overlap and the ledger fits in the window, every
drift that is reported, and of every asset listed, is what others have moved, or
what orders traded without the ledger knowing; and where nothing happened at all,
none is. The property is
not inductive, because it compares numbers that were read at different times.
What does not change is `Start`: the account, less what others moved, less what
the orders really traded. `StartKept` shows it for every step, and `IInv` ties
all that is stored or in the hands of a capture to it: what the tick's capture
has read and will report, the baseline, and each snapshot (`Explains`, under the
premise of the property), what a schedule without requests excludes
(`Scheduled`), and that where nothing happens all amounts agree (`Still`). The
totals over the ledger are recursive functions; that they change by what the
entry that changes contributes is proved by induction over the length of the
ledger. `BaselineKept`, that no row of the baseline is rewritten, needs no
invariant, because the protection does not depend on what a capture has read: an
insertion that meets a row fails as a whole.

### Induction

The library's induction theorems take an operator as a parameter, which the
installed provers cannot instantiate. `UpTo` states induction of the set of
numbers of which a statement is true; `LeastOf` and `LargestOf` give the least
and largest member of a set of numbers, from the well-foundedness of the
inclusion of finite sets. Three of the proof modules use them.

### Only model-checked

Liveness: `ExecutionEnds`, `GoalEnds`, `BreachIsClosed`, `GoalsEnd` and
`RecentIsComplete`, because the prover knows neither fairness nor `ENABLED`. Of
all but `BreachIsClosed`, what needs no fairness is proved: that what is to happen
comes nearer with every step (`ExecutionsAdvance`, `TicksEnd`, `DeadlineNears`,
`EndingsNear`, `CollectorsSettle`), and that where nothing is left to do it has
happened (`SettledComplete`). That such a step can always be taken, and is, is what
the runs check. Runs of the manager have no liveness property; `RunsAdvance` says
that they are finite. Every other property that a
passing run checks is stated by a theorem. No module uses a recursive operator;
the recursive functions that remain (`Hits`, the totals) are those the proofs
speak of.

## 5. Not modelled

Prompts, and the wording of what models and users say; HTTP schemas and reads;
indicators; the frontend; scripts run by hand, but for the one that writes
candles. Amounts are lots and small numbers: decimals, fees and minimum order
sizes are not modelled.

* The start and stop of `AgentRunner`: one narrow race (listed as a hazard); the
  runner that `TradingLoop` and `GoalDialogue` need is one that runs.
* The five risk rules and `plan_closes` with their numbers: pure functions, with
  tests at their boundaries. `TradingLoop` has what is hard about them: when their
  inputs are read, and what follows from a refusal.
* Daily P&L: computed from orders on every read; nothing is stored.
* Partial fills of cancelled orders, which neither the budget nor the ledger
  counts: the source says so on purpose. `TradingLoop` has no cancelled orders.
* The record that `reset_drawdown` writes after the new base, and the moment
  between the two writes: no property reads `risk_events`.
* A user's way out of a goal that stays proposed: `start` names one
  (`session.py:200`), no endpoint offers it, so there is nothing to model.
* What happens once a ledger is longer than the 1000 orders a capture reads, and
  what moves between the last snapshot of an old database and the capture that
  writes its baseline: the code makes no promise there, and `DriftIsNotOurs`
  leaves both out.
* Amounts that are no numbers: `json.loads` accepts NaN and `unusable_reason`
  (`manager/schemas.py:84`) lets it pass; texts are classes here.

What could come next: several decisions executed over one ledger, which would
join `OrderExecution` and `Attribution`; the runner's control; and the age of the
data a tool shows.

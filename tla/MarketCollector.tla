--------------------------- MODULE MarketCollector ---------------------------
(***************************************************************************)
(* The market data plane: the one table of candles ("bars") of a series,   *)
(* and everybody who writes it.  A collector lives in the API process or   *)
(* in a process of its own; it streams the bars that close, fills the gaps *)
(* of a recent window whenever it connects, and fetches the history in     *)
(* chunks beside that.  A user may ask the API for a backfill, collector   *)
(* or not, and an operator may run the backfill script.                    *)
(*                                                                         *)
(* Bars are numbered by their opening time.  Inserting a bar that is       *)
(* stored already changes nothing.  Each action is what runs between two   *)
(* awaits that matter.                                                     *)
(*                                                                         *)
(* A definition commented "Variant" is no part of the specification.       *)
(***************************************************************************)
EXTENDS Integers, Sequences

CONSTANTS
    MaxBar,       \* bound: the last bar that closes
    History,      \* the last bar that is closed when the model begins
    Lookback,     \* _GAP_LOOKBACK_MS, in bars
    ChunkBars,    \* _CHUNK_BARS
    StaleBars,    \* _stale_after_s, in bars
    MaxLosses,    \* bound: connections lost
    MaxStops,     \* bound: processes stopped or killed
    MaxFailures,  \* bound: requests or writes that fail
    MaxRequests,  \* bound: backfills somebody asks for
    Worlds        \* the environments to consider, each a set of troubles

(***************************************************************************)
(*   lost    connections are lost                                          *)
(*   stop    collectors are stopped                                        *)
(*   crash   processes are killed                                          *)
(*   fail    chunks fail for good, gap checks and writes raise             *)
(*   post    POST /market/backfill, also where no collector runs           *)
(*   script  backfill_market_history.py is run by hand                     *)
(*   today   ... with --end today, which asks for bars that are not closed *)
(***************************************************************************)
Troubles == {"lost", "stop", "crash", "fail", "post", "script", "today"}

ASSUME WorldsAssumption == Worlds \subseteq SUBSET Troubles
ASSUME BoundsAssumption ==
    /\ {MaxBar, History, ChunkBars} \subseteq Nat \ {0}
    /\ {Lookback, StaleBars, MaxLosses, MaxStops, MaxFailures, MaxRequests} \subseteq Nat
    /\ History <= MaxBar

Collectors == {"api", "alone"}
Writers == Collectors \cup {"script"}
Bars == 1..(MaxBar + 1)

VARIABLES
    world,     \* the environment of this behaviour; never changes
    latest,    \* the last bar that is closed; the next one is forming
    stored,    \* the klines table: bar -> "none", "forming" or "final"
    lock,      \* the process that holds the lock file, or "free"
    loop,      \* collector -> its loop: stream and gap check
    fill,      \* writer -> its backfill of the history
    report,    \* the last bar up to which the script called the history complete
    losses, stops, failures, requests   \* what is used up of the bounds

bounds == <<losses, stops, failures, requests>>
vars == <<world, latest, stored, lock, loop, fill, report, bounds>>

-----------------------------------------------------------------------------
(***************************************************************************)
(* Bars, gaps and chunks (bars.py, repository.py).                         *)
(***************************************************************************)
Has(trouble) == trouble \in world
Least(a, b) == IF a < b THEN a ELSE b
Most(a, b) == IF a > b THEN a ELSE b

\* Variant: the bar that is forming counts as closed.
LastClosedTooLate == latest + 1
\* last_closed_bar_open
LastClosed == latest

\* What the exchange gives for a range of bars: the forming one as it stands.
Served(lo, hi) == {b \in Bars : lo <= b /\ b <= hi /\ b <= latest + 1}
Quality(b) == IF b <= latest THEN "final" ELSE "forming"

\* insert_rows: ON CONFLICT DO NOTHING.
Inserted(bars) ==
    [b \in Bars |-> IF b \in bars /\ stored[b] = "none" THEN Quality(b) ELSE stored[b]]

\* times_in_range and last_bar_time
Stored(lo, hi) == {b \in Bars : lo <= b /\ b <= hi /\ stored[b] # "none"}
LastStored ==
    IF Stored(1, MaxBar + 1) = {} THEN 0
    ELSE CHOOSE b \in Stored(1, MaxBar + 1) : \A c \in Stored(1, MaxBar + 1) : c <= b

\* Variant: what is missing behind the last stored bar is no gap.
GapsInside(have, lo, hi) ==
    {g \in (lo..hi) \X (lo..hi) :
        /\ g[1] <= g[2] /\ (g[1]..g[2]) \cap have = {}
        /\ g[1] = lo \/ g[1] - 1 \in have
        /\ g[2] + 1 \in have}
\* find_gaps: the longest runs of bars of lo..hi that are not in have.
Gaps(have, lo, hi) ==
    {g \in (lo..hi) \X (lo..hi) :
        /\ g[1] <= g[2] /\ (g[1]..g[2]) \cap have = {}
        /\ g[1] = lo \/ g[1] - 1 \in have
        /\ g[2] = hi \/ g[2] + 1 \in have}

\* Variant: the next chunk begins a bar too late.
ChunksApart(lo, hi) ==
    {<<lo + k * (ChunkBars + 1), Least(lo + k * (ChunkBars + 1) + ChunkBars - 1, hi)>> :
        k \in 0..((hi - lo) \div (ChunkBars + 1))}
\* chunk_ranges
Chunks(lo, hi) ==
    {<<lo + k * ChunkBars, Least(lo + (k + 1) * ChunkBars - 1, hi)>> :
        k \in 0..((hi - lo) \div ChunkBars)}

-----------------------------------------------------------------------------
(***************************************************************************)
(* A loop: the chunks of its gap check, the last bar the check looked at   *)
(* and whether it failed, whether the connection lives, and the messages   *)
(* of closed bars that wait to be read.  A backfill: its range, the chunks *)
(* that are left, whether one failed.                                      *)
(***************************************************************************)
Off == [pc |-> "off", todo |-> {}, upto |-> 0, failed |-> FALSE, linked |-> FALSE, inbox |-> <<>>]
Idle == [pc |-> "idle", from |-> 0, upto |-> 0, todo |-> {}, failed |-> FALSE]

Init ==
    /\ world \in Worlds
    /\ latest = History
    /\ stored = [b \in Bars |-> "none"]
    /\ lock = "free"
    /\ loop = [p \in Collectors |-> Off]
    /\ fill = [w \in Writers |-> Idle]
    /\ report = 0
    /\ losses = 0 /\ stops = 0 /\ failures = 0 /\ requests = 0

At(p, label) == loop[p].pc = label
Goto(p, label) == loop' = [loop EXCEPT ![p].pc = label]
Connecting == [Off EXCEPT !.pc = "connect"]

\* backfill_history: its end is taken before the store is read.
Looking == [Idle EXCEPT !.pc = "look", !.upto = LastClosed]

\* CollectorLock.acquire and release: the file's lock is the kernel's.
Acquire(p) == lock = "free" /\ lock' = p
HandBack(p) == lock' = IF lock = p THEN "free" ELSE lock

\* probe_lock_state: a bystander asks the file.  _collector_owner: what
\* GET /market/status of a process says.
Probe == IF lock = "free" THEN "free" ELSE "held"
Owner(p) == IF lock = p THEN "self" ELSE IF Probe = "held" THEN "other" ELSE "none"

\* _flow_verdict: how the health checks of every process judge the data.
Verdict ==
    IF LastStored = 0 THEN IF Probe = "free" THEN "error" ELSE "warming_up"
    ELSE IF latest - LastStored >= StaleBars THEN "error" ELSE "ok"

\* MarketCollector.start, by the API's lifespan or by the task that wakes up every
\* few minutes: it must get the lock, or the process gives up.
Start(p) ==
    /\ At(p, "off")
    /\ Acquire(p)
    /\ loop' = [loop EXCEPT ![p] = Connecting]
    /\ fill' = IF fill[p].pc = "idle" THEN [fill EXCEPT ![p] = Looking] ELSE fill
    /\ UNCHANGED <<world, report, latest, stored, bounds>>

\* _stream_once: from here on the messages of this connection wait in a buffer ...
Connect(p) ==
    /\ At(p, "connect")
    /\ loop' = [loop EXCEPT ![p] = [Off EXCEPT !.pc = "scan", !.linked = TRUE]]
    /\ UNCHANGED <<world, report, latest, stored, lock, fill, bounds>>

\* ... while backfill_gaps looks at the last Lookback bars ...
Missing(from, upto) ==
    UNION {Chunks(g[1], g[2]) : g \in Gaps(Stored(from, upto), from, upto)}
ScanGaps(p) ==
    /\ At(p, "scan")
    /\ LET from == Most(1, LastClosed - Lookback)
       IN loop' = [loop EXCEPT ![p].pc = "gaps", ![p].upto = LastClosed,
                               ![p].todo = Missing(from, LastClosed)]
    /\ UNCHANGED <<world, report, latest, stored, lock, fill, bounds>>

\* ... and fetches what is missing, each chunk stored when it arrives, in any order:
\* the semaphore orders the requests, and no chunk waits for another's rows.
FillGap(p) ==
    /\ At(p, "gaps")
    /\ \E c \in loop[p].todo :
          /\ stored' = Inserted(Served(c[1], c[2]))
          /\ loop' = [loop EXCEPT ![p].todo = @ \ {c}]
    /\ UNCHANGED <<world, report, latest, lock, fill, bounds>>
\* Variant: the subscription is only taken up now.
GapsDoneThenSubscribe(p) ==
    /\ At(p, "gaps")
    /\ loop[p].todo = {}
    /\ loop' = [loop EXCEPT ![p].pc = "live", ![p].inbox = <<>>]
    /\ UNCHANGED <<world, report, latest, stored, lock, fill, bounds>>
GapsDone(p) ==
    /\ At(p, "gaps")
    /\ loop[p].todo = {}
    /\ Goto(p, "live")
    /\ UNCHANGED <<world, report, latest, stored, lock, fill, bounds>>

CanFail == Has("fail") /\ failures < MaxFailures
\* A chunk that failed four times is only counted, a check that raises is logged.
GapFails(p) ==
    /\ loop[p].pc \in {"scan", "gaps"}
    /\ CanFail
    /\ failures' = failures + 1
    /\ \/ \E c \in loop[p].todo :
             loop' = [loop EXCEPT ![p].todo = @ \ {c}, ![p].failed = TRUE]
       \/ loop' = [loop EXCEPT ![p].pc = "live", ![p].todo = {}, ![p].failed = TRUE]
    /\ UNCHANGED <<world, report, latest, stored, lock, fill, losses, stops, requests>>

\* Then the messages are read, the first one first.
Read(p) ==
    /\ At(p, "live")
    /\ loop[p].inbox # <<>>
    /\ stored' = Inserted({Head(loop[p].inbox)})
    /\ loop' = [loop EXCEPT ![p].inbox = Tail(@)]
    /\ UNCHANGED <<world, report, latest, lock, fill, bounds>>
\* A write that raises leaves the connection, and with it what was not read.
ReadFails(p) ==
    /\ At(p, "live")
    /\ loop[p].inbox # <<>>
    /\ CanFail
    /\ failures' = failures + 1
    /\ loop' = [loop EXCEPT ![p] = Connecting]
    /\ UNCHANGED <<world, report, latest, stored, lock, fill, losses, stops, requests>>

\* The connection is lost; what it brought before is still read, then _loop
\* connects again.
Lose(p) ==
    /\ Has("lost")
    /\ losses < MaxLosses
    /\ losses' = losses + 1
    /\ loop[p].linked
    /\ loop' = [loop EXCEPT ![p].linked = FALSE]
    /\ UNCHANGED <<world, report, latest, stored, lock, fill, stops, failures, requests>>
Reconnect(p) ==
    /\ At(p, "live")
    /\ loop[p].inbox = <<>>
    /\ ~loop[p].linked
    /\ loop' = [loop EXCEPT ![p] = Connecting]
    /\ UNCHANGED <<world, report, latest, stored, lock, fill, bounds>>

-----------------------------------------------------------------------------
\* backfill_history reads the last stored bar and resumes behind it ...
LookUp(w) ==
    /\ fill[w].pc = "look"
    /\ LET from == IF w = "script" THEN 1 ELSE LastStored + 1
       IN fill' = [fill EXCEPT ![w].pc = "fetch", ![w].from = from,
                               ![w].todo = Chunks(from, fill[w].upto)]
    /\ UNCHANGED <<world, report, latest, stored, lock, loop, bounds>>

\* ... and fetches chunk after chunk, each stored when it arrives.
FillChunk(w) ==
    /\ fill[w].pc = "fetch"
    /\ \E c \in fill[w].todo :
          /\ stored' = Inserted(Served(c[1], c[2]))
          /\ fill' = [fill EXCEPT ![w].todo = @ \ {c}]
    /\ UNCHANGED <<world, report, latest, lock, loop, bounds>>
ChunkFails(w) ==
    /\ fill[w].pc = "fetch"
    /\ CanFail
    /\ failures' = failures + 1
    /\ \/ \E c \in fill[w].todo :
             fill' = [fill EXCEPT ![w].todo = @ \ {c}, ![w].failed = TRUE]
       \/ fill' = [fill EXCEPT ![w] = Idle]
    /\ UNCHANGED <<world, report, latest, stored, lock, loop, losses, stops, requests>>
\* _report: no hole between the first and the last bar that is stored.
Continuous ==
    \A b \in Bars : Stored(1, b) # {} /\ b <= LastStored => stored[b] # "none"
FillDone(w) ==
    /\ fill[w].pc = "fetch"
    /\ fill[w].todo = {}
    /\ fill' = [fill EXCEPT ![w] = Idle]
    /\ report' = IF w = "script" /\ ~fill[w].failed /\ Continuous THEN fill[w].upto ELSE report
    /\ UNCHANGED <<world, latest, stored, lock, loop, bounds>>

\* POST /market/backfill: backfill_history_now, once at a time in a process, and
\* without the lock.
Post ==
    /\ Has("post")
    /\ requests < MaxRequests
    /\ requests' = requests + 1
    /\ fill["api"].pc = "idle"
    /\ loop["api"].pc # "stopping"
    /\ fill' = [fill EXCEPT !["api"] = Looking]
    /\ UNCHANGED <<world, report, latest, stored, lock, loop, losses, stops, failures>>
\* The script fetches everything from the configured start, to the last closed bar
\* or to the end of a day.
Script ==
    /\ Has("script")
    /\ requests < MaxRequests
    /\ requests' = requests + 1
    /\ fill["script"].pc = "idle"
    /\ fill' = [fill EXCEPT !["script"] =
                   [Looking EXCEPT !.upto = IF Has("today") THEN MaxBar + 1 ELSE @]]
    /\ UNCHANGED <<world, report, latest, stored, lock, loop, losses, stops, failures>>

-----------------------------------------------------------------------------
CanStop(trouble) == Has(trouble) /\ stops < MaxStops

\* Variant: the lock is handed back before the tasks have ended.
StopEarlyRelease(p) ==
    /\ CanStop("stop")
    /\ stops' = stops + 1
    /\ loop[p].pc \notin {"off", "stopping"}
    /\ loop' = [loop EXCEPT ![p] = [Off EXCEPT !.pc = "stopping"]]
    /\ lock' = "free"
    /\ UNCHANGED <<world, report, latest, stored, fill, losses, failures, requests>>
\* MarketCollector.stop cancels the loop and waits for it ...
Stop(p) ==
    /\ CanStop("stop")
    /\ stops' = stops + 1
    /\ loop[p].pc \notin {"off", "stopping"}
    /\ loop' = [loop EXCEPT ![p] = [Off EXCEPT !.pc = "stopping"]]
    /\ UNCHANGED <<world, report, latest, stored, lock, fill, losses, failures, requests>>
\* ... then the backfill, and hands the lock back; the process ends.
Release(p) ==
    /\ At(p, "stopping")
    /\ loop' = [loop EXCEPT ![p] = Off]
    /\ fill' = [fill EXCEPT ![p] = Idle]
    /\ HandBack(p)
    /\ UNCHANGED <<world, report, latest, stored, bounds>>
\* The process dies, and the kernel frees its lock.
Crash(p) ==
    /\ CanStop("crash")
    /\ stops' = stops + 1
    /\ loop[p].pc # "off" \/ fill[p].pc # "idle"
    /\ loop' = [loop EXCEPT ![p] = Off]
    /\ fill' = [fill EXCEPT ![p] = Idle]
    /\ HandBack(p)
    /\ UNCHANGED <<world, report, latest, stored, losses, failures, requests>>

\* A bar closes, and whoever is connected is told.
BarCloses ==
    /\ latest < MaxBar
    /\ latest' = latest + 1
    /\ loop' = [p \in Collectors |->
                  IF loop[p].linked THEN [loop[p] EXCEPT !.inbox = Append(@, latest + 1)]
                                    ELSE loop[p]]
    /\ UNCHANGED <<world, report, stored, lock, fill, bounds>>

Stream(p) ==
    Connect(p) \/ ScanGaps(p) \/ FillGap(p) \/ GapsDone(p) \/ Read(p) \/ Reconnect(p)
Backfill(w) == LookUp(w) \/ FillChunk(w) \/ FillDone(w)

Next ==
    \/ \E p \in Collectors :
          \/ Start(p) \/ Stream(p) \/ Stop(p) \/ Release(p)
          \/ GapFails(p) \/ ReadFails(p) \/ Lose(p) \/ Crash(p)
    \/ \E w \in Writers : Backfill(w) \/ ChunkFails(w)
    \/ Post \/ Script \/ BarCloses

\* The task wakes the collector up again and again, connecting succeeds in the
\* end, requests and writes return, and time goes on.
Fairness ==
    /\ WF_vars(BarCloses)
    /\ \A p \in Collectors : WF_vars(Start(p)) /\ WF_vars(Stream(p)) /\ WF_vars(Release(p))
    /\ \A w \in Writers : WF_vars(Backfill(w))

Spec == Init /\ [][Next]_vars /\ Fairness

-----------------------------------------------------------------------------
(***************************************************************************)
(* Properties.                                                             *)
(***************************************************************************)
FreeOf(troubles) == world \cap troubles = {}
Held(b) == stored[b] # "none"

Ranges == (1..MaxBar + 1) \X (1..MaxBar + 1)
Loops == [pc : {"off", "connect", "scan", "gaps", "live", "stopping"}, todo : SUBSET Ranges,
          upto : 0..MaxBar, failed : BOOLEAN, linked : BOOLEAN, inbox : Seq(1..MaxBar)]
Fills == [pc : {"idle", "look", "fetch"}, from : 0..MaxBar + 2, upto : 0..MaxBar + 1,
          todo : SUBSET Ranges, failed : BOOLEAN]

TypeOK ==
    /\ world \in Worlds
    /\ latest \in History..MaxBar
    /\ stored \in [Bars -> {"none", "forming", "final"}]
    /\ lock \in Collectors \cup {"free"}
    /\ loop \in [Collectors -> Loops]
    /\ fill \in [Writers -> Fills]
    /\ report \in 0..MaxBar + 1
    /\ losses \in 0..MaxLosses /\ stops \in 0..MaxStops
    /\ failures \in 0..MaxFailures /\ requests \in 0..MaxRequests

\* Only finished bars are stored (collector.py: "only after the bar closed"), for
\* what is stored is never corrected: none of the four writers asks for a bar that
\* is still forming, however long it waits between asking the clock and asking the
\* exchange.
StoredIsFinal == FreeOf({"today"}) => \A b \in Bars : stored[b] # "forming"

\* One collector at a time (lock.py): whoever streams, fills gaps or backfills for a
\* collector holds the lock, also while it is being stopped, and every process that
\* is asked knows of it.
OneWriter ==
    \A p \in Collectors :
        loop[p].pc # "off" \/ (fill[p].pc # "idle" /\ FreeOf({"post"})) =>
            /\ Owner(p) = "self"
            /\ \A q \in Collectors \ {p} : loop[q].pc = "off" /\ Owner(q) = "other"

\* A collector whose last gap check succeeded misses nothing while its connection
\* lives (collector.py: "gaps first, then the subscription"): every bar from the
\* window of the check to now is stored or waits to be read, whoever else writes,
\* and whatever closed while the gaps were being filled.
NothingMissed ==
    \A p \in Collectors :
        At(p, "live") /\ ~loop[p].failed /\ loop[p].linked =>
            \A b \in Most(1, loop[p].upto - Lookback)..latest :
                Held(b) \/ \E i \in 1..Len(loop[p].inbox) : loop[p].inbox[i] = b

\* A backfill leaves out nothing of its range (chunks may end in any order, beside
\* the stream and other backfills): what it has still to fetch and what is stored
\* is all of it, so a backfill without a failed chunk ends with all of it stored, and
\* what the script calls complete in the end is complete.
BackfillIsComplete ==
    FreeOf({"today"}) =>
        /\ \A w \in Writers :
            fill[w].pc = "fetch" /\ ~fill[w].failed =>
                \A b \in fill[w].from..fill[w].upto :
                    Held(b) \/ \E c \in fill[w].todo : c[1] <= b /\ b <= c[2]
        /\ \A b \in 1..report : Held(b)

\* The recent bars become complete and the data healthy, and they stay so, after
\* every loss of connection, stop or crash, unless requests fail for good
\* (task.py: the task runs every few minutes, and exits when a collector runs).
RecentIsComplete ==
    FreeOf({"fail"}) =>
        <>[](Verdict = "ok" /\ \A b \in Most(1, latest - Lookback)..latest : Held(b))
=============================================================================

# A TLA+ model of HM Algo 2.0 ("JARVIS")

HM Algo is an automated trading program: Python threads watch a MetaTrader 5
terminal, choose candidates, send orders, manage the positions that result and
stop themselves when the account loses too much. The modules here model the
parts where threads, failing calls and restarts meet money: the breaker that
stops trading, the limits on losses and the permission that depends on them, the
switch between paper, demo and live, the dispatch of orders, the journal of
trades, the calls to the broker, and the engine that looks after open positions.
TLC checks them on small instances; the modules `*_proofs` prove their main
invariants for every value of the constants.

Line numbers are those of `src/jarvis/...`.

## Inventory

### Processes and threads

One Python process. Its threads:

| thread | code | what it does |
|---|---|---|
| orchestrator loop | `application/orchestrator.py` `_orchestration_loop_single_pass` | every 10 or 20 s: ranks candidates, dispatches orders one at a time (the *arbiter*) |
| scan pool, 16 workers | same file, `analyze` calls | builds decisions; asks the breaker |
| watchdog | `_watchdog_loop` 456-525 | every 10 s: drops claims it takes for stale, cancels stale limit orders |
| state synchronizer | `execution/state_synchronizer.py` | every second: reads the broker's book, diffs it, publishes open and close events whose handlers run in this thread |
| position monitor and its pool | `execution/position_monitor.py` | every 2 s: stops, partial closes, exits, resting orders |
| API threads | `api/server.py` | manual trades, emergency stop, resume, mode switch |
| guard pool, 16 workers | `common/timeout_guard.py` | run the broker calls whose callers wait five seconds at most |
| sweeps | `run_cycle_for_symbol(dry_run=False)` from `main.py`, tools, tests | a second kind of dispatcher |

### Components

| component | state | operations | reaches | modelled in |
|---|---|---|---|---|
| circuit breaker (`risk/circuit_breaker.py`) | loss streaks, recent losses, tripped flag and time, operator latch, pauses; one SQLite row | `record_trade_result`, `trip`, `reset`, `check_status`, load and save | called by synchronizer, scans, API | `CircuitBreaker`; its halts across modes in `ModeSwitch` |
| order dispatch (`application/orchestrator.py`, `risk/risk_engine.py`, `risk/exposure.py`) | claims, last dispatch times, reserved risk | screen, vet, stop-and-reverse, authorise, reserve, claim, send, finish; watchdog; stop and resume | breaker, position cache, broker | `OrderDispatch` |
| trade journal (`execution/state_synchronizer.py`, event handlers, `learning/trade_memory.py`) | last tickets, deferred payloads, table `trade_records` | record context, sync pass, handlers, boot reconciliation, cancel and discard | broker's book and deals, breaker, learning | `TradeLifecycle` |
| broker calls (`execution/mt5_client.py`, `common/timeout_guard.py`, `execution/broker_lock.py`) | the broker lock, pools and their stuck counters, the retry loops | market, pending, close, cancel, scan | the MetaTrader bindings | `BrokerCalls`; its promise: `MarketOrder` |
| execution mode (`application/orchestrator.py` `apply_execution_mode`, `config/settings.py`) | four attributes: the mode, the client's mode, risk engine, breaker | switch, authorise and send meanwhile, stop, resume, start | broker's book, breaker tables per mode | `ModeSwitch` |
| drawdown guard (`risk/drawdown.py`), recovery channel (`risk/risk_engine.py`) | day's and peak equity, the day last seen; one SQLite row; recovery attempts of the day | update, check, save, load, resume, operator's reset; authorise with its three checks | called by sweeps, API, synchronizer | `RiskAuthority` |
| position monitor (`execution/position_monitor.py`), order manager | modes of manual trades; per ticket: partial taken, initial risk, excursions, milestones | tick in three passes, exit, partial close, protection, stop modification, set mode, cancel resting orders | broker calls, cache | `PositionMonitor`; cancellations in `TradeLifecycle` |
| exit policy (`execution/exit_policy.py`) | none | `evaluate_exit` | monitor, backtests | plan; a free choice in `PositionMonitor` |
| loss cooldown (`risk/loss_cooldown.py`) | streaks and pauses (memory only) | record, skip | event handlers, dispatch | not modelled |
| strategy quarantine, entry policy, execution gates, sizing | caches, none | verdicts before an order | dispatch | a free choice to withhold (`OrderDispatch`) |
| state manager, event bus | cached positions and account; subscribers | replace, publish (exceptions swallowed) | everybody | the cache (`OrderDispatch`, `PositionMonitor`), the swallowing (`TradeLifecycle`) |
| online learning | weights, bandit counts | update, sample | journal handlers | "may raise" (`TradeLifecycle`) |
| market data, analysis, intelligence, scalping | candle caches, scores | compute a candidate | dispatch | not modelled |
| backtesting, `india`, `stocks`, UI, launchers, tools, observability, config | | | | not modelled |

`PROJECT.json` has the same list with the files of each and the reason for
what is left out, and the list of hazards, each with the line where it bites.

### What is hard here

* *Shared state without locks.* The breaker, the claims of the arbiter, the
  stuck counter of the guard pool and the position cache are read and written
  by several threads with no lock or with one that covers half of the decision.
  The modes of manual trades are copied, pruned and assigned back by one thread
  while another writes them. The drawdown guard is read and written by every
  caller; the execution mode is four attributes assigned one after the other.
* *Answers that are not answers.* A broker call that times out may still be
  executed; a position read that fails answers with an empty list; a worker
  inside a native call cannot be stopped.
* *Restarts.* Three tables survive a restart (breaker, drawdown, journal), the
  first two once per mode. Deferred payloads, last tickets,
  claims, reservations and partial-close marks do not.
* *Decisions on old state.* Positions, cooldowns and authorisations are read,
  then used after other threads had time to act.
* *Things that must end.* Trips nobody latched, claims, calls to a hanging
  terminal, waits for the broker lock.

### What makes each component correct

* breaker: a full streak or a cluster of losses never stands untripped; a trip
  is not lifted before its cooldown and is lifted after it; an emergency stop
  survives cooldowns and restarts; the table is what memory is;
* dispatch: orders on one symbol keep their distance; the symbol ceiling; one
  dispatcher per symbol; nothing but the order in flight after a stop; claims end;
* journal: rows are trades; outcomes are neither lost, nor erased, nor counted
  twice; a boot settles what ended meanwhile;
* broker calls: one native call at a time; no order executed twice; success
  and failure mean what they say; every call returns; the pool knows how many
  workers it lost;
* drawdown guard and recovery: a loss is not re-anchored away by a day, a resume, a
  restart or another thread; no order leaves past the drawdown limit, and past the
  day's limit only a recovery trade, in its window; recovery trades are rationed;
* execution mode: a stop is in force whenever its mode is; an order is executed in
  the mode that judged it; a position is watched by the mode it belongs to;
* position monitor: a trade that is switched off is left alone; one partial close
  per position, and it leaves a runner; a stop is not given back.

## The modules

Every module is one component with its own environment. A step ends where
another thread can be seen to matter: at a lock release, a broker call, a read
or write of state that other threads touch. History variables are marked as
such beside their declaration and guard nothing, except that the counters of
faults and restarts bound the runs.

### CircuitBreaker

`memory` is the object's attributes, `circuit_state` the row `id = 1`. A method
is a sequence of steps of one thread (`pc`, `op`): `record_trade_result` is
`RecordWin` or `RecordLoss`, then `CountLoss`, then maybe `Trip` and
`TripLatch`; `check_status` is `CheckStatus` where it decides to reset and then
`Reset`, `ResetRest`; every one ends in `_save_state`, `Snapshot` (the row is
evaluated) and `Store` (SQLite has it). Stop and resume call the breaker twice
through two references to the one object (`StoreAndRepeat`). `Restart` runs
`__init__` over the stored row. A `check_status` that changes nothing is not a
step. Times are units of the clock passed to the object.

### OrderDispatch

Arbiters and sweeps run one pipeline with different claims. `Screen` reads
claims, cooldown and cached positions; `Vet`, `StopAndReverse` and `Authorize`
are the checks on what was read; `ReserveRisk`, `Claim`, `Send`, `Answer`,
`Finish` are reservation to `finally` block. Gates that look at market data are
one free choice (`Withhold`). Around them: the watchdog, the cache refresh
(`Sync`, which stores the broker's positions or the empty list of a read that
failed), the broker closing positions, filling or cancelling resting orders
and settling timed-out ones, the manual desk, stop and resume. An order risks one
unit. Histories: `misread` and `blind` say that the cache, and what a dispatcher
decides on, is a failed read that hides positions; `robbed` which dispatchers work
although their claim was dropped.

### TradeLifecycle

`book` is the broker; `row` the table; `deferred`, `last`, `current`, `todo`
what the process keeps in memory. The order thread is `Send`, `RecordContext` (or
`RecordRaises`: its write fails, the trade has no row and no payload);
the synchronizer `PassRead`, then per closed ticket `NoDeals` or `JournalClose`
and `CountOutcome` (or an exception: `JournalRaises`, `LearningRaises`), then
`EndPass`; the boot `BootRead`, the same handlers, `StartThreads`. `ReadsAs` is
`get_open_positions`, the failing read included. `Restart` ends the process
between any two steps.

`TradeLedger` is what the journal promises of one trade, in five variables and
without threads, tables or reads: entered once it is a trade, settled once it has
ended, told to the breaker once and truly. `TradeLifecycle` implements it
(`ImplementsLedger`, `Ledger == INSTANCE TradeLedger WITH ...`): `book` and the deals
become `market`, `row` becomes `entry`, the calls of the breaker `samples`. A
trade can be *disowned*, and the mapping says exactly which are: those misread as
closed (finding 2), journaled after their close (`late`), or without a payload
(`orphans`). Of all others every step of the detailed module is a step of the
ledger or none.

### RiskAuthority

One `DrawdownGuard` without a lock, among sweeps, manual orders, closed trades,
status requests and resumes. A call (`call[c]`) is the code of
`update_equity_benchmarks` cut between what it reads and what it writes: `Roll`
(the day), `Open` (its baseline), `Compare` and `Raise` (the peak), `Save`. What
follows depends on who asked (`why`): the first check of `authorize_execution`, the
one of a second trade, the last one, where the recovery attempt is counted
(`Granted`), all three under the engine's lock (`EngineFree`). From there a sweep
makes a check of its own before the order (`Grant`, `Send`), the arbiter goes
straight to the order or stops at a news blackout (`GrantArbiter`); the manual desk
has one check (`Send`). `drawdown_state` is the row,
`Restart` loads it, `RestartAfterReset` is the operator's tool. Two clocks tell the
day, the broker's and UTC, and `Today` is either. Histories: `opening` and `summit`
are what the baselines should be; `raced` says that a call changed a baseline
under another one, `wavered` that the clock answered with the other day.

### ModeSwitch

Each statement of `apply_execution_mode` is a step (`Look`, `SetMode`,
`SetClientMode`, `Build`, `SetEngine`, `SetBreaker`; `LookSame` and `SetSame` when
the mode does not change), among dispatchers that take their authorisation from
one attribute (`Authorize`), a second look at another (`Backstop`) and send through
a third (`Submit` compares the mode with the account, `Send` reads it again to choose
between the paper book, at once, and the broker). What was sent to the broker
is executed in time (`Execute`), or its caller leaves with UNKNOWN (`TimeOut`) and
the worker executes it later or never (`late`, `ExecuteLate`), in the mode chosen
at `Send`, whatever the mode is by then. Engines are objects: `Slots` are
the places for those that something still refers to, and an engine nobody can
reach gives its place back (`Collect`). Each breaker saves its trips in the table of
its mode (`circuitState`) and a new one loads it. `Unseen` is what the look at
the positions does not show: resting and late orders, and everything when the
read fails.

### BrokerCalls

A call has a calling thread (`caller`) and, when guarded, a job run by a pool
worker (`job`). `GetExecutor`, `Enqueue`, `Answered`, `TimeOutQueued`,
`TimeOutRunning`, `Bump` are `run_sync`; `Start`, `TakeLock`, `Busy`, `Reply`
the worker; `ReadRelease`, `Release` the done-callback. The stuck counter is
read and written in separate steps because Python does that. `AfterMarket`,
`AfterPending`, `AfterClosing` are the three retry loops as functions from the
loop's state and the broker's answer to what follows. A native call has no
obligation to return. Time-outs are steps that may happen while the condition
holds; the one relation between two of them the code fixes, a lock wait (10 s)
that outlasts the guard's (5 s), is a guard of `Busy`.

`MarketOrder` is what the dispatchers take `send_market_order` for, in three
variables and without threads, locks, pools or retries: an order lands once or not at
all; it is reported accepted when it has landed, failed when it has not and never
will, and unknown otherwise. `BrokerCalls` implements it (`ImplementsPromise`,
`Promise == INSTANCE MarketOrder WITH ...`; `open` until the job is over, `landed` is
`executed[c] > 0`, `told` the answer) as long as the broker loses no answer and rejects
no filling mode, or there is a single attempt and no answer is lost. With either, TLC
finds the promise broken within a few steps: finding 3 and observation 10.

### PositionMonitor

Three copies of a position are told apart: the broker's (`volume`, `stop`), the
one `state_manager` has stored (`positions`), and the one the tick works on
(`list`). The last two are the same objects until the next `Sync` (`shared`), so
that what the monitor writes into its list shows in the store until then. A tick is
`ReadPositions` and `Prune`, the pass of event and weekend protection (`PassBy`,
`Bank`, `Floor`), the margin ladder (`Ladder`), and the pass that manages each
position: `Visit` and `Pin` (the mode), `Protect`, then `Brake` or the partial
close (`TakePartial`, `CannotSplit`, `NoPartial`), the exits before and after
`Enrich`, and `Dispatch`, which sends the stop. Market data decides which of
the steps the code offers at a place is taken. The mode of a manual trade exists
three times: in the registry (`modes`), in the telemetry of the store, and in the
copy a tick is pruning (`kept`); the operator's `SetMode` may come between any two
steps. `Visit` and `Prune` are split where that matters; the second read of the
mode inside `_execute_exit` is one step. `Close` and `Modify` are the broker's calls
as their caller sees them: done, failed, or timed out and still with a worker
(`late`). `PartElsewhere` and `EndedElsewhere` are the trader or another caller who
closes a part or all of a position; `cut` and `miscut` record which volumes of the store
and of the tick's list are older than such a part. `Clamped` is what `modify_position` makes of a stop that is too close.

### How they fit together

`CircuitBreaker` gives `OrderDispatch` its `halted`; `OrderDispatch`'s `Answer`
is what `BrokerCalls` returns (`UNKNOWN` is a time-out), and that its `FAILED` orders
are never executed is what `MarketOrder` promises, not more: where the promise
breaks, so does the reservation that was given back; `TradeLifecycle` starts
where `OrderDispatch` finishes (its `Send` is an answered order) and its
`counted` is a call of `record_trade_result`. `Close`, `Modify` and `LateCall` of
`PositionMonitor` are `BrokerCalls`' guarded calls with the inside left out, and
its `EndedElsewhere` includes the stop-and-reverse of `OrderDispatch`. The yes or no
of `OrderDispatch`'s `Authorize` is what `RiskAuthority` decides; `ModeSwitch` takes
one engine with its breaker for one step and asks which of several it is, where
`CircuitBreaker` takes one breaker apart. `TradeLedger` is what the rest may
assume of `TradeLifecycle`. They are checked one by one; a composition of dispatch
and breaker is in the plan.

## The runs

| run | instance | what it shows |
|---|---|---|
| `breaker_calls` | a thread of trades and of the operator, a polling thread, 3 losses, 2 units of time, 1 restart | `StreakHalts`, `VelocityHalts` in every interleaving; `RowCurrent`, `KillSwitchHolds`, `CooldownServed` as long as no two calls have overlapped; `CoolingTripExpires` under fairness |
| `breaker_halt_race` | three threads | finding: an expiring cooldown clears a latch |
| `dispatch_arbiter` | one arbiter, one symbol, all outcomes, watchdog, desk, seven units of time | `OrderSpacing`, `OneOrderAfterStop`, `SymbolCeiling`, failed reads included |
| `dispatch_sweeps` | two sweeps, watchdog, one unit of time | `SweepMutex`, and both parts of `ClaimReleased` under fairness |
| `lifecycle_faults` | two orders, one restart, one failed read, one exception (a handler or a context record) | `RowsAreTrades`, `OutcomeRecoverable`, `CountedOnce`, `RowsOnlyAdvance`, `BootSettlesJournal`, and the refinement `ImplementsLedger` |
| `lifecycle_phantom` | one order, one failed read | finding: a loss is counted for an open position |
| `broker_orders` | a market order, a close and a cancellation, every answer | `OrdersSerialised`, `ExecutedOnce`, `AnswersAreTrue`, `FailedIsFinal` |
| `broker_waits` | a market order, a resting order and a scan, two workers; the broker accepts, requotes, rejects or never answers | `StuckIsOwed`, `EveryCallReturns`, `WaitersLeave`, and the refinement `ImplementsPromise` |
| `broker_send_twice` | one market order | finding: a refill leads to a second position |
| `monitor_ticks` | a manual position of two lots, three levels of stop, a distance of one, two events (parts closed and stops moved by others included) | `OffIsRespected`, `PartialsBounded`, `RunnerRemains`, `StopHolds` |
| `risk_limits` | two callers, three equities, three calls, two days, one restart, one recovery attempt | `BaselinesKept`, `SentWithinLimits`, `RecoveryRationed` |
| `mode_switches` | two API threads, one dispatcher, an operator, a real account, restarts, orders executed after their time-out | `StopStands`, `NothingCrossesModes` |

Bounds. Breaker: limits of 2 losses and 3 losses in all are enough to reach each
limit, pass it and trip again; two units of time let the longest cooldown pass
and losses leave the window. Dispatch: the order among the constants is that of the code (the
reservation is shorter than the staleness limit, that shorter than the cooldown
of the quickest style, that shorter than the flat one); `HardMax` is 2, and
`MaxTime` is enough for two spaced orders and for the attempt of a third. `SymbolCeiling` speaks of runs without
resting, partly filled and manual orders (`irregular`), which the same instance has,
and lets an order pass that was decided on a failed read (`blind`).
`SyncWithin` and `SettleWithin` say that the cache is at most one unit old and
a timed-out order lands within one: the synchronizer's second and the guard's
five against a cooldown of 120 s. In the sweeps run one unit of time is longer
than the watchdog's limit on claims: a symbol never traded is stale at once, one traded
in this unit is so in the next. Two sweeps, the statuses that do and do not start a
cooldown, and one symbol suffice for a claim to be dropped before, while and after
it is used. Lifecycle: one of each fault with two tickets lets a fault
hit one trade while another is in every stage. Broker calls: three calls and
two workers have every pair of kinds contend for lock and pool;
`MaxPools` is one more than the calls can wedge. Position monitor: two lots are
the least that can be split; `Top` 2 against a distance of 1 lets a stop fall by
one level too many, or be lost, where the clamp may take less than one; `MaxEvents` is one budget
for restarts, time-outs, commands, and stops moved and parts closed by others, and 2 is what the
shortest ways to break the properties take. One ticket is enough for TLC, as
nothing in the code relates two but the choice of the ladder; two (one manual,
one of the program, `Top` 1, no events) were explored once, and the theorems
hold for any number.

Risk: equities 190, 200 and 210 with limits of 5, 6 and 9 % have every verdict
(210 to 200 is inside, 200 to 190 is the recovery window, 210 to 190 past the
drawdown limit); two days are one midnight on each clock; three calls are what two
interleaved ones and a look afterwards take. Mode switch: dispatchers share
nothing but the attributes, so that one is enough for TLC; a second switcher is
there to see requests overlap; a mode has one open order at a time, and one order
at a time has timed out; two `Slots`
hold the engine in use and the next one (overlapping requests, of which nothing is
claimed, would need more). The theorems hold for any number of
threads and places; one open order per mode, and one late one, is part of the model.

Deadlock is checked but in `risk_limits`, which ends when its calls, days and
restarts are used up. `risk_limits` and `mode_switches` cut the exploration where their
properties say nothing any more (`NotRaced`, `NotCrossed`), and both use the symmetry
of their threads, which are only compared for equality and have no liveness
property. The other runs use no symmetry: most have one member of each kind, and
the temporal ones could not use it.

### Fairness

* `CircuitBreaker!FairSpec`: a thread inside a method goes on; `check_status` is
  polled by every scan; time passes. Trades and operators owe nothing.
* `OrderDispatch!FairSpec`: a dispatcher that has reserved takes its claim, and
  one that has sent gets an answer and comes to its `finally` block, because these
  calls have a guard or a time-out (`Bounded`). The account check before the order
  (`mt5_client.py:605, 892`) has none and is not fair, nor is the watchdog, which
  asks for the account too (`orchestrator.py:479`), nor the choice of candidates.
  `ClaimReleased` states what it needs beyond that: that account checks return
  (`AccountChecksReturn`), or that the watchdog and time go on (`WatchdogRuns`).
  With neither, a claim whose account check hangs stays for good.
* `BrokerCalls!FairSpec`: threads run and timed waits end. Native calls, the
  account check and the start of a call are not fair: the terminal may hang.
  A queued job gets no fairness either, since its worker may never come free.

`RiskAuthority` and `ModeSwitch` have no liveness property and assume no fairness.

### Findings

1. *An expiring cooldown clears an emergency stop* (`breaker_halt_race`;
   `circuit_breaker.py:318`). `check_status` reads `operator_halt`, later calls
   `reset()`, and a stop between the two loses its latch.
2. *A failed read counts a loss* (`lifecycle_phantom`; `orchestrator.py:963`).
3. *A market order executed twice* (`broker_send_twice`; `mt5_client.py:733`).

### Observations

Met while modelling and not stated as a property of a run.

1. A stop whose reason does not begin with one of three words does not latch
   (`circuit_breaker.py:39, 295`); the API passes on the request's text
   (`server.py:1489`).
2. Two overlapping `_save_state` calls can store the older row last
   (`circuit_breaker.py:106, 194-202`): `RowCurrent` says nothing once two
   calls have overlapped.
3. A limit order that fills between the read of the cached positions
   (`orchestrator.py:2214`) and of the resting orders (2272) is in neither count,
   so the hard ceiling (`exposure.py:12`) can be passed by one.
4. The arbiter gives back the reservation of an order with unknown outcome
   (`orchestrator.py:2371-2372`), although the log says "Risk reservation held"
   (`execution_engine.py:831`).
5. `PARTIAL` is in neither status set (`orchestrator.py:2003-2008, 2379`):
   a partial fill starts no cooldown.
6. A sweep that loses the claim gives back the reservation of the winner
   (`orchestrator.py:1977`, keyed by symbol in `risk_engine.py:128`); one that
   claims after the winner has finished acts on what it read before (1961-1964).
7. A handler cut off between journal and breaker loses the outcome for good
   (`cut` in `TradeLifecycle`); a trade journaled after its close is counted
   again at the next boot (`late`).
8. Deferred payloads are lost at a restart: a resting order that fills later has
   no row, and nothing counts it if it closes while the process is down.
9. `place_pending_order` and `close_position` answer FAILED on a time-out (975,
   1265) and may be executed afterwards; only market orders answer UNKNOWN.
10. A market order may also be answered FAILED although an earlier attempt was
    executed and its answer lost, for the loop goes on after `None`.
11. `close_position` treats PLACED (10008) as a failure.
12. `account_info()` (`mt5_client.py:605, 892`) and `last_error()` (1048) are called without the
    broker lock, although `broker_lock.py:4-5` says that every call is
    serialised; the first has no time-out either. A dispatcher that hangs in it keeps
    its claim until the watchdog drops it.
13. Replacing a wedged pool does not help while the hung call holds the lock:
    new workers wait ten seconds each and give up.
14. `_jarvis_stuck` is updated without a lock; a lost update is permanent.
15. `close_position` and `cancel_pending_order` answer CLOSED and CANCELLED for
    an unconnected client (1164-1185, 1035-1038).
16. An emergency stop cancels resting orders once; a limit order in flight is
    placed afterwards and stays.
17. `LossCooldown`: a streak of exactly four starts no pause (64-79); it belongs to
    the risk engine, so that a restart or a switch of the mode drops it.
18. The watchdog measures the age of the previous order, not of the claim
    (`orchestrator.py:467`): a fresh claim on a symbol last traded more than a
    minute ago is dropped at its next pass, and a second sweep can work on the symbol
    (`robbed`, the exception of `SweepMutex`).

Of the position monitor (`position_monitor.py` unless another file is named):

19. The comment on the ratchet says "SL can only move closer to price, NEVER
    loosen or move backward" (1448). It compares with the stop of the list. The
    floors of the same tick (446-514) do not write theirs there, so the brake, a
    partial cushion or a change of target alone (1537) put the old stop back; so
    do moves by others, requests that come late, and the clamp of
    `modify_position`. What holds, whoever moved the stop, is `StopHolds`: a stop the
    monitor sends is never behind the listed one and also, by the broker's distance
    or more, behind the one in force, and none that it has seen is taken away.
20. The emergency brake (896-899) skips the branch that assigns `ml_prob` and
    `risk_dist`; after a modification that succeeded, 1543-1545 read them and
    raise, so `position_managed` is not published.
21. A restart forgets the modes: a trade switched OFF is managed in the default
    mode again, its first risk is frozen anew, and a partial may be taken again.
22. OFF is lost when it is set between the read and the write of
    `get_manual_mode` (326-336) or while the pruning copies the modes (290).
    `OffIsRespected` is about commands outside these two windows.
23. A global mode does not reach trades whose mode is pinned from the telemetry,
    into which every visit writes the mode it used (1160-1177).
24. Switching a trade of the program itself OFF answers success and has no effect
    (823-828).
25. A partial close is sized from the listed volume (933-936), and `close_position`
    takes what there is (`mt5_client.py:1203-1209`). Repeated after one that timed
    out and was executed, it can close the whole position: the exception in
    `PartialsBounded` and `RunnerRemains`. So can a first one, with nothing timed
    out, if the trader or another caller has closed a part since the list was read
    (`miscut`, the other exception of `RunnerRemains`).
26. A wide stop of a manual trade is replaced by the engine's, whichever is
    closer to the price (828-881).
27. `_initial_tp`, `_initial_risk_usd`, `_entry_ml_prob` and `_last_modify_time` are
    not pruned with the other registries (280-300).

Of the limits and the recovery channel:

28. The recovery channel (`settings.py:49`, off by default) ends differently on the
    two ways to an order. The engine waives the day's limit and counts the attempt
    (`risk_engine.py:684-702`). A sweep asks the guard again without the waiver
    (`orchestrator.py:1931`) and stops the trade, so that the attempt is spent for
    nothing; the scans of the arbiter are dry runs of that kind, and their WAIT ends
    the candidate. The arbiter itself asks the engine only (2328-2361) and sends: when
    the day's limit is passed between its scan and its dispatch, a recovery trade goes
    out, within the window of `drawdown.py:47-49`. Hence the second half of
    `SentWithinLimits`.
29. "Both baselines move UP only" (`drawdown.py:223`): the peak is compared and
    assigned without a lock (227-228), and the lower of two equities can be
    assigned last. Likewise a baseline can become 0 between its check and the
    division (298-299).
30. `_today` is the broker's day, and UTC's when the terminal does not answer
    (53-64). Around midnight alternating answers unset the day's baseline each time,
    so that the loss of the day so far is forgotten.
31. `reset_baselines` leaves `_last_seen_date` alone (194-203). Its caller,
    `tools/reset_risk_baseline.py`, builds a guard for the purpose and refuses while
    the engine listens. `tools/reanchor_drawdown_baseline.py:181` writes the row with
    the UTC date and has no such check.
32. A restart forgets the recovery attempts of the day.

Of the execution mode:

33. `get_open_positions` answers an empty list when it fails
    (`mt5_client.py:405-424, 463-465`), so that the refusal "Cannot verify open
    positions before a mode switch" (`orchestrator.py:211-215`), which
    `tests/test_live_readiness_fixes.py:259` checks with a client that raises, is not
    reached: the switch goes through, over positions nobody saw.
34. Resting orders are not looked at, nor orders that have timed out. One of the live account can fill after the
    switch to paper, whose reads do not show it, and a stop pressed there cancels
    the paper orders only.
35. Requests are served by several threads without a lock. Two that overlap can
    leave mode, client mode and engine of different modes (`crossed`).
36. The client's mode is read twice on the way of an order (`mt5_client.py:591,
    615`). If it changes in between, an order judged and checked as paper is sent to
    the broker, without the comparison with the account (`raced`). The worker does not
    look at the mode any more: an order whose caller has left with UNKNOWN (857) can
    be executed after a switch, and its position is then one of the mode before (`left`).
    The comparison is also skipped when `account_info()` answers nothing (605).
37. `confirm_live` in the request passes the API's check (`server.py:1454`), but
    `verify_execution_mode` only knows the environment: the answer is SUCCESS and
    the mode is paper. DISABLED is answered with SUCCESS and becomes demo.
38. A stop does not carry over to the mode switched to; it stands in the mode it was
    pressed in (`StopStands`).
39. `is_connected`, left TRUE by paper (`mt5_client.py:74-77`), is not cleared by a
    switch to demo or live.
40. Nothing fills the resting orders of the paper book.
41. JARVIS_RESET_CIRCUIT_BREAKER is read by every new breaker
    (`circuit_breaker.py:107`): while it is set, every switch clears the halts of
    the mode it enters. `StopStands` assumes that it is not.

Of the dispatch and the failed reads:

42. "Hard ceiling: Never exceeded under any circumstances" (`exposure.py:12`): a
    position read that fails answers an empty list (`mt5_client.py:405-431,
    463-465`), `sync_once` stores it (`state_synchronizer.py:54-57`), and the arbiter
    counts no positions (`orchestrator.py:2214`). Once the cooldown is over it sends
    another order on a full symbol: the exception `blind` of `SymbolCeiling`.

Read for the plan, in code that is not modelled yet:

43. `exit_geometry.py` moves its ratchet before it tests the stop and ends trades
    one bar off `trade_simulator`, although the docstring calls their conventions
    identical; `backtesting/engine.py` ignores `evaluate_exit`'s verdict to close.
44. "Can never round-trip into a loss" (`exit_policy.py:345-346`) does not hold when
    the clamp applies.

## What is proved

Seven modules hold proofs. Each proves the type invariant and strengthens the
properties to an inductive invariant, in one piece per property (`VelocityInv`,
`StreakInv`, `StopInv`, `MutexInv`, `SpacingInv`, `RationInv`) or as one conjunction
(`IInv`), from the assumptions that the component names on its constants: sizes are
natural numbers, sets of threads or calls are disjoint where stated.

*CircuitBreaker_proofs.* `TypeCorrect`; `VelocityAlwaysHalts` (restarts
included): losses remembered within the window stand untripped only while a
thread is on its way to `Trip`, or has just cleared the flag and is about to clear
the losses. The argument needs that the deque is trimmed at its end and that
time only moves losses out of the window. `StreakAlwaysHalts` is the same for
the counter, in any interleaving before the first restart and, across restarts, as
long as no two calls have overlapped (`StoredStreakInv`): the row a restart loads may
otherwise have been evaluated between two steps of another thread.
`RowAlwaysCurrent`, `KillSwitchAlwaysHolds` and `CooldownAlwaysServed` are about calls
that have not overlapped. `CallsInv` says that one thread at most is then inside a
method, and how its steps go together; `RowInv` that the row it is about to store is
what memory holds, `KillInv` that a stop pressed is latched in both, `ExpiryInv`
that whoever is about to reset has seen the cooldown pass.

*OrderDispatch_proofs.* `OneOrderAfterEveryStop`: a dispatcher that was past
`Authorize` when the breaker tripped has sent nothing yet, one that was not
cannot pass it. `SweepsExcludeEachOther`, for sweeps only, with or without the
watchdog: a dispatcher that works and was not robbed of its claim holds it, and
alone (`MutexInv`); without a watchdog nobody is robbed. `ArbiterKeepsItsDistance`, for one arbiter: every order taken
is covered by `last_execution_time`, by the arbiter that has not finished, or
by its having been screened after the cooldown. `SymbolCeilingHolds`, for the same
arbiter: `BrokerInv` and `SeenInv` say how old the cached positions can be and that an
order in doubt is younger than `SettleWithin`, so that an arbiter past its cooldown has
seen all that its last order left (`FreshSight`), unless the read had failed;
`CeilingInv` counts from there. The
cooldown must be longer than the two delays together (120 s against about one and five
in the code). This is sharp: with equality, TLC finds a third order sent on
positions read just before a timed-out order settled. `NoClaimIsOrphaned` is the
safety half of `ClaimReleased`, for any dispatchers with or without the watchdog (TLC
explored it on both instances): a claim always has a dispatcher that is going to
give it back. Each of these hypotheses on the
constants is stated in the theorem.

*TradeLifecycle_proofs.* `OnlyTradesAreJournaled`, `OutcomesAreNotForgotten`,
`OutcomesCountOnce`, `RowsNeverRegress`, `BootLeavesNoRow`, for any number of
orders, restarts, failed reads and exceptions. The strengthening says where a
ticket may be: what has a payload or a pending answer has no row yet
(`IntentInv`), the lists of a pass do not overlap (`PassInv`), a stored outcome
was counted or is about to be (`OutcomeInv`), and a ticket once counted is out of
every list that could bring it back (`OnceInv`); none of the properties is
inductive without these. `LifecycleImplementsLedger` is the refinement: under the
same invariant every action of `TradeLifecycle` maps each ticket that is not disowned
to one of the six steps of `TradeLedger`, or leaves it alone.

*BrokerCalls_proofs.* `TypeCorrect` (which includes that every loop ends; no run
repeats it), `NativeCallsAreSerialised`, `NothingButMarketTwice`,
`AnswersAreAlwaysTrue`, `FailuresAreFinal`, `StuckCounterIsExact`, for any calls, pools,
attempts and answers. The invariant is in parts, each proved over the
former: which calls have a job and in which states (`PlaceInv`), who owns the
lock, and that its owner is inside (`LockInv`, `OwnerInv`), what a call that can still send has had executed (`SendInv`),
what an answer says of the job behind it (`AnswerInv`), where a call is while its
worker counts as stuck (`CallbackInv`), and that a counter which lost no update is the
cardinality of a finite set, to which `Bump` adds one call and from which `Release`
takes one (`CountInv`, with the library's facts on finite sets). The retry loops are
summarised by one lemma on `After`: whatever the reply, a close, a
cancellation or a resting order that goes on has not been accepted.

`WedgedPoolsAreReplaced` draws the consequence for `_get_executor`: it replaces a
pool exactly when as many of its workers are lost as it has.

The market order is the exception, and four theorems say how far it goes. By
`MarketExecutionsBounded` it is executed at most once per attempt, whatever the broker
answers: `max_retries = 3` bounds the damage of finding 3. By
`MarketOnceWithoutResends` it is executed at most once when there is a single attempt
or the broker neither rejects a filling mode nor loses an answer (`OneSend`), so that
these are the only causes. `MarketOrderKept` is the refinement of `MarketOrder`, under
`OneSend` and no lost answer: each step of `BrokerCalls` is, for each market order,
one of the steps of `MarketOrder` or none (`OrderStepFact`). The strengthening is that
an order whose job has not ended has not been executed, and one that failed has not
either (`MarketInv`). `FailedWasNotExecuted` reads off from it that FAILED means not executed.

*PositionMonitor_proofs.* `OffTradesAreLeftAlone`, `PartsAreBounded`,
`RunnersRemain`, `StopsHold`, for any number of positions, any volume, distance and
number of events. The invariant says where a visit can be (`PlaceInv`), that an
open position seen before is in every list that is not empty (`PresentInv`), that
a trade switched off is OFF in the registry and in the copy being pruned until it
is gone (`OffInv`), that the copies of a position that has given no part show the
volume it has, but for those older than a part closed by others (`VolumeInv`), and that one not remembered to have given a part has
given none or is gone (`PartsInv`). Most steps leave all of this alone, which the
lemmas on `Steady` say once. `StopsHold` needs the types only: it sets the
comparisons of the floors and of the ratchet against the clamp.

*RiskAuthority_proofs.* `RecoveryAlwaysRationed` holds in every interleaving: the
counter is exact, and who has been let past it under the engine's lock still has
an attempt (`RationInv`). `BaselinesAlwaysKept` and `SentAlwaysWithinLimits` hold as
long as no two calls race. Then one call at a time is ahead of what the guard has
been told, and only until it saves: `PeakInv` relates peak, row and `summit` through
that call, `DayInv` does the same for the day's baseline, the two days and
`opening`, and `CallShape` says which call may be where. A crash in mid-call loses at
most what no other call has seen. That an equity is inside the limits when the
order is sent, or inside the recovery window with an attempt just counted, is
arithmetic from there. For any callers, equities, limits, days
and restarts.

*ModeSwitch_proofs.* `StopsAlwaysStand` and `NothingEverCrosses`, for any numbers of
switchers, dispatchers and places. A stop is in the table of its mode from the
step that makes it (`RowsTell`, in every interleaving). As long as no two requests
have overlapped, one of them at most is being served (`Solo`) and how far it got says
which attributes are of the old mode and which of the new one (`Progress`,
`Settled`); from that, every engine that can be reached knows the stops of its mode
(`EnginesTell`), an order no attribute changed under was judged in the client's mode
(`OrdersKnow`; one already sent was sent in it), and exposure, late orders included
(`Exposed`), is of the present mode or in `left` (`ExposureKnown`).

*Only model-checked.* Liveness: `CoolingTripExpires`, `ClaimReleased`,
`EveryCallReturns`, `WaitersLeave`; fairness is beyond the prover. Every other property
of a passing run is stated by a theorem. The theorems of `OrderDispatch` are about
the sets of threads they name: `SweepMutex` for sweeps alone, `OrderSpacing` and
`SymbolCeiling` for one arbiter. With more they do not hold: a sweep acts on what it
read before its claim (observation 6), and an arbiter claims without comparing.

## What is not modelled

Prices, volumes and indicators; the choice of candidates; paper trading (its
book, a list in memory without a broker, is in `ModeSwitch` only as a set of open
and resting orders); backtests; the numerical side of
learning; input and output of market data; rendering and authentication. The
free choices that stand for them (`Withhold`, `Foreign`, `Replies`, outcomes of a
trade) allow at least what they can do. The paths of a client that is not
connected are left out of `BrokerCalls`. `modify_position` is in `PositionMonitor`
by what it does to a stop, without its loop; `modify_pending_order` is not added.
`PositionMonitor` has the stops of long positions (a short one is the mirror
image) and no targets; its `Sync` reads and stores in one step, where in the code a
part closed, a stop moved or a mode set in between is overwritten by the list read
before, until the next second; excursions, milestones, the freezing of the first risk and
the suppression of a repeated action only decide which of its steps are taken.
`RiskAuthority` leaves out the two sizing multipliers (they read the baselines and
change nothing), the conditions of `authorize_execution` that are not about limits
(free refusals), and `set_clock`. In `ModeSwitch` a call of a breaker is one step,
stops have the default reason, losses trip nothing, and orders of the manual desk
are left to `OrderDispatch`.

The larger part of the repository is analysis, data acquisition, news, learning,
rendering and tools: floating-point scores and pure input and output, whose
outcome is a free choice of the modules here. That part has no state whose order
of changes a model could get wrong, and is why the lines mapped are a small share of
all lines.

## Plan

Done: 1 `CircuitBreaker`, 2 `OrderDispatch`, 3 `TradeLifecycle`, 4 `BrokerCalls`,
5 `PositionMonitor`, 6 `TradeLedger` with its refinement, 7 `RiskAuthority`,
8 `ModeSwitch`, each with its proofs; 11 `MarketOrder` with its refinement, and
the theorems on `SymbolCeiling` and `StuckIsOwed`.

9. `TradeReplay`: one trade through `evaluate_exit` with integer prices, as the
   monitor, `trade_simulator`, `backtesting/engine.py` and `exit_geometry` replay it:
   which of them agree (observation 43), one-way and never through the price.
10. Composition of `OrderDispatch` with the promises of the breaker and of
    `RiskAuthority` to it, so that a streak that trips, or a limit, stops dispatch.
12. `StrategyQuarantine`, `BoundedTTLCache`, fills and lot rounding, as small modules
    and pure algorithms.

Order of importance: where a backtest promises what live trading does not do (9),
then what the present modules take from each other (10), then the rest (12).

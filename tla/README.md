# Verification of eth-credit-spread-hedge

The program sells an ETH put credit spread on Bybit and hedges it with short
perpetual positions at fixed price levels between the two strikes. This
directory holds TLA+ models of its logic, TLC runs on small instances, and
TLAPS proofs for every value of the constants. Source paths below are relative
to `src/src/eth_credit_hedge/`; `PROJECT.json` maps every definition to lines.

## 1. Inventory

| Component | State it keeps | Operations | What makes it correct |
|---|---|---|---|
| Hedge engine, crossing engine, ledger (`core/`) | level states, armed flags, active quantity, recovery debt and reservations, gross totals, last price | `step` (arm, walk one price segment), entry, take-profit, stop, break-even | triggers execute in price order and none is missed; the premium bounds stop losses; debt is neither lost nor repaid twice |
| Level entry (`application/one_level_entry.py`, `domain/live_execution.py`) | `order_intents`, `entry_snapshots`, `executions` | persist, submit, acknowledge, apply a fill, finalize, reconcile | intent before order; each execution counted once |
| Protective exits (`application/protective_exits.py`, `domain/protected_execution.py`) | `protection_snapshots` | install stop, install take-profit, apply exit fill, cancel sibling, close | protected means a stop that works, or was triggered; closed means flat |
| Lifecycle (`application/one_level_lifecycle.py`) | loop counters | await entry, protect, await exit | every loop ends; a terminal order is believed only when its fills are booked |
| Emergency flatten and demo runner (`application/emergency_flatten.py`, `interfaces/demo_runner.py`) | the recorded close | cancel all, close, confirm, replay at start | the close is booked once; the account ends flat |
| Startup reconciliation (`application/startup_reconciliation.py`, `read_only_reconciliation.py`) | none of its own: nine concurrent reads against the store | capture, evaluate | a start is admitted only when nothing is unknown |
| Recovery debt (`application/same_level_recovery.py`, `domain/live_recovery.py`) | confirmed, allocated and remaining debt per level | confirm, allocate, settle, release | confirmed = allocated + remaining; debt is allocated to one cycle |
| Coordinators (`application/one_level_coordinator.py`, `multi_level_execution.py`) | armed flags, connection generation, submitted entries | trigger, preflight, aggregate reconciliation | one entry per level and crossing; nothing across a reconnect |
| Option spread (`application/option_spread_entry.py`, `domain/live_option_execution.py`, `option_position.py`, `option_lifecycle.py`) | spread snapshot | long leg, short leg, late fills | never a short put without its long |
| Kill switch and operator commands | persisted mode, command requests | activate, reset, close, flatten, confirm | no entry while active; no de-escalation without the operator |
| Execution store (`infrastructure/persistence/sqlite_execution_store.py`) | intents, executions, four snapshot tables with versions | one transaction per call | nothing booked twice, torn apart or lost to a second writer |
| Public market data (`domain/market_data.py`, `infrastructure/bybit/public_ws.py`) | local order book, connection generation, timestamps | apply snapshot or delta, heartbeat, reconnect, health | a usable book is the exchange's; no trigger from stale data or across a gap |
| Private stream (`infrastructure/bybit/private_ws.py`) | connection state and generation, reconciliation flag, attempts | authenticate, subscribe, receive, heartbeat, reconnect, mark reconciled | no entries while executions may be missing |
| Shadow mode (`application/shadow_mode.py`) | its own segment, armed and decided levels | trigger | the decisions the coordinators would make |
| Journal (`domain/journal.py`, `application/startup_replay.py`, `sqlite_journal_store.py`) | append-only events, cycle snapshots | append, snapshot, replay | replay equals the state the events were made from |
| Risk engine, instrument rules | none | evaluate, quantize | limits and step sizes at their boundaries |
| Simulated exchange (`backtesting/simulated_exchange.py`) | orders, position, costs, event ledger | place, amend, cancel, advance, drain, replay | position, wallet, metrics and replay agree |
| REST client, clock (`infrastructure/bybit/`) | clock sample | synchronize, query, page, mutate | a timestamp is within its error; an uncertain mutation is never reported as failed; "not found" means it |
| Configuration, monitoring, recording, visualization, backtest drivers | none that matters to the protocol | | not modelled: validation, output and statistics |

How they interact: the runner is one asyncio process. It owns a REST client and
an SQLite store and calls the services in turn; every call to the exchange and
every store transaction is a point where the exchange can move, the call can
raise, or the process can die. The store's transactions are atomic, so the only
durable states between two steps are those the transactions leave. Nothing the
exchange says is trusted once: fills are polled, the position is compared with
the books, and the start after a crash compares everything again. Around it,
tasks of the same event loop keep the private and the public stream, and
operators send commands; what they share is the store, the kill switch and the
gates that read the health of the streams.

The hard behaviours are: several triggers crossed by one tick; partial fills;
an order whose outcome is unknown and that arrives later; execution history
that lags the order state; a snapshot of the account taken by concurrent reads;
cancels that race fills; exceptions inside error handling; crashes between two
transactions; the restart; links that die silently, and messages lost, skipped
or reordered around a reconnect. The `hazards` of `PROJECT.json` list them with
their lines.

## 2. Modules

### HedgeEngine

The strategy core. A tick (`BeginSegment`) opens a segment from the previous
price to the new one; each iteration of `CrossingEngine.process_transition` is
one action (`Open`, `OpenFloor`, `Lock`, `TakeProfit`, `Stop`, `BreakEven`),
chosen by `IsNearest` among `Candidates`, and `FinishSegment` is the return of
the loop followed by the re-arming in `step`. The `Prices` of a tick are any
price of a finite set, so one tick jumps over any number of triggers.

Money is an integer in the smallest unit where the code has `Decimal`. A hedge
of quantity q is kept as `target` = q * tp_distance, what its take-profit earns:
the quotient `raw = (option_budget + recovery) / tp_distance` of `_open` then
appears only in the stop loss, which rounds down to the unit, as does a
distributed share. `above` is a history variable: whether the first price was
at or above the short strike.

### LevelExecution

One protected cycle of `run_d3_manual` against the exchange. An action is one
awaited exchange call or one store transaction; `pc` names the next one. Orders
are named by their role, because a cycle uses each role once. The exchange is
external and adversarial within what the code expects of it: orders arrive
late or never, fill in parts, are visible late, and their executions are
published late. Entry, emergency close and triggered stop are market orders and
may drop a remainder (`Expire`). The history variable `missed` remembers that
the stop has done so and left part of its position open. `Raise` is an exception at any awaited
call, with the handlers that exist: the cycle's (`_make_perp_safe`), its
`finally` clause, and none at the start. `Crash` keeps the store and loses the
rest; `Boot` starts the runner again, replays recorded emergency closes and
runs the first reconciliation, whose reads are separate actions
(`ReadSurface`) because `capture` gathers them concurrently.

Left out: prices, fees and debt amounts (they follow the quantities); the
option spread of the same run, which `OptionSpread` models; the version column,
which `ExecutionStore` models;
`restore_stop`, which the runner never calls. The last `confirm_flattened` of
`_make_perp_safe` can only raise, and the run ends either way, so it is part of
`safe_final`.

### OptionSpread

The part of `run_d3_manual` that enters the put spread, before any hedge. One
action is one awaited call or one transaction, as in `LevelExecution`. The
snapshot of a spread is `spread` (its state), `booked` (its two filled
quantities) and `acked` (its two order IDs). A start is: the late longs
(`NextLate`, then the same polling actions with `late`), the reconciliation
(`ReadSurface`, `Reconcile`), the choice of `_open_or_load_option_spread`
(`LoadOpen`, `CompleteLong`, `OpenNew`, `RefuseOptions`), the legs, a second
reconciliation, and `hedge`, where `LevelExecution` takes over.

Abstractions: an execution is one lot and executions are published in the order
they happen; all cycles trade the same two symbols, so positions are sums over
cycles, as `_expected_option_positions` computes them; whether the credit of the
fills is accepted is a free choice. `_make_perp_safe` touches no option and is
part of `halted`. A spread that a crash leaves in a PENDING state stays there:
the code has no transition out of it, and every later start refuses.

### RecoveryDebt

The debt of `run_d6_recovery`, over a series of processes on one store. Each
cycle works on a level of its own with two hedges, the baseline and the
recovery. What `LevelExecution` says of a hedge is reduced to its protection
snapshot: open or not, terminal state, whether the stop had part in it, and the
loss. Every transaction that writes `recovery_debts`, and every awaited step
between two of them, is an action: record the baseline's loss, plan, persist the
recovery's intent, allocate, submit, release, settle, roll back. `MakeSafe` and
`ApplyEmergencyExit` are the emergency path after an exception, `Boot` to
`Admit` the start: replay of the recorded closes, the repair of the debts, and
the admission, which needs flat books. Flat is not closed: a recovery whose stop is
booked in full may still be CANCEL_PENDING or RECONCILING, and the repair passes
it by (finding 4). `paid` is a history variable.

Abstractions: an emergency execution books any loss up to the bound, and a
replay books it again, as the code does (finding 2); the profit of a
take-profit is any of `Profits`, below and above the zone's budget and the
allocation; approval by the risk engine is a free choice.

### TradingControl

Who may open hedges, as tasks of one event loop: `MultiLevelCoordinator`, the
kill switch with its file, and calls of `OperatorCommandService.execute` whose
handlers pause, resume, close or flatten. A step ends at an awaited port call.
With the file stores of the repository some of those calls never yield, so the
model has every interleaving the program has and those that a store with a
yielding call would add; the version check of `save` is there for them.
`ResetSegment` and `Trigger` are an event of a new and of the present connection;
`Reach`, with `Block` or `Admit`, is one iteration of the loop over crossed
levels; `PlaceEntry` is `submit_entry`, whose transactions lie between the gate
and the order. A call goes through `Load`, `PersistIntent`, `Handle` (read the
switch), `Save`, the steps of its handler, and `Complete`; `Raise` ends it with
its intent stored and no result.

The repository wires these parts through ports and in tests; the demo runner
builds its coordinators without an entry gate. Protective orders and the fills
of an entry are in `LevelExecution`; here an order lands or vanishes. Awaited
calls without effect on the modelled state (notification, cancellation of resting
orders, the option closer) are part of the next step. `seen`, `sent`, `since`,
`escaped`, `handled` and `proved` are history variables.

### SpreadChoice

The money side of the same entry: `select_demo_option_pair` over an option
chain, the plan with its limits, the fills within those limits and their fees,
and the result at every settlement price. Quotes differ from a liquid one in one
respect each (delta, age, expiry, status, size, steps), so every early return of
`_eligible_short`, `_eligible_long` and `_eligible_quote` is taken.

### MultiLevelRun

The D5 cycle (`_run_multiple_perp_cycle`) and
`MultiLevelCoordinator.reconcile_aggregate_position`: each level has an entry, a
stop and a take-profit, the exchange has one position. A step is one awaited
exchange call with the transactions that follow it. What follows an exception is
the emergency path of `LevelExecution`. As there, a triggered stop may drop a
remainder, and `missed` has the levels whose stop has. The wait for the crossings
ends after 90 seconds (`WaitForCrossingEnds`). `reconcile_aggregate_position` compares
the position with all entry fills, so a level that closed before a later batch
makes that batch abort; the model has this, and it is safe.

### PrivateStream, ServerClock, MarketFeed, RestClient

The four ways the outside is learned from. Each has an external side that is as
free as the code must bear.

* `PrivateStream`: `stream_events` and `PrivateConnectionSupervisor`. The
  exchange pushes to a subscribed connection only and the link may die silently.
  The repository has no consumer but tests and the port; the model has the one
  that the port describes: it reads the account over REST when it is handed the
  authenticated event and then reports that event's generation. Attempts are reset only by an
  accepted event, so a stream that connects and never delivers is given up.
* `ServerClock`: samples at the midpoint of a request whose legs differ, a wall
  clock that steps at any moment, gates on offset, uncertainty and age. That a
  whole request ends within `RequestTimeout` is an assumption: the timeout of
  `urlopen` (`private_rest.py:410`) bounds each operation on the socket.
* `MarketFeed`: `_stream_payloads`, its supervisor and `LocalOrderBook`. The
  exchange may skip deltas, repeat snapshots, answer a REST snapshot late and
  restart its numbering. After a gap the book stays unsynchronized until another
  snapshot or a reconnect brings it back. The client reconnects after the three
  errors of its `except` clause only (`ConnectionCloses`); a refused handshake, a
  message it cannot read and a refused subscription end the generator
  (`HandshakeFails`, `MessageBroken`, `SubscriptionRefused`). In this repository
  only tests and the port use the book.
* `RestClient`: `_mutate`, `get_order_by_link_id` over two lists and
  `_get_all_pages`. Assumed of the exchange: a typed error code means the order
  was refused; an ended order is in the history before it leaves the open list;
  a cursor continues after the last item served.

### OrderRules, TriggerDecisions, CrossingWatch

From a trade to a decision. `OrderRules` are the rounding, validation and risk
operators; `TriggerDecisions` applies them in `ShadowModeService.on_trigger` and
`OneLevelCoordinator.on_trigger`, which see the same events with segments of
their own. `Snapshots` has one unhealthy case for each reason of
`evaluate_market_data_health`. The limits of the risk engine that compare one
input with one constant are one `veto`. `DecideLevels` is the loop of the shadow
over the levels a trade crosses, each judged under the risk state the approvals
before it have left. `CrossingWatch` has the two loops of the
runner that wait for a crossing: D4, which hands every trade to the coordinator,
and D6, which keeps its own segment and drops it at every gap. Option quotes are
read again between a trade's arrival and its evaluation, so the trade ages.

### ExecutionStore and ExecutionLedger

Every call of `SqliteExecutionStore` that writes, as what it is: at most two
statements in one transaction, the second guarded by the version that the caller
loaded. `Enter` is the caller with what it loaded, `Begin`, `Second`, `Commit`
the transaction, `Crash` the end of a process or a cancelled call at any point.
A row is its version and the number that its executions or postings add up to.
`ExecutionLedger` says what the callers rely on, without versions, locks or
calls: an intent once and together with its snapshot, an execution once and in
the same instant as its quantity, a debt change added to the debt as it then is.
`KeepsLedger` is the refinement: the ledger's variables are the committed tables.

### Journal

`SqliteJournalStore` with its snapshots and the rebuild of a start. One process
appends, as the runner does; another may rebuild at any time. `ApplyEvents` is the
loop of the rebuild over the events that were read.

### SimulatedExchange

The exchange under the backtests and the application tests, with its seeded
draws as free choices. Orders, delays, fills and their prices, net position and
cost basis, fees, funding, private events, the clock of unprotected time, and
`replay_simulated_financials`. `ProcessOrders` is one pass over the orders, in
insertion order, on a copy of the state that the action then installs. The average
price is kept as the cost basis of the position, rounded down when a part of it is
closed; whatever that rounding does, `EquityIsCash` is exact, because the basis
that remains is what was not taken.

### MC modules

`MCHedgeEngine` gives the tick prices of two arrangements of levels;
`MCRecoveryDebt` gives losses and profits; `MCLevelExecution` adds `calm`, which
remembers that a start found the exchange at rest. `MCInputs` extends the four
input modules and the two that decide, `MCRecords` the store, the journal and the
exchange, `MCTradingControl` and `MCOptionSpread` both modules they put together. The following put several
instances into one run, named by a variable `instance` that never changes, each
explored by itself because they share nothing and their product is too large:
`MCTradingControl` (gate, commands, levels), `MCOptionSpread` (orders, prices),
`MCInputs` (private, clock, public, trades, watch, order, list) and `MCRecords`
(the snapshot tables of the store, the journal, the simulated exchange). Faults
used to show that each property can fail are definitions next to what they
replace, named for what they forget.

## 3. Runs

| Run | Instance | Shows |
|---|---|---|
| `engine_full` | 3 levels, narrow stops, FULL_NEXT_TP, BREAKEVEN_FLOOR; every boundary, every stop, one price per zone and both outer regions | no missed trigger, the premium bounds stop losses, no combined loss, with the floor hedges too |
| `engine_distributed` | 5 levels, stops wider than a zone, DISTRIBUTED over 2 take-profits, UNHEDGED | exact accounting, no hedge counts on more debt than there is, no stranded debt, debt falls only by being earned |
| `engine_wide_budget` | wide stops, FULL_NEXT_TP | violation, finding 1 |
| `execution` | 2 lots, 2 attempts, restart at any time; fair runner | the store is ahead of the exchange at every crash point, protected means a stop for the whole position unless the triggered stop itself left part of it, done means flat, a start on a settled exchange is admitted only when all is recorded, every run ends |
| `execution_emergency`, `execution_in_flight` | same instance | violations, findings 2 and 3 |
| `option_entry` | 2 lots, 2 attempts, 2 spreads, partial spreads allowed, restart once the exchange has settled, fair runner; 1,728 chains of 3 strikes | never a naked short, hedging on exactly one spread, the loss limit holds for what filled at every settlement price; every start ends |
| `recovery_cycle` | 2 cycles, losses 0 to 2, profits -1 to 3, zone budget 1, crash anywhere | each loss counted once; the free debt of a closed recovery is exactly its losses at the next admission; paid only by a take-profit |
| `recovery_stop_crash` | same instance | violation, finding 4 |
| `trading_control` | 2 levels crossed by one tick, 2 connections, 1 process end, close, resume and flatten, 2 calls, 2 attempts; 2 levels of 2 lots on one position; fair calls and runner | entries stop at the switch but for one past the gate, the switch falls only by a reset of what it read, one invocation per command, every command ends; a closed level is explained by its own exits, every lot keeps its stop but for what a triggered stop itself left; no level stays without its stop: it gets one, is bought back or goes to the emergency path |
| `inputs` | 4 private connections, 2 attempts, 3 executions; a clock over 8 units with three skews; 3 book changes with skips, repeats, restarts and a dropped link; 4 trades on 2 levels and 2 connections; 4 watched trades; lists of 4 items in pages of one | no blind entries, timestamps within their error, a usable book is the exchange's, crossings are genuine, orders within limits after rounding, answers mean what they say; a dead link blocks entries, and a reader of the feed never waits on one for ever |
| `records` | 2 writers, 3 versions, each snapshot table; 3 events, 2 processes; 2 levels of 2 lots, 3 orders, one dropped connection | the store implements the ledger, replay is exact, books balance, executions reach the reader, unprotected time is counted |

Until the budget refuses an entry, UNHEDGED and BREAKEVEN_FLOOR are the same
program, so `engine_full` covers `FloorUntilLocked` for both. `NoNakedShort` does
not depend on when the restart comes and is proved for any restart (section 5).

Bounds. Three levels are the least with a level that has neighbours on both
sides. Five with wide stops make two hedges overlap, never three, and of two that
overlap neither carries recovery debt. So `NoDoubleReservation` is checked here as
a bound for each hedge alone, that what it will repay is still owed when
it takes profit, many ticks later; nothing in this instance tries to reserve the
same debt twice. The budgets let some
levels stop several times and others lock. Two lots are the least that can be
filled in parts, two attempts the least with which a loop both repeats and
gives up. Two spreads are the least with which one start can open a second spread
beside the first. Two recovery cycles are the least with which a start repairs
one level and works on another; the profits fall short of, meet and exceed what
is allocated. Two crossed levels are the least with which a pause can fall
between two entries of one tick, and two calls the least with which commands
overtake each other; a pause activates as a close does and does nothing after,
so the instance has no pause of its own. Two levels of two lots are the least
with which one level's exit can stand in for part of another's. Two private
attempts and four connections let a reconciliation outlive a reconnect twice and
the attempts run out; three executions fall before, during and after a gap. A
book of three changes has a delta lost before, at and after a snapshot. Three
versions let two writers load the same one and the slower meet a row that moved
on. Deadlock is not checked where the model may stop: a runner that has ended, or
an instance whose bound on connections, events or time is used up.

Fairness. `FairSpec` adds weak fairness of `RunnerStep` only: the event loop
keeps running the coroutine while it has a next step, and every awaited call
has a client timeout. Nothing is assumed of the exchange, of exceptions, of
crashes or of restarts, so `RunnerComesToRest` does not depend on an answer.
`TradingControl` assumes the same of each command call (`CallStep`) and
`MultiLevelRun` of its runner. In `inputs`, asyncio delivers a received message
and fires its timers (`Receive`, `HeartbeatDue`, `PongTimeout` and their public
counterparts); that is all `DeadLinkBlocksEntries` needs. `FeedResumes` also
needs the exchange to serve the topic it accepted, while the number of closed
connections is bounded; it allows the generator to end with an error, which its
consumer sees. `FilledLevelIsAnswered` needs the runner
only: its attempts run out, or the exits that still work empty the position.

What `trading_control` does not claim: that nothing is placed after the switch is
activated (one entry may be past the gate, `PauseStopsEntries`), nor that a close
keeps the switch: a resume in the middle of a close resets it, because `reset`
reads the state at the moment of the call. `ProvedFlatStaysFlat` therefore counts
a proof only while the switch is as that close left it.

`AdmittedIsReconciled` speaks of starts on a settled exchange: with an earlier
restart finding 3 breaks it, and so does a close that a start books twice
(finding 2).

## 4. Findings

1. `_open` admits a hedge against realized stop losses only. When stops are
   wider than a zone, as with the default configuration, two hedges can be
   open and lose more than the premium together.
2. `_make_perp_safe` and `_apply_recorded_emergency_exits` apply an emergency
   execution every time they see it: a partial close is taken out of the books
   twice and its loss doubles the confirmed debt.
3. An entry left in RECONCILING by an uncertain placement is not looked for at
   the next start, which can be admitted while the order is still on its way.
4. A crash between the stop of a baseline and `record_confirmed_stop_debt` leaves
   its loss out of the debt for good: the repair at the start skips attempt 1.
   The same is true of a recovery that is not closed yet: a crash, or the end of the
   attempts, between its last stop execution and its close leaves it flat, with a
   booked loss, in CANCEL_PENDING or RECONCILING. The repair takes CLOSED_STOP and
   ERROR only (`demo_runner.py:1158`), the next start is admitted, the debt stays
   allocated and the loss enters no debt. `StopLossBecomesDebt` denies both cases;
   the shortest counterexample is the first. `LossesAreRolled` claims nothing for
   an unclosed recovery.

Limits of the code that the models show and no run reports as a violation:

* A protective long of unknown outcome is marked ERROR without an order ID
  (`demo_runner.py:1980`). The next start takes that for a safe rejection; if it
  comes before the long arrives, it opens a second spread. `OneSpread` therefore
  speaks of starts on a settled exchange.
* A triggered stop that drops a remainder leaves a short without a stop, in
  ACTIVE_PROTECTED or EXIT_PARTIALLY_FILLED, until `await_exit` gives up and the
  emergency path closes it. The runner never calls `restore_stop`, although
  `INCIDENT_PLAYBOOKS.md:66` describes a replacement stop. `ProtectedMeansStop` and
  `EveryLotHasItsStop` except exactly these lots, `FilledLevelIsAnswered` and
  `RunnerComesToRest` bound how long they stay.
* `_stream_payloads` reconnects after `OSError`, `TimeoutError` and
  `ConnectionClosed` only (`public_ws.py:326`). A handshake that the server answers
  with another status, or a message that is no JSON object, ends the feed, although
  `M3_MARKET_DATA.md:40` says without condition that the client restores its
  subscriptions after a disconnect. `FeedResumes` therefore lets the stream end.
* An emergency loss that is booked after the repair of a start has rolled its level
  is not rolled again, so `LossesAreRolled` says of an ERROR recovery only that the
  free debt is more than the baseline's loss.
* `INCIDENT_PLAYBOOKS.md:42` asks to discard inference across a gap. D6 does. The
  shadow service and the coordinators return on an unhealthy trade before they
  touch their segment, so a crossing may span unhealthy trades of one
  connection; `CrossingsAreGenuine` claims no more than that for them.
* `replay_simulated_financials` has no fee category for the emergency close
  (`simulated_exchange.py:202`); `BooksBalance` compares gross results.
* Each option leg's displayed size is compared with its own minimum quantity,
  not with the quantity ordered.

## 5. Proofs

`HedgeEngineProofs` holds for every number of levels, price grid, stop rate,
quantity, budget, recovery mode and lock policy allowed by `ConstantsOK`.

* `NoTriggerIsMissed` needs no further assumption. `NoMissedTrigger` speaks of
  the times between segments only. `RangeInv` extends it into the loop, for a
  falling and for a rising segment: the cursor lies inside the segment, the
  exit of every open hedge and the entry of every armed level are not behind
  the cursor, and the exit of an open hedge is not in `processed`, so that
  whatever is still due is still a candidate.
* `TypesAreKept`, `AtMostOneHedge`, `PremiumBoundsStopLosses`,
  `DebtKeepsItsClaim` and `DebtFallsWhenRecovered` assume `NarrowStops`, which
  finding 1 shows to be necessary for the third. `HedgeInv` is their conjunction
  with `Reserved`: what an open hedge will repay is at most the debt of its
  source, and all of it when one repayment is left. With at most one open hedge
  nobody else can change that debt before the take-profit, so debt stays
  non-negative and the assertion in `_take_profit` cannot fire.
* `BooksAddUp` needs no assumption on the stops: `LedgerInv` says that the target
  of an open hedge is the option budget plus what it will repay
  (`TargetsAreFunded`), so a take-profit adds to the realized result exactly what
  it adds to the paid budgets and takes from the debts. `DebtIsMoney` joins it
  with `Reserved`. `FloorHolds` adds that every level the price has passed is
  paid or open (`ReadyIsArmed`, with `RangeInv`) and that stop losses are within
  the premium. Outstanding debt is a sum over levels; see `SumTheorems` below.

`OptionSpreadProofs` holds for every quantity, policy, number of attempts and
number of spreads allowed by `SpreadConstants`, and for every restart policy.

* `NeverNaked`, `ExecutionsCountOnce`, `OpenOnProof` and `TypesAreKept` follow
  from `SpreadInv`. Its core is a chain of inequalities per spread: filled short
  <= ordered short <= booked long <= filled long (`Counts`, `LegOrder`). The
  middle link needs to know that a long is no longer being booked once its short
  exists, that is, which legs the runner can still be working on at each `pc`
  (`Control`) and that spreads not yet started have no orders (`Untouched`,
  `Contiguous`). The restart preserves the chain because everything in it is
  durable or on the exchange.
* `HedgesOneSpread` has the hypothesis of the run, `BootAfter = "settlement"`;
  without it the theorem is false (section 4, limits). `OneInv` says that every
  spread but the last is dead (no fill and no order that could bring one), that
  the runner works on the last one only, and that from the reconciliation of a
  start to its choice the exchange stays as it was read.
* `SpreadLossIsBounded` is about `SpreadChoice`, for every chain, policy and price
  allowed by `ChoiceConstants`, and follows from `ChoiceInv`. The pair chosen is
  one of the candidates: the ranking is a strict total order, so a finite set has
  a best element (`BestIsCandidate`). Its legs fill at their limits or better, so
  the credit is at least the planned one, and `LossAtEveryPrice` bounds the result
  below, between and above the strikes, up to fees and the rounding of the limits.

`RecoveryDebtProofs` holds for any number of cycles and any losses, profits and
zone budget allowed by `DebtConstants`.

* Five of the six theorems follow from `DebtInv` alone. `LossCountsOnce` is not inductive: the
  store does not say whether the loss of a recovery is already in the debt. The
  invariant recovers it from the allocation (`Allocations`): while debt is
  allocated, only the baseline's loss is in it. That survives a crash because a
  level allocates at most once, before its recovery has a snapshot, which
  `Progress` ties to `pc` and `Untouched` to the intents a new level must not
  have. `Repaired` carries the repair loop: what needs repair is still to be
  visited, and repairing one hedge makes no other one need it.
* `LossesRolledAtAdmission` needs in addition how much was rolled. `RollInv` follows
  each level through the states of its recovery (`RollOf`): while debt is allocated
  it is the baseline's loss alone; once it is not, it is that and the recovery's
  loss, whichever of the cycle and the repair of a later start rolled it, or more
  than the baseline's after an emergency close. That the baseline is closed and
  nothing paid at that point is part of it, as is what `pc` says of the running
  level (`RollProgress`). It is proved on top of `DebtInv`.
* `DebtStep`, `HedgeStep` and `IntentStep` are the frames: what a step that
  writes one row of one table has to show for the tables to stay consistent.

`TradingControlProofs` holds for any levels, prices, commands, handlers, calls
and bounds allowed by `ControlConstants`.

* `LevelEnteredOnce`, `CommandHandledOnce`, `SwitchEscalates` and `TypeCorrect`
  follow from `Inv`. `CommandInv` says that a call at a handler owns the intent
  alone, which holds because the intent is inserted and the call moves on in one
  step. `SwitchInv` says that a save whose expected version is still the file's
  has passed the escalation check against the file's mode; a save that lost the
  race has an older version, because versions only grow. `EntryInv` ties the
  orders placed to the submissions the coordinator remembers.
* `PauseHolds`, `FlatHolds` and `EntriesAnswerCrossings` follow from `GateInv`.
  `PauseInv` counts the entry behind the gate with those already placed since the
  switch moved. `FlatInv` bounds what is in the air or behind the gate by the
  entries that escaped the activation, and carries that bound to the proof: a
  confirmation that waits to be reconciled has it too, as long as the version of
  the switch says that no other command moved it. `SegmentInv` ties the
  coordinator's previous price to the segment.
* `ClosedLevelsAreExplained` and `StopsCoverThePosition` are about
  `MultiLevelRun`, for any levels, quantities and attempts allowed by
  `RunConstants`, and follow from `RunInv` (`RunInvariant`). `BooksLag`: what the
  store has of an order is at most what is published, and that at most what was
  done. `OrdersHaveRoom`: an order that works has something left to fill.
  `SnapshotsAreTrue`: an entry accepted as filled is over and booked in full, and
  exits exist only after that. `RunPath` and `ExitPath` say what the runner may
  rely on at each step. `StopInv` is why a lot has its stop: every protected
  level's stop works or its exits cover its entry, except when its triggered stop
  has missed a part (`missed`) or an exit of one level closed lots of another. In
  the second case either the position is empty, and stays so
  because exits are reduce-only, or entries are still to come and the aggregate
  reconciliation that follows them sees that something has left. A level is closed
  on a position explained by the open quantities of all levels. Books never lead,
  so that equality of sums makes the books of every exit complete (`SumTight`).

`LevelExecutionProofs` holds for every quantity and every bound of the polling
loops (`ExecutionConstants`), with exceptions, crashes and restarts anywhere.

* `StoreAlwaysAhead`, `ProtectionIsReal` and `SuccessIsFlat` follow from
  `CycleInv`, which `CycleAlways` establishes. `ExchangeInv` is what the exchange
  keeps by itself: executions of a role add up to at most its size, and exits to
  at most the entry. `StoreInv` is what the tables keep: filled and open
  quantities are sums of the recorded executions. `PathInv` is what the runner
  may rely on at each `pc`. Its core, `GuardedPath`, is why a protection can be
  trusted: once the stop was seen working for all that the terminal entry sold,
  it works, the position is zero, or it was triggered and has dropped a part itself
  (`missed`); only the runner's own cancels, which come after the exits are booked
  in full, can change that.
* `GateAdmitsReconciled` is about starts. `BooksInv` follows the replay of the
  recorded closes one by one; `CalmInv` says that on an exchange at rest what the
  concurrent reads have returned is still so when the last one returns.

`SumTheorems` has the lemmas about sums and finite sets that the other modules
share: what `SumFunctionOnSet` is after an element was added, taken away or
changed, that it is monotone, that it is tight only when every summand is
(`SumTight`), and that a finite set of integers has a least and a greatest
element. Induction over finite sets is done by looking at a smallest subset for
which the claim fails (`MinimalSubset`).

The loops of the code over a sequence (levels a trade crosses, events of a journal,
orders of a pass, executions of a ledger) are recursive functions on an interval.
The induction theorems of the library take an operator as a parameter, which the
provers cannot instantiate; `CountingUp` states induction along an interval for a
set of numbers instead, and each proof names the numbers for which its loop
invariant holds. That such a function exists is shown the same way
(`LoopExists`, `RunExists`, `ReplayExists`): a least length without one would have
one, by extending the function of the length before.

`InputsProofs` has the four input modules and the two that decide, each for any
value of its constants.

* `EntriesAreNotBlind` and `StreamTypes` follow from `StreamInv`.
  `NoBlindEntries` says nothing of a connection that a reconciliation under way
  is about to open. `GenerationsAreHandedOut` says that one of the present
  generation exists only after the subscription was served, `PhasesAgree` that
  the gate can be open and the exchange can push only from then on, and
  `ReadIsComplete` that such a reconciliation, once it has read the account, has
  everything together with the wire.
* `TimestampsAreAccurate` follows from `ClockInv`: a request that began after the
  last step of the wall clock has read it with the present skew (`RequestInv`),
  so the midpoint is off by at most half the round trip (`Midpoint`), and the
  sample stays so until the next step (`SampleInv`).
* `UsableBookIsTheExchanges` follows from `FeedInv`. Within one run of the
  exchange's service update ID and sequence advance together, so the next update
  is the next change if both belong to the same run; the sequence alone would not
  do. `WireInv` says that the unread messages of a connection form a chain in
  which a new run begins with a full book, `BookInv` that a synchronized book of
  the present connection is the link before it, and `ConnectionInv` that a book
  awaiting its snapshot belongs to an older connection. `FreshInv` says that what
  a message or a book does not have was changed at or after its stamp.
* `AnswersAreTrue` follows from `RestInv`: only a refusal sends a typed error
  (`PlacementInv`), an order that is listed never leaves the history
  (`LookupInv`), and the pages read so far hold everything that stayed at or
  above the cursor (`PagesInv`), because a page is the top of what lies below its
  cursor (`PageIsTop`).
* `LoopsReturnOnCrossings` is about `CrossingWatch`. `WatchInv`: after a healthy
  trade the segment is that trade's price and connection, and D6 has a segment only
  while the last trade was healthy.
* `ApprovalsStayWithinLimits` is about `TriggerDecisions`, for every instrument,
  limits, ladder, quantity and risk state allowed by `TriggerConstants`. Rounding
  first: `FloorIsBelow` and `CeilIsAbove` bound what a step can change, so the
  quantity is never more and the stop never nearer than asked (`QuantizedIsSafe`),
  and the quantity that recovers a debt, rounded up twice, covers it and is less
  than a step too large (`RecoveryQuantity`). Then the loop over the crossed levels:
  `BatchTotals` says that the risk state carried along is the one the trade began
  with plus what its approvals add up to, and that it is within the limits once
  anything was approved; `BatchIntents` that each level has at most one intent.
* `InferredCrossingsAreGenuine` joins `LoopsReturnOnCrossings` with `TriggerInv`:
  the previous price was seen on the connection of the segment (`SegmentOK`), an
  armed level is undecided (`DecisionsOK`), so a level that was approved before is
  not crossed again (`IntentsFollow`), and the coordinator has submitted as often as
  its flag says (`CoordinatorOK`).

`RecordsProofs` has the store, the journal and the simulated exchange, for any
values of their constants allowed by `StoreConstants` and `SimConstants`.

* `StoreImplementsLedger` is the refinement, and `StoreTypes` its type invariant.
  The committed tables change only in `Commit` (`OthersStutter`), and
  `CommitIsLedgerStep` matches what it writes with a step of the ledger, by the
  statements of the call. That needs `StoreInv` about calls under way: which
  statements go together (`Shape`), that the open transaction is its owner's
  statements applied to what is committed (`Transaction`), and `Loaded`: if a row
  still has the version a call loaded, the total it will write is the committed
  one plus its own amount. `Loaded` survives the commits of others because each
  raises the version (`CommitRows`).
* `RebuildIsExact` follows from `JournalInv`: every snapshot, and every rebuild at
  either of its stages, has the state that the cycle's events up to its number lead
  to. A rebuild may be cut at any number (`ApplyEvents` of the later numbers on top
  of the earlier ones is `ApplyEvents` of both), and an event that is appended is
  applied last, so a snapshot committed between the two reads does no harm. The
  snapshot the runner commits may count the event committed with it because nobody
  else appends meanwhile.
* `BooksAlwaysBalance`, `EveryExecutionReachesReader` and `ClockMeasuresExposure`
  follow from `SimInv`, which is `Sound` of the state a pass works on. `Balanced`
  ties position, cash and the replay to the executions: the replay of one more
  execution is one more step of the account, term by term, the rounded cost basis
  included. `Delivered` is the queue and what was drained. `Runs` is not inductive:
  a pass cancels orders without touching the clock, and a cancelled stop would
  leave it wrong. `SimOrders` shows that what a pass cancels is never the stop of a
  held position: an order it cancels has no trigger, or finds nothing to reduce.

Some proved theorems are not the property of a run any more, because a run
checks something that contains them: `TypesAreKept`, `AtMostOneHedge`,
`ExecutionsCountOnce`, `OpenOnProof`, `DebtBalances`, `AllocationFollowsIntent`
and `LevelEnteredOnce`.

Every safety property that a run checks is proved. Only model-checked is liveness,
which needs fairness and ENABLED: `RunnerComesToRest` (of a hedge cycle and of a
spread entry), `CallsEnd`, `FilledLevelIsAnswered`,
`DeadLinkBlocksEntries` and `FeedResumes`. The violations of section 4 are counterexamples and have no theorem.

## 6. Plan

What is left, in the order of what it would say about the system:

1. An abstract contract of a hedge cycle (flat, exposed, protected, closed) that
   `LevelExecution` refines.
2. The assumption of `HedgesOneSpread` made precise: how long after a failed start
   an exchange is settled.
3. The closing of an option spread, once the runner calls it.

## 7. Not modelled

* Signing, headers, parsing and rate limiting of the REST client; the margin mode
  and liquidation distance checks of the runner, which read and refuse.
* The closing of an option spread and its expiry cutoffs (`option_lifecycle.py`):
  domain functions without a caller in the runner.
* `fault_injection.py`, which wraps calls of the simulated exchange.
* Configuration validation; monitoring, recording and dashboards; historical and
  Monte Carlo drivers; deployment acceptance (a conjunction over a report). They
  keep no state that the protocol depends on.

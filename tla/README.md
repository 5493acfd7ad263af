# ProfitPilot in TLA+

A formal model of ProfitPilot: the trading core and the parts around it that keep state or decide - the live executor,
the order path to four brokers, the backtest engine, the accumulation comparison, the candle cache, the websocket link
and the hosts of a strategy. TLA+ modules are translated from the source, TLC configurations check them on small
instances, and TLAPS proves theorems for every instance. Source paths below are relative to `backend/app/` unless they
start with `frontend/`.

## 1. Inventory

| Part | State it keeps | Operations | What makes it correct |
|---|---|---|---|
| Strategy executor (`services/strategy_executor.py`) | `_tasks`, `_last_bar_ts`, one asyncio task per strategy | boot, start, stop, reload, one cycle per poll | one loop per active row, stopped stays stopped, every error counted, halts persisted, restart-safe |
| Execution engine (`domain/execution/execution_engine.py`) | none | exits, then plan, size, risk gate, broker | exits first, opens gated, at most one entry |
| Reconcile policy (`domain/execution/reconcile.py`) | none | `plan_actions` | close before open, no second entry on one side |
| Risk manager (`domain/risk/risk_manager.py`) | per strategy: peak, open count, daily result, halt, order rate | approve, seed, observe, count, halt, release | counters agree with the ledger, peak only rises, a halt lasts until the user releases it |
| Simulated broker (`adapters/simulated_adapter.py`, `sim_ledger`) | positions, cash | place order, positions, account | fills and order records are atomic |
| Strategy routes and service | strategy rows | create, status, config, delete | the executor learns of what was committed |
| Database sessions (`db/base.py`) | transactions; under SQLite one shared connection | commit, rollback | isolation |
| Position sizer, instruments (`domain/execution/position_sizer.py`, `domain/instruments`) | a catalog | size an entry, look a name up, conform an order | one name means one instrument; rounding stays within the limit and never blocks a close |
| Live adapters (Alpaca, Bybit, Binance) | an HTTP session | place order, account, positions | what the venue did is what the next cycle sees |
| Broker service, manual orders | broker connections | connect, order | (orders bypass the risk manager) |
| Backtest engine (`domain/backtest/engine.py`) | a run | bar loop | trades as the live cycle does; its capital balances |
| Accumulation policies (`domain/backtest/accumulation.py`) | cash, units, cost basis, phase of a run | buy and sell rules, bar by bar | never overspend, never oversell, keep the core |
| Candle data and its cache (`services/backtest_service.py`, `data_provider.py`) | `ohlcv_bars` | cover test, incremental fetch, upsert | ascending answers, fresh tails, no holes, no failure over caching |
| Websocket server and client (`api/ws`, `frontend/src/lib/websocket.ts`) | connections, subscriptions, timers | connect, subscribe, broadcast, heartbeat | one socket, resubscribed, reconnects, dead clients forgotten |
| Bundled strategies (`strategy/examples/sma_crossover.py`) | none | signals from closes | the same signal live and in a backtest |
| Strategy sandbox (`services/strategy_sandbox.py`) | a process per request | run, collect, time out, replay | a signal is replayed at its bar; runaway code is stopped |
| Snapshots, risk profiles, analysis services, loader, forecasting, language models, pages | little or none | periodic or on request | - |

How they interact. An HTTP handler commits the strategy row and then, in a later step of the event loop, calls
`notify_status_change` or `notify_config_change`, which starts, cancels or replaces the task. A task's cycle fetches
bars, asks the strategy for signals when the last bar is new, opens a session, reads account and position, lets the
engine reconcile (through the risk manager and the broker, which stages its fills in the same session), updates the
row, commits once and broadcasts. The risk manager's states live in memory only, shared by everything, protected by no
transaction, and are rebuilt at boot from the database.

Around this: a backtest runs the same strategies and the same reconcile policy over stored candles, which several
requests fetch, cache and extend at once; a strategy written in the builder runs in a process of its own first and is
then replayed; broadcasts reach the browser over one websocket per tab, which either end may lose without the other
noticing.

What is hard: handlers interleaved with cycles at every await; cancellation, which rolls a session back but not the
memory; failed flushes that leave a session unusable; commits that fail; a process that ends anywhere; a halt that is in
memory before it is in the row; orders that a venue took although the reply was lost, or fills later; requests that glue
a cached series to a tail while others extend the cache; half-open sockets and late callbacks of replaced ones; policies
that carry a phase over thousands of bars. `PROJECT.json` lists each hazard at its line with the properties aimed at it.

## 2. Modules

- `Reconcile` - `plan_actions` over the sign of the position. A plan is the record of an optional close and an optional
  open, since the code's list is at most one close followed by one open.
- `RiskRules` - the risk manager's decisions over one `RiskState`; the order of the checks is that of `approve_order`.
  Float comparisons are multiplied out over integers.
- `Executor` - the core. Database: `row`, `book`. Memory: `tasks` (`_tasks`), `loop` (the tasks that still run,
  cancelled ones included), `seen` (`_last_bar_ts`), `risk`. Handlers: `notices`, committed and yet to notify.
- `TradeLog` - the abstract promise of the paper ledger (docstring of the simulated broker, lines 8-15): position and
  order records move together along legal plans. `Executor` implements it (`LogSpec`, checked by TLC).
- `Instruments` - the registry, conformance and the size of an entry. `Backtest` - one bar of the backtest engine as a
  function of the run. `OrderFlow` - the engine over a broker adapter beside the backtest of the same signals.
- `Accumulation` - one run of one arm of the accumulation comparison.
- `CandleCache` - the candles of one series under concurrent requests.
- `SocketLink` - both ends of a tab's websocket and what lies between.
- `SignalRules` - the four bundled strategies as functions of the closes. `StrategyHosts` - who asks them: the backtest,
  the executor through a window, the sandbox.
- `MC...` - constants for TLC, one module each. `...Proofs` - the theorems (section 4).

Operators named `M...` in these modules are plausible mistakes in the definition that follows them, to see that a
property notices; no specification uses them.

### Executor

The stages of a cycle in `Executor`, each the code up to the next await that matters:

| Stage | Actions | Code |
|---|---|---|
| sleep -> read | `StartCycle` | `_execute_once` to the opening of the session |
| read -> trade or settle | `ReadAccount`, `ReadFails`, `NoAdapter` | `_trade_on_signals` to the engine's decision |
| trade -> trade or settle | `CloseFills`, `OpenFills`, `OpenRejected`, `OrderFails` | `_close`, `_open`, `_submit`, `place_order` |
| settle -> broadcast or sleep | `Commit`, `CycleLost` | `_update_instance`, `commit`, the loop's `except` |
| broadcast -> sleep or end | `Finish` | `_broadcast`, the end of `_run_loop`'s body |
| any -> end | `Aborted` | `CancelledError` |

Around them: `PatchStatus`, `PatchConfig`, `DeleteStrategy` (handlers), `Notify` (both notifications), `Restart` (end of
the process and `boot`, with `_rehydrate_risk_state`), `NewBar`, `Midnight`.

Abstractions and assumptions:

- An entry has size 1; equity, the result of a close and whether an exit was hit are chosen from small sets at each
  reading. A zero computed quantity cannot happen, since equities are positive.
- The database gives every session its own transaction and enforces foreign keys, as PostgreSQL does. With SQLite all
  sessions share a connection (`db/base.py:13-20`), which is not modelled (section 6).
- A handler's read and commit are one step; handlers notify in the order of their commits, with other steps between.
  `Notify` takes a free slot of `Slots` for a new task; a lack of slots delays it and is a bound, not behaviour.
- A new loop starts with a sleep of two seconds, in which a cancelled elder ends: the guard of `StartCycle` on the other
  slots stands for it. The last commit of a cancelled task may or may not take effect.
- PostgreSQL would make a deletion wait for a transaction that has flushed rows under the strategy; the model lets it
  happen at any time, which allows more.
- A live strategy of this module has no usable broker connection; `OrderFlow` has the brokers.
- `Midnight` also ends the day for what a session has staged, since PostgreSQL dates a record by the start of its
  transaction. A session that spans midnight and closes after it is dated the day before in the code, the day after
  here.
- SignalRecords are left out: no decision reads them.
- Strategies begin as drafts; `error_count` saturates at the limit that halts.

### OrderFlow, Instruments, Backtest

`market` is the venue and the name the user typed; `book` what the venue holds (`sim_ledger`, or an account outside);
`pending` orders a venue has taken and not filled; `run` the backtest's state. `last`, `aligned`, `overlapped`,
`touched` are history for the properties.

| Action | Code |
|---|---|
| `NewBar` | a cycle with the bar's signal (`reconcile_and_execute`, through `_check_exits`, `plan_actions`, `_close`, `_open`, `_submit` and the adapter), and one bar of `BacktestEngine.run` (`BarStep`) |
| `Poll` | a cycle between bars: exits only |
| `VenueFills` | the venue executes the oldest order (external) |
| `ByHand` | `BrokerService.place_order` on the same account |

`Sent` has every way `place_order` can end: simulated orders fill, Binance fills, rejects or raises, Bybit and Alpaca
take the order, or raise with it taken or not. `Visible` says whether the adapter reports the position under the name
the executor looks for: it does not for Bybit spot and `.P` names, and not for Alpaca's coins. Amounts are integers
and every rounding is shared by the formulas that use it; one percentage of costs serves all venues; vetoes of the
risk manager other than that on size are nondeterministic refusals; a cycle is one step, since what can happen inside
one is `Executor`'s matter. The backtest shorts whatever the strategy may do live (`BacktestShorts`: no caller hands
`allow_short` to `BacktestEngine`), the live cycle asks the strategy. The multiplier is 1 as in the whole seed, and the catalog has one instrument of each kind.

### Accumulation

`policy` and `model` fix the arm and how capital comes in; `day` is the place in the halving cycle, which ends after
`Shortest` to `CycleLength` days; `ledger` is `AccumulationLedger`, `reg` the policy's registers (phase, stack at the
start of a distribution, top, cool-down), `episode` the drawdown history `rotation_auto` plans by. `Next` takes the
close and the high of a bar; every action is one phase of one policy at one bar (`HunterDistributes` is
`CycleHunterPolicy` in DISTRIBUTE, and so on) and ends in `Trade`, which sells, then buys, then moves on. Amounts and
percentages are integers rounded down; bars are days; indicators are inputs. The parameter classes' fields are records
of constants, with the ranges the classes accept as the assumption.

### CandleCache

`store` is the table of one series, `now` the bar that forms, `req` the requests with the rows they read and what a
provider sent. `Ask`, `ReadCache`, `Fetch`, `Store`, `PlainFetch`, `Fails` and `Leave` are the steps of a request
between its awaits (`BacktestService`, lines 53-190; `data_provider.fetch_ohlcv`), `NewBar` the market. A bar is its
number, so that what a forming bar's prices were when it was stored is left out. Yahoo or Bybit may have nothing; only
Bybit's fetch raises, since Yahoo's failures are swallowed.

The two read a range differently. Bybit takes both ends as they are and is paged back from the last one. Yahoo takes
dates (`yfinance_provider.py:107-108`): `WholeDays` starts with the first bar of the start's day and ends before the
end's day, which `ticker.history` excludes (`DayOpen` maps a bar to the first one of its day), and nothing trims the
answer to what was asked, so that a range may begin before its start and end before its end. Without a start one is
reckoned back from the end (`ReachBack`), and without either the answer is cut to the last `Limit` bars. A failure of
the database degrades a request without a start to a plain fetch and ends any other (`AfterFailure`).

### SocketLink

A slot is one connection with its browser object (`cs`), transport (`net`, `up`, `pong`) and endpoint (`srv`). The tab's
side is `ws`, `wants`, `timer`, `beat`, `watch`, `subs`, `status` (fields of `TradingWebSocket` and the store); the
server's is `conns` and `ssubs` (`ConnectionManager`) and `cast`, a broadcast that awaits each send.

| Action | Code |
|---|---|
| `Connect`, `TimerFires`, `Opens`, `Closes`, `Resets`, `Disconnect` | `connect`, the reconnect timer, `onopen`, `onclose`, `disconnect` in `websocket.ts` |
| `Beat`, `WatchdogFires`, `ReceivePong` | the heartbeat and its watchdog |
| `Subscribe`, `Unsubscribe` | the store's subscriptions |
| `Accept`, `Serve`, `PushFails`, `EndpointEnds` | the endpoint's two tasks and its `finally` (`api/ws/router.py`) |
| `CastStarts`, `CastSends`, `CastEnds` | `ConnectionManager.broadcast` |
| `Cut`, `Restart` | a lost transport, a server that comes back knowing nobody |

Payloads and handlers of messages are left out; of the delays only their order matters: the watchdog (10 s) fires before
the next beat (20 s). At most one broadcast is under way.

### SignalRules, StrategyHosts

`SignalRules` has the crossovers of simple averages and of MACD, RSI and Bollinger bands over integer prices, comparing
without dividing. In `StrategyHosts`, `Poll` is `_execute_once` up to the signals (a provider's last bar is the one that
forms, or the one before if it is late; `cursor` is `_last_bar_ts`), `Submit` to `Restart` are the sandbox's request and
its process; the harness that runs in the process is `Written`, the replay `Replayed`: `ByBar` looks up what was written
for a bar, `Known` passes over what is no direction. Executor and sandbox share no state, so a behaviour has one `host`. A piece of code is one of the kinds the sandbox can tell apart.

## 3. Runs

### Executor

All use one strategy and two slots: strategies share no state but the dictionaries, which are keyed by strategy, and
two slots hold a task and a cancelled elder, the most that a reload leaves, since the model delays a third task.
`MaxErrors` is 2 (the code's 5), enough for one error that does not halt and one that does. `Equities` 8 and 10 with a
10% limit make a fall from the peak a total drawdown, a result of -1 with a 5% limit a daily one. `CountBound` 2 lets
the counter drift either way; `PnlBound` closes the daily result; `MaxNotices` is the number of handlers between
commit and notification. `Enabled` names the faults a run explores. Deadlock is checked in all seven.

| Run | Asks | Result |
|---|---|---|
| `lifecycle` | Two handlers in flight, reloads, deletions, crashes, failed flushes and commits, failed rehydrations: tasks, ledger and records stay consistent, pausing ends the loop, every cycle ends, `TradeLog` is implemented | passes |
| `accounting` | No stop, no lost transaction; crashes anywhere and unreadable accounts: counters agree with the ledger, a halt reaches the row, the peak never falls | passes |
| `kill_switch` | Drawdowns with every fault but failed reads: only the user releases a halt, a halted strategy opens nothing | passes |
| `go_live` | "one asyncio task per active (paper/live) strategy instance" | violated: paper to live keeps the paper loop |
| `peak_restart` | "the baseline survives restarts" | violated: a strategy paused at the restart loses its peak |
| `daily_reset` | the daily result is that of the day | violated: nothing calls `reset_daily_state` |
| `db_error` | a DB failure advances `error_count` | violated: `_submit` swallows the failed flush, the commit raises |

`accounting` is deliberately without `commit`, `place` and stops: with them the counters drift, because memory is not
rolled back (hazard at `execution_engine.py:307`). What it shows is that the accounting is right when transactions
succeed and that restarts restore it at any point. `peak_restart` and `daily_reset` are the same properties one fault
further. The halting cycle of a deleted or re-activated strategy is in `lifecycle` and `kill_switch`.

Fairness (`Executor!FairSpec`): weak fairness of each task's next step and of notification, which is what an event loop
that runs every ready callback gives. Requests, deletions, restarts, bars and midnights are free to never happen.

### The other modules

| Run | Asks | Result |
|---|---|---|
| `order_flow` | From a signal to the broker's book, with lost replies, refusals, late fills and manual trades: the account on the side of the backtest (flat where only the backtest may be short), balanced books, no short that was not allowed, no exit blocked | passes |
| `accumulation` | Every arm over every course of a small market: books balance, the core is kept, nothing is bought from a top to the end of the cool-down | passes |
| `candles` | Two concurrent requests, a database that fails, providers that raise, page, have nothing or know whole days only: ascending answers within the days asked for, fresh tails, no failure of a request without a start over caching, no hole from incremental fetches | passes |
| `socket` | Lost transports, restarts, remounts, broadcasts, late callbacks: one socket, never stranded, subscriptions restored, the dead forgotten, a half-open link noticed | passes |
| `hosts` | The bundled strategies in the backtest, live and in the sandbox: the same signal for the same closes, replay at the right bar, runaways stopped | passes |

Bounds, and why they are enough:

- `order_flow`: six markets, one for each way an adapter sees or does not see a position or knows a name; four shapes
  of bars (quiet, to the target, through the stop, both); three bars, which open, reverse and close a position, and
  the polls between them; at most two orders under way before a cycle acts, so that a reversal meets both kinds of
  overlap; lots of 2 and a manual sale of 3 for an odd rest; a notional minimum that the smaller positions miss; strategies that may short and such that may not. 600 thousand
  states.
- `accumulation`: six bars over halvings four or five days apart, with a buy window that wraps past the halving, see a
  whole distribution with its cool-down and the next one; two prices give a fall of half, beyond all thresholds, and the
  rates are high enough that the caps bind.
- `candles`: two requests are what it takes for one to store between another's read and its answer; three bars that grow
  to five outgrow one page of three but not two; days of two bars, so that a start and an end fall into the middle of one; the
  asks are the four kinds of range. 200 thousand states.
- `socket`: two slots, a socket and the late end of its predecessor; one channel a page chooses and one the endpoint
  adds; queues of one message, enough for a subscription that is overtaken by a lost transport. The theorems of
  section 4 remove these bounds for all but `HalfOpenNoticed`.
- `hosts`: two prices, closes from five bars to seven, after a warm-up of four; periods of two and three; windows
  shorter and longer than the history. `Unit` is 2^6 * 3^10, a multiple of every denominator the exponential averages
  meet over that many bars.

Deadlock is not checked in `accumulation`, `candles` and `order_flow`: a run of a policy ends with its data, and the
bars of the market, which the bounds end, are the only step left to an idle cache or engine. The others never stop.

Fairness. `SocketLink!FairSpec`: timers that are set fire, a socket that closes is closed, the server's own keepalive
(uvicorn's) ends an endpoint whose client is gone, and a broadcast that began goes on. It does not give the browser
any notice of a lost transport: that is the watchdog's work, and `HalfOpenNoticed` is about it.
`StrategyHosts!FairSpec`: the timer of `communicate(timeout=30)` fires if the request still waits. All liveness is
checked by TLC only.

## 4. Proofs

Everything below holds for every value of the constants that the named assumptions of the modules allow: any number of
strategies, tasks, connections, channels, bars; any prices, costs, percentages, limits; any enabled faults, unless a theorem's own
hypothesis, named with it below, excludes some.

`ExecutorProofs` (`ExecutorAssumption`, `NoneAssumption`: the value for a missing entry is not itself a risk state):

- `TypeCorrect`: `TypeOK`, with `Armed` - a risk state stands behind every order at hand, which is what makes the
  counter updates of `_submit` well defined.
- `OneLoopPerStrategy`: `TaskTableExact` and `Solo`. The table's exactness is inductive only together with `Vacant` (a
  free slot holds no cancelled task) and `Solo` (one task of a strategy within a cycle), which is what allows a halting
  loop to drop entries by the strategy's id. `StepShape` and `NotifyShape` reduce every action to a move, an end, a
  launch or a stop of a task.
- `LedgerExplained`, `OneEntryAtMost`, `DeletedIsInert`: `FillsRecorded`, `NeverPyramids` and `GoneIsInert`. None is
  inductive alone: a commit adds a session to the ledger, so the invariant (`Booking`) says of every session what it
  knows of the ledger: a session that wrote holds the ledger's position plus what it filled, one that did not filled
  nothing, and an order to open is only at hand when the session is flat, unless an earlier flush failed. The step
  that needs `Solo` is the commit, which would invalidate what any other session of the strategy knows.

`StepProofs`, in five parts:

- `HaltsAreReleasedByUser`, `HaltedStrategiesNeverOpen`. Both are action properties: `Hardened` says what any step of a
  loop does to risk states (only its own strategy's, a halt stays, a halted one counts no new position), `StepStaysFlat`
  that the risk gate vetoes every open of a halted strategy, whichever of its loops asks.
- `StoppedStays`: `StoppedStaysStopped`. It says something of the moment when nothing is left to notify; the invariant
  (`Obeyed`) has to say it of a queue with any mixture of notices: a strategy the user took out of trading has no
  task, or a notice that stops it is still to come, and one comes after every notice that starts it.
  `LoopsFollowRows` is the other direction, that an active row has its loop: the other side of the finding of
  `go_live`, since it tells when the sentence that run refutes does hold. `StartedOnce` says it: strategies start
  from a draft, do not return to one, and are not reloaded or deleted; stopping, archiving, halts, crashes, failed
  transactions and any number of strategies are allowed. The invariant (`Follow`) orders the notices about a
  strategy against its row: the one that starts it is the first and finds every slot free, one that stops it follows
  exactly if the row is no longer active, and a row that is not active has no loop but one that ends by itself
  (`Leaving`) or is to be stopped. Each part of the hypothesis is needed: a change of mode finds a loop and leaves it;
  a reload during the broadcast of a halting cycle launches the strategy again; a reactivation before the halting loop
  has ended is swallowed, and leaves an active row without a loop.
- `ErrorsAreCounted`: `ErrorsAdvance` as long as no flush and no commit fails (`NothingLost`), which is the other side
  of the finding of `db_error`: nothing but a lost transaction takes an error from the count. The invariant is that no
  session is unusable, and the point of the proof that nothing else leads out of the stage before the commit.
- `HaltsReachTheRow`: `HaltReachesRow` under `HaltsCommitted`: no transaction is lost, no configuration is reloaded, and
  a strategy that was stopped is not started again. Stops, archiving, deletions, changes between paper and live
  trading, failed rehydrations, midnights and crashes anywhere are allowed, which is more than the run `accounting`
  explores. The invariant (`HaltsHeld`) says where a halt is while the row is active: with the cycle that will commit
  it, which nothing on its way can cancel (`Carried`). What the hypothesis excludes does lose a halt in this code: the
  lost commit leaves it in memory only, a reload cancels the cycle that carries it, and a reactivated row is active
  while memory still knows the halt, until the executor is notified.
- `ExecutorImplementsTradeLog`, the refinement `LogSpec`. A commit is the abstract cycle, a status change, a deletion
  and a midnight are their counterparts, everything else stutters. The abstract cycle allows a realized result only
  where a position was closed, which the concrete commit does not check: the invariant `ResultOK` says that a session
  holds a result only once it has closed the position that the ledger still holds.

`AccountingProofs`, about what the risk manager remembers outside of every transaction:

- `OpenCountsAreExact` and `DailyPnlIsExact` suppose `Undisturbed`, the faults and requests of the run `accounting`, and
  the latter that the day lasts (`SameDay`). Every fault they leave out does break the counters in this code: a lost
  commit or flush and a cancelled cycle undo fills that were counted; a failed rehydration starts from nothing; a
  deleted or reactivated strategy meets what was remembered before; nothing resets the daily result at midnight.
  Crashes at any step are allowed, and are what the proof is about: the invariant (`Accounts`) says of each task which
  part of the counters its session explains (`Exact`), of each risk state which task, or the ledger alone, explains it
  (`RiskOK`), and of the notices that none finds a loop it does not expect (`NoticesOK`), so that at a boot the order
  records alone give the same numbers.
- `PeaksNeverFall` supposes less: without crashes nothing at all, whatever is lost, deleted, cancelled or reloaded; with
  crashes `BaselinesKnown`, that rehydration succeeds and paper trading starts only from a draft and nothing returns to
  one. `peak_restart` is the case it excludes: a boot reads the peak of the strategies in paper trading and of no
  others. The invariant (`Baselines`) is that memory knows at least the persisted peak, or there is none, or the
  strategy lost it to a crash and does not trade on paper again.

`AccumulationProofs` (`AccumulationAssumption`): `Typed`, `Books`, `Core`, `NothingAtTheTop`. The first two rest on
`Inv` (types, balance, and the order of an episode's low and peak) and on what a purchase and a sale do to a ledger
(`BuyBalances`, `SaleBalances`). `CoreKept` is not inductive, because it forgets how much was sold: `HunterCore` has
units and sold together at least the stack at the start, and sold below the cap; `RotationCore` and `GridCoreHeld` are
the cores in units rather than in percent of what rounding left.

`SocketLinkProofs` (`SocketAssumption`): `OneSocketAlways` and `NeverStrandedAlways` from an invariant of the tab alone
(`TabInv`); `ForgetsOnlyDead` and `LinkTyped` from `ServerInv`, whose `CastSound` says that a broadcast's dead clients
stay dead until it ends and no slot it knows is taken again; `SubscriptionsAgreeAlways` from `SubsInv`, where `Leads`
carries the agreement through a queue of any length: the last message about a channel decides, or the server's list if
there is none.

`OrderFlowProofs` (the assumptions of `Instruments`, `Backtest`, `OrderFlow`): `Typed`, `LedgerBalancesAlways`,
`BacktestBalancesAlways`, `NoUninvitedShortAlways`, `StopsNeverBlockedAlways`, from one invariant. The paper ledger's
part needs that it holds whole lots and that nothing is pending. `NeverBelow` is what makes `NoUninvitedShort`
inductive over late fills: of at most two orders under way, the first sells no more than is held and the second buys.
It holds until a cycle acts while an order is under way: a close whose reply was lost is such an order, the next cycle
sends it again, and the account may end up short; the code has no guard against that, and the theorem says nothing
from there on, nor once the user has traded by hand.
`SameSideAlways` is a simulation: from the start until the first exit, refusal, lost reply, trade by hand or overlapped
order, what the venue will hold once its pending orders have filled (`Heading`) is whole lots of a known symbol on the
side the backtest's allows (`Together`, `Allowed`; `PlansAgree`: the two plans for a signal come to the same side).
The property itself speaks only of moments with nothing pending, and is not inductive because a reversal sends two
orders of which either may fill later; `Spot` is what Binance adds, where nothing is ever pending or owed.

`CandleCacheProofs` (`CandleAssumption`): `TypeCorrect`, `AlwaysAscending`, `TailAlwaysFresh`,
`StartlessFailOnlyByProvider` for any number of requests, ranges, days, pages and failures. The last two speak of
requests without a start only: a ranged request is not extended, and does fail with the database. The invariant says of a request at each of its steps what the rows it
read and what a provider sent it are worth by now: rows are ascending times the market has had, a tail starts where
they end, and an answer that used a provider holds what it is `Due`: the bar that was forming when the request came, or
the last one before the day of its end. `StoreStaysWhole` is about a cache nobody has asked a range of, and
supposes that no more bars close than one page holds, without which a tail starts beyond the store; its invariant
(`WholeInv`) has the store and everything that is on its way to it as pieces without holes that reach each other.

`StrategyHostsProofs` (`StrategyHostsAssumption`): `Typed`, and `HostsAgreeAlways` for all prices and periods, provided the
windows hold what the rules look at (`WindowsSuffice`: `Needs` is a crossover's slow period and one bar more, and so
on). The executor's 200 bars do not for a crossover of 50 and 200, see section 6. `SmaWindow`, `RsiWindow`, `BandWindow`
are the lemmas: a signal is a function of its last `Needs` closes. MACD's averages never forget, so that `HostsAgree`
speaks of it only where the window holds the whole history, and `WindowsSuffice` asks nothing for it.
`ReplayIsCausalAlways` supposes nothing: any warm-up, any number of bars, every kind of code. What a process wrote is
one list for all bars, flattened twice on its way back, so the proof needs what a flattened list is, for every length.
The library's induction theorems cannot be instantiated here, but induction can be had for a set instead of an
operator: `NaturalsFrom` (a set of naturals with 0 and every successor is all of them) follows from the
well-foundedness of `<`, and with it the recursion of `FlattenSeq` unfolds (`FlattensExists`, `FlattenIs`,
`FlattenConcat`). `ByBarBlock` then says that the answers of one bar come out at their own index and at no other,
`WrittenByBar` the same of all bars; the invariant (`RanOK`) ties what a process has printed, and what a request took
from it, to the code and the bars it was given.

Every safety property of the passing runs is stated by a theorem. Only model-checked:

- liveness (`PauseEndsLoop`, `CycleEnds`, `HalfOpenNoticed`, `RunawaysEnd`): the prover has no support for fairness and
  ENABLED.

Each of the four properties that a run refutes has a theorem that says when it does hold: `LoopMatchesRow` under
`StartedOnce`, `ErrorsAdvance` under `NothingLost`, `DailyPnlIsTodays` under `Undisturbed` and `SameDay`,
`PeakNeverDecreases` under `BaselinesKnown`. What the hypothesis leaves out is what the run shows to be the cause.

## 5. What is left

- What the counters are off by after each lost transaction, in place of the assumption that none is lost.
- Candles with prices: a bar that was stored while it formed, and is never fetched again because newer ones are there.
- Two strategies on one account, which share equity at a real broker.

## 6. Not modelled

- SQLite's shared connection (`db/base.py:18`): what one session's rollback takes from another depends on the driver's
  implicit transactions, which the source does not show. The sessions here are PostgreSQL's.
- The order rate per minute (`risk_manager.py:284`): `Veto` takes its answer as an input.
- `SignalRecord`s, portfolio snapshots, risk profiles, creation of strategies, queries: appends and reads that no
  decision of the program depends on.
- Credentials, connection tests and health checks of brokers: input and output.
- The `market_data` router with its Bybit and Alpaca providers: no path of the program calls them.
- Metrics, Monte Carlo paths, indicators and the Rust numerics: floating-point statistics without state.
- The strategy loader, forecasting and language models: imports of files and calls of numerical libraries; no trading
  path calls the latter two.
- What restricted code in the sandbox may reach: a matter of the interpreter. Confidences: one that is no number makes the
  replay raise at its bar (`strategy_sandbox.py:325`, outside the `try`), and the backtest then has no signal there
  (`engine.py:111-115`); `StrategyHosts` has directions only.
- Pages: presentation. The status changes their cards offer are the requests of `go_live`.

Met while modelling, and the subject of no run:

- Bybit's adapter asks for linear positions only (`bybit_adapter.py:167`), and no adapter translates a venue's name
  back: the position of a Bybit spot, `.P` or Alpaca coin strategy is invisible to the executor, which acts as if it
  were flat.
- Binance's adapter reports the current price as the entry (`binance_adapter.py:233`), so that no exit is ever due, or 0
  if it cannot be fetched.
- Signals are asked for at the first sight of a bar and never again for it. With a provider whose last bar is the one
  that forms, this is not "only once per closed bar" (`strategy_executor.py:286`): the bar is asked about while it
  forms, and not when it has closed. `HostsAgree` is therefore about bars that closed at the price seen.
- The cursor compares with `!=`: a provider that answers with an older bar makes the executor ask again.
- The executor asks for 200 bars (`strategy_executor.py:267`) while a 50/200 crossover looks at 201: live it never gives
  a signal, in a backtest it does.
- A sandbox process that runs when the server stops is killed by nobody.
- `engine.py:59` says of the backtest's `allow_short` that it "matches live gate", and `reconcile.py:5` that live and
  backtest share the policy. No caller passes it (`backtest_service.py:96-105`, `strategy_sandbox.py:270-275`), while the
  live cycle takes the strategy's: one that may not short is backtested with shorts, and flat live where the backtest
  is short. `SameSide` states the sides as they are (`Allowed`).
- Yahoo leaves out the day of a request's end, and a cache filled from Bybit has it: what a request up to a given end
  gets depends on who answered first. Yahoo's bars of "4h" are those of an hour (`yfinance_provider.py:21`), which
  the model does not show, since its bars have no length.
- `_cache_covers` looks at the first and the last stored bar (`backtest_service.py:53-61`): after two disjoint ranges a
  third that spans both is answered with the hole between them. `UnboundedStaysWhole` therefore speaks only of a cache
  nobody has asked a range of.
- A ranged request fails when the database does (`backtest_service.py:120-151`); "never fail a run over caching" (line 185)
  is about the others.
- A cycle that acts while a live order, or a close whose reply was lost, is under way sends it again; nothing in the code
  remembers the first.

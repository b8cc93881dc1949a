# ride-the-wave: TLA+ models, checks and proofs

This directory is a TLA+ development of the trading bot in `src/`. It models the parts of the bot whose
correctness depends on order: who may act between two calls, what is read before it is used, what is
remembered across a failure. Each module says in its header which file it models. Section 1 is the
inventory of the system, section 2 the plan, sections 3 to 6 what has been built.

## 1. Inventory

The bot (`src/src/ridethewave`) is one Python thread that polls Alpaca every 15 seconds. It is surrounded by
a venue that acts on its own, an owner who acts by hand, a SQLite file, a web API that queues requests in
that file, and a five-minute operator job.

| Component | State | Operations | Talks to |
|---|---|---|---|
| Order manager (`execution/order_manager.py`) | trades booked since the last poll, all trades | `handle` (buy, sell), `poll`, `flatten_all`, `cancel_pending_entries` | broker (calls), book, trades table |
| Position book (`execution/position_book.py`) | positions, pending entries, pending exits, entries today | `open`, `close`, `reconcile` | order manager, runner, strategy (reads) |
| Broker client (`execution/broker.py`) | none; orders and holdings are at the venue | submit, cancel, read | the venue over HTTP, three attempts per call |
| Simulated and shadow broker (`backtest/sim_broker.py`, `execution/shadow_broker.py`) | orders, positions, cash | the broker interface, `process_bar`, `force_close_all` | order manager, ticks |
| Trading engine (`engine.py`) | halted flag, resampler | `on_completed_bar`, `on_tick`, `poll_orders`, `persist_positions` | strategy, order manager, positions table |
| Runner (`runner.py`) | slots, portfolios, options slots, universe, stop flag | start-up, `_tick`, `_apply_controls`, `_apply_risk`, `_reconcile`, `_shutdown` | everything |
| Risk monitor (`operator/risk.py`) | reason of the halt | `check_pnl`, `check_winrate` | runner |
| Daily slot (`portfolio/daily_slot.py`) | positions, cash, day of the last decision | `load`, `decide`, `mark`, `skip` | strategy, positions and state tables |
| Options slot (`options/slot.py`, `options/lifecycle.py`) | open structures, cash, marks | `load`, `decide`, `mark`, `skip` | chain, broker, structures and state tables |
| Bars (`data/bars.py`, `data/resample.py`) | history, last bar handed on, open bucket | `on_snapshot`, `on_bar`, `flush` | snapshots, engine |
| Operator (`operator/watchdog.py`, `operator/dispatch.py`, `scripts/operator_tick.py`) | last restart, tasks done today | `run_watchdog`, `due_tasks` | launchd, heartbeat |
| Allocator and ledger (`portfolio/`) | none | `next_allocation`, `build_ledger`, `qty_for` | runner |
| Strategies (`strategy/`) | per-day state | `on_bar`, `on_tick` | engine |
| Option structures (`options/structures.py`, `options/resolver.py`, `options/chain.py`) | none | `resolve`, `_payoff_bounds`, `size_structure` | options slot |
| Backtester (`backtest/engine.py`) | the replayed days, the same engine, book and order manager | `run`, `_replay_day` | simulated broker, strategies, ledger |
| Daily replay (`daily/engine.py`, `daily/strategies.py`) | book, cash, pending targets | `run_daily`; thirteen rules from a panel to target weights | daily slot (the rules) |
| Web API and dashboards (`web/`, `ui/`) | none | read the database, insert control requests | runner, through the table |

Left aside: features, signals and most of `scripts/`, which are sequential numerics for research; greeks and
implied volatilities; and the HTTP and file code around market data.

What is hard:

* **The venue and the bot act at the same time.** A server-side stop fires while the bot sells the same
  position; a buy fills while it is being cancelled. One incident (29 October 2026, NUWE) is on record in
  `docs/features/07-order-execution.md`, and five tests were written for it; the space of orders around it is
  what a model checker covers and tests do not.
* **Calls fail in the middle of an operation.** Every call may raise after three attempts, and a submit may
  have been taken although it raised.
* **Crashes and restarts.** launchd starts the bot again; memory is rebuilt from the venue and the database.
* **Several slots share one account.** Exclusivity of symbols, hand-back of positions and the risk halts go
  across slots.
* **Things must happen eventually**: a buy is filled or given up, an exit completes, a trade reaches the
  runner, whose daily loss limit reads it.

The full list, with lines, is `hazards` in `PROJECT.json`. What makes each component correct:

* order manager: no share is sold twice; the book and the trade record agree with the venue's orders; the
  slot's limit holds; every symbol walks flat, entering, held, exiting, flat; nothing gets stuck; no trade is lost;
* runner: a symbol is in at most one live slot; each position goes back to the slot that recorded it; a
  halted slot does not enter; each control request is applied once and its outcome is what is recorded;
* daily and options slots: one decision a day; cash, positions and trades agree after any crash;
* bars, simulated broker, backtester: each bar is handed on once, in order; an order fills on a later bar than the
  one it was decided on; the broker's cash and shares and the bot's trades and book are one account; days end flat;
* option structures: risk flags that are true of the legs, strikes that keep their order on any grid, sizes within
  the capital, fills never better than mid;
* daily rules and their replay: the book follows the targets, gross exposure is kept, no rule buys what it ranks
  below what it shorts;
* operator: no second start in one boot or morning, and no second run of a task on one day, once the first is on
  record; never a start against the owner; a start that did not happen is made up for;
* ledger: the cumulative figure has every trade, over days.

## 2. Plan

1. `Broker`, `PositionBook`, `OrderManager`, the abstract `PositionLifecycle`, and the proofs. **Built.**
2. `Runner`: slots as lifecycles (what 1 proves about them is what the runner may assume), controls, risk halts,
   rows, reconciliation after a crash, and `RunnerProofs`. **Built.**
3. `DailySlot`, `OptionsSlot` and their proofs: the decision of a day, with crashes between the writes. **Built.**
4. `Operator` and `OperatorProofs`: watchdog and dispatch with reboots, failed starts, an owner who stops the bot.
   **Built.**
5. `Feed`, `SimBroker`, `Strategies`, composed by `Session`: the replay of days and a shadow slot. **Built.**
6. `Structures`, `Resolver`: option structures on a chain. **Built.**
7. `DailyTargets`, `DailyReplay`: the daily rules and their replay. **Built.**
8. `SumTheorems`, `DailyReplayProofs`, `ResolverProofs` and the second part of `OrderManagerProofs`: shares, cash,
   weights and what a package costs, which are sums. **Built.**
9. Left: theorems about `Session` (section 5 says why); a universe that is rebuilt within a day and hands the
   strategies a second session start (`runner.py:701`); the shutdown of a live slot.

How the modules compose:

```
OrderManager  EXTENDS PositionBook EXTENDS Broker;  implements PositionLifecycle
Runner        takes a slot as what PositionLifecycle promises
Session       EXTENDS Strategies EXTENDS Feed;  SB == INSTANCE SimBroker
Resolver      EXTENDS Structures
DailyReplay   EXTENDS DailyTargets
DailySlot, OptionsSlot, Operator   stand alone: each is a process of its own beside the database
```

## 3. What is modelled

### `Broker`

The account at the venue: `orders`, a sequence (an order's id is its index), and `holdings`, signed, so that a
short shows. The bot's calls are the operators `submit_limit_buy`, `submit_market_sell` and `cancel`; `Fill` and
`End` are what the venue does. They are external to the repository and modelled from how the code uses them: a
limit buy may carry a stop leg that is `held` until the buy has filled; orders fill in parts; a cancel is a
request that leaves the order `pending_cancel` until the venue settles it, and the order can still fill before
that. Statuses are those the code tells apart. Prices are left out: no property is about them.

### `PositionBook`

The four dictionaries as total functions on symbols, with `NoPosition` or id 0 for an absent key. `open`, `close`
and the two kinds of `pop` are the code's methods and statements. `reconcile` belongs to start-up and is part of
`Runner`'s.

### `OrderManager`

One action per step of an operation, cut at the calls to the broker. A step is the local work up to a call
together with that call. So the venue may act between any two calls, which is where the code's races are, and
what a step uses may be older than what is true. `pc` names the next call; `cur` is the locals of the operation
in progress; `todo` what is left of the `list(...)` snapshot a loop walks.

| Code | Actions |
|---|---|
| `_buy` | `_buy` (the submit, taken, refused or with its reply lost) |
| `_sell` | `_sell` or `FlattenOne` (`BeginSell`: up to the cancel of the stop), `_settle_stop` (one read each), `_held`, `SubmitSell` |
| `flatten_all` | `flatten_all`, `FlattenOne`, then the steps of `_sell` |
| `cancel_pending_entries` | `cancel_pending_entries`, `CancelOneEntry` |
| `poll` | `PollStart`; `PollEntry` or `EntryTimesOut` and `CancelTimedOut`; `PollExits`, `PollExit`; `PollStops`, `PollStop`; `PollReturns`; `PollRaises` when a read fails |

`handed` is every trade a poll has returned to the runner. The constant `Faults` says what may go wrong; each
fault is a disjunct of the action it hits. The loops walk a set in any order: the code walks a dictionary in
insertion order, and no property depends on it.

Simplifications, each stated where it is made: a share count stands for quantity (the code uses floats, the
allocator hands out whole numbers); the time of the entry timeout is nondeterministic; a strategy may signal
anything, but a buy of a symbol at most `max_entries` times a day, as `WaveRider` does; the database's writes are
part of the step that makes them; an id a repeated submit would reuse is refused by the venue, so a retry that
was taken the first time is the fault `lost_reply`.

### `PositionLifecycle`

What a slot promises its surroundings, without brokers or polls: each symbol goes flat, entering, held, exiting,
flat, at most `Limit` symbols are not flat, and each exit order closes at most one position, once.
`ImplementsLifecycle` in `OrderManager` is this specification under the refinement mapping `Phase` and `Closed`.

### `Runner`

The live slots of one session, composed through what they share: the account, the positions table, the risk
monitor and the queue of control requests. A slot is what `PositionLifecycle` promises of it, per symbol a phase,
together with the order at the venue that phase waits for (`Cell`). `stage`, `turn`, `todo` and `left` are where
the thread is in `_tick`.

| Code | Actions |
|---|---|
| `_apply_controls` | `ReadControls` or `ControlsUnreadable`; per slot of a request `ControlSlot`, or `ControlRaises` when `flatten_all` does; `FinishRequest`; when the write of the outcome raises `DoneUnwritten` (the request is written as rejected), `FinishFails` or `RejectFails` (that write raises too); `ControlsDone` |
| the loop over snapshots in `_tick` | `Buy` and `Sell`, in any number and order, under `_exclusive` and the halted flag; `SignalsDone` |
| the loop over slots in `_tick` | `PollSlot` (with `check_winrate` and its halt) or `PollRaises`; `ClearRows`, `WriteRow`, `RowsDone` (`persist_positions`, one statement at a time) |
| `check_pnl` and `_apply_risk` | `RiskCheck`; `RiskCheckRaises` when `flatten_all` does; `RiskUnrecorded` when the write of the halt does |
| `run`: the except around a tick | stage `failed`, reached by `TickFails` and by each raising step; the next tick begins from there |
| `run` up to the loop, `_reconcile` | `StartUp` |
| `ControlRepo.submit` | `Submit` |
| the process, the venue | `Crash`; `OrderFills`, `StrayBuyEnds`, `StraySellEnds` |

A crash loses the books, the flags and the monitor's reason; the table, the `risk` state, the requests, the
account and the orders at the venue stay. An order a slot forgets (a cancelled entry, a stop of an adopted
position's earlier life, a reply that was lost) is a `stray`, which may fill later and so make the account hold
what no book knows; that is what `_reconcile` then finds.

Simplifications. A position is one lot and fills at once: partial fills and the races inside `_sell` are
`OrderManager`'s. The venue sells nothing it does not hold. The loss is not computed: a breach of a limit may come
at any risk check, if there is a trade or a position to lose on; the win rate likewise, when `WinrateFloor` is on
and trades were handed out. A bot with no allocation has no risk halts (`Allocated`, `risk.py:49`): its monitor
answers that nothing is wrong, whatever reason it keeps. The write of the halt in the middle of a poll is taken to
succeed. The model is one day. Shadow slots share none of this state and are left out.

### `DailySlot`

One portfolio over several days, with the process started and ended at any point between two statements of the
database, each of which is committed on its own. `positions` and `paid` are the book and the cash in memory,
`rows` and `state` what the tables keep of them, `trades` and `ledger` the two tables that only grow.

| Code | Actions |
|---|---|
| `_build_portfolios`, `load` | `load` |
| `_portfolio_decisions`, `_decide_portfolio` | `skip` (no universe, no history, a fetch that raises); `decide` up to the loop of `rebalance` |
| `rebalance`, `_execute` | per symbol with a price: `_execute` or `LeaveAlone`, or `TradeFails` when the insert raises; `Rebalanced` |
| `_save` | `ClearRows`, `WriteRow`, `RowsWritten`, `SaveState`, or `SaveFails` |
| the except in `_portfolio_decisions` | `Failed`, a part of the two failing actions: the day is given up in memory |
| `_shutdown`, `ledger` | `_shutdown` |
| the process, the clock | `Crash`, `NextDay` |

Simplifications. A share costs 1 at any time, so that cash is the capital less what was paid per symbol (`paid`)
and "shares and cash agree" is `positions = paid`; slippage and gains would move both sides alike. The strategy may
ask for any targets. A symbol may have no price, and a price may come without a bar of today (`runner.py:396-397`):
a decision without any such bar is made for the day before. If it has prices it trades, is saved under that day and is
due again; `undated` counts them, and `MaxStarts` bounds them together
with the processes.
A process lives one day, as the bot's does (`run` shuts down after the close).
A ledger row that cannot be written is a `Crash` in place of the `_shutdown`. `dirty` and `torn` are history: part
of a decision, not all, is in the database; a process has ended so.

### `OptionsSlot`

A slot of option packages, one open at a time, decided once a day, in shadow or live mode. Like `DailySlot` it is cut
at the writes: a close is the order at the venue and the cash, then the row of the structure, then the trade; an
opening the order and the cash, then the row; the marks and the state follow. `venue` counts the legs held at the
venue.

| Code | Actions |
|---|---|
| `load`, `_build_options` | `load` (open rows, cash, marks of the state) |
| `_options_decisions`, `_decide_options` | `_decide_options`, which picks what quotes there are, or skips without a spot; `QuotesFail`, `StepFails`, `PartTaken`: the exception that gives the day up |
| `decide`, exits | `Keep` or `_close`, `WriteClose`, `WriteTrade` per open structure; `ExitsDone` |
| `decide`, entry | `NoEntry` or `_open`, `InsertRow` |
| `mark`, `_save` | `MarkAll`, `SaveDecision` |
| `_shutdown`, `ledger` | `_shutdown` |
| the process, the clock | `Crash`, `NextDay` |

Simplifications. A package is one unit whose value is a credit or a debit of 1; capital is 1; a due date is a number
of days after the opening. Profit targets and stops need a value and may come or not. A submit of legs whose answer
is lost is sent again, as `_retry` in `broker.py` does, and nothing tells the venue that it has it. `dirty` and
`torn` are as in `DailySlot`, and `torn` also says that the venue took a part of a package or took one twice.

### `Structures`, `Resolver`

`Structures` is the table of the 57 templates: legs, ratios, strike rules, expiries and the two risk flags.
`Resolver` takes one template and one chain through `resolve` leg by leg (`ResolveStock`, `ResolveLeg`,
`ResolutionError`, `Resolve` for the payoff bounds), then sizes it (`Size`); `fill_value`, `structure_value` and
`intrinsic_value` of `lifecycle.py` are operators on the result. Amounts are exact: prices in cents, mids doubled,
payoffs 800 times, so no rounding is hidden. The greeks, which no decision of a slot reads, are left out.

Two strike rules that name the same side can meet in one contract: when the grid has a gap, when it ends before what
the outer rule aims at, and, which the proof brought out, when it begins beyond the spot, so that all its
strikes are on one side of it: the inner rule has then collapsed onto the money and is moved one step out, where the
outer one lands by itself. Nothing in `resolve` rejects such a structure. `StrikesOrdered` says that they are
apart on a grid that is dense from the money to the outer target (`Dense`, `Covering`), and in order on any.

### `Feed`, `SimBroker`, `Strategies`, `Session`

The program around one strategy, with the broker that fills orders against bars. `Feed` is `BarAggregator` and
`Resampler` as operators on a record, `SimBroker` the simulated broker likewise, `Strategies` the four intraday
strategies (the wave rider twice, with bars of one and of two minutes): each answers a bar or a tick with its new
memory and signals. `Session` is `TradingEngine`, the order manager with prices, and the two drivers:

| Code | Actions |
|---|---|
| `Backtester.run`, to `_replay_day` | `ReplayDayStarts`: entries of the day cleared, daily bars handed over, or not when `on_session_start` fails |
| `_replay_day`, one minute | `Minute` with `ReplayMinute`: `process_bar` of every bar, `poll`, then the strategy on each bar |
| `Backtester.run`, end of day | `ReplayDayEnds`: flush, flatten with `force_close_all`, poll, cancel, ledger, next allocation |
| `_build_slots`, `_session_start` | `_build_slots` in `Init`, `_session_start` |
| `_tick` for a shadow slot | `Minute` with `ShadowMinute`: symbol by symbol the shadow broker's tick, the completed bar, the tick; then the poll and the flatten time |
| `_shutdown` for a shadow slot | `_shutdown`, at any minute |

Simplifications. A day has five minutes and each prints one of five tapes; prices are around 20 and slippage,
stops, trails and targets are amounts. A return is in thousandths. The broker answers at once and never raises, so
the order manager's operations are whole here; `OrderManager` has their races. A shadow slot sees a bar when its
minute is over: which of a snapshot's bars are complete (`BarAggregator.on_snapshot`) is folded into that. Orders
nothing reads any more are dropped (`Forget`), so that states meet again. The optional entry filters, the
volatility scaling and the volatility weights are off, as in the default settings.

### `DailyTargets`, `DailyReplay`

`DailyTargets` states each of the thirteen rules of `daily/strategies.py` as a function from what a window of
history shows to the set of its possible weights: names with equal scores come in any order. What pandas computes
(a return, a volatility) is a number of the window, given to the names that have no hole. `DailyReplay` is
`run_daily`: `Open` fills the targets decided on the last close, `Close` marks, counts the days to the next
rebalance and decides. A strategy that raises has no targets, which sells everything, as the code does.

### `Operator`

The five-minute operator job beside the machine, launchd, the owner and the bot's process.

| Code | Actions |
|---|---|
| `operator_tick.py`, `main` | `TickBegins` (the reads of the tasks done may raise), then the steps below, `TickEnds` |
| `run_watchdog` | `ReadHeartbeat`, `bot_process_running`, `agent_loaded` (each answer may be missing), `kickstart` or `NoStart`, `RecordStart`; `WatchdogRaises` and `RecordRaises` when a read or the write does, which `main` swallows |
| `alerts_check.py`, `check_alerts` | `check_alerts`; `CheckFails` |
| `due_tasks` and their record | `RunTask`, `MarkTask`; `MarkRaises`, which ends the tick |
| the agents of `install_launchd.py` | `CalendarStart`, `Relaunch`; launchd loads them in `Boot` |
| `install_launchd.py install`, `remove` | `OwnerInstalls`, `InstallBot`, `ReplaceJob`; `OwnerRemoves`, `ReplaceJob`: agent by agent, and what runs under an agent that is unloaded ends |
| `pkill` | `OwnerStops` |
| the bot | `run`, `Waits`, `_tick`, `EndsItsDay`, `BotCrashes` |
| the machine, the clock | `Sleep`, `Wake`, `PowerLoss`, `Boot`, `Advance` |

Time is cut into the seven stretches of a day the code tells apart; the operator's tick begins at least once in each
stretch the machine is on and its agent loaded, unless one is still under way. The watchdog's calls have a timeout
(`watchdog.py:145`) and are over within the stretch. The health check and the tasks are child processes without one
(`operator_tick.py:60`, `71`): while one runs, time passes, the machine may sleep or go off, the agent may be unloaded,
and no other tick begins.

launchd starts the bot whenever its agent is loaded: `KeepAlive` implies `RunAtLoad` (`install_launchd.py:89`,
`docs/features/14-operator.md:113`). So `InstallBot` starts it, and `Boot` does, unless launchd fails to, which is what
the watchdog is for. A tick ends (`TickCut`) with the power, with the operator's agent, and by a write that raises after
a task; what it has done and not recorded never is. Database calls of a tick that raise and the owner's runs of
`install` and `remove` are `upsets`, bounded by `MaxUpsets`. `kicks`, `lost`, `stopped`, `spared`, `runs` and `torn` are
history: attempts since the bot should last have started, how many of them never got on record, whether the owner
stopped it since, the runs of the day, and which tasks' last run never got on record.

## 4. Runs

| Run | Asks | Instance |
|---|---|---|
| `fills` | Are shares sold once (`SoldWithinBought`), do trades tell the truth (`TradeMatchesFills`), does each reach the runner (`TradesHandedOut`), is a partial fill kept (`PartialFillKept`)? | one symbol, orders of 2 shares, 6 orders; partial fills, submits that fail or lose their answer; holdings check off |
| `faults` | Does the book agree with itself, the trades and the orders (`IInv`), does the slot keep its limit (`SlotBound`), does it implement the lifecycle, under every fault? | two symbols, one slot, 4 orders, all ten faults |
| `live` | Does each buy, exit and trade come to its end? | one symbol, 5 orders; late fills, slow cancels, refused orders |
| `slots` | Are symbols in one slot only (`Exclusive`), halted slots without buys (`HaltedIdle`), do halts outlive resumes and failed ticks (`RiskStands`), does the table name what each slot holds (`Recorded`)? | two slots, one symbol, 2 buys, 1 request of any command and target, 1 crash |
| `controls` | Do requests take effect in order (`PauseStands`); is each answered (`RequestAnswered`)? | one slot, 1 buy, 2 requests to halt or resume, 1 crash |
| `hand_back` | A statement of the docs that the code does not keep (violation) | two slots, 2 buys, 1 crash |
| `overnight` | Do shares and cash come back together (`Balanced`), is a round trip booked once (`BookedOnce`) and a saved day not decided again (`DecidedOnce`)? | two symbols, sizes -1 to 4, dead band 2, two days, three processes and decisions dated the day before |
| `packages` | Is the cash what the rows cost and brought (`Balanced`), is each package settled once at venue, table and trades (`Settled`), a due one closed without quotes (`DueClosed`), no close at the entry value while a mark is known (`PricedFromMark`)? | two packages, three days, three processes, both modes |
| `structures` | Are the risk flags true of the legs and max_loss of the exercise value (`RiskAsDeclared`), do strike rules keep their order (`StrikesOrdered`), is the size within means (`SizedWithinMeans`), does no fill earn (`FillsCost`)? | all 57 templates on 35 chains |
| `replay` | Are the broker's books and the bot's one account, over days (`Accounts`), has every share one sell (`SellsTracked`), do days end flat (`EndsFlat`), does no order fill on the bar it was decided on (`NoLookAhead`)? | five strategies, two symbols, two days of five minutes, replay and shadow |
| `daily` | Does the book follow the targets (`BookFollows`), within the gross (`WithinGross`), and is no name shorted that beats one bought (`RightSide`)? | 20 rules and parameters on three names, four days |
| `unattended` | Is there one start per boot or morning, unless none got on record (`RetriedIfLost`), none against the owner (`StoppedStays`), and one for each missed start (`Recovered`)? Does a task run again only if its record was lost (`RerunIfLost`)? | one task, one day and the midnight after it, one upset |

**Bounds.** One symbol is bought, sold, stopped out and bought again within 6 orders (a buy with its stop and a sell
are three), so the second position meets what is left of the first. Two shares are the least that fill in parts. Two
symbols and one slot make the limit bind, and 4 orders let each symbol be bought or one be bought and sold while the
other waits. `STOP_SETTLE_CHECKS` is 2 where the code has 4: one read that waits and one that gives up. The proofs
below do not depend on any of these.

For the runner, two slots and one symbol are the least over which exclusivity, the loop over slots and the hand-back
can go wrong, and `hand_back` needs the second symbol, the one nobody recorded. Two buys let both slots try, or one
try again after a halt. One crash separates two lives of the bot, and one request meets every stage of a tick; the
order of requests needs two, for which one slot is enough, each slot being treated alike.

For the two slots of a day: two symbols let one trade be booked before the other's step fails, and the sizes have a
flip in both directions, an exit, an adjustment the dead band skips and one that passes it;
the symbols are interchangeable, so the states are counted up to their symmetry; two packages let one follow the
other in one decision or on another day. Three processes are a crash, a restart on the same day and the next morning.

In `replay` five minutes hold the opening range, the entry times, the exit time and the flatten time; the second day
meets what the first left in memory and in the ledger; the five tapes rise, fall, gap and stand still, and a symbol
may be missing from a minute. One position at a time makes the two symbols compete. In `structures` strikes are as
dense as the steps, denser, coarser and with holes, spots on and between strikes, one or two expiries, quotes tight
and wide; every template has at most four legs, so a chain of a dozen strikes meets every rule. In `daily` three names are
the least a long-short rule takes, each seen with every hole and tie; four days hold two rebalances of every rule,
days without an open, and an account that is ruined. In `unattended` one day holds the morning's start, both
stretches of the watchdog's window, the end of the bot's day and a task's half hour, and a child process may still run
at the midnight after it; a bot installed before the morning's start has a heartbeat and a boot that are too old. One upset
is enough to lose a record or to unload an agent under its tick; the boots, the power losses, the owner's stops and
the bot's crashes are not bounded. `Recovered` gives up at any upset that follows, and is asked again after the last.

**Deadlock** is checked in `fills`, `faults`, `live`, `slots`, `controls`, `hand_back` and `replay`. It is off where a
behaviour ends: `overnight` and `packages` with the last process of the last day, `structures` with a sized
structure, `daily` with the last day of the replay, `unattended` at its horizon.

`fills` has the holdings check off, as a shadow slot has, so that what it shows is due to the settlement of the
stop alone. Its faults are what the code is written for; with the worse ones its properties fail, three of them as
shown below and, for `SoldWithinBought`, when a stop is still `pending_cancel` after the last check or cannot be
read, which `_settle_stop` names as the case in which it "sells as before". `OrderManagerProofs` (section 5) proves all four
for every number of symbols and orders and says exactly under which faults.

**Fairness.** In `live` an operation that has begun goes on (`GoesOn`): the bot is one thread and every
call has a timeout. `PollStart` is strongly fair: the runner polls on every tick (`runner.py:567`) whatever else the
tick does, but an action that needs the idle thread is not continuously enabled. `EntryTimesOut` is strongly fair
per symbol: time passes, so a buy read again and again is at last read past its timeout. The venue settles each
pending cancel and fills each market sell. Limit buys and stops have no fairness: they may never fill.

In `controls`, launchd starts the process again (`StartUp`), and the steps of a tick go on, since each call returns
or raises (`TickStep`). `ReadControls` and `FinishRequest` are strongly fair: the queue is not unreadable, nor the
outcome refused, on every tick for ever. A failing write of an outcome is what the run is about: the request is
applied again on the next tick and answered then. In `unattended`, launchd begins a tick at its interval when none is
under way (`TickBegins`), and the watchdog's calls have a timeout (`WatchdogStep`). Nothing else is fair: not the clock,
the machine, the owner, the bot or launchd's own starts, and neither the health check nor a task, which may run for
ever. So `Recovered` says nothing of a morning whose tick hangs in a child: then no later tick begins, and no start is
made up for (`operator_tick.py:60`, `71`).

### Where the code does not do what a text says

`hand_back` is a run, with its lines in `PROJECT.json`: one position nobody recorded makes the first live slot
forget, at a restart, those it had recorded. The configurations below are not among the runs; each finds its property
violated when it is run by hand, e.g. `tlc -config Runner_rest_of_day.cfg MCRunner`.

| Configuration, module | Property | What happens |
|---|---|---|
| `OrderManager_lost_trades.cfg`, `MCOrderManager` | `TradesHandedOut` | a failed order read inside a poll drops trades from the realised P&L the loss limit reads (`order_manager.py:219`) |
| `OrderManager_lost_fill.cfg`, `MCOrderManager` | `PartialFillKept` | shares that fill between the read of a timed-out buy and its cancel are in no book (`order_manager.py:245`) |
| `OrderManager_stuck_exit.cfg`, `MCOrderManager` | `ExitResolves` | a refused market sell leaves the position marked as exiting, without its stop, for the session (`order_manager.py:168`) |
| `Runner_rest_of_day.cfg`, `MCRunner` | `NoEntriesAfterHalt` | the halt is kept in memory: a restart on the same day lets the slots enter again, against `docs/features/14-operator.md:17` |
| `DailySlot_lost_ledger.cfg`, `MCDailySlot` | `LedgerComplete` | after a restart between the decision and the close, the day's ledger row has none of its trades |
| `OptionsSlot_counted_twice.cfg`, `MCOptionsSlot` | `SizedFromCash` | a decision that closes one package and opens the next sizes the new one with the closed one counted twice, in the cash and in `last_value`, against the comment at `options/slot.py:191` |
| `Operator_tried_twice.cfg`, `MCOperator` | `StartedOnce` | the watchdog records its attempt after the start: a write that raises is swallowed (`watchdog.py:215`, `operator_tick.py:53`) and a tick may end before it, so the next tick may start the bot again in the same boot and morning, against `watchdog.py:13-14` |
| `Operator_run_twice.cfg`, `MCOperator` | `RunOnce` | a task is marked done after it ran: a tick that is cut short or cannot write (`operator_tick.py:75`) lets it run again while it is due, against `operator_tick.py:6-7` |
| `Operator_dead_bot.cfg`, `MCOperator` | `DeadBotNoticed` | a bot that dies in set-up after its wait for the open leaves a heartbeat that never goes stale, against `docs/features/14-operator.md:40` |

Met while modelling, and kept out of the properties by a condition that says so:

* In a shadow slot, an order decided on one symbol's bar can fill in the same tick when its own symbol's snapshot comes
  later in the loop (`runner.py:559`; `shadow_broker.py:4` says the next tick). `NoLookAhead` is stated for the replay.
* When `on_session_start` fails in a replay, the opening-range strategy trades on yesterday's ranges
  (`backtest/engine.py:122-126`). The model has this case.
* The memory of the strategies (stops, targets, "decided today") is not stored: after a restart it is lost.
* The timed exit of the index strategy needs one more bar; `EndsFlat` counts from the first bar seen past the time.
* The flush at shutdown hands the strategy a bucket that is not full (`runner.py:786`).
* In the daily replay a ruined account (equity below zero) takes the other side of each target; a position whose name
  does not open on the day of a rebalance is kept until a later rebalance finds an open (`daily/engine.py:137`).
* A sector rotation with a moving-average filter may short the leader when the list is shorter than twice `top_n`; a
  combination scores a name that lacks a score by the mean of those it has. `RightSide` leaves both out (`Comparable`).
* What `Balanced`, `BookedOnce` and `Settled` exclude is real: a process that ends between the first and the last
  write comes back with rows and cash that do not belong together or books a trade twice. So is what `BookedOnce`
  leaves out with `undated`: a decision dated the day before is made again at each tick, and may book a trip each time.

## 5. Proofs

All are checked by TLAPS from the assumptions on the constants named in the modules: `Symbols` finite, quantities
positive, limits natural, `Faults` any subset of the ten. They hold for every number of symbols, orders and slots.

* `OrderManagerProofs`: `Inductive` (`Spec => []IInv`), and from it `TypeCorrect`. That a market sell in flight always
  has its position (a conjunct of `SymbolOK`) is not inductive alone: that a sell about to be submitted has it still needs the
  control state (`ControlOK`: what the program counter and the locals say of the book); that `close` finds its
  position needs the book to agree with itself (`BookOK`); and the trade record needs the orders (`OrdersOK`,
  `TradesOK`: an exit order closes one buy, and no other position comes from that buy). `IInv` is their conjunction.
  The proof has one lemma per group of actions and conjunct; facts about `Append` and about one-order updates are
  lemmas of their own.
* `OrderManagerProofs`, the limit: `SlotsBounded`. `IInv` gives that held and entering symbols are disjoint; then each step either
  leaves `Held \cup Entering` inside what it was, or is `_buy`, which checked the limit.
* `OrderManagerProofs`, the refinement: `Implements`: the initial state maps to the initial state, and under `IInv` every
  action maps to a step of `PositionLifecycle` or a stutter. `TradesOK` is what shows that an exit order is new.

* `RunnerProofs`: `SlotsExclusive`, `HaltedSlotsIdle`, `HaltsStand` and `RowsRecorded`, for every number of slots,
  symbols, requests, buys and crashes. (`RiskStands` speaks of a bot with an allocation: without one the
  monitor halts nothing.) `Exclusive`, `HaltedIdle` and `RiskStands` are preserved together with the
  types the steps need (`Typed`); `Recorded` is not inductive, because the rows are written slot by slot:
  `RowsInv` says that during the loop the slots before `turn` are written, and the one at `turn` has no row it
  does not hold. Most steps only shrink books (`Calm`: nothing enters and nothing appears; `Quiet`: no position is
  new), and the lemmas on these two relations carry the conjuncts across cancels, flattens and risk halts at once.
  What is left are the steps that grow a book: `Buy`, which `_exclusive` guards, and `StartUp`, where each symbol
  goes to the first slot that recorded it or, recorded by none, to the first of all.
  `StopsStand` has an invariant of its own (`QInv`), for `PauseStands` compares a request with every later one: what is
  pending is answered in the order of the ids (`InOrder`: below the oldest a reading has in hand nothing is pending);
  a stop in hand has halted the slots it has reached (`Applied`); and one that was carried out holds, slot by slot, until
  a later request to resume that has been answered lifts it (`Stands`). A restart ends the life the request was given in.
* `DailySlotProofs`: `BooksBalanced`, `TripsBookedOnce` and `DaysDecidedOnce`, for any symbols, sizes, days and
  restarts. None of the three is inductive. `Balanced` needs that memory is balanced whenever it may yet be saved
  (`Whole`: after a failed insert it is not, but then the day is over for this process), and that the database is
  touched only from the first trade to the last write (`Clean`). `BookedOnce` needs that a day whose decision is not
  saved has no trades outside that decision, and inside it none for the symbols to come (`Once`); a decision
  with prices on yesterday's panel is left out (`undated = 0`), and one without books none. `DecidedOnce` needs that a
  day that is due is not the one saved (`Undecided`).
* `OptionsSlotProofs`: `StructuresSettled`, `DueAreClosed` and `MarksOutlive`. `Settled` speaks of saved states only;
  `Booked` says of every step of a decision which of the four records (row, trade, legs, ledger) is already written,
  and rests on `Matched`: while a decision runs, memory and table have the same structures open but for the one in
  hand. A failed decision breaks that, and is harmless because it also gives up the day, so that nothing is decided
  before the next `load`. This is why at most one structure is open even when a write has failed. `Passed` follows the
  loop over the exits, for `DueClosed`; it assumes `CloseAfter > 0`, for a package due on the day it is opened is
  kept until the next. `Remembered` says that whatever mark was saved of an open structure is known to the process,
  which `PricedFromMark` needs of `_fallback_exit_value`.
  `CashBalances`: a step changes the cash and the row of one structure at different moments, so the invariant says of
  each step of a decision which of the two is ahead and by how much; `SumChanges` does the rest.
* `OperatorProofs`: `NoRetryOnRecord`, `NoRerunOnRecord` and `OwnerObeyed`, for any tasks, times, number of days and of
  upsets. No mishap is assumed away: any read or write may raise, and a tick may be cut anywhere by the power or with its
  agent; the theorems say what then still holds. The tick never asks for a later record than the boot and the morning
  would (a boot time that could not be read leaves the morning), and every attempt since then is on record, about to
  be, or counted in `lost` (`Recorded`): so a tick that finds no record finds that all attempts are lost. The owner is
  obeyed because a bot that ran left a heartbeat of this boot and morning, and a tick that begins later reads it
  (`Heard`). A run of a task is on record, in the hands of the tick that is running it, or in `torn`, and the tick's
  copy of the tasks done is the record itself while it runs (`Listed`). `Typed` and `Ticking` (what a tick has in hand
  at each of its steps) support all three.

* `SumTheorems`: what a sum over a finite set is (`SumType`), that it follows a change of one value (`SumChanges`), is
  monotone, strictly if one term is (`SumStrict`), is zero or one term when the others are zero, need not look where the
  function is zero (`SumOnPart`), lets a factor out (`SumScaled`), adds to another (`SumAdded`), is a term and the rest
  (`SumWithout`), and is the two, three or four terms of a short list (`SumOfTwo` and its like). The library's induction takes an operator as a parameter;
  here the induction is over a *set* of subsets (`SubsetInduction`: a set of subsets that has the empty one and, with
  each `T` less its chosen element, `T`, has all), and the sum is the library's own fold.
* `OrderManagerProofs`, the fills: the four properties of `fills`, for every number of symbols and orders.
  `TradesReachRunner` holds where reads do not fail, `PartsKept` where nothing fills between the read of a timed-out buy
  and its cancel; the two configurations of section 4 (`lost_trades`, `lost_fill`) show that both are needed.
  `NothingSoldTwice` and `TradesAreTrue` assume `Tame`: orders do not expire, cancels take effect at once and do not
  fail, nothing fills in between, reads do not fail, and orders are not both refused and filled in parts. Submits may
  fail or lose their answer, and the owner may close by hand. `Tame` is exact: TLC violates `SoldWithinBought` with
  partial fills and any one of the faults it leaves out. `TradesAreTrue` also assumes `Exact`, for where the holdings
  check meets a position its owner has closed, the trade is recorded and no share is sold.
  The invariant says per symbol and per trade (`HeldFacts`, `EntryFacts`, `TradeFacts`): a position is as large as its buy's fill; what the buy's sells have sold or may yet sell
  (`Claim`: all of a live order, the filled part of a dead one, nothing of a stop that waits for its buy) is at most
  that. So a market sell is submitted only when the stop's claim has shrunk to what it filled. `HoldOK` ties it to the
  account: shares held are what the buys have filled less what was sold, which is why the holdings check shortens no
  sell unless the owner has been before it.
* `DailyReplayProofs`: `FollowsTargets`, `GrossKept` and `RulesSided`, for any names, prices and parameters, and
  whatever a window shows. `FollowsTargets` is about sides, of names that opened, with an equity above zero; how much is
  held is `GrossKept`'s part, at any equity. `RulesSided` compares what a rule promises to compare (`Comparable`): it
  leaves out a filtered rotation of fewer than twice `top_n` names and combined scores of names that miss one. Assumed: the parameters have the ranges of their pydantic fields (`AreParameters`), a window
  gives whole numbers to some of the names (`IsWindow`; a volatility is not negative), prices are natural, and a name
  has both an open and a close on a day or neither (`daily/data.py:51`: one row of a table).
  `RulesSided` is no invariant but a fact about thirteen functions: one lemma a rule (`...Good`, together `TargetsGood`)
  says that every result is a series and that what it buys is worth, by some score the rule looks at, no less than what
  it shorts. Most rules cut the two ends off one ranking (`LongShortIs`); clusters are ranked one by one, so their ends do
  not meet (`GroupsAre`); the proportional and the inverse weights have the sign of a deviation, for their totals are
  positive (`ProportionalIs`, `InverseWeightsAre`); what beats another on every score does so on the sum (`SumStrict`).
  `WithinGross` needs that the targets waiting for the open are within `max_gross` (`Replayed`). They are, for the parts
  of a scaled weight are cut toward zero (`ScaledIs`), so is each position (`TargetIs`), and the sum of what is cut
  is no more than the part of the equity it is cut from (`SumsWithin`). It holds with an equity below zero too.
* `ResolverProofs`: `StrikesOrderedAlways`, `WithinMeansAlways`, `FillsCostAlways` and `RisksAreDeclared`, for any finite chains with
  prices in cents and one contract for each expiry, right and strike (`ChainsAssumption`: `chain.py:23` parses the symbols
  of one root for an underlying), any capital, and percentages up to 100. The invariant (`RInv`) says that each leg
  resolved is its template's, at the strike its rule gives on the grid of its expiry (`Placed`), which is why the table
  of templates is read leg by leg (`TemplatesAre`). On the grid, the strike nearest to a price changes in the middle of two
  neighbours (`NearestIs`), so it rises with the price (`NearestRises`) and a rule that is further out cannot land
  nearer (`StrikesRise`); on a grid as dense as the steps no rule collapses (`NoneCollapses`), and two targets a step
  apart cannot share a nearest strike (`StrikesApart`). `WithinMeans` is the arithmetic of three roundings.
  `FillsCostAlways` assumes that no quote has its bid above its ask (`Uncrossed`); `_liquid` would take one for
  liquid, and such a leg fills better than mid. Then it is leg by leg (`LegFills`) and a monotone sum.
  `RisksAreDeclared` is the theorem about what a unit may lose, and has two halves. The flags: what each of the 57
  templates buys and sells is counted from the table (`TemplatesTold`) and carried to the resolved legs, which have the
  templates' rights, sides and ratios (`Placed` keeps the ratio; a resolved unit has every leg). A sold leg is covered
  at its own expiry, for it is of the near one, and the chain's nearest expiry to a later target is no earlier
  (`ExpiriesRise`, `SoldFirst`). The loss: exercise values move no faster than the price (`EarnedNear`), so the payoff
  at any price between the ends of the grid is within a step's worth of one at a grid point (`PointBelow`,
  `NearTheGrid`); below the grid the sold puts, and above it the sold calls, are covered by bought ones, so the payoff
  is no less than at its end (`PayoffBeyond`). So the bound holds at every price, of which the property looks at
  the strikes and one dollar (`LossIsBounded`). `RInv` says of the bounds only that they are `_payoff_bounds` of the
  resolved legs.
  The allowance of a step is none of the proof's making: the code looks at 401 prices, and at a strike between two of
  them a unit may lose more than `max_loss` says.

Only model-checked: the liveness properties (TLAPS has no `ENABLED`), and the four of `Session`: `Accounts`,
`SellsTracked`, `EndsFlat` and `NoLookAhead`. There a step is a whole minute, a fold of polls, fills and decisions over
the symbols, the signals and the broker's orders, so an invariant of the steps is an induction over each of those
sequences, with a different invariant between two elements of each: the library's induction takes that invariant as an
operator, which the provers cannot instantiate. What `Accounts` and `SellsTracked` say of a single order at a time is
proved of the finer steps of `OrderManager` (`NothingSoldTwice`, `TradesAreTrue`).

## 6. Not modelled

* `features/`, `signals/`, the studies, sweeps and downloads in `scripts/`, greeks and implied volatilities, reports
  and metrics: sequential numerics or text, with no state that outlives a call.
* `data/market_data.py`, `data/universe.py` and their like: HTTP requests, caches and filters on lists.
* `ui/` and `web/`: views of the database. Their one write, a control request, is `Submit` in `Runner`.
* The universe of a running bot: `_refresh_universe`, `_warmup` and the seeding of history. `Session` starts with what
  its tapes print.
* The shutdown of a live slot, whose last polls are those of any tick, and the 2-second waits between them.
* Widths: prices are floats in the code and whole numbers here; no property is about rounding, but where the code
  cuts to whole shares or compares a price with a limit, the model does the same.

The status of each component, with what of it is left out, is under `components` in `PROJECT.json`.

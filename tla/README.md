# A TLA+ development of the Jarvis trading system

Jarvis is a paper-trading system for Indian equities and index options: a feed
delivers prices, the server turns them into bars, strategies and an LLM-driven
"brain" turn bars into orders, a risk gate sizes and filters them, and an
in-memory broker fills them and stops trading when the day's loss is too large.
Paths below are relative to `src/jarvis-trading-system/`.

This directory holds TLA+ modules translated from that code, the TLC
configurations that check them on small instances, and theorems about them
that TLAPS checks for every value of the constants.

## 1. Inventory

### How the program runs

There is one asyncio event loop. The Dhan feed has a thread of its own and
posts every tick to the loop. The locks of the broker and of the intent log
guard bodies that contain no `await`, so they are never contended: **every
method of the broker, every `_on_tick`, `_on_bar`, `_on_signal`, every monitor
check and every HTTP handler that calls no LLM is one atomic step of the
loop.** What can be interrupted is:

* a sequence around an LLM call (`AIRouter`, and so the brain's decision cycle,
  the guardian, the sentinel and the advisor), around a database call
  (`PnLTracker`), a sleep, or a send on a socket;
* the kill switch: `update_ltp` sets the flag at once, but only *posts* the
  square-off (`call_soon`, then `ensure_future`), so other handlers can run in
  between;
* the feed thread, between any two of its callbacks.

### Components

| component | state | operations | correct when |
|---|---|---|---|
| **Paper broker** `core/broker/` | `_orders`, `_resting`, `_positions`, `_ltp`, `_capital`, `_fills`, `_killed`, `_kill_switch_amount` | `place_order`, `cancel_order`, `cancel_all_orders`, `update_ltp`, `square_off_all`; the routes write `_killed` and the threshold directly | no order is lost, filled twice or missed; orders, positions, cash and fills agree; a loss is noticed and squared off; nothing is accepted after the kill |
| **Trading engine** `server/ws_server.py`, `server/termux_server.py` | time of the last signal per strategy, symbol and side; regime and bar counter; disabled strategies, selected symbols | `_on_tick`, `_on_bar`, `_on_signal`, `manual_kill`, settings routes, background loops | a signal becomes at most one order, only through the gate; a kill stops trading |
| **Risk gate, Kelly sizing** `core/risk/` | thresholds copied at construction, the fraction | `check`, `size` | limits bind whatever the order of signals; sizes stay within capital |
| **Trade monitor, executor** `ai_brain/trade_monitor.py`, `action_executor.py` | one `MonitoredPosition` per symbol: stop, target, trail, expiry | `add`, `remove`, `check`, `signal_reversal`, `execute`, `close`, `process_exits` | a watched position exists and is watched in its own direction; stops only tighten; an exit closes once |
| **Decision pipeline** `signal_scanner`, `shortlister`, `analyst`, `decision_engine` | counters of the session | `run`, `decide` | a decision that is acted on is still valid after the LLM call |
| **Guardian, sentinel, advisor, selector** | last reviews, pause flag, suggestions | `review_all`, `run_once`, `accept_suggestion`, `select` | automatic actions only tighten; accepted settings stay in safe bounds |
| **Cost throttle** `ai_brain/cost_throttle.py` | spend, call counters, mode, cache, state file | `can_call`, `record`, `get_cached`, `reset_day`, `_load` | the day's budget is not overrun; the mode follows the spend, across restarts and days |
| **AI router** `ai_brain/ai_router.py` | response cache, cost records | `_call_for_step`, `_call_analyse`, `_consensus` | one answer per request, the fallback is tried when it should be, each call is accounted once |
| **Dhan feed** `core/feeds/` | subscriptions, ticks received, connection, fallback flag | `start`, `add_instrument`, `remove_symbol`, `_connect_loop`, `_fallback` | every registered symbol is eventually subscribed, and prices never stop for good |
| **Bar aggregation** in both servers | the bar being built per symbol | `update` | bars are closed in order and contain the ticks of their interval |
| **Strategies** `strategies/` | price windows, opening range, trade results | `on_bar`, `push`, `stats` | a range belongs to one symbol and one day; at most one breakout per side |
| **Intelligence** `intelligence/` | trade windows, streaks, allocation, regime | `check_decay`, `compute_allocations`, `should_rotate` | a strategy is degraded by its own losses; allocations stay within capital |
| **P&L tracker, intent log** | SQLite tables, a JSONL file | `record_trade`, `get_daily_pnl`, `_write` | append-only; sums agree with the rows |
| **Brain versions, shadow tests** `ai_layer/` | numbered files, `current` link, metrics, shadow state file | `save_version`, `rollback`, `start_shadow`, `update_*` | an incomplete save is never taken for a brain; a window survives a crash |
| **Learning** `ai_layer/rl_agent.py` etc. | tables and a ring buffer | `act`, `learn`, `push` | numerical code |
| **Settings, HTTP/WS, dashboard** | JSON file, sockets, UI state | | input and output |

Interactions: feed → engine `_on_tick` → `broker.update_ltp`, monitor `check`
(and so `executor.close` → `broker.place_order`), then bar aggregator →
`_on_bar` → strategies → `_on_signal` → risk gate → `broker.place_order`. The
brain loop reads the shortlist and the books, awaits an LLM, and calls
`executor.execute` → `broker.place_order`, `monitor.add`. Routes call
`square_off_all` and write the broker's `_killed` and `_kill_switch_amount`.

What is hard: the deferred square-off against everything else; resting orders
that outlive the state they were placed in; the monitor's view of positions
against the broker's; decisions that are stale when the LLM answers; the
throttle across days and restarts; the race of two models with a timeout; the
feed's reconnection and fallback; files replaced in several steps. Every such
place is listed with its line under `hazards` in `PROJECT.json`.

## 2. Plan

The most important behaviour first; each line is a component or a composition.
Everything listed is written, checked and, where it says so, proved.

| modules | composed of | abstract specification | proofs |
|---|---|---|---|
| `PaperBroker` | | `OrderLedger` | `PaperBrokerProofs`, `BrokerBooksProofs` |
| `AIBrain` | `BrokerView`, strategies, guardian, routes | `TradeMonitor` | `TradeMonitorProofs`, `AIBrainProofs` |
| `TradingEngine` | `RiskGate` over `PaperBroker`, bars, strategies, routes | `OrderLedger`, `BrokerView` | `TradingEngineProofs`, on top of the broker's |
| `BudgetedCalls` | `CostThrottle`, `AIRouter`, their callers | | `BudgetedCallsProofs` |
| `DhanFeed` | `ScripMaster`, the feed's thread, `start()`, routes, stand-in | | `DhanFeedProofs` |
| `SavedState` | `BrainVersions`, `ShadowTester`, `Tuning` | | `SavedStateProofs` |

Every safety property that a run checks is proved. `AIBrain` and `TradingEngine`
meet in `BrokerView`: the one builds its handlers from it, the other implements it.
What is left: liveness, which only TLC checks (section 7), the hazards that
`PROJECT.json` lists without a property, and one specification of the brain and the
engine running together, whose product TLC cannot enumerate.

## 3. Modules

### OrderLedger.tla
The promise of `base_broker.py` about an order, without prices or positions: it
is refused, or works until it is executed in full or withdrawn, once. A step may
change many orders, because one price can execute several.

### PaperBroker.tla
`core/broker/paper_broker.py` with the records of `base_broker.py`.

| code | model |
|---|---|
| `_orders` (insertion-ordered dict) | sequence `orders`; an order's id is its index |
| `_resting[symbol]` (list of ids) | set `resting[symbol]`; ids are appended and filtered, so a bucket is always in order of placement and the set says everything |
| `_positions`, `_ltp`, `_capital`, `_fills`, `_killed`, `_kill_switch_amount` | variables of the same names; a missing position is the all-zero record, a missing price is `NoPrice` |
| a `call_soon(_square_off_unlocked)` not yet run | one unit of `squareOffs` |
| `_apply_fill` | `Executed` (the order) and `ApplyFill` (position, cash, fill) |
| `_try_fill_resting` | `ScanOrders`, `ScanBucket` and `ScanAccount`, the last a fold over the bucket in order of placement, each fill starting from the account of the one before |
| `place_order` | `TripOnPlace`, `RejectOrder`, `FillMarketOrder`, `RestOrder`: its four ways out that change state |
| `update_ltp`, `cancel_order`, `cancel_all_orders`, `square_off_all` | `UpdateLtp`, `CancelOrder`, `CancelAllOrders`, `SquareOffAll` |
| the posted callback | `RunSquareOff` |
| routes for the kill reset and the threshold | `ResetKillSwitch`, `SetKillAmount` |

Abstractions. Money is an integer (paise) and the division of the average
price and of slippage is integer division; the code has floats. The average of a
purchase loses less than one unit per share held, so `LongBookBalances` conserves
value up to the sum of those remainders (`Rounding`); no other property depends on
exact quotients. Timestamps, order ids, messages and the statistics of the
snapshot are left out. Every open position is visited by a square-off in an
arbitrary order (`Visits`); each order closes its own position, so the
positions do not depend on it. The guards `Placed < MaxPlaced` and
`squareOffs < MaxSquareOffs` are bounds of the model, not of the code.
`Executed` keeps the status test of line 105 although a partial fill cannot
arise.

### MCPaperBroker.tla
The instance: seven requests, one for each case `place_order` distinguishes, and
prices whose averages do not come out even.

### BrokerView.tla
The same broker as a handler of the server sees it: quantities, prices, the flag
and the number of posted square-offs. A *view* is what a handler finds and leaves of
it for one symbol; `AfterPrice` and `AfterOrder` say what a call can make of a view, so
that a handler that calls the broker several times is still one step. Whether
a call finds the daily loss is left open. An order is filled at once or refused, which
is true of the server because it trades at the market and only what has a
price; `TradingEngineProofs` proves that `PaperBroker`, as the engine calls it, behaves so.

### TradeMonitor.tla
`ai_brain/trade_monitor.py`: what one watch is, how a price moves it, when it
ends, and `MonitorSpec`, the life of the table of watches whatever the rest of
the program does: a watch begins on an unwatched symbol, is moved by ticks of
its symbol and by time only, and ends at an exit. `AIBrain` implements it.

| code | model |
|---|---|
| `_positions` | partial function `watched`; its domain is `monitored_symbols` |
| `MonitoredPosition` | a record of `Watch`; `opened_at` and the clock are `age`, `stop_loss_price` and `take_profit_price` are functions of the entry (`StopLevel`, `TargetLevel`) |
| `add`, `remove` | `NewWatch` with `Watching`, `Unwatch` |
| `update_price` | `Priced` |
| `activate_trail`, `update_trail` | `Trailed`, with `TrailTriggered` and `TrailLevel` |
| `check` | `Checked`, then `Exits` |

Percentages are per mille and a level is a price times 2000, so that the
comparisons the code makes with floats, half of a stop distance included, are
exact. The order of the tests in `check` decides only which reason is
logged, so `Exits` is a disjunction.

### AIBrain.tla
The brain of `server/termux_server.py` and everything that trades beside it, on
the positions of one broker.

| code | model |
|---|---|
| `_run_ai_brain` up to its first LLM call | `StartCycle`: the shortlist is computed from the books of that moment (`Passes`: H5, H6 and H7 of the shortlister) and kept in `todo` |
| what follows each LLM call | `Decide`: one entry of `todo`; `Decisions` are the clamped answer, the rules fallback, or flat |
| `ActionExecutor.execute`, `close` | `Execute` and `Open`, `AfterClose` |
| `_on_tick` | `Tick`: the price and the loss test, then the signals of the bars it completes, then the monitor and its exit, in one step |
| `_guardian_loop`, `review_position`, `_close_position` | `StartReview`, `Review`: positions are read before the LLM calls and closed after them, in any order (`asyncio.gather`) |
| posted square-off; routes | `RunSquareOff`; `ManualKill`, `ManualClose`, `ResetKillSwitch`, `ToggleBrain` |

Of the broker it keeps what `BrokerView` keeps. The loss test is nondeterministic:
whenever the code computes the day's P&L, the model may find it too low. Every
order of the server is a MARKET order for a symbol with a price, so it is filled at
once or refused, and nothing rests. Sizes come from a set: `execute` takes at least one
lot, so an actionable decision is never sized to zero. `capital <= 0` gives the
same result as a flat decision. The guardian's `auto_execute` can be switched at
any time, so a review may close or not. What the scanner finds is any entry: H1
to H4 depend on bars the model does not have. A strategy trades at most once per
tick.

### MCAIBrain.tla
The instance: two symbols, and three answers of an LLM: one whose stop is too
wide and whose target is too near, one at the threshold of conviction, one below.

### RiskGate.tla
`core/risk/kelly_sizer.py` and `core/risk/risk_manager.py` as functions of the
broker's books: `Size` is `KellySizer.size`, `Approved` the waterfall of
`RiskManager.check`, with one operator per check (`GateOpen` for the first four,
`TradeCap`, `SymbolCap`, `StrategyCap`, `TooManyOpen`). No caller reports a
closed trade to a strategy, so the statistics the sizer uses are always its
bootstrap ones and the Kelly fraction is a constant. `gateAmount` is the risk
manager's own copy of the kill threshold, which no route changes.

### TradingEngine.tla
The path of a tick through `server/termux_server.py`, around `PaperBroker`, whose
actions it uses as they are.

| code | model |
|---|---|
| `_on_tick`: `update_ltp`, then `BarAggregator.update` | `Tick`, with `Closed` (the bars it closes, in the order of `_INTERVALS`) and `Align` |
| `_on_bar` | `OnBar`: regime, selection, the strategies that are shown the bar |
| a strategy's `on_bar`, and `_on_signal` | `NoSignal`, `Repeated` (inside the window), `OnSignal` (recorded, sized, checked, placed) |
| the posted square-off | `SquareOff` |
| routes: strategies, selection, kill, close, reset, settings | `ToggleStrategy`, `ToggleAuto`, `Override`, `CloseAll`, `ClosePosition`, `ResetKill`, `PostKillAmount`; the five-minute loop is `Intelligence` |

A tick is handled to its end before anything else runs, so `bars` and `todo` are
what is left of it and every other action waits for `EventLoop`. Splitting the
tick this way adds no interleaving and keeps each action the size of one
handler. The classifier's regime and what a strategy makes of the prices
of a bar are any result they can return. Of the strategies' memory the model
keeps what decides when the two breakout strategies may signal: `range`, whose
bars the opening range was made of (`Remembers`), and `fired`, the sides that broke
out (`BreaksOut`). A behaviour lasts one session. The AI brain is off (`AIBrain` is about it), which with
lots of one also makes this the engine of `ws_server.py`, an earlier twin.
Left out: allocations, which are only displayed, and the gate on
`active_symbols`, because the feed marks a symbol active before it posts its tick
(`DhanFeed` models the removal of symbols).

### CostThrottle.tla, AIRouter.tla, BudgetedCalls.tla
`CostThrottle` is `ai_brain/cost_throttle.py`: `Record` (with `_check_thresholds`
and `_evict_expired`), `GetCached`, `ResetDay`, `InvalidateCache`, and `Load`, what a
restart makes of the state file, which may be unreadable and whose last write
may have failed. Only today's entry of the spend is ever read, so it is one
number; a new day sets it to zero and changes nothing else, as in the code.

`AIRouter` is `ai_brain/ai_router.py`: per caller the stage of one `call()` and the
attempts it makes on the models. An attempt ends with an answer, an error, or
is cancelled; the step in which the coroutine goes on is an action of its own,
so that an answer can arrive between a timeout and its handling. The paths are
`primary` (primary under `wait_for`, then the fallback), `analyse` (primary behind a
shield, racing the secondary after its timeout), `fallback` and `consensus`
(both, disagreement is an error).

`BudgetedCalls` composes them with their callers: deciders (`DecisionEngine.decide`:
throttle, cache, router, record), watchers (sentinel and advisor: throttle, router,
no record) and unbudgeted ones (the guardian). A restart at any moment loses
what was in flight. The server takes `analyse`, `fallback` and `consensus` only if it
is constructed or called so; the instance has a client for them. A secondary
model is always configured.

### ListFilter.tla
The list comprehension `[x for x in xs if ...]` as a recursive function, `Kept`.
`SelectSeq` does the same, but no prover expands it. `TradingEngine` (the bars that
a tick closes, the strategies of a timeframe) and `ScripMaster` filter with it.

### ScripMaster.tla, DhanFeed.tla
`ScripMaster` is `core/feeds/dhan_instruments.py`: `Load` (cached copy, download,
stale copy, nothing), `Parse` (drops expired rows and sorts by type and expiry, as a
stable insertion), `Search`, `RawHits`, and `InstrumentMap`. A search scans the parsed
list until it has met more than three times its limit, puts exact matches before
those that start with the query and those that contain it, and cuts at the limit.
What matches is a relation between underlyings (`Longer`, `Within`). Left out: the
third sort key, the trading symbol, so that rows of one type and day keep the order
of the file; and the two limits of the callers (5 and 20) are one constant. A stale cached copy is not
a list of its own: what is loaded, from wherever, is any one of `Listings`.

`DhanFeed` is `core/feeds/dhan_feed.py`, three processes over shared fields.

| code | model |
|---|---|
| `start` | `StopWaiting`, `Resolve`, `Preflight`, `Launch`: one action between two awaits |
| the thread: `_run`, `_connect_loop` | `Connected`, `Refused`, `Greeted`, `Subscribed`, `Received`, `PassOn`, `ReceivedOther`, `ReceivedNothing`, `Disconnected`, `Retry`, `ThreadExits` |
| `add_instrument`, which blocks the event loop up to 5 s | `Add`, then `Sent` or `AddFails`; meanwhile `LoopFree` is false |
| `remove_symbol`, `stop` | `Remove`, `Stop` |
| `_fallback`, `SimulatedFeed` | `StartSim`, `SimRound` |
| the network and the exchange | `alive`, `served`, `Drop` |

The list to subscribe is built in one step of the thread and sent in another;
a tick is looked up in one and passed on in the next. Two history variables hold the
additions answered with success and not taken back: `early`, while `start()` still
waits or resolves, and `late`, since. A symbol already registered is answered with
success too, and counts. The map that `Resolve` installs replaces what was registered, and
changes neither history. A symbol stands for its security id, by which the code
registers: a second contract under one name is left out.

### BrainVersions.tla, ShadowTester.tla, Tuning.tla, SavedState.tla
What the program keeps in files. `BrainVersions` is `ai_layer/brain_versioning.py`,
one action per file operation of a save or a roll-back. `rollback()` and
`should_rollback()` are separate, and nothing in the repository calls both: `BeginRollback`
is guarded, like the code, only by there being two versions. `ShadowTester` is
`ai_layer/shadow_tester.py`: its state file is opened, which empties it, and then
filled. `Tuning` is the settings file of `termux_server.py` with its routes and
`accept_suggestion` of `ai_brain/meta_advisor.py`. The routes write
`_kelly_fraction`, the sizer reads `kelly_fraction`: two variables here, `shadowed`
and `sizer`. Of the settings those are kept that change while the server runs,
and whether the credentials are still there. Of the advisor's suggestions the model keeps
the Kelly fraction, the kill-switch percentage and the guardian's switch; accepting one of
the others only adds a value to the file that nothing reads.

`SavedState` puts them side by side. They share nothing, so a behaviour follows
one of them (`part`), with a crash between any two of its steps; anything else
would only multiply their states.

### The MC modules
`MCPaperBroker`, `MCAIBrain`, `MCTradingEngine`, `MCBudgetedCalls`, `MCDhanFeed`,
`MCSavedState` give the constants of the runs; section 4 says why they are enough.

### The proof modules
`PaperBrokerProofs`, `BrokerBooksProofs`, `TradingEngineProofs`, `TradeMonitorProofs`,
`AIBrainProofs`, `BudgetedCallsProofs`, `DhanFeedProofs` and `SavedStateProofs` hold the
theorems of section 6. Each extends its component; the engine's extends also the
broker's two, whose lemmas it uses.

## 4. Runs

| run | checks | bounds |
|---|---|---|
| `broker` | type invariant, five invariants, two action properties, refinement of `OrderLedger`, `KillIsSquaredOff` | two symbols, three ticks, seven requests, three placements, one reset of the flag while a square-off is waiting, two thresholds; 1.1 million states |
| `brain` | type invariant, two invariants, five action properties, refinement of `MonitorSpec` | two symbols, three prices of the one and one of the other, three answers, quantities within one share, one entry per cycle, one position at most through the shortlist, one step of holding time; 0.6 million states |
| `engine` | type invariant, `OrdersSpaced`, two action properties | two symbols, three prices, three strategies on two timeframes, six units of time, four ticks, three orders, two requests; 5.2 million states |
| `llm` | type invariant, four invariants, one action property, `CallsEnd` | one caller of each sort, one prompt, a budget of two answers, one change of day; 0.3 million states |
| `feed` | type invariant, three invariants, `InstantDisconnectsFallBack` | one share, one commodity with a namesake on either side, two lists, a search limit of two; 0.5 million states |
| `saved_state` | type invariant, three invariants, one action property | three versions, two brains in the shadow test, four days, Kelly fractions inside and outside the sizer's range; 0.7 million states |
| `reversal`, `kill_on_loss` | one claim of the broker's comments each, violated | as `broker` |
| `opening_range` | the header of a strategy, violated | as `engine`, with an opening range of two bars |
| `throttle_new_day` | a comment of the throttle, violated | one decider |
| `feed_gives_up` | a log message of the feed, violated | as `feed` |
| `feed_early_addition` | a docstring of the feed, violated | as `feed`, with a symbol only the user adds |

### Why the bounds are enough

Three orders are the fewest with which a stop becomes a limit order next to an
older resting order while a position is open and two fills happen in one scan;
the two prices of `A` are on both sides of every limit and trigger, so that a
tick can cross either; the quantities 1 and 2 give increases, partial closes,
full closes and reversals; the thresholds 10000 and 30000 lie below and above
the loss of one share over the move, so the switch fires for one and not for
the other, and can be moved under an open loss. The second symbol makes the
loss a sum over positions and the square-off visit two of them.

`broker` shows: no OPEN order is ever outside its bucket and no ended order in
one (`RestingMatchesOrders`); no price passes over an order it should have executed (`NoMissedFill`); no
limit is exceeded (`FillsRespectLimits`); what orders executed, what positions
hold and the cash are the sums of the fills (`BooksReconcile`); value is
conserved, up to the rounding of averages, for a book that is never short
(`LongBookBalances`); a tick never
leaves an unnoticed breach (`TickNoticesBreach`); a square-off only closes
(`SquareOffOnlyCloses`); orders live as `OrderLedger` says
(`ImplementsLedger`); the square-off that a losing tick posts is carried out and closes
every position (`KillIsSquaredOff`).

For the brain: with the prices 989, 1000 and 1010 of `A`, in both directions and
from some entry, one tick reaches the 1% stop of the rules, two reach their 2%
target, one triggers their trail and the next comes back to it; the wide answer
(long, stop 2%, target 4%) triggers its trail after two ticks and comes back to
it. A tick of exactly 1% separates a trail that starts too early from one that
locks in a profit. One
step of holding time separates a fresh watch from an expired one. The second
symbol lets a cycle, a review or a square-off concern several positions at
once. In `brain` a cycle has one entry,
because a second only repeats `Decide` with an older shortlist; a shortlist may
be arbitrarily old already, since everything else may happen before `Decide`.

`brain` shows: no watch is missed, loosened or touched by anyone but its own
ticks and exit (`MonitorSpec`, `NoExitMissed`, `StopNeverLoosens`,
`TrailLocksInProfit`), also not by strategies that trade the watched symbol, by
manual and automatic closes, by the kill switch and its reset; every price is
checked while the brain is on (`EveryTickIsChecked`); an exit closes what is
held at that moment, also when the same tick made a strategy trade
(`WatchEndsFlat`); late closers only close (`LateClosersOnlyClose`); the kill
switch stops what was in flight (`KilledOnlyFlattens`). No run of the brain
assumes fairness.

For the engine: a unit of time is half a minute, so that two bars can close inside
the window of de-duplication; the second timeframe is one and a half minutes, so
that bars of both close in one tick and a bar that closes late is followed by the
next within the window. Of the three strategies one may repeat itself and two
break out once; the opening range has one bar, so that there is time left to
break out. The price 200 doubles the loss of a short of `A`, `B` has lots of two, so
that a cap breaks a lot, and with at most one open position the second symbol
meets the limit of positions.
`Intelligence` counts as a request because nothing else bounds it. Two
requests are enough to reset a fired switch and move its threshold, to close
everything and reset, and to reset twice. It stops at its bounds
(`CHECK_DEADLOCK FALSE`). It shows that orders of one strategy, symbol and side
are a whole window apart although a signal is recorded before anything is known
of its order (`OrdersSpaced`); that each purchase stays within its caps also when
two strategies trade one symbol in a tick (`BuysStayCapped`); that a day lost at the
gate's own threshold stays lost whatever is reset or posted (`LossEndsTheDay`).

For the callers: each of `brain`, `sentinel` and `client` takes other paths of the
router, and the three interleave; a budget of two answers is reached by one
consensus or two single calls, and overrun by one more; one prompt is enough,
since an entry of the cache is never affected by another prompt except that
both age; with a lifetime of zero an answer is fresh in one step of the clock
and expired in the next; one change of day has a before and an after, with calls
in flight across it. `llm` shows: the mode never lags behind the spend
(`AiMeansBudgetLeft`), the file never behind memory after a write that succeeded
(`FileAgrees`), the overrun is what was in flight (`OverrunBounded`); what a call
gives up is cancelled (`NoStrayAttempt`) and no answer already there is thrown
away (`NoAnswerDiscarded`); every call ends (`CallsEnd`).

For the feed: a configured share; a future with expired, near, far and undated
contracts and options in front of them in the file; a namesake that starts with
its name and one that contains it, each with a contract of the near month; a search
limit of two, so that the result is cut and the scan, which stops at the seventh
hit of eight, never meets the last; a list without a live contract, so that the map can be empty and the stand-in starts at once;
three instant disconnects as in the code. `feed` shows: once a connection is
established, every registered symbol, from the map or added, is served or about to be asked
for, and so is every addition accepted since the map was there, between the list and its
sending, between two connections, or repeated after its message failed
(`NoSubscriptionLost`; the additions accepted earlier are `feed_early_addition`); simulated and live prices never mix (`SourcesNeverMix`); the
contract is the near month (`NearestContract`). The feed may stop or give up, and
then nothing is left to do (`CHECK_DEADLOCK FALSE`).

For the saved state: with three versions a roll-back goes to one that is neither the
first nor the last; the ratios 0, 1 and 2 are on both sides of 5 % and 95 %; a
window of two days in a calendar of four can be whole, cut short or started
again; posted fractions 0 and 50 and suggested 0, 50 and 200 are outside, inside and
beyond what sizer and bounds take. `saved_state` shows: an
incomplete save is not current while it is the newest (`NewestIsWhole`), and never what
`should_rollback` recommends to go back to (`AdviceIsWhole`); a promotion rests on its
own window and report, whatever was started or restored in between
(`PromotedOnItsOwnRecord`); only a value posted by the operator keeps the
server from starting (`OnlyTheOperatorStopsTheServer`).

### Fairness

* `WF_vars(RunSquareOff)` (`broker`): asyncio runs every callback posted
  with `call_soon`. Nothing is assumed of ticks, callers or the operator.
* One `WF_vars` per caller on the steps of its call, `Router`, `Answered` and `Raised`
  together (`llm`): every attempt has a hard timeout, so some step of the call
  comes, and the event loop resumes a coroutine whose wait is over. Nobody is
  obliged to ask, to answer in time, or to let days pass.
* `FairSpec` of `DhanFeed` (`feed`): `start()` and the thread go on, a connection attempt
  ends one way or the other, an addition waits at most 5 s, a posted stand-in
  starts. Nothing makes the exchange accept, serve, tick or keep a connection.

The other runs assume none.

## 5. Where the code and its comments disagree

Each is a run that ends in a violation:

* **A reversal keeps the old average** (`reversal`). The test of lines 146-147
  asks for the wrong sign, so after selling through zero the short carries the
  price of the closed long, and its P&L is computed from it.
* **The switch fires on a loss that is not there** (`kill_on_loss`). After a
  partial close `unrealized_pnl` still has the whole position's value, until the position is
  marked again; a later order, or the test at the end of the very tick whose scan filled
  the close, counts the realized part of the loss twice.
* **Symbols share one opening range** (`opening_range`). There is one object of each
  strategy for all symbols, and `ORBBreakout` collects its range from whatever
  bars it is shown; three bars of three symbols are a range of their prices. The
  windows of all strategies and the once-per-session flags are shared alike.
* **A new day does not bring the AI back** (`throttle_new_day`). The mode is
  restored in `record()` only, and in `rules_only` nothing is asked, so nothing is
  recorded: decisions stay with the rules until a reset or a restart.
* **A feed that worked gives up without a stand-in** (`feed_gives_up`). The log
  announces simulated prices; `_run` starts them only if no tick was ever received.
* **An addition accepted too early is lost** (`feed_early_addition`). While `start()` waits
  for the instrument list, up to 45 s, or resolves it, an addition is registered, "queued for
  next connection", and reported as subscribed. Then the map replaces what is registered
  (lines 189-193): no connection subscribes to the symbol, while it stays in the list shown to
  the user.

Seen in the code, where one module cannot show it: `risk_manager.py` says in its docstring
that every order passes through `RiskManager.check()` before reaching the broker. The orders
of the AI brain, which is on by default, and of the operator's routes do not:
`ActionExecutor.execute` sizes and places its order itself. What `TradingEngine` shows of the
gate, `BuysStayCapped` and `LossEndsTheDay` above all, therefore holds with the brain off only.

Seen in the models, without a run of their own: a MARKET order that was queued
for want of a price is never filled, although the comment at
`paper_broker.py:265` says the next tick will (the scan has no case for it);
orders already resting are filled after the kill switch fired and reopen
positions; the shortlister blocks a symbol held in the direction of the scan
while the order goes in the direction of the answer, so the brain can add to a
position, and one cycle tests every symbol against one count of the open
positions, so that it can exceed the maximum; accepting a suggested Kelly fraction changes an attribute that nothing
sizes by until the next start, and a suggested kill-switch percentage nothing but the file,
although `_apply_tweak` is there "to apply accepted tweaks live" (`Tuning`); `rollback()`,
called without asking `should_rollback`, makes the version before the last the current one
whatever its files are, so that after a save that was cut off and another the current brain
is torn, although it says that it restores the previous version (`BrainVersions`); a symbol added after the stand-in
started has no price there and ends its loop (`SimRound`).

## 6. What is proved

### The broker

In `PaperBrokerProofs.tla`, for every set of symbols (finite), strategies,
ticks and requests, and every capital, threshold and slippage that the three
ASSUMEs of `PaperBroker` allow: ticks are priced, requests are well typed and
no caller is called `KILL_SWITCH`, slippage is below 100%.

| theorem | property |
|---|---|
| `BookInvariant` | the inductive invariant of the order book |
| `TypeCorrect` | `TypeOK` |
| `NoOrderIsLost` | `RestingMatchesOrders` |
| `FillsAreWhole` | `FilledWholeOrNotAtAll` (not in a run) |
| `NoFillIsMissed` | `NoMissedFill` |
| `KilledAdmitsNothing` | `KilledAcceptsNoOrder` (not in a run) |
| `SquareOffCloses` | `SquareOffOnlyCloses` |
| `NoTickIgnoresLoss` | `TickNoticesBreach` |
| `LedgerRefinement` | `ImplementsLedger` |

The argument. `BookInv` is the type of the order book together with
`RestingMatchesOrders`, `FilledWholeOrNotAtAll`, `NoMissedFill` and a
strengthening, `OpenOrdersAreValid`: an OPEN order asks for a positive quantity
and a stop has a trigger. Without it the others are not inductive: an open
order for zero shares would be executed as one for a positive quantity, and a
stop without a trigger would turn into a limit order whose zero trigger
exempts it from nothing. There is one lemma per action, and the lemmas about a
scan (what it leaves of an order, what it leaves in a bucket) serve both
`RestOrder` and `UpdateLtp`. The money half of the type invariant needs that
the recursive functions `run` and `cash` have values: their recursion is over
`0 .. n`, and the lemmas prove it by induction over the subset of indices where
the claim holds (a set, so that the induction theorem needs no operator
parameter). `SquareOffOnlyCloses` follows from the arithmetic of `Reduce` for a
closing order of exactly the held quantity. The refinement shows that each
action maps each order to itself, to an execution or to a withdrawal.

`BrokerBooksProofs.tla` adds the books, from the same assumptions:

| theorem | property |
|---|---|
| `BooksInvariant` | the inductive invariant of the books |
| `FillsWithinLimits` | `FillsRespectLimits` |
| `BooksAgree` | `BooksReconcile` |
| `LongBooksBalance` | `LongBookBalances` |

The argument. `Booked` says of a table of orders, a holding per symbol, an amount of
cash and a list of fills that each fill names a FILLED order of the table at a
price within its limit, that what an order executed is the sum of its fills, that a
holding is the sum of the signed fills of its symbol, and that the cash is the
capital less their cost. It takes
these as arguments and not from the variables because a price or a square-off
executes many orders in one step, and the induction over the turns of that step
speaks of books that no state ever holds: the table after the first *k* orders of the
scan, with the account after them (`ScanAccount`), and the table with *k* closing
orders appended. That a fill names a FILLED order is the strengthening: nothing
changes such an order and no second fill can name it, so what the earlier fills
add up to stays what it was. The sums themselves are those of the community
modules; they are related to a function with the two facts that matter, that it is
zero on the empty set and that an index adds its own value, by induction over the
size of the subsets. In these sums prices and quantities are multiplied but never
divided, so that rounding does not enter.

`LongBookBalances` is where it does. The *worth* of a position is what it holds, at
average cost, less the profit it has realized. A fill adds its cost to the worth of
its position: a sale exactly, because it leaves the average alone; a purchase
but for the remainder of the new average, which is less than the shares then held.
`Balanced` adds this up over the symbols: the worth of all positions and the cash
make up the capital, less at most the remainders of the purchases so far, as long as
no symbol was ever short. It is a part of `Books`, the inductive invariant, and so is
carried through the turns of a scan and the closings of a square-off like the other
sums. For a short position it is false: a purchase that takes one through zero keeps
the old average (run `reversal`), which is why the property excludes them.

### The engine

`TradingEngineProofs.tla` proves of `EngineSpec`, for every finite set of symbols, every list
of timeframes with their intervals and strategies, any regimes (one of which is
`UNKNOWN`), lots, Kelly fraction, window, ranges and bounds:

| theorem | property |
|---|---|
| `EngineInvariant`, `EngineTypes` | the inductive invariant; `EngineTypeOK` |
| `WindowIsKept` | `OrdersSpaced` |
| `BuysAreCapped` | `BuysStayCapped` |
| `DayEndsWithLoss` | `LossEndsTheDay` |
| `PurchasesArePaid` | the purchase of a strategy costs two fifths of the cash at most and never overdraws it (not in a run) |
| `EngineBooks` | `RestingMatchesOrders`, `FilledWholeOrNotAtAll`, `FillsRespectLimits`, `BooksReconcile` and `LongBookBalances`, of the broker inside the engine |
| `EngineKilledAdmitsNothing`, `EngineSquareOffCloses`, `EngineNoticesLoss` | `KilledAcceptsNoOrder`, `SquareOffOnlyCloses`, `TickNoticesBreach`, of the broker inside the engine |
| `EngineImplementsLedger` | `ImplementsLedger`: the engine's orders live as `OrderLedger` says |
| `NothingWaits` | no order of the engine is ever left OPEN (not in a run) |
| `EngineImplementsView` | the engine's broker, seen from outside, is `BrokerView` (not in a run) |

The assumptions are the broker's, `RiskGateAssumption` (lots and limits are natural
numbers, lots positive) and `EngineAssumption`.

The argument. `OrdersSpaced` compares two orders, and the code never does: it
compares a signal with the last signal of its key. `Recorded` links them: the last
recorded signal of a key is no earlier than its last order. For that an order
must be stamped with the time of its own signal, which fails if an order could be
executed later. `NothingRests` and `Priced` exclude it: a closed bar and a
strategy's turn are about symbols that have a price, so a signal's order is
executed in the step that places it. The clock stands still until the rest of a tick
is done, so what is recorded is never ahead of it. `BuysStayCapped` is arithmetic over the waterfall: the quantity
that survives the three caps is within each quotient, and a
purchase of *n* moves a holding by at most *n*. `PurchasesArePaid` follows a quantity
from `KellySizer.size`, at most a fifth of the cash, through the waterfall, which only
lowers it, to the fill, whose price slippage at most doubles; the broker itself accepts
a purchase whatever it costs. `LossEndsTheDay` needs that with no position the
day's P&L is the cash less the capital, that the gate tests exactly this sum, and that
a manual close and the square-off have nothing to close.
The broker's guarantees carry over by the lemmas about its actions (`Moves` lists the
ones the engine takes), not by its theorems: the requests of `PaperBroker` are a
constant, those of the engine are what its signals come to.
`EngineImplementsView` maps each of the same calls to a call of `BrokerView`, with the
quantities of the positions for `qty`: a tick moves no quantity because
nothing rests (`EmptyScan`), an order moves its own symbol's by what it asked, a
square-off makes all of them zero, and an order that finds the loss raises the flag
without posting a square-off, unlike a tick.
That `EngineInv` holds on the instance was checked with TLC before it was proved.

### The monitor and the brain

`TradeMonitorProofs.tla` proves of `MonitorSpec`, for every set of symbols, every
price and every holding limit (`MaxHoldAssumption`: it is positive):

| theorem | property |
|---|---|
| `MonitorSound` | the inductive invariant `WatchesSound` |
| `MonitorTypeOK` | `WatchedTypeOK` |
| `MonitorMissesNoExit` | `NoExitMissed` |
| `MonitorLocksInProfit` | `TrailLocksInProfit` |
| `MonitorNeverLoosens` | `StopNeverLoosens` |

`AIBrainProofs.tla` proves of the server, for every set of symbols, ticks,
answers (percentages may be any integers), sizes and trades that the ASSUMEs of
`AIBrain` allow:

| theorem | property |
|---|---|
| `BrainSound`, `BrainTypeOK` | the inductive invariant; `TypeOK` |
| `BrainImplementsMonitor` | `MonitorSpec` |
| `BrainMissesNoExit`, `BrainLocksInProfit`, `BrainNeverLoosens` | `NoExitMissed`, `TrailLocksInProfit`, `StopNeverLoosens`, by the refinement |
| `BrainKilledOnlyFlattens` | `KilledOnlyFlattens` |
| `BrainWatchEndsFlat` | `WatchEndsFlat` |
| `BrainChecksEveryTick` | `EveryTickIsChecked` |
| `BrainLateClosersOnlyClose` | `LateClosersOnlyClose` |

The argument. `WatchesSound` says of each watch that no exit is due and that it
is `Sound`: its extreme is at least as good as the entry and the last price; an
inactive trail stands at the stop; an active one stands at its level behind the
extreme, and the extreme is beyond the trigger. The last clause is what makes
`TrailLocksInProfit` inductive: with a target at least twice the stop, half way
to the target is at least one stop distance, and giving back half a stop
distance of a price that is better by a whole one leaves a profit. That is
`ProfitLong` and `ProfitShort`, nonlinear inequalities that are proved from
the monotonicity of a product by hand, because the solver does not find them.
The first clause gives `StopNeverLoosens` its hard case, the activation: a level
half a stop distance behind the best price is never behind the stop a whole one
behind the entry (`TrailBeyondStop`). Without the clamp in `Validated`
(`DecisionsArePlans`) neither would hold.

The refinement maps a tick to `Check` or a stutter, a decision to `Add` or a
stutter, time to `GrowOlder`, and everything else to a stutter; it needs
`WatchesSound` of the server itself, since a watch must be a record for its
price to be what the tick set, so the invariant of the server is its types
together with `WatchesSound`.

### The budget and the router

`BudgetedCallsProofs.tla`, for every finite set of callers of each sort, every budget,
lifetime of the cache and set of costs with a largest one:

| theorem | property |
|---|---|
| `CallsAlways`, `CallsTypeOK` | the inductive invariant; `TypeOK` |
| `AiNeedsBudget` | `AiMeansBudgetLeft` |
| `SpendSurvives` | `FileAgrees` |
| `SpendIsBounded` | `OverrunBounded` |
| `AttemptsAreCancelled` | `NoStrayAttempt` |
| `AnswersAreKept` | `NoAnswerDiscarded` |

The argument. `ThrottleInv` adds to the types that the mode and the file follow the
spend; `RouterInv` that an attempt runs only in a stage that can use it. The
bound on the spend needs `Room`: the spend and the most that the decisions in
flight can cost stay below the budget and the most that all deciders can cost.
A decider that asks finds `ai`, so the spend is below the budget and there is
room for one more; an answer moves its cost from one side of the sum to the
other; a reset or a new day only lowers the spend. The spend in the *file* needs
`Room` too, with nothing in flight: a restart loads it and loses what was in flight,
and after failed writes it may be older than memory but never beyond the bound.

### The feed

`DhanFeedProofs.tla`, for every set of symbols, lists of instruments, relations between
names and limits, and any number of additions and removals. `ListingAssumption`: a list
is a sequence of rows with a type and an expiry. `FeedAssumption`: the limits are
positive, and no symbol is configured both as a share and as a future, as in
`EQUITY_INSTRUMENTS` and its two siblings.

| theorem | property |
|---|---|
| `PricesNeverMix` | `SourcesNeverMix` |
| `SubscriptionsAreKept` | `NoSubscriptionLost` |
| `FeedInvariant`, `FeedTypeOK` | the inductive invariant; `TypeOK` |
| `ContractsAreNearest` | `NearestContract` |

The argument. `PlacesInv` says where `start()` and the thread are with respect to each
other: no thread before `start()` watches it, its loop exists while it runs, and the
connection is visible to additions from the greeting on. `SubsInv` says of a
registered symbol that it is in the list of the next connection and, on the present
one, in the list about to be sent, in its own message, or served; and that additions
accepted since the map was there are registered, because after that nothing but a removal,
which takes the addition back, unregisters a symbol. Of those accepted earlier this is false.
The case that needs `PlacesInv` is an addition that sends nothing: it does so only where the list
is still to be built.

`NearestContract` is about what a search that may stop early still finds. The lemmas
say that `Parse` returns a sorted list of exactly the rows that have not expired, that
`Kept` keeps the order, and that a cut leaves out only rows behind those it keeps.
So if the search misses a future of the symbol itself, either the scan stopped
before it or the result was cut before it. In both cases every future it does
return stands before the missed one in a sorted list, or is an exact match as well,
and expires no later. The nearest of what is found is therefore no later than the near
month. `CountInv`, for the types, says that the count of instant disconnects reaches
its limit only in a thread that is ending; otherwise one more would pass it.

### The saved state

`SavedStateProofs.tla`, for every number of versions, every set of ratios and brains,
every window, and every posted and suggested value:

| theorem | property |
|---|---|
| `SavedAlways`, `SavedTypeOK` | the inductive invariant; `TypeOK` |
| `NewestStaysWhole` | `NewestIsWhole` |
| `AdviceStaysWhole` | `AdviceIsWhole` |
| `AdvisedBrainStaysWhole` | the current brain is complete if every roll-back is made on the advice of `should_rollback`, a condition on the callers that no code of the repository meets or breaks (not in a run) |
| `PromotionIsEarned` | `PromotedOnItsOwnRecord` |
| `ServerStaysStartable` | `OnlyTheOperatorStopsTheServer` |

The argument. `VersionsInv`: a version with readable metrics is whole, because they are
written last; a save links only a version it has written whole; the newest version is linked only by
its own save, because a roll-back goes to the one before it. `should_rollback` asks for
readable metrics, so what it recommends is whole. That the *current* brain is whole needs
the condition that roll-backs follow the advice: `rollback()` alone does not ensure it.
`WholeInv` carries it through the steps, with the job under way, since a link is made
later than it is decided on.
`ShadowInv`: the window in memory and the window in the file are both backed by a
start and a report of their own version, so a crash may continue from either.
`TuningInv`: unless the operator wrote it, the Kelly fraction of the file *and of what
is being written* is one the sizer takes, and so is every pending suggestion.

## 7. What is only model-checked, and what is left out

Only model-checked: the liveness properties `KillIsSquaredOff`, `CallsEnd` and
`InstantDisconnectsFallBack`, because TLAPS 1.4.5 does not reason about fairness and
`ENABLED`; and the six properties of section 5, which TLC refutes. Every other
property of a run is a theorem of section 6.

### Not modelled

* Indicators, the classifier's and the selector's scores, the scanner:
  arithmetic on floats without concurrency. The modules leave their result open.
* Learning (`rl_agent`, optimiser, relabelling, replay buffer): numerical code no
  server calls.
* P&L tracker and intent log: nothing is read back from the intent log, and no
  server calls `record_trade`.
* The sentinel's and the selector's results: displayed only. Their calls are in
  `BudgetedCalls`.
* Prompts and the parsing of answers, beyond which outcome they give; HTTP and
  WebSocket plumbing; the dashboard.

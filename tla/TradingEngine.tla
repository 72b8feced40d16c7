---- MODULE TradingEngine ----
(***************************************************************************)
(* The engine of server/termux_server.py between the feed and the broker:  *)
(* ticks become bars, bars are shown to strategies, signals become orders, *)
(* and the operator's requests change all of it while it runs.  The AI     *)
(* brain is switched off here (AIBrain models it).                         *)
(*                                                                         *)
(* No handler awaits anything that suspends it, so a tick is handled to    *)
(* its end before the event loop turns to something else.  Here a tick is  *)
(* a run of steps: the broker's update, then one step per bar it closed,   *)
(* and one per strategy shown that bar; `bars` and `todo` are what is left *)
(* of it, and every other action waits until both are empty.               *)
(*                                                                         *)
(* What a strategy makes of the prices of a bar, and the regime that the   *)
(* classifier makes of the closes, are left open.  Of the strategies'      *)
(* memory it keeps what decides when the two breakout strategies may       *)
(* signal; each is one object for all symbols.  A behaviour lasts one      *)
(* session.  Allocations are computed for display only.                    *)
(***************************************************************************)
EXTENDS RiskGate, SequencesExt, ListFilter

CONSTANTS
    Timeframes,         \* the timeframes, in the order of _INTERVALS
    Interval,           \* timeframe -> its length in units of the clock
    TF_MAP,             \* timeframe -> the sequence of its strategies
    Regimes,
    Supported,          \* strategy -> supported_regimes
    ORB_BARS,           \* orb_bars of ORBBreakout
    RECLASSIFY_BARS,    \* REGIME_RECLASSIFY_BARS
    DEDUP_WINDOW,       \* SIGNAL_DEDUP_SECONDS, in units of the clock
    SELECT_N,           \* PairSelector.SELECT_N
    MaxNow, MaxTicks, MaxPosts  \* bounds: the clock, the ticks, the operator's requests

Traders == Strategies \ {"MANUAL_CLOSE"}
Breakouts == {"orb_breakout", "vwap_breakout"}
Never == -1
Keys == Traders \X Symbols \X Sides

ASSUME EngineAssumption ==
    /\ Timeframes \in Seq(STRING) /\ Interval \in [ToSet(Timeframes) -> Nat \ {0}]
    /\ TF_MAP \in [ToSet(Timeframes) -> Seq(Traders)]
    /\ "UNKNOWN" \in Regimes /\ Supported \in [Traders -> SUBSET Regimes]
    /\ "MANUAL_CLOSE" \in Strategies
    /\ ORB_BARS \in Nat
    /\ RECLASSIFY_BARS \in Nat /\ DEDUP_WINDOW \in Nat /\ SELECT_N \in Nat
    /\ MaxNow \in Nat /\ MaxTicks \in Nat /\ MaxPosts \in Nat

VARIABLES
    now, ticks, posts,      \* the clock, and the counters of the bounds
    bucket,                 \* _aggregator: <<symbol, timeframe>> -> start of its open bar
    bars, todo,             \* the rest of the tick: closed bars, then <<strategy, symbol>>
    regime, since,          \* _regime, _bars_since_reclassify
    range,                  \* of ORBBreakout: the symbols of _session_highs and _session_lows
    fired,                  \* _long_fired, _short_fired: <<strategy, side>>
    disabled,               \* _disabled_strategies
    auto_select, selected,  \* _auto_select_enabled, _selected_symbols
    dedup,                  \* _signal_dedup: the time a signal was last let through
    placed_at               \* history: the time each order reached the broker

clockVars == <<now, ticks, posts>>
tickVars == <<bucket, bars, todo>>
choiceVars == <<regime, since, disabled, auto_select, selected>>
strategyVars == <<range, fired>>
engineVars == <<clockVars, tickVars, choiceVars, strategyVars, dedup, placed_at, gateAmount>>
allVars == <<vars, engineVars>>

EventLoop == bars = <<>> /\ todo = <<>>

\* A fault: a bar is known by its end.
Align_End(t, tf) == t - (t % Interval[tf]) + Interval[tf]

Align(t, tf) == t - (t % Interval[tf])

\* The orders that this step appended were placed now.
Stamp == placed_at' = placed_at \o [k \in 1 .. Len(orders') - Len(orders) |-> now]

----------------------------------------------------------------------------
(* _on_tick and the bar aggregator *)

\* A symbol's first tick opens its bars; a tick of a later bucket closes the open one.
Closed(s) == Kept(Timeframes, {tf \in ToSet(Timeframes) :
                bucket[s, tf] # Never /\ Align(now, tf) > bucket[s, tf]})

Tick(s, p) ==
    /\ EventLoop /\ ticks < MaxTicks
    /\ ticks' = ticks + 1
    /\ UpdateLtp(s, p) /\ Stamp
    /\ bars' = [k \in DOMAIN Closed(s) |-> <<s, Closed(s)[k]>>]
    /\ bucket' = [key \in DOMAIN bucket |->
                    IF key[1] = s THEN Max({bucket[key], Align(now, key[2])}) ELSE bucket[key]]
    /\ UNCHANGED <<now, posts, todo, choiceVars, strategyVars, dedup, gateAmount>>

\* _run_pair_selection: the best SELECT_N of the live symbols by a score of closes, ticks and
\* signals; no symbol when none is live.
Selection == {S \in SUBSET Symbols : Cardinality(S) <= SELECT_N}

RunPairSelection == selected' \in IF auto_select THEN Selection ELSE {selected}

\* An empty selection, or one made by hand, restricts nothing.
Passes(s) == auto_select /\ selected' # {} => s \in selected'

\* The strategies of the timeframe that are switched on and fit the regime.
Scanned(tf) == Kept(TF_MAP[tf], {sid \in Traders \ disabled : regime' \in Supported[sid]})

\* _on_bar up to its loop over the strategies.
OnBar ==
    /\ todo = <<>> /\ bars # <<>>
    /\ bars' = Tail(bars)
    /\ LET s == Head(bars)[1]
           tf == Head(bars)[2]
           due == tf = "5min" /\ since + 1 >= RECLASSIFY_BARS
       IN  /\ since' = IF due THEN 0 ELSE since + 1
           /\ regime' \in IF due THEN Regimes ELSE {regime}
           /\ IF regime' # regime THEN RunPairSelection ELSE UNCHANGED selected
           /\ todo' = IF Passes(s)
                      THEN [k \in DOMAIN Scanned(tf) |-> <<Scanned(tf)[k], s>>] ELSE <<>>
    /\ UNCHANGED <<vars, clockVars, bucket, disabled, auto_select, strategyVars, dedup, placed_at,
                   gateAmount>>

----------------------------------------------------------------------------
(* A strategy is shown the bar; _on_signal *)

RangeKnown == Len(range) >= ORB_BARS

\* ORBBreakout.on_bar puts the first bars it is shown into the range and signals nothing.
Remembers(sid, s) ==
    range' = IF sid = "orb_breakout" /\ ~RangeKnown THEN Append(range, s) ELSE range

\* A breakout strategy signals each side once in a session, for whatever symbol.
BreaksOut(sid, side) ==
    /\ sid = "orb_breakout" => RangeKnown
    /\ <<sid, side>> \notin fired
    /\ fired' = IF sid \in Breakouts THEN fired \cup {<<sid, side>>} ELSE fired

NoSignal ==
    /\ todo # <<>> /\ todo' = Tail(todo)
    /\ Remembers(Head(todo)[1], Head(todo)[2]) /\ UNCHANGED fired
    /\ UNCHANGED <<vars, clockVars, bucket, bars, choiceVars, dedup, placed_at, gateAmount>>

\* A fault: the window is measured from the other side's signal.
Fresh_OtherSide(sid, s, side) ==
    LET last == dedup[sid, s, IF side = "BUY" THEN "SELL" ELSE "BUY"]
    IN  last = Never \/ now - last >= DEDUP_WINDOW

Fresh(sid, s, side) ==
    LET last == dedup[sid, s, side]
    IN  last = Never \/ now - last >= DEDUP_WINDOW

MarketOrder(sid, s, side, q) ==
    [symbol |-> s, side |-> side, order_type |-> "MARKET", qty |-> q, price |-> NoPrice,
     trigger_price |-> NoPrice, strategy_id |-> sid]

\* place_order: filled at once, or the broker's own switch raises.
Place(r) == FillMarketOrder(r) \/ TripOnPlace \/ (killed /\ UNCHANGED vars)

\* A signal repeated within the window does nothing.
Repeated(side) ==
    /\ todo # <<>> /\ todo' = Tail(todo)
    /\ ~Fresh(Head(todo)[1], Head(todo)[2], side)
    /\ BreaksOut(Head(todo)[1], side)
    /\ UNCHANGED <<vars, clockVars, bucket, bars, choiceVars, range, dedup, placed_at, gateAmount>>

\* A new one is recorded before it is sized and checked, whatever comes of it.
OnSignal(side) ==
    /\ todo # <<>> /\ todo' = Tail(todo)
    /\ LET sid == Head(todo)[1]
           s == Head(todo)[2]
           q == Size(s, ltp[s])
           approved == IF q = 0 THEN 0 ELSE Approved(sid, s, side, q, ltp[s])
       IN  /\ Fresh(sid, s, side) /\ BreaksOut(sid, side)
           /\ dedup' = [dedup EXCEPT ![<<sid, s, side>>] = now]
           /\ IF approved > 0 THEN Place(MarketOrder(sid, s, side, approved))
                              ELSE UNCHANGED vars
    /\ Stamp
    /\ UNCHANGED <<clockVars, bucket, bars, choiceVars, range, gateAmount>>

----------------------------------------------------------------------------
(* What else the event loop runs between two ticks *)

Idling == EventLoop /\ UNCHANGED <<tickVars, strategyVars, gateAmount>>

TimePasses ==
    /\ Idling /\ now < MaxNow /\ now' = now + 1
    /\ UNCHANGED <<vars, ticks, posts, choiceVars, dedup, placed_at>>

\* The callback that a tripped kill switch posted.
SquareOff ==
    /\ Idling /\ RunSquareOff /\ Stamp
    /\ UNCHANGED <<clockVars, choiceVars, dedup>>

\* A request of the operator; the bound counts those about strategies and symbols double.
Posted(n) ==
    /\ Idling
    /\ posts + n <= MaxPosts /\ posts' = posts + n
    /\ UNCHANGED <<now, ticks, dedup>>

\* The intelligence loop, every five minutes, and the route that refreshes its scores; the
\* bound counts both as requests.
Intelligence ==
    /\ Posted(1) /\ RunPairSelection
    /\ UNCHANGED <<vars, regime, since, disabled, auto_select, placed_at>>

\* /api/strategy/toggle
ToggleStrategy(sid) ==
    /\ Posted(2)
    /\ disabled' \in {disabled \cup {sid}, disabled \ {sid}}
    /\ UNCHANGED <<vars, regime, since, auto_select, selected, placed_at>>

\* /api/intelligence/toggle_auto
ToggleAuto(enabled) ==
    /\ Posted(2)
    /\ auto_select' = enabled
    /\ selected' = IF enabled THEN selected ELSE {}
    /\ UNCHANGED <<vars, regime, since, disabled, placed_at>>

\* /api/intelligence/override
Override(S) ==
    /\ Posted(2)
    /\ auto_select' = FALSE /\ selected' = S
    /\ UNCHANGED <<vars, regime, since, disabled, placed_at>>

\* /api/kill, the dashboard's command, and /api/position/close of all: the flag stays as it is.
CloseAll ==
    /\ Posted(1)
    /\ SquareOffAll /\ Stamp
    /\ UNCHANGED choiceVars

\* /api/position/close of one symbol, at the market and without the risk manager.
ClosePosition(s) ==
    /\ Posted(1)
    /\ positions[s].qty # 0
    /\ Place(MarketOrder("MANUAL_CLOSE", s, IF positions[s].qty > 0 THEN "SELL" ELSE "BUY",
                         Abs(positions[s].qty)))
    /\ Stamp
    /\ UNCHANGED choiceVars

\* /api/kill/reset
ResetKill ==
    /\ Posted(1)
    /\ ResetKillSwitch
    /\ UNCHANGED <<choiceVars, placed_at>>

\* /api/settings: of the two thresholds only the broker's follows.
PostKillAmount(a) ==
    /\ Posted(1)
    /\ SetKillAmount(a)
    /\ UNCHANGED <<choiceVars, placed_at>>

----------------------------------------------------------------------------
EngineInit ==
    /\ Init /\ gateAmount = killAmount
    /\ now = 0 /\ ticks = 0 /\ posts = 0
    /\ bucket = [key \in Symbols \X ToSet(Timeframes) |-> Never]
    /\ bars = <<>> /\ todo = <<>>
    /\ regime = "UNKNOWN" /\ since = 0 /\ range = <<>> /\ fired = {}
    /\ disabled = {} /\ auto_select = TRUE /\ selected = {}
    /\ dedup = [key \in Keys |-> Never]
    /\ placed_at = <<>>

EngineNext ==
    \/ \E t \in Ticks : Tick(t[1], t[2])
    \/ OnBar \/ NoSignal
    \/ \E side \in Sides : Repeated(side) \/ OnSignal(side)
    \/ TimePasses \/ Intelligence \/ SquareOff
    \/ \E sid \in Traders : ToggleStrategy(sid)
    \/ \E enabled \in BOOLEAN : ToggleAuto(enabled)
    \/ \E S \in SUBSET Symbols : Override(S)
    \/ CloseAll \/ ResetKill
    \/ \E s \in Symbols : ClosePosition(s)
    \/ \E a \in KillAmounts : PostKillAmount(a)

EngineSpec == EngineInit /\ [][EngineNext]_allVars

----------------------------------------------------------------------------
\* Every variable of the engine has its type.
EngineTypeOK ==
    /\ TypeOK /\ gateAmount \in KillAmounts
    /\ now \in 0 .. MaxNow /\ ticks \in 0 .. MaxTicks /\ posts \in 0 .. MaxPosts
    /\ bucket \in [Symbols \X ToSet(Timeframes) -> {Never} \cup (0 .. MaxNow)]
    /\ bars \in Seq(Symbols \X ToSet(Timeframes)) /\ todo \in Seq(Traders \X Symbols)
    /\ regime \in Regimes /\ since \in Nat
    /\ range \in Seq(Symbols) /\ Len(range) <= ORB_BARS /\ fired \subseteq Breakouts \X Sides
    /\ disabled \subseteq Traders /\ auto_select \in BOOLEAN /\ selected \subseteq Symbols
    /\ dedup \in [Keys -> {Never} \cup (0 .. MaxNow)]
    /\ placed_at \in Seq(0 .. MaxNow) /\ Len(placed_at) = Len(orders)

\* Orders with the same strategy, symbol and side are a whole window apart, however many bars
\* closed and whatever became of the signals in between (termux_server.py:643-651).
OrdersSpaced ==
    \A i, j \in DOMAIN orders :
        LET a == orders[i]
            b == orders[j]
        IN  /\ i < j /\ a.strategy_id \in Traders
            /\ <<a.strategy_id, a.symbol, a.side>> = <<b.strategy_id, b.symbol, b.side>>
            => placed_at[j] - placed_at[i] >= DEDUP_WINDOW

\* The orders of strategies that a step appends.
NewTrades == {i \in DOMAIN orders' \ DOMAIN orders : orders'[i].strategy_id \in Traders}

\* When a strategy has bought, the holding of that symbol, and the trade unless it is a single
\* share, are within their shares of the portfolio as the books stood before: also when
\* another strategy traded the symbol in the same tick, or it was short (risk_manager.py:116-157).
BuysStayCapped ==
    [][\A i \in NewTrades :
          LET o == orders'[i]
              p == ltp[o.symbol]
          IN  o.side = "BUY" =>
                /\ 100 * Abs(positions'[o.symbol].qty) * p <= MAX_SYMBOL_PCT * PortfolioValue
                /\ o.qty = 1 \/ 100 * o.qty * p <= MAX_TRADE_PCT * PortfolioValue]_allVars

\* A day that is closed out at a loss the risk manager was built to stop at is over: with no
\* position left no order is taken or filled any more, whatever the operator resets, posts or toggles
\* (risk_manager.py:93-98, termux_server.py:921-925, 910).
LossEndsTheDay == [][Flat /\ DailyPnl <= -gateAmount => orders' = orders]_allVars

\* The opening range consists of the first candles of the session, three of them fifteen minutes
\* (orb_breakout.py:4): it does not mix the bars of symbols.
RangeIsOneSymbols == Cardinality(ToSet(range)) <= 1
============================================================================

---- MODULE RiskGate ----
(***************************************************************************)
(* How large an order of a strategy may be: the Kelly sizer of             *)
(* core/risk/kelly_sizer.py and the waterfall of checks of                 *)
(* core/risk/risk_manager.py, as functions of the broker's books.          *)
(*                                                                         *)
(* No caller ever reports a closed trade to a strategy, so its statistics  *)
(* are the bootstrap ones and the Kelly fraction f* is 10 % (KellyPct is   *)
(* f* times the fraction of the settings).  Fractions are percentages.     *)
(***************************************************************************)
EXTENDS PaperBroker

CONSTANTS
    KellyPct,           \* the share of the cash that a trade is sized to
    LotSize,            \* symbol -> the lot it is traded in
    MAX_OPEN_POSITIONS

ASSUME RiskGateAssumption ==
    /\ KellyPct \in Nat
    /\ LotSize \in [Symbols -> Nat \ {0}]
    /\ MAX_OPEN_POSITIONS \in Nat

VARIABLE
    gateAmount          \* the risk manager's own _kill_switch_amount

MAX_TRADE_FRACTION == 20
MAX_TRADE_PCT == 20
MAX_SYMBOL_PCT == 30
MAX_STRATEGY_PCT == 25

PortfolioValue ==
    capital + MapThenSumSet(LAMBDA s : positions[s].unrealized_pnl, Symbols)

DailyPnl == DailyPnlOf(positions)

\* The shares that n percent of the portfolio buy at p, less what is already held of them.
Headroom(n, held, p) == (n * PortfolioValue - 100 * held * p) \div (100 * p)

\* KellySizer.size: whole lots of the share of the cash.
Size(s, p) ==
    LET share == Min({KellyPct, MAX_TRADE_FRACTION})
        lots == (capital * share) \div (100 * p * LotSize[s])
    IN  IF capital <= 0 THEN 0 ELSE lots * LotSize[s]

----------------------------------------------------------------------------
\* The single-trade cap; one share is always allowed.
TradeCap(q, p) == IF Headroom(MAX_TRADE_PCT, 0, p) < q
                  THEN Max({1, Headroom(MAX_TRADE_PCT, 0, p)}) ELSE q

\* A fault: what is held already is not counted.
SymbolCap_NewSharesOnly(s, q, p) == Min({q, Headroom(MAX_SYMBOL_PCT, 0, p)})

\* The concentration cap, for a BUY.
SymbolCap(s, q, p) == Min({q, Headroom(MAX_SYMBOL_PCT, Abs(positions[s].qty), p)})

\* The shares, of whatever symbol, in the symbols that the strategy ever traded.
Exposure(sid) ==
    LET traded == {orders[i].symbol : i \in {j \in DOMAIN orders :
                        orders[j].strategy_id = sid /\ orders[j].filled_qty > 0}}
    IN  MapThenSumSet(LAMBDA s : Abs(positions[s].qty), traded)

\* The strategy's cap, for a BUY: it values all those shares at the price of this one.
StrategyCap(sid, q, p) == Min({q, Headroom(MAX_STRATEGY_PCT, Exposure(sid), p)})

TooManyOpen(s) == s \notin OpenSymbols /\ Cardinality(OpenSymbols) >= MAX_OPEN_POSITIONS

\* A fault: the gate looks at the threshold the broker has now.
GateOpen_BrokersAmount(p) ==
    /\ ~killed /\ DailyPnl > -killAmount
    /\ capital >= p /\ PortfolioValue > 0

\* Checks 1 to 4.
GateOpen(p) ==
    /\ ~killed /\ DailyPnl > -gateAmount
    /\ capital >= p /\ PortfolioValue > 0

\* RiskManager.check: the quantity approved for an order of q shares, 0 when it is rejected.
Approved(sid, s, side, q, p) ==
    LET traded == TradeCap(q, p)
        bought == StrategyCap(sid, SymbolCap(s, traded, p), p)
    IN  IF ~GateOpen(p) THEN 0
        ELSE IF side = "SELL" THEN traded
        ELSE IF bought <= 0 \/ TooManyOpen(s) THEN 0
        ELSE bought
============================================================================

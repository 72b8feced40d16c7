---- MODULE MCTradingEngine ----
(***************************************************************************)
(* A small instance: one unit of the clock is half a minute, so that two   *)
(* bars can close within the dedup window; the second timeframe is one and *)
(* a half minutes instead of five, so that both close in one tick.         *)
(***************************************************************************)
EXTENDS TradingEngine

CONSTANTS A, B

MCSymbols == {A, B}
MCTicks == {<<A, 100>>, <<A, 200>>, <<B, 100>>}
MCTraders == {"vwap_breakout", "ema_crossover", "orb_breakout"}
MCStrategies == MCTraders \cup {"MANUAL_CLOSE"}
MCLotSize == [s \in MCSymbols |-> IF s = A THEN 1 ELSE 2]
MCTimeframes == <<"1min", "5min">>
MCInterval == [tf \in {"1min", "5min"} |-> IF tf = "1min" THEN 2 ELSE 3]
MCTfMap == [tf \in {"1min", "5min"} |->
    IF tf = "1min" THEN <<"vwap_breakout">> ELSE <<"ema_crossover", "orb_breakout">>]
MCRegimes == {"UNKNOWN", "TRENDING_UP", "HIGH_VOL"}
MCSupported == [sid \in MCTraders |->
    IF sid = "ema_crossover" THEN {"TRENDING_UP"} ELSE {"TRENDING_UP", "HIGH_VOL"}]
============================================================================

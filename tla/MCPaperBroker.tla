--------------------------- MODULE MCPaperBroker ---------------------------
(***************************************************************************)
(* A small broker for TLC: the requests a caller can make, one of each     *)
(* kind of order that place_order distinguishes.                           *)
(***************************************************************************)
EXTENDS PaperBroker

CONSTANTS A, B

Req(s, side, type, q, price, trigger) ==
    [symbol |-> s, side |-> side, order_type |-> type, qty |-> q, price |-> price,
     trigger_price |-> trigger, strategy_id |-> "ORB"]

\* Two purchases, one at each price, have an average that is not a whole paisa.
Low  == 12000
High == 24001

\* Two instruments, one of them only ever bought or sold at market.
MCRequests ==
    { Req(A, "BUY",  "MARKET", 2, NoPrice, NoPrice),
      Req(A, "SELL", "MARKET", 1, NoPrice, NoPrice),
      Req(A, "SELL", "SL_M",   2, NoPrice, Low),
      Req(A, "SELL", "SL",     1, Low,     High),
      Req(A, "BUY",  "LIMIT",  1, Low,     NoPrice),
      Req(A, "BUY",  "LIMIT",  1, NoPrice, NoPrice),
      Req(B, "BUY",  "MARKET", 1, NoPrice, NoPrice) }

MCSymbols == {A, B}
MCTicks   == {<<A, Low>>, <<A, High>>, <<B, Low>>}
=============================================================================

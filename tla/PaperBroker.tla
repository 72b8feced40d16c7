---------------------------- MODULE PaperBroker ----------------------------
(***************************************************************************)
(* The in-memory broker of core/broker/paper_broker.py: the order book,    *)
(* the positions, the cash, the fills and the daily-loss kill switch.      *)
(*                                                                         *)
(* Every public method holds self._lock over its whole body and never      *)
(* awaits inside it, so each one is a single atomic step of the event      *)
(* loop.  The only thing that happens between two steps of one operation   *)
(* is the square-off that update_ltp posts with call_soon: until it runs,  *)
(* any other handler may run (variable squareOffs).                        *)
(*                                                                         *)
(* Prices and money are integers (paise); NoPrice stands for None.         *)
(***************************************************************************)
EXTENDS Integers, Sequences, FiniteSets, FiniteSetsExt

CONSTANTS
    Symbols,          \* instruments
    Strategies,       \* the strategy_ids of callers
    Ticks,            \* the <<symbol, price>> pairs the feed can deliver
    Requests,         \* orders a caller can submit
    InitialCapital,   \* initial_capital
    KillAmounts,      \* values the operator can give _kill_switch_amount
    SlippageBps,      \* slippage_pct, in 1/10000
    MaxPlaced,        \* bound: orders submitted by callers
    MaxSquareOffs     \* bound: square-off callbacks waiting in the event loop

NoPrice    == 0
Sides      == {"BUY", "SELL"}
OrderTypes == {"MARKET", "LIMIT", "SL", "SL_M"}
Statuses   == {"OPEN", "PARTIALLY_FILLED", "FILLED", "CANCELLED", "REJECTED"}
KillSwitch == "KILL_SWITCH"      \* strategy_id of a square-off order

Request == [symbol : Symbols, side : Sides, order_type : OrderTypes, qty : Nat,
            price : Nat, trigger_price : Nat, strategy_id : Strategies]

ASSUME TicksAssumption    == Ticks \subseteq Symbols \X (Nat \ {NoPrice})
ASSUME RequestsAssumption == Requests \subseteq Request /\ KillSwitch \notin Strategies
ASSUME AmountsAssumption  ==
    /\ IsFiniteSet(Symbols)
    /\ InitialCapital \in Nat
    /\ KillAmounts # {} /\ KillAmounts \subseteq Nat \ {0}
    /\ SlippageBps \in 0 .. 9999
    /\ MaxPlaced \in Nat /\ MaxSquareOffs \in Nat

VARIABLES
    orders,      \* _orders: the id of an order is its place in this sequence
    resting,     \* _resting: per symbol the ids in its bucket; a bucket keeps the
                 \* order of placement, so the set carries all its information
    positions,   \* _positions: a symbol with no entry is a flat, all-zero record
    ltp,         \* _ltp
    capital,     \* _capital
    fills,       \* _fills
    killed,      \* _killed
    killAmount,  \* _kill_switch_amount
    squareOffs   \* square-offs posted to the event loop and not yet run

bookVars  == <<orders, resting>>
moneyVars == <<positions, capital, fills>>
killVars  == <<killed, killAmount, squareOffs>>
vars      == <<orders, resting, positions, ltp, capital, fills, killed, killAmount, squareOffs>>

-----------------------------------------------------------------------------
(* Orders *)

Terminal(o) == o.status \in {"FILLED", "CANCELLED", "REJECTED"}

NewOrder(r, status) ==
    [symbol |-> r.symbol, side |-> r.side, order_type |-> r.order_type, qty |-> r.qty,
     price |-> r.price, trigger_price |-> r.trigger_price, strategy_id |-> r.strategy_id,
     status |-> status, filled_qty |-> 0]

Remaining(o) == o.qty - o.filled_qty

\* The order half of _apply_fill, for the whole remaining quantity.
Executed(o) ==
    [o EXCEPT !.filled_qty = @ + Remaining(o),
              !.status = IF o.filled_qty + Remaining(o) >= o.qty
                         THEN "FILLED" ELSE "PARTIALLY_FILLED"]

SlippedPrice(side, p) ==
    LET factor == IF side = "BUY" THEN 10000 + SlippageBps ELSE 10000 - SlippageBps
    IN  (p * factor + 5000) \div 10000

\* The checks of place_order that store the order as REJECTED and raise.
Invalid(r) ==
    \/ r.qty <= 0
    \/ r.order_type \in {"LIMIT", "SL"} /\ r.price = NoPrice
    \/ r.order_type \in {"SL", "SL_M"} /\ r.trigger_price = NoPrice

-----------------------------------------------------------------------------
(* Positions and cash *)

Abs(n) == IF n < 0 THEN -n ELSE n
Signed(side, n) == IF side = "BUY" THEN n ELSE -n

FlatPosition == [qty |-> 0, avg_price |-> 0, realized_pnl |-> 0, unrealized_pnl |-> 0]

Opening(pos, side) ==
    \/ pos.qty = 0
    \/ pos.qty > 0 /\ side = "BUY"
    \/ pos.qty < 0 /\ side = "SELL"

Increase(pos, side, q, price) ==
    LET held == pos.qty + Signed(side, q)
    IN  [pos EXCEPT !.qty = held,
                    !.avg_price = (@ * Abs(pos.qty) + price * q) \div Abs(held)]

\* Fault: the average is reset by every partial close, not only by a reversal.
Reduce_AlwaysRebases(pos, side, q, price) ==
    LET closed == Min({Abs(pos.qty), q})
        gain   == IF side = "SELL" THEN price - pos.avg_price ELSE pos.avg_price - price
        left   == pos.qty + Signed(side, q)
    IN  [qty            |-> left,
         avg_price      |-> IF left = 0 THEN 0 ELSE price,
         realized_pnl   |-> pos.realized_pnl + gain * closed,
         unrealized_pnl |-> IF left = 0 THEN 0 ELSE pos.unrealized_pnl]

Reduce(pos, side, q, price) ==
    LET closed == Min({Abs(pos.qty), q})
        gain   == IF side = "SELL" THEN price - pos.avg_price ELSE pos.avg_price - price
        left   == pos.qty + Signed(side, q)
        rebase == \/ left > 0 /\ side = "SELL" /\ q > Abs(left - Signed(side, q))
                  \/ left < 0 /\ side = "BUY"
    IN  [qty            |-> left,
         avg_price      |-> IF left = 0 THEN 0 ELSE IF rebase THEN price ELSE pos.avg_price,
         realized_pnl   |-> pos.realized_pnl + gain * closed,
         unrealized_pnl |-> IF left = 0 THEN 0 ELSE pos.unrealized_pnl]

\* An account is what _apply_fill changes besides the order.
Account(s) == [pos |-> positions[s], cash |-> capital, fills |-> fills]

\* The position and cash halves of _apply_fill, for order o of number id.
ApplyFill(acct, id, o, price) ==
    LET q == Remaining(o)
    IN  [pos   |-> IF Opening(acct.pos, o.side) THEN Increase(acct.pos, o.side, q, price)
                                                ELSE Reduce(acct.pos, o.side, q, price),
         cash  |-> acct.cash - Signed(o.side, price * q),
         fills |-> Append(acct.fills, [order |-> id, qty |-> q, price |-> price])]

\* Position.update_unrealized, as update_ltp calls it.
MarkToMarket(pos, p) ==
    IF pos.qty = 0 THEN pos ELSE [pos EXCEPT !.unrealized_pnl = (p - pos.avg_price) * pos.qty]

DailyPnlOf(ps) == MapThenSumSet(LAMBDA s : ps[s].realized_pnl + ps[s].unrealized_pnl, Symbols)
Breached(ps)   == DailyPnlOf(ps) <= -killAmount

-----------------------------------------------------------------------------
(* _try_fill_resting: one scan of a bucket at price p.  os is the order      *)
(* table and bucket the ids resting for the symbol scanned.                  *)

Triggered(o, p) == IF o.side = "BUY" THEN p >= o.trigger_price ELSE p <= o.trigger_price
Crossed(o, p)   == IF o.side = "BUY" THEN p <= o.price ELSE p >= o.price

Executable(o, p) ==
    /\ ~Terminal(o)
    /\ \/ o.order_type = "LIMIT" /\ Crossed(o, p)
       \/ o.order_type = "SL_M" /\ Triggered(o, p)

TurnsLimit(o, p) == ~Terminal(o) /\ o.order_type = "SL" /\ Triggered(o, p)

\* Fault: a LIMIT order is executed at the market.
FillPrice_Market(o, p) == SlippedPrice(o.side, p)

FillPrice(o, p) == IF o.order_type = "LIMIT" THEN o.price ELSE SlippedPrice(o.side, p)

ScanOrders(os, bucket, p) ==
    [i \in DOMAIN os |->
        IF i \in bucket /\ Executable(os[i], p) THEN Executed(os[i])
        ELSE IF i \in bucket /\ TurnsLimit(os[i], p) THEN [os[i] EXCEPT !.order_type = "LIMIT"]
        ELSE os[i]]

ScanBucket(os, bucket, p) == {i \in bucket : ~Terminal(os[i]) /\ ~Executable(os[i], p)}

\* One turn of the loop over the bucket: the fills happen one after the other,
\* in the order of placement.
ScanStep(acct, os, bucket, p, k) ==
    IF k \in bucket /\ Executable(os[k], p)
    THEN ApplyFill(acct, k, os[k], FillPrice(os[k], p))
    ELSE acct

\* Fault: each fill of a scan starts from the account read before the scan.
ScanAccount_Stale(acct, os, bucket, p) ==
    LET run[k \in 0 .. Len(os)] ==
            IF k = 0 THEN acct
            ELSE IF k \in bucket /\ Executable(os[k], p)
                 THEN ScanStep(acct, os, bucket, p, k)
                 ELSE run[k - 1]
    IN  run[Len(os)]

ScanAccount(acct, os, bucket, p) ==
    LET run[k \in 0 .. Len(os)] ==
            IF k = 0 THEN acct ELSE ScanStep(run[k - 1], os, bucket, p, k)
    IN  run[Len(os)]

-----------------------------------------------------------------------------
(* place_order *)

Init ==
    /\ orders = << >>
    /\ resting = [s \in Symbols |-> {}]
    /\ positions = [s \in Symbols |-> FlatPosition]
    /\ ltp = [s \in Symbols |-> NoPrice]
    /\ capital = InitialCapital
    /\ fills = << >>
    /\ killed = FALSE
    /\ killAmount \in KillAmounts
    /\ squareOffs = 0

Post(s, acct) ==
    /\ positions' = [positions EXCEPT ![s] = acct.pos]
    /\ capital' = acct.cash
    /\ fills' = acct.fills

\* Bound on the orders callers submit; square-off orders do not count.
Placed == Cardinality({i \in DOMAIN orders : orders[i].strategy_id # KillSwitch})

\* _check_kill_switch lets the order through.
Admits == ~killed /\ ~Breached(positions) /\ Placed < MaxPlaced

\* _check_kill_switch finds the loss: the flag is set, the order is not stored
\* and no square-off is posted.  (When killed already, place_order only raises.)
TripOnPlace ==
    /\ ~killed /\ Breached(positions)
    /\ killed' = TRUE
    /\ UNCHANGED <<bookVars, moneyVars, ltp, killAmount, squareOffs>>

RejectOrder(r) ==
    /\ Admits /\ Invalid(r)
    /\ orders' = Append(orders, NewOrder(r, "REJECTED"))
    /\ UNCHANGED <<resting, moneyVars, ltp, killVars>>

FillMarketOrder(r) ==
    /\ Admits /\ ~Invalid(r) /\ r.order_type = "MARKET" /\ ltp[r.symbol] # NoPrice
    /\ LET o == NewOrder(r, "OPEN")
       IN  /\ orders' = Append(orders, Executed(o))
           /\ Post(r.symbol, ApplyFill(Account(r.symbol), Len(orders) + 1, o,
                                       SlippedPrice(r.side, ltp[r.symbol])))
    /\ UNCHANGED <<resting, ltp, killVars>>

\* Fault: a new resting order is not matched until the next tick.
RestOrder_NoScan(r) ==
    /\ Admits /\ ~Invalid(r)
    /\ ltp[r.symbol] # NoPrice => r.order_type # "MARKET"
    /\ orders' = Append(orders, NewOrder(r, "OPEN"))
    /\ resting' = [resting EXCEPT ![r.symbol] = @ \cup {Len(orders) + 1}]
    /\ UNCHANGED <<moneyVars, ltp, killVars>>

\* A MARKET order with no price yet is queued as it is; any other order is
\* queued and its whole bucket scanned at once when the symbol has a price.
RestOrder(r) ==
    /\ Admits /\ ~Invalid(r)
    /\ LET s      == r.symbol
           p      == ltp[s]
           os     == Append(orders, NewOrder(r, "OPEN"))
           bucket == resting[s] \cup {Len(orders) + 1}
       IN  IF p = NoPrice
           THEN /\ orders' = os
                /\ resting' = [resting EXCEPT ![s] = bucket]
                /\ UNCHANGED moneyVars
           ELSE /\ r.order_type # "MARKET"
                /\ orders' = ScanOrders(os, bucket, p)
                /\ resting' = [resting EXCEPT ![s] = ScanBucket(os, bucket, p)]
                /\ Post(s, ScanAccount(Account(s), os, bucket, p))
    /\ UNCHANGED <<ltp, killVars>>

-----------------------------------------------------------------------------
(* cancel_order, cancel_all_orders *)

\* Fault: the cancelled order stays in its bucket.
CancelOrder_KeepsBucket(i) ==
    /\ ~Terminal(orders[i])
    /\ orders' = [orders EXCEPT ![i].status = "CANCELLED"]
    /\ UNCHANGED <<resting, moneyVars, ltp, killVars>>

CancelOrder(i) ==
    /\ ~Terminal(orders[i])
    /\ orders' = [orders EXCEPT ![i].status = "CANCELLED"]
    /\ resting' = [resting EXCEPT ![orders[i].symbol] = @ \ {i}]
    /\ UNCHANGED <<moneyVars, ltp, killVars>>

\* Fault: orders that have ended are cancelled again.
CancelAllOrders_Terminal ==
    /\ orders' = [i \in DOMAIN orders |-> [orders[i] EXCEPT !.status = "CANCELLED"]]
    /\ resting' = [s \in Symbols |-> {}]
    /\ UNCHANGED <<moneyVars, ltp, killVars>>

CancelAllOrders ==
    /\ orders' = [i \in DOMAIN orders |->
                    IF Terminal(orders[i]) THEN orders[i]
                    ELSE [orders[i] EXCEPT !.status = "CANCELLED"]]
    /\ resting' = [s \in Symbols |-> {}]
    /\ UNCHANGED <<moneyVars, ltp, killVars>>

-----------------------------------------------------------------------------
(* update_ltp: mark the position, scan the bucket, then check the loss.      *)

\* Fault: the loss is checked before the resting orders are filled.
UpdateLtp_ChecksFirst(s, p) ==
    LET marked == [Account(s) EXCEPT !.pos = MarkToMarket(@, p)]
    IN  /\ ltp' = [ltp EXCEPT ![s] = p]
        /\ orders' = ScanOrders(orders, resting[s], p)
        /\ resting' = [resting EXCEPT ![s] = ScanBucket(orders, resting[s], p)]
        /\ Post(s, ScanAccount(marked, orders, resting[s], p))
        /\ IF ~killed /\ Breached([positions EXCEPT ![s] = marked.pos])
           THEN killed' = TRUE /\ squareOffs' = squareOffs + 1
           ELSE UNCHANGED <<killed, squareOffs>>
        /\ UNCHANGED killAmount

UpdateLtp(s, p) ==
    LET marked == [Account(s) EXCEPT !.pos = MarkToMarket(@, p)]
    IN  /\ ltp' = [ltp EXCEPT ![s] = p]
        /\ orders' = ScanOrders(orders, resting[s], p)
        /\ resting' = [resting EXCEPT ![s] = ScanBucket(orders, resting[s], p)]
        /\ Post(s, ScanAccount(marked, orders, resting[s], p))
        /\ IF ~killed /\ Breached(positions')
           THEN killed' = TRUE /\ squareOffs' = squareOffs + 1
           ELSE UNCHANGED <<killed, squareOffs>>
        /\ UNCHANGED killAmount

-----------------------------------------------------------------------------
(* _square_off_unlocked: one MARKET order per open position, filled at once. *)

\* Fault: only long positions are found open.
OpenSymbols_LongOnly == {s \in Symbols : positions[s].qty > 0}

OpenSymbols == {s \in Symbols : positions[s].qty # 0}

\* Fault: a short is closed by selling again.
CloseOrder_Sells(s) ==
    NewOrder([symbol |-> s, side |-> "SELL",
              order_type |-> "MARKET", qty |-> Abs(positions[s].qty), price |-> NoPrice,
              trigger_price |-> NoPrice, strategy_id |-> KillSwitch], "OPEN")

CloseOrder(s) ==
    NewOrder([symbol |-> s, side |-> IF positions[s].qty > 0 THEN "SELL" ELSE "BUY",
              order_type |-> "MARKET", qty |-> Abs(positions[s].qty), price |-> NoPrice,
              trigger_price |-> NoPrice, strategy_id |-> KillSwitch], "OPEN")

ClosePrice(s) ==
    SlippedPrice(CloseOrder(s).side, IF ltp[s] = NoPrice THEN positions[s].avg_price ELSE ltp[s])

\* What closing s as order number id does to an account that starts empty of
\* cash and fills: the new position, the cash flow and the fill.
Closing(s, id) ==
    ApplyFill([pos |-> positions[s], cash |-> 0, fills |-> << >>], id, CloseOrder(s), ClosePrice(s))

\* The orders in which the loop can visit a set of positions.
Visits(S) == {f \in [1 .. Cardinality(S) -> S] : \A s \in S : \E k \in DOMAIN f : f[k] = s}

\* The cash left after the closings of a visit, one after the other.
CashAfter(visit) ==
    LET cash[k \in 0 .. Len(visit)] ==
            IF k = 0 THEN capital ELSE cash[k - 1] + Closing(visit[k], 0).cash
    IN  cash[Len(visit)]

CloseOpenPositions ==
    /\ \E visit \in Visits(OpenSymbols) :
        /\ orders' = orders \o [k \in DOMAIN visit |-> Executed(CloseOrder(visit[k]))]
        /\ fills' = fills \o [k \in DOMAIN visit |->
                                Closing(visit[k], Len(orders) + k).fills[1]]
        /\ capital' = CashAfter(visit)
    /\ positions' = [s \in Symbols |-> IF s \in OpenSymbols THEN Closing(s, 0).pos ELSE positions[s]]
    /\ UNCHANGED <<resting, ltp, killed, killAmount>>

\* Fault: the callback runs although none was posted.
RunSquareOff_Unposted ==
    /\ squareOffs' = squareOffs - 1
    /\ CloseOpenPositions

\* The callback posted by update_ltp.
RunSquareOff ==
    /\ squareOffs > 0 /\ squareOffs' = squareOffs - 1
    /\ CloseOpenPositions

\* square_off_all: the manual kill and the guardian's SQUARE_OFF call it.  It
\* does not touch _killed.
SquareOffAll == CloseOpenPositions /\ UNCHANGED squareOffs

-----------------------------------------------------------------------------
(* The HTTP handlers that write the broker's fields directly *)

ResetKillSwitch ==
    /\ squareOffs < MaxSquareOffs
    /\ killed' = FALSE
    /\ UNCHANGED <<bookVars, moneyVars, ltp, killAmount, squareOffs>>

SetKillAmount(a) ==
    /\ killAmount' = a
    /\ UNCHANGED <<bookVars, moneyVars, ltp, killed, squareOffs>>

Next ==
    \/ TripOnPlace
    \/ \E r \in Requests : RejectOrder(r) \/ FillMarketOrder(r) \/ RestOrder(r)
    \/ \E i \in DOMAIN orders : CancelOrder(i)
    \/ CancelAllOrders
    \/ \E t \in Ticks : UpdateLtp(t[1], t[2])
    \/ RunSquareOff
    \/ SquareOffAll
    \/ ResetKillSwitch
    \/ \E a \in KillAmounts : SetKillAmount(a)

\* The event loop runs every callback posted with call_soon.
Fairness == WF_vars(RunSquareOff)

Spec == Init /\ [][Next]_vars /\ Fairness

-----------------------------------------------------------------------------
(* Types *)

Order == [symbol : Symbols, side : Sides, order_type : OrderTypes, qty : Nat,
          price : Nat, trigger_price : Nat, strategy_id : Strategies \cup {KillSwitch},
          status : Statuses, filled_qty : Nat]

Position == [qty : Int, avg_price : Int, realized_pnl : Int, unrealized_pnl : Int]

Fill == [order : Nat \ {0}, qty : Int, price : Int]

\* The order book, the prices and the kill switch hold values of their types.
BookTypeOK ==
    /\ orders \in Seq(Order)
    /\ resting \in [Symbols -> SUBSET (1 .. Len(orders))]
    /\ ltp \in [Symbols -> Nat]
    /\ killed \in BOOLEAN
    /\ killAmount \in KillAmounts
    /\ squareOffs \in Nat

\* The positions, the cash and the fills hold values of their types.
MoneyTypeOK ==
    /\ positions \in [Symbols -> Position]
    /\ capital \in Int
    /\ fills \in Seq(Fill)

\* Every variable holds a value of its type.
TypeOK == BookTypeOK /\ MoneyTypeOK

-----------------------------------------------------------------------------
(* Safety *)

\* Every OPEN order rests in exactly the bucket of its symbol and no other
\* order does: no order is lost by a scan, a conversion or a cancellation, and
\* none is left in a bucket to be filled again (_resting against _orders).
RestingMatchesOrders ==
    \A s \in Symbols : \A i \in DOMAIN orders :
        i \in resting[s] <=> orders[i].status = "OPEN" /\ orders[i].symbol = s

\* No order is filled in part: an order is FILLED with its whole positive
\* quantity, or nothing of it has been executed.
FilledWholeOrNotAtAll ==
    \A i \in DOMAIN orders :
        LET o == orders[i]
        IN  IF o.status = "FILLED" THEN o.qty > 0 /\ o.filled_qty = o.qty
            ELSE o.status # "PARTIALLY_FILLED" /\ o.filled_qty = 0

\* An order that is still OPEN asks for something, and a stop has its trigger.
OpenOrdersAreValid ==
    \A i \in DOMAIN orders :
        LET o == orders[i]
        IN  o.status = "OPEN" =>
                /\ o.qty > 0
                /\ o.order_type \in {"SL", "SL_M"} => o.trigger_price # NoPrice

\* No missed fill: after any step, no order waiting at the current price of its
\* symbol should already have been executed or converted ("filled when LTP
\* crosses the limit price").  A stop that has just become a LIMIT order waits
\* for the next scan, and a queued MARKET order is never scanned for.
NoMissedFill ==
    \A s \in Symbols : \A i \in resting[s] :
        LET o == orders[i]
        IN  ltp[s] # NoPrice =>
                CASE o.order_type \in {"SL", "SL_M"} -> ~Triggered(o, ltp[s])
                  [] o.order_type = "LIMIT" -> o.trigger_price = NoPrice => ~Crossed(o, ltp[s])
                  [] OTHER -> TRUE

\* The bound on a fill by the order it executes: a LIMIT order, or a stop that
\* became one, never trades at a worse price than its limit.
FillsRespectLimits ==
    \A k \in DOMAIN fills :
        LET o == orders[fills[k].order]
        IN  o.order_type = "LIMIT" =>
                IF o.side = "BUY" THEN fills[k].price <= o.price ELSE fills[k].price >= o.price

FillFlow(k)   == Signed(orders[fills[k].order].side, fills[k].qty)
FillSymbol(k) == orders[fills[k].order].symbol
NetAfter(s, n) == MapThenSumSet(FillFlow, {k \in 1 .. n : FillSymbol(k) = s})

\* The three books agree with the list of fills: what an order has executed,
\* what a position holds and what cash is left are exactly what the fills add
\* up to, so no fill is lost, doubled or booked on another order or symbol.
BooksReconcile ==
    /\ \A i \in DOMAIN orders :
        orders[i].filled_qty =
            MapThenSumSet(LAMBDA k : fills[k].qty, {k \in DOMAIN fills : fills[k].order = i})
    /\ \A s \in Symbols : positions[s].qty = NetAfter(s, Len(fills))
    /\ capital = InitialCapital
                 - MapThenSumSet(LAMBDA k : fills[k].price * FillFlow(k), DOMAIN fills)

NeverShort(s) == \A n \in DOMAIN fills : NetAfter(s, n) >= 0

\* What the whole-paisa averages can have lost: each purchase rounds down the
\* average of what is held after it, by less than a paisa a share.
Rounding ==
    MapThenSumSet(LAMBDA k : NetAfter(FillSymbol(k), k) - 1,
                  {k \in DOMAIN fills : orders[fills[k].order].side = "BUY"})

\* Value is conserved while every symbol has only been held long: cash plus the
\* cost of what is held is the initial capital plus the P&L realized so far, up
\* to the rounding of the averages and never above it.  (With shorts it is not:
\* see ReversalRebasesAverage.)
LongBookBalances ==
    (\A s \in Symbols : NeverShort(s)) =>
        LET gap == InitialCapital
                     + MapThenSumSet(LAMBDA s : positions[s].realized_pnl, Symbols)
                     - MapThenSumSet(LAMBDA s : positions[s].avg_price * positions[s].qty, Symbols)
                     - capital
        IN  0 <= gap /\ gap <= Rounding

\* A tick leaves no unnoticed breach: when a price arrives, the daily loss is
\* tested on the books as the fills of that tick leave them.
TickNoticesBreach ==
    [][\A s \in Symbols : ltp'[s] # ltp[s] => killed' \/ ~Breached(positions)']_vars

\* While the flag is set the only orders that appear are square-off orders, and
\* every fill belongs to one of those or to an order accepted earlier.
KilledAcceptsNoOrder ==
    [][killed => \A i \in DOMAIN orders' \ DOMAIN orders :
                    orders'[i].strategy_id = KillSwitch /\ orders'[i].status = "FILLED"]_vars

\* A square-off never opens or reverses a position: the quantity of a symbol
\* touched by a KILL_SWITCH order is zero after the step.
SquareOffOnlyCloses ==
    [][\A i \in DOMAIN orders' \ DOMAIN orders :
          orders'[i].strategy_id = KillSwitch => positions'[orders'[i].symbol].qty = 0]_vars

-----------------------------------------------------------------------------
(* The order book implements the ledger of orders *)

LedgerState(status) ==
    CASE status = "OPEN"      -> "working"
      [] status = "FILLED"    -> "executed"
      [] status = "CANCELLED" -> "withdrawn"
      [] OTHER                -> "refused"

Ledger == INSTANCE OrderLedger WITH
    ledger <- [i \in DOMAIN orders |->
                [asked |-> orders[i].qty, done |-> orders[i].filled_qty,
                 state |-> LedgerState(orders[i].status)]]

\* Every order lives as OrderLedger says: executed at most once and in full,
\* never after it was cancelled or rejected, and never changed after its end.
ImplementsLedger == Ledger!Spec

-----------------------------------------------------------------------------
(* Liveness *)

Flat == \A s \in Symbols : positions[s].qty = 0

\* A square-off posted by a tick is carried out: at some later moment no
\* position is open.
KillIsSquaredOff == squareOffs > 0 ~> Flat

-----------------------------------------------------------------------------
(* What the comments say and the code does not do *)

\* "Reversed - reset avg to fill price" (paper_broker.py:148): after a fill that
\* takes a position through zero, the average is the price of that fill.
ReversalRebasesAverage ==
    [][\A s \in Symbols :
          positions[s].qty * positions'[s].qty < 0 /\ Len(fills') = Len(fills) + 1
            => positions'[s].avg_price = fills'[Len(fills')].price]_vars

\* The P&L of the header (paper_broker.py:10) on the books as they stand: what
\* is realized, and what is open at the last price.
MarkedPnl(ps, prices) ==
    MapThenSumSet(LAMBDA s : ps[s].realized_pnl + (prices[s] - ps[s].avg_price) * ps[s].qty, Symbols)

\* "Raise KillSwitchError if daily loss >= kill_switch_amount" (paper_broker.py:214):
\* the switch fires only on a real loss of that amount.  (After a partial close the unrealized
\* P&L is that of the larger position until the next mark; a later order, or the test at the end
\* of the tick that filled the close, still reads it.)
KillOnlyOnLoss ==
    [][~killed /\ killed' => MarkedPnl(positions', ltp') <= -killAmount]_vars
=============================================================================

------------------------- MODULE PaperBrokerProofs -------------------------
(***************************************************************************)
(* Theorems about PaperBroker for every set of symbols, ticks, requests,   *)
(* capital, kill amount and slippage, and with no bound on the orders.     *)
(*                                                                         *)
(* The invariant BookInv is inductive: it adds to the properties of the    *)
(* order book that an order still OPEN is valid (OpenOrdersAreValid), so   *)
(* that executing it gives a FILLED order and a stop keeps its trigger     *)
(* when it turns into a LIMIT order.                                       *)
(***************************************************************************)
EXTENDS PaperBroker, SequenceTheorems, FiniteSetTheorems, WellFoundedInduction, TLAPS

BookInv ==
    /\ TypeOK
    /\ RestingMatchesOrders
    /\ FilledWholeOrNotAtAll
    /\ OpenOrdersAreValid
    /\ NoMissedFill

-----------------------------------------------------------------------------
(* Induction over the natural numbers, for a set instead of a predicate.     *)

\* A set that holds 0 and the successor of each of its numbers holds them all.
LEMMA SetInduction ==
    ASSUME NEW S, 0 \in S, \A n \in Nat : n \in S => n + 1 \in S
    PROVE  Nat \subseteq S
<1>. SUFFICES ASSUME Nat \ S # {} PROVE FALSE
  OBVIOUS
<1>. DEFINE R == OpToRel(<, Nat)
<1>1. IsWellFoundedOn(R, Nat)
  BY NatLessThanWellFounded
<1>2. PICK x \in Nat \ S : \A y \in Nat \ S : ~(<<y, x>> \in R)
  <2>1. Nat \ S \subseteq Nat
    OBVIOUS
  <2>. HIDE DEF R
  <2>. QED BY <1>1, <2>1, WFMin
<1>3. x # 0 /\ x - 1 \in Nat
  OBVIOUS
<1>4. <<x - 1, x>> \in R
  BY <1>3 DEF OpToRel
<1>5. x - 1 \in S
  BY <1>2, <1>3, <1>4
<1>. QED BY <1>3, <1>5

-----------------------------------------------------------------------------
(* One order                                                                 *)

OrderSound(o) ==
    /\ o \in Order
    /\ o.status = "FILLED" => o.qty > 0 /\ o.filled_qty = o.qty
    /\ o.status # "FILLED" => o.status # "PARTIALLY_FILLED" /\ o.filled_qty = 0
    /\ o.status = "OPEN" =>
         /\ o.qty > 0
         /\ o.order_type \in {"SL", "SL_M"} => o.trigger_price # NoPrice

\* Executing a valid OPEN order fills it whole and changes nothing else of it.
LEMMA ExecutedSound ==
    ASSUME NEW o \in Order, OrderSound(o), o.status = "OPEN"
    PROVE  /\ OrderSound(Executed(o))
           /\ Executed(o).status = "FILLED"
           /\ Executed(o) = [o EXCEPT !.filled_qty = o.qty, !.status = "FILLED"]
           /\ Executed(o).symbol = o.symbol
           /\ Executed(o).qty = o.qty
           /\ Executed(o).filled_qty = o.qty
           /\ Executed(o).strategy_id = o.strategy_id
<1>. DEFINE f == [o EXCEPT !.filled_qty = o.qty, !.status = "FILLED"]
<1>1. /\ o.filled_qty + Remaining(o) = o.qty
      /\ o.filled_qty + Remaining(o) >= o.qty
      /\ o.qty \in Nat /\ o.qty > 0
  BY DEF OrderSound, Order, Remaining
<1>2. Executed(o) = f
  BY <1>1, Zenon DEF Executed
<1>3. f \in Order
  BY <1>1 DEF Order, Statuses
<1>4. /\ f.status = "FILLED" /\ f.filled_qty = o.qty /\ f.qty = o.qty
      /\ f.symbol = o.symbol /\ f.strategy_id = o.strategy_id
  BY DEF Order
<1>. QED BY <1>1, <1>2, <1>3, <1>4 DEF OrderSound

\* A stop that turns into a LIMIT order stays a valid OPEN order.
LEMMA TurnedSound ==
    ASSUME NEW o \in Order, OrderSound(o), o.status = "OPEN"
    PROVE  LET l == [o EXCEPT !.order_type = "LIMIT"]
           IN  /\ OrderSound(l)
               /\ l.status = "OPEN" /\ l.symbol = o.symbol
               /\ l.qty = o.qty /\ l.filled_qty = o.filled_qty
               /\ l.order_type = "LIMIT" /\ l.trigger_price = o.trigger_price
  BY DEF OrderSound, Order, OrderTypes

\* The order made of a request passes the checks of place_order, or is rejected.
LEMMA NewOrderSound ==
    ASSUME NEW r \in Request
    PROVE  /\ ~Invalid(r) => OrderSound(NewOrder(r, "OPEN"))
           /\ OrderSound(NewOrder(r, "REJECTED"))
           /\ r.symbol \in Symbols
  BY RequestsAssumption
     DEF Request, Invalid, OrderSound, NewOrder, Order, Statuses, OrderTypes, Sides, NoPrice

\* The closing order of an open position is valid.
LEMMA CloseOrderSound ==
    ASSUME NEW s \in OpenSymbols, positions \in [Symbols -> Position]
    PROVE  /\ OrderSound(CloseOrder(s)) /\ CloseOrder(s).status = "OPEN"
           /\ CloseOrder(s).symbol = s /\ CloseOrder(s).strategy_id = KillSwitch
           /\ CloseOrder(s).order_type = "MARKET"
           /\ CloseOrder(s).qty = Abs(positions[s].qty)
           /\ CloseOrder(s).side = IF positions[s].qty > 0 THEN "SELL" ELSE "BUY"
<1>. DEFINE q == Abs(positions[s].qty)
            side == IF positions[s].qty > 0 THEN "SELL" ELSE "BUY"
            o == [symbol |-> s, side |-> side, order_type |-> "MARKET", qty |-> q, price |-> 0,
                  trigger_price |-> 0, strategy_id |-> "KILL_SWITCH", status |-> "OPEN",
                  filled_qty |-> 0]
<1>1. s \in Symbols /\ q \in Nat /\ q > 0 /\ side \in Sides
  BY DEF OpenSymbols, Position, Abs, Sides
<1>2. CloseOrder(s) = o
  BY DEF CloseOrder, NewOrder, NoPrice, KillSwitch
<1>. HIDE DEF q, side
<1>3. o \in Order
  BY <1>1 DEF Order, Statuses, OrderTypes, KillSwitch
<1>4. OrderSound(o)
  BY <1>1, <1>3 DEF OrderSound
<1>. QED BY <1>1, <1>2, <1>4 DEF q, side, KillSwitch

-----------------------------------------------------------------------------
(* Money                                                                     *)

AccountType == [pos : Position, cash : Int, fills : Seq(Fill)]

\* A slipped price is an integer.
LEMMA SlippedPriceType ==
    ASSUME NEW side, NEW p \in Int
    PROVE  SlippedPrice(side, p) \in Int
<1>. DEFINE f == IF side = "BUY" THEN 10000 + SlippageBps ELSE 10000 - SlippageBps
<1>1. f \in Int
  BY AmountsAssumption
<1>. HIDE DEF f
<1>2. p * f + 5000 \in Int
  BY <1>1
<1>. QED BY <1>2 DEF SlippedPrice, f

\* _apply_fill keeps the types of the position, the cash and the fills when it
\* executes something.
LEMMA ApplyFillType ==
    ASSUME NEW acct \in AccountType, NEW id \in Nat \ {0}, NEW o, OrderSound(o),
           o.status = "OPEN", NEW price \in Int
    PROVE  ApplyFill(acct, id, o, price) \in AccountType
<1>. DEFINE q == Remaining(o)
<1>1. q \in Nat /\ q > 0 /\ o.side \in Sides
  BY DEF OrderSound, Order, Remaining
<1>. HIDE DEF q
<1>2. acct.pos \in Position /\ acct.cash \in Int /\ acct.fills \in Seq(Fill)
  BY DEF AccountType
<1>3. Signed(o.side, q) \in Int
  BY <1>1 DEF Signed
<1>4. ASSUME NEW pos \in Position, Opening(pos, o.side)
      PROVE  Increase(pos, o.side, q, price) \in Position
  <2>. DEFINE held == pos.qty + Signed(o.side, q)
              avg  == (pos.avg_price * Abs(pos.qty) + price * q) \div Abs(held)
  <2>1. held \in Int /\ held # 0
    BY <1>1, <1>4 DEF Opening, Signed, Position, Sides
  <2>2. pos.avg_price * Abs(pos.qty) + price * q \in Int
    BY <1>1 DEF Position, Abs
  <2>3. Abs(held) \in Nat /\ Abs(held) > 0
    BY <2>1 DEF Abs
  <2>4. avg \in Int
    BY <2>2, <2>3
  <2>5. Increase(pos, o.side, q, price) = [pos EXCEPT !.qty = held, !.avg_price = avg]
    BY DEF Increase
  <2>. HIDE DEF avg, held
  <2>. QED BY <2>1, <2>4, <2>5 DEF Position
<1>5. Reduce(acct.pos, o.side, q, price) \in Position
  <2>. DEFINE closed == Min({Abs(acct.pos.qty), q})
              gain == IF o.side = "SELL" THEN price - acct.pos.avg_price
                                         ELSE acct.pos.avg_price - price
  <2>1. closed \in Int
    <3>1. Abs(acct.pos.qty) \in Int /\ q \in Int
      BY <1>1, <1>2 DEF Abs, Position
    <3>2. \E x \in {Abs(acct.pos.qty), q} : \A y \in {Abs(acct.pos.qty), q} : x <= y
      BY <3>1
    <3>. QED BY <3>1, <3>2 DEF Min
  <2>2. gain \in Int
    BY <1>2 DEF Position
  <2>3. acct.pos.realized_pnl + gain * closed \in Int
    BY <1>2, <2>1, <2>2 DEF Position
  <2>. HIDE DEF closed, gain
  <2>. QED BY <1>1, <1>2, <1>3, <2>3 DEF Reduce, Position, closed, gain
<1>6. acct.cash - Signed(o.side, price * q) \in Int
  BY <1>1, <1>2 DEF Signed
<1>7. Append(acct.fills, [order |-> id, qty |-> q, price |-> price]) \in Seq(Fill)
  BY <1>1, <1>2, AppendProperties DEF Fill
<1>. QED BY <1>4, <1>5, <1>6, <1>7 DEF ApplyFill, AccountType, q

\* run holds the account after each turn of a scan.
IsScan(run, acct, os, bucket, p) ==
    /\ run = [k \in 0 .. Len(os) |->
                 IF k = 0 THEN acct ELSE ScanStep(run[k - 1], os, bucket, p, k)]
    /\ ScanAccount(acct, os, bucket, p) = run[Len(os)]

\* The recursive function inside ScanAccount exists: a scan goes turn by turn.
LEMMA ScanRun ==
    ASSUME NEW acct, NEW os, NEW bucket, NEW p, Len(os) \in Nat
    PROVE  \E run : IsScan(run, acct, os, bucket, p)
<1>. DEFINE n == Len(os)
            Next1(a, k) == ScanStep(a, os, bucket, p, k)
            IsRun(g, m) == g = [k \in 0 .. m |-> IF k = 0 THEN acct ELSE Next1(g[k - 1], k)]
            Runs == {m \in Nat : \E g : IsRun(g, m)}
<1>. HIDE DEF Next1
<1>1. 0 \in Runs
  <2>. DEFINE g == [k \in 0 .. 0 |-> acct]
  <2>1. IsRun(g, 0) OBVIOUS
  <2>. QED BY <2>1
<1>2. ASSUME NEW m \in Nat, m \in Runs PROVE m + 1 \in Runs
  <2>1. PICK g : IsRun(g, m) BY <1>2
  <2>. DEFINE h == [k \in 0 .. m + 1 |-> IF k = m + 1 THEN Next1(g[m], m + 1) ELSE g[k]]
  <2>2. IsRun(h, m + 1) BY <2>1
  <2>. HIDE DEF h, IsRun
  <2>. QED BY <2>2
<1>3. PICK g : IsRun(g, n)
  <2>. HIDE DEF Runs
  <2>1. Nat \subseteq Runs BY <1>1, <1>2, SetInduction
  <2>. QED BY <2>1 DEF Runs
<1>. DEFINE run == CHOOSE f : f = [k \in 0 .. n |-> IF k = 0 THEN acct ELSE Next1(f[k - 1], k)]
<1>4. run = [k \in 0 .. n |-> IF k = 0 THEN acct ELSE Next1(run[k - 1], k)]
  BY <1>3, Zenon
<1>5. ScanAccount(acct, os, bucket, p) = run[n]
  BY DEF ScanAccount, Next1
<1>6. IsScan(run, acct, os, bucket, p)
  BY <1>4, <1>5 DEF IsScan, Next1
<1>. HIDE DEF run
<1>. QED BY <1>6

\* Each turn of a scan keeps the account well typed, and so does the scan.
LEMMA ScanAccountType ==
    ASSUME NEW acct \in AccountType, NEW os \in Seq(Order), NEW bucket, NEW p \in Int,
           \A i \in 1 .. Len(os) : OrderSound(os[i]),
           \A i \in 1 .. Len(os) : i \in bucket => os[i].status = "OPEN"
    PROVE  ScanAccount(acct, os, bucket, p) \in AccountType
<1>. DEFINE n == Len(os)
<1>1. n \in Nat
  BY LenProperties
<1>2. ASSUME NEW a \in AccountType, NEW k \in 1 .. n
      PROVE  ScanStep(a, os, bucket, p, k) \in AccountType
  <2>1. CASE ~(k \in bucket /\ Executable(os[k], p))
    BY <2>1 DEF ScanStep
  <2>2. CASE k \in bucket /\ Executable(os[k], p)
    <3>1. os[k] \in Order /\ OrderSound(os[k]) /\ os[k].status = "OPEN" /\ k \in Nat \ {0}
      BY <1>1, <2>2, ElementOfSeq
    <3>2. FillPrice(os[k], p) \in Int
      BY <3>1, SlippedPriceType DEF FillPrice, Order
    <3>3. ApplyFill(a, k, os[k], FillPrice(os[k], p)) \in AccountType
      BY <3>1, <3>2, ApplyFillType
    <3>. QED BY <2>2, <3>3 DEF ScanStep
  <2>. QED BY <2>1, <2>2
<1>3. PICK run : IsScan(run, acct, os, bucket, p)
  BY <1>1, ScanRun
<1>4. /\ run = [k \in 0 .. n |-> IF k = 0 THEN acct ELSE ScanStep(run[k - 1], os, bucket, p, k)]
      /\ ScanAccount(acct, os, bucket, p) = run[n]
  BY <1>3 DEF IsScan
<1>. DEFINE Typed == {k \in Nat : k \in 0 .. n => run[k] \in AccountType}
<1>5. 0 \in Typed
  BY <1>1, <1>4
<1>6. ASSUME NEW k \in Nat, k \in Typed PROVE k + 1 \in Typed
  <2>. SUFFICES ASSUME k + 1 \in 0 .. n PROVE run[k + 1] \in AccountType
    OBVIOUS
  <2>1. run[k] \in AccountType
    BY <1>1, <1>6
  <2>2. run[k + 1] = ScanStep(run[k], os, bucket, p, k + 1)
    BY <1>1, <1>4
  <2>. QED BY <1>1, <1>2, <2>1, <2>2
<1>. HIDE DEF Typed
<1>7. n \in Typed
  BY <1>1, <1>5, <1>6, SetInduction
<1>8. run[n] \in AccountType
  <2>. HIDE DEF n
  <2>. QED BY <1>1, <1>7 DEF Typed
<1>. QED BY <1>4, <1>8

\* run holds the cash after each closing of a visit that starts from cash0.
IsTally(run, visit, cash0) ==
    /\ run = [k \in 0 .. Len(visit) |->
                 IF k = 0 THEN cash0 ELSE run[k - 1] + Closing(visit[k], 0).cash]
    /\ CashAfter(visit) = run[Len(visit)]

\* The recursive function inside CashAfter exists: the cash goes closing by closing.
LEMMA CashRun ==
    ASSUME NEW visit, Len(visit) \in Nat
    PROVE  \E run : IsTally(run, visit, capital)
<1>. DEFINE n == Len(visit)
            Flow(k) == Closing(visit[k], 0).cash
            IsRun(g, m) == g = [k \in 0 .. m |-> IF k = 0 THEN capital ELSE g[k - 1] + Flow(k)]
            Runs == {m \in Nat : \E g : IsRun(g, m)}
<1>. HIDE DEF Flow
<1>1. 0 \in Runs
  <2>. DEFINE g == [k \in 0 .. 0 |-> capital]
  <2>1. IsRun(g, 0) OBVIOUS
  <2>. QED BY <2>1
<1>2. ASSUME NEW m \in Nat, m \in Runs PROVE m + 1 \in Runs
  <2>1. PICK g : IsRun(g, m) BY <1>2
  <2>. DEFINE h == [k \in 0 .. m + 1 |-> IF k = m + 1 THEN g[m] + Flow(m + 1) ELSE g[k]]
  <2>2. IsRun(h, m + 1) BY <2>1
  <2>. HIDE DEF h, IsRun
  <2>. QED BY <2>2
<1>3. PICK g : IsRun(g, n)
  <2>. HIDE DEF Runs
  <2>1. Nat \subseteq Runs BY <1>1, <1>2, SetInduction
  <2>. QED BY <2>1 DEF Runs
<1>. DEFINE run == CHOOSE f : f = [k \in 0 .. n |-> IF k = 0 THEN capital ELSE f[k - 1] + Flow(k)]
<1>4. run = [k \in 0 .. n |-> IF k = 0 THEN capital ELSE run[k - 1] + Flow(k)]
  BY <1>3, Zenon
<1>5. CashAfter(visit) = run[n]
  BY DEF CashAfter, Flow
<1>6. IsTally(run, visit, capital)
  BY <1>4, <1>5 DEF IsTally, Flow
<1>. HIDE DEF run
<1>. QED BY <1>6

\* The cash left after a visit is an integer.
LEMMA CashAfterType ==
    ASSUME NEW visit, DOMAIN visit = 1 .. Len(visit), Len(visit) \in Nat, capital \in Int,
           \A k \in DOMAIN visit : Closing(visit[k], 0).cash \in Int
    PROVE  CashAfter(visit) \in Int
<1>. DEFINE n == Len(visit)
            Flow(k) == Closing(visit[k], 0).cash
<1>1. n \in Nat /\ \A k \in 1 .. n : Flow(k) \in Int
  OBVIOUS
<1>2. PICK run : IsTally(run, visit, capital)
  BY CashRun
<1>3. /\ run = [k \in 0 .. n |-> IF k = 0 THEN capital ELSE run[k - 1] + Flow(k)]
      /\ CashAfter(visit) = run[n]
  BY <1>2 DEF IsTally
<1>. HIDE DEF Flow
<1>. DEFINE Typed == {k \in Nat : k \in 0 .. n => run[k] \in Int}
<1>4. 0 \in Typed
  BY <1>1, <1>3
<1>5. ASSUME NEW k \in Nat, k \in Typed PROVE k + 1 \in Typed
  <2>. SUFFICES ASSUME k + 1 \in 0 .. n PROVE run[k + 1] \in Int
    OBVIOUS
  <2>1. run[k] \in Int
    BY <1>1, <1>5
  <2>2. run[k + 1] = run[k] + Flow(k + 1)
    BY <1>1, <1>3
  <2>. QED BY <1>1, <2>1, <2>2
<1>. HIDE DEF Typed
<1>6. n \in Typed
  BY <1>1, <1>4, <1>5, SetInduction
<1>7. run[n] \in Int
  <2>. HIDE DEF n
  <2>. QED BY <1>1, <1>6 DEF Typed
<1>. QED BY <1>3, <1>7

-----------------------------------------------------------------------------
(* The order table and the buckets                                           *)

BookSound(os, rs) ==
    /\ os \in Seq(Order)
    /\ rs \in [Symbols -> SUBSET (1 .. Len(os))]
    /\ \A i \in 1 .. Len(os) : OrderSound(os[i])
    /\ \A s \in Symbols : \A i \in 1 .. Len(os) :
         i \in rs[s] <=> os[i].status = "OPEN" /\ os[i].symbol = s

\* No order of a bucket waits at a price at which it should have moved.
Quiet(os, bucket, p) ==
    \A i \in bucket : p # NoPrice =>
        /\ os[i].order_type \in {"SL", "SL_M"} => ~Triggered(os[i], p)
        /\ os[i].order_type = "LIMIT" /\ os[i].trigger_price = NoPrice => ~Crossed(os[i], p)

\* BookSound and Quiet are the named properties of the book, on any table.
LEMMA BookSoundIsInvariant ==
    ASSUME BookTypeOK
    PROVE  /\ BookSound(orders, resting) <=>
                RestingMatchesOrders /\ FilledWholeOrNotAtAll /\ OpenOrdersAreValid
           /\ NoMissedFill <=> \A s \in Symbols : Quiet(orders, resting[s], ltp[s])
<1>1. DOMAIN orders = 1 .. Len(orders) /\ \A i \in 1 .. Len(orders) : orders[i] \in Order
  BY LenProperties, ElementOfSeq DEF BookTypeOK
<1>2. \A i \in 1 .. Len(orders) : orders[i].order_type \in OrderTypes
  BY <1>1 DEF Order
<1>3. BookSound(orders, resting) <=>
        RestingMatchesOrders /\ FilledWholeOrNotAtAll /\ OpenOrdersAreValid
  BY <1>1 DEF BookSound, OrderSound, BookTypeOK, RestingMatchesOrders,
              FilledWholeOrNotAtAll, OpenOrdersAreValid
<1>4. NoMissedFill <=> \A s \in Symbols : Quiet(orders, resting[s], ltp[s])
  <2>1. \A s \in Symbols : \A i \in resting[s] : i \in 1 .. Len(orders)
    BY DEF BookTypeOK
  <2>. QED BY <1>2, <2>1 DEF NoMissedFill, Quiet, OrderTypes
<1>. QED BY <1>3, <1>4

\* Appending an order that is not OPEN leaves the buckets right.
LEMMA AppendEnded ==
    ASSUME NEW os, NEW rs, BookSound(os, rs), NEW o \in Order, OrderSound(o), o.status # "OPEN"
    PROVE  /\ BookSound(Append(os, o), rs)
           /\ \A s \in Symbols, p \in Nat : Quiet(os, rs[s], p) => Quiet(Append(os, o), rs[s], p)
<1>1. os \in Seq(Order)
  BY DEF BookSound
<1>2. /\ Append(os, o) \in Seq(Order)
      /\ Len(Append(os, o)) = Len(os) + 1
      /\ \A i \in 1 .. Len(os) : Append(os, o)[i] = os[i]
      /\ Append(os, o)[Len(os) + 1] = o
      /\ Len(os) \in Nat
  BY <1>1, AppendProperties, LenProperties
<1>. DEFINE os2 == Append(os, o)
<1>. HIDE DEF os2
<1>3. \A s \in Symbols : rs[s] \subseteq 1 .. Len(os)
  BY DEF BookSound
<1>4. BookSound(os2, rs)
  BY <1>2, <1>3 DEF BookSound, os2
<1>5. \A s \in Symbols, p \in Nat : Quiet(os, rs[s], p) => Quiet(os2, rs[s], p)
  BY <1>2, <1>3 DEF Quiet, os2
<1>. QED BY <1>4, <1>5 DEF os2

\* Appending an OPEN order to the table and to the bucket of its symbol.
LEMMA AppendOpen ==
    ASSUME NEW os, NEW rs, BookSound(os, rs), NEW o \in Order, OrderSound(o), o.status = "OPEN"
    PROVE  LET os2 == Append(os, o)
               rs2 == [rs EXCEPT ![o.symbol] = @ \cup {Len(os) + 1}]
           IN  /\ BookSound(os2, rs2)
               /\ \A s \in Symbols \ {o.symbol}, p \in Nat :
                     Quiet(os, rs[s], p) => Quiet(os2, rs2[s], p)
<1>1. os \in Seq(Order) /\ o.symbol \in Symbols
  BY DEF BookSound, Order
<1>2. /\ Append(os, o) \in Seq(Order)
      /\ Len(Append(os, o)) = Len(os) + 1
      /\ \A i \in 1 .. Len(os) : Append(os, o)[i] = os[i]
      /\ Append(os, o)[Len(os) + 1] = o
      /\ Len(os) \in Nat
  BY <1>1, AppendProperties, LenProperties
<1>. DEFINE os2 == Append(os, o)
            rs2 == [rs EXCEPT ![o.symbol] = @ \cup {Len(os) + 1}]
<1>3. /\ rs \in [Symbols -> SUBSET (1 .. Len(os))]
      /\ \A s \in Symbols : rs[s] \subseteq 1 .. Len(os)
      /\ \A s \in Symbols \ {o.symbol} : rs2[s] = rs[s]
      /\ rs2[o.symbol] = rs[o.symbol] \cup {Len(os) + 1}
  BY <1>1 DEF BookSound
<1>4. rs2 \in [Symbols -> SUBSET (1 .. Len(os2))]
  BY <1>1, <1>2, <1>3
<1>. HIDE DEF os2, rs2
<1>5. BookSound(os2, rs2)
  <2>1. \A i \in 1 .. Len(os2) : OrderSound(os2[i])
    BY <1>2 DEF BookSound, os2
  <2>2. ASSUME NEW s \in Symbols, NEW i \in 1 .. Len(os2)
        PROVE  i \in rs2[s] <=> os2[i].status = "OPEN" /\ os2[i].symbol = s
    <3>1. CASE i = Len(os) + 1
      BY <1>1, <1>2, <1>3, <3>1 DEF os2
    <3>2. CASE i \in 1 .. Len(os)
      <4>1. i \in rs2[s] <=> i \in rs[s]
        BY <1>1, <1>2, <1>3, <3>2
      <4>. QED BY <1>2, <3>2, <4>1 DEF BookSound, os2
    <3>. QED BY <1>2, <3>1, <3>2 DEF os2
  <2>. QED BY <1>2, <1>4, <2>1, <2>2 DEF BookSound, os2
<1>6. ASSUME NEW s \in Symbols \ {o.symbol}, NEW p \in Nat, Quiet(os, rs[s], p)
      PROVE  Quiet(os2, rs2[s], p)
  BY <1>2, <1>3, <1>6 DEF Quiet, os2
<1>. QED BY <1>5, <1>6 DEF os2, rs2

\* What a scan does to one order of the table.
LEMMA ScanOrder ==
    ASSUME NEW os, NEW rs, BookSound(os, rs), NEW s \in Symbols, NEW p \in Nat \ {NoPrice},
           NEW i \in 1 .. Len(os)
    PROVE  LET old == os[i]
               new == ScanOrders(os, rs[s], p)[i]
           IN  /\ OrderSound(new) /\ new.symbol = old.symbol /\ new.qty = old.qty
               /\ new.strategy_id = old.strategy_id
               /\ \/ new = old /\ ~(i \in rs[s] /\ Executable(old, p))
                               /\ ~(i \in rs[s] /\ TurnsLimit(old, p))
                  \/ /\ i \in rs[s] /\ Executable(old, p)
                     /\ old.status = "OPEN" /\ new.status = "FILLED" /\ new.filled_qty = old.qty
                  \/ /\ i \in rs[s] /\ ~Executable(old, p) /\ old.order_type = "SL"
                     /\ old.status = "OPEN" /\ new.status = "OPEN"
                     /\ new.filled_qty = old.filled_qty
                     /\ new.order_type = "LIMIT" /\ new.trigger_price # NoPrice
<1>. DEFINE old == os[i]
            new == ScanOrders(os, rs[s], p)[i]
<1>1. /\ old \in Order /\ OrderSound(old)
      /\ i \in rs[s] => old.status = "OPEN"
      /\ DOMAIN os = 1 .. Len(os)
  BY ElementOfSeq, LenProperties DEF BookSound
<1>2. new = IF i \in rs[s] /\ Executable(old, p) THEN Executed(old)
            ELSE IF i \in rs[s] /\ TurnsLimit(old, p) THEN [old EXCEPT !.order_type = "LIMIT"]
            ELSE old
  BY <1>1 DEF ScanOrders
<1>. HIDE DEF old, new
<1>3. CASE i \in rs[s] /\ Executable(old, p)
  BY <1>1, <1>2, <1>3, ExecutedSound DEF old, new
<1>4. CASE i \in rs[s] /\ ~Executable(old, p) /\ TurnsLimit(old, p)
  <2>1. new = [old EXCEPT !.order_type = "LIMIT"] /\ old.status = "OPEN" /\ old.order_type = "SL"
    BY <1>1, <1>2, <1>4 DEF TurnsLimit
  <2>2. new.strategy_id = old.strategy_id
    BY <1>1, <2>1 DEF Order
  <2>3. old.trigger_price # NoPrice
    BY <1>1, <2>1 DEF OrderSound
  <2>. QED BY <1>1, <1>4, <2>1, <2>2, <2>3, TurnedSound DEF old, new
<1>5. CASE ~(i \in rs[s] /\ Executable(old, p)) /\ ~(i \in rs[s] /\ TurnsLimit(old, p))
  BY <1>1, <1>2, <1>5 DEF old, new
<1>. QED BY <1>3, <1>4, <1>5

\* A scan keeps the table and the buckets right, leaves nothing in the scanned
\* bucket that should have moved, and does not disturb the other buckets.
LEMMA ScanSound ==
    ASSUME NEW os, NEW rs, BookSound(os, rs), NEW s \in Symbols, NEW p \in Nat \ {NoPrice}
    PROVE  LET os2 == ScanOrders(os, rs[s], p)
               rs2 == [rs EXCEPT ![s] = ScanBucket(os, rs[s], p)]
           IN  /\ BookSound(os2, rs2)
               /\ Len(os2) = Len(os)
               /\ Quiet(os2, rs2[s], p)
               /\ \A t \in Symbols \ {s}, q \in Nat : Quiet(os, rs[t], q) => Quiet(os2, rs2[t], q)
<1>. DEFINE os2 == ScanOrders(os, rs[s], p)
            rs2 == [rs EXCEPT ![s] = ScanBucket(os, rs[s], p)]
            New(i) == os2[i]
<1>1. /\ DOMAIN os = 1 .. Len(os) /\ Len(os) \in Nat
      /\ rs \in [Symbols -> SUBSET (1 .. Len(os))]
      /\ \A t \in Symbols : rs[t] \subseteq 1 .. Len(os)
      /\ \A i \in 1 .. Len(os) : os[i] \in Order /\ OrderSound(os[i])
      /\ \A t \in Symbols : \A i \in rs[t] : os[i].status = "OPEN" /\ os[i].symbol = t
  BY LenProperties, ElementOfSeq DEF BookSound
<1>2. /\ DOMAIN os2 = 1 .. Len(os)
      /\ \A i \in 1 .. Len(os) : os2[i] \in Order
  <2>1. \A i \in 1 .. Len(os) : OrderSound(os2[i])
    BY ScanOrder
  <2>. QED BY <1>1, <2>1 DEF OrderSound, ScanOrders
<1>3. os2 \in Seq(Order) /\ Len(os2) = Len(os)
  <2>1. os2 = [i \in 1 .. Len(os) |-> New(i)]
    BY <1>1 DEF ScanOrders
  <2>2. os2 \in [1 .. Len(os) -> Order]
    BY <1>2, <2>1
  <2>3. os2 \in Seq(Order)
    BY <1>1, <2>2, SeqDef
  <2>. HIDE DEF os2
  <2>. QED BY <1>1, <1>2, <2>3, LenProperties
<1>4. /\ rs2[s] = {i \in rs[s] : ~Executable(os[i], p)}
      /\ \A t \in Symbols \ {s} : rs2[t] = rs[t]
      /\ rs2 \in [Symbols -> SUBSET (1 .. Len(os))]
  BY <1>1 DEF ScanBucket, Terminal
<1>. HIDE DEF New, os2, rs2
<1>5. \A i \in 1 .. Len(os) : \A t \in Symbols \ {s} : i \in rs[t] => os2[i] = os[i]
  BY <1>1, ScanOrder DEF os2
<1>6. BookSound(os2, rs2)
  <2>1. \A i \in 1 .. Len(os) : OrderSound(os2[i])
    BY ScanOrder DEF os2
  <2>2. ASSUME NEW t \in Symbols, NEW i \in 1 .. Len(os)
        PROVE  i \in rs2[t] <=> os2[i].status = "OPEN" /\ os2[i].symbol = t
    <3>1. i \in rs[t] <=> os[i].status = "OPEN" /\ os[i].symbol = t
      BY DEF BookSound
    <3>2. /\ os2[i].symbol = os[i].symbol
          /\ \/ os2[i] = os[i] /\ ~(i \in rs[s] /\ Executable(os[i], p))
             \/ i \in rs[s] /\ Executable(os[i], p) /\ os[i].status = "OPEN" /\ os2[i].status = "FILLED"
             \/ i \in rs[s] /\ ~Executable(os[i], p) /\ os[i].status = "OPEN" /\ os2[i].status = "OPEN"
      BY ScanOrder DEF os2
    <3>3. CASE t = s
      BY <1>4, <3>1, <3>2, <3>3
    <3>4. CASE t # s
      BY <1>1, <1>4, <3>1, <3>2, <3>4
    <3>. QED BY <3>3, <3>4
  <2>. QED BY <1>3, <1>4, <2>1, <2>2 DEF BookSound
<1>7. Quiet(os2, rs2[s], p)
  <2>. SUFFICES ASSUME NEW i \in rs2[s]
                PROVE  /\ os2[i].order_type \in {"SL", "SL_M"} => ~Triggered(os2[i], p)
                       /\ os2[i].order_type = "LIMIT" /\ os2[i].trigger_price = NoPrice
                             => ~Crossed(os2[i], p)
    BY DEF Quiet
  <2>1. i \in 1 .. Len(os) /\ i \in rs[s] /\ ~Executable(os[i], p) /\ ~Terminal(os[i])
    BY <1>1, <1>4 DEF Terminal
  <2>2. \/ os2[i] = os[i] /\ ~TurnsLimit(os[i], p)
        \/ os2[i].order_type = "LIMIT" /\ os2[i].trigger_price # NoPrice
    <3>1. \/ os2[i] = os[i] /\ ~(i \in rs[s] /\ TurnsLimit(os[i], p))
          \/ i \in rs[s] /\ Executable(os[i], p)
          \/ os2[i].order_type = "LIMIT" /\ os2[i].trigger_price # NoPrice
      BY <2>1, ScanOrder DEF os2
    <3>. QED BY <2>1, <3>1
  <2>. QED BY <2>1, <2>2 DEF Executable, TurnsLimit
<1>8. \A t \in Symbols \ {s}, q \in Nat : Quiet(os, rs[t], q) => Quiet(os2, rs2[t], q)
  BY <1>1, <1>4, <1>5 DEF Quiet
<1>. QED BY <1>3, <1>6, <1>7, <1>8 DEF os2, rs2

-----------------------------------------------------------------------------
(* What a step may do to the table, seen from OrderLedger                    *)

OrderMoves(o, n) ==
    /\ n.qty = o.qty
    /\ \/ n.status = o.status /\ n.filled_qty = o.filled_qty
       \/ o.status = "OPEN" /\ n.status = "FILLED" /\ n.filled_qty = o.qty
       \/ o.status = "OPEN" /\ n.status = "CANCELLED" /\ n.filled_qty = o.filled_qty

LedgerStep(os, os2) ==
    /\ DOMAIN os \subseteq DOMAIN os2
    /\ \A i \in DOMAIN os : OrderMoves(os[i], os2[i])
    /\ \A i \in DOMAIN os2 \ DOMAIN os : OrderSound(os2[i]) /\ os2[i].status # "CANCELLED"

\* An order appended to the table is a new entry of the ledger.
LEMMA AppendMoves ==
    ASSUME NEW os, NEW rs, BookSound(os, rs),
           NEW o \in Order, OrderSound(o), o.status # "CANCELLED"
    PROVE  LedgerStep(os, Append(os, o))
<1>1. os \in Seq(Order)
  BY DEF BookSound
<1>2. /\ DOMAIN os = 1 .. Len(os) /\ Len(os) \in Nat
      /\ DOMAIN Append(os, o) = 1 .. (Len(os) + 1)
      /\ \A i \in 1 .. Len(os) : Append(os, o)[i] = os[i]
      /\ Append(os, o)[Len(os) + 1] = o
  BY <1>1, AppendProperties, LenProperties
<1>. QED BY <1>2 DEF LedgerStep, OrderMoves

\* A scan only executes entries.
LEMMA ScanMoves ==
    ASSUME NEW os, NEW rs, BookSound(os, rs), NEW s \in Symbols, NEW p \in Nat \ {NoPrice}
    PROVE  LET os2 == ScanOrders(os, rs[s], p)
           IN  /\ LedgerStep(os, os2)
               /\ DOMAIN os2 = DOMAIN os
               /\ \A i \in DOMAIN os : os2[i].status = "CANCELLED" => os[i].status = "CANCELLED"
<1>. DEFINE os2 == ScanOrders(os, rs[s], p)
<1>1. DOMAIN os = 1 .. Len(os) /\ DOMAIN os2 = DOMAIN os
  BY LenProperties DEF BookSound, ScanOrders
<1>2. ASSUME NEW i \in 1 .. Len(os)
      PROVE  /\ OrderMoves(os[i], os2[i])
             /\ os2[i].status = "CANCELLED" => os[i].status = "CANCELLED"
  <2>. HIDE DEF os2
  <2>. QED BY ScanOrder DEF OrderMoves, os2
<1>. HIDE DEF os2
<1>. QED BY <1>1, <1>2 DEF LedgerStep, os2

\* Entering the ledger and being executed in the same step is entering executed.
LEMMA LedgerStepTransitive ==
    ASSUME NEW a, NEW b, NEW c, LedgerStep(a, b), LedgerStep(b, c), DOMAIN c = DOMAIN b,
           \A i \in DOMAIN c : OrderSound(c[i]),
           \A i \in DOMAIN b : c[i].status = "CANCELLED" => b[i].status = "CANCELLED"
    PROVE  LedgerStep(a, c)
  BY DEF LedgerStep, OrderMoves

-----------------------------------------------------------------------------
(* Each action preserves the invariant                                       *)

\* What every step needs of the invariant, in the terms of the lemmas.
LEMMA InvFacts ==
    ASSUME BookInv
    PROVE  /\ BookSound(orders, resting)
           /\ \A s \in Symbols : Quiet(orders, resting[s], ltp[s])
           /\ \A s \in Symbols : Account(s) \in AccountType
           /\ Len(orders) \in Nat /\ DOMAIN orders = 1 .. Len(orders)
<1>1. BookTypeOK /\ MoneyTypeOK
  BY DEF BookInv, TypeOK
<1>2. BookSound(orders, resting) /\ \A s \in Symbols : Quiet(orders, resting[s], ltp[s])
  BY <1>1, BookSoundIsInvariant DEF BookInv
<1>3. \A s \in Symbols : Account(s) \in AccountType
  BY <1>1 DEF MoneyTypeOK, Account, AccountType
<1>. QED BY <1>1, <1>2, <1>3, LenProperties DEF BookTypeOK

\* The converse, for the state after a step.
LEMMA InvFromFacts ==
    ASSUME BookSound(orders, resting)', (\A s \in Symbols : Quiet(orders, resting[s], ltp[s]))',
           ltp' \in [Symbols -> Nat], killed' \in BOOLEAN, killAmount' \in KillAmounts,
           squareOffs' \in Nat, MoneyTypeOK'
    PROVE  BookInv'
<1>1. BookTypeOK'
  BY DEF BookTypeOK, BookSound
<1>2. (RestingMatchesOrders /\ FilledWholeOrNotAtAll /\ OpenOrdersAreValid /\ NoMissedFill)'
  <2>1. DOMAIN orders' = 1 .. Len(orders') /\ \A i \in 1 .. Len(orders') : orders'[i] \in Order
    BY <1>1, LenProperties, ElementOfSeq DEF BookTypeOK
  <2>2. (RestingMatchesOrders /\ FilledWholeOrNotAtAll /\ OpenOrdersAreValid)'
    BY <2>1 DEF BookSound, OrderSound, RestingMatchesOrders, FilledWholeOrNotAtAll, OpenOrdersAreValid
  <2>3. \A s \in Symbols : \A i \in resting'[s] : i \in 1 .. Len(orders')
    BY <1>1 DEF BookTypeOK
  <2>4. NoMissedFill'
    BY <2>1, <2>3 DEF NoMissedFill, Quiet, Order, OrderTypes
  <2>. QED BY <2>2, <2>4
<1>. QED BY <1>1, <1>2 DEF BookInv, TypeOK

\* Writing an account back keeps the types of the money.
LEMMA PostType ==
    ASSUME MoneyTypeOK, NEW s \in Symbols, NEW acct \in AccountType, Post(s, acct)
    PROVE  MoneyTypeOK'
  BY DEF MoneyTypeOK, Post, AccountType

\* The empty book satisfies the invariant.
LEMMA InitInv == Init => BookInv
<1>. SUFFICES ASSUME Init PROVE BookInv
  OBVIOUS
<1>1. orders \in Seq(Order) /\ Len(orders) = 0 /\ DOMAIN orders = {}
  BY DEF Init
<1>2. fills \in Seq(Fill)
  BY DEF Init
<1>3. BookTypeOK
  BY <1>1 DEF Init, BookTypeOK, NoPrice
<1>4. MoneyTypeOK
  BY <1>2, AmountsAssumption DEF Init, MoneyTypeOK, FlatPosition, Position
<1>5. RestingMatchesOrders /\ FilledWholeOrNotAtAll /\ OpenOrdersAreValid /\ NoMissedFill
  BY <1>1 DEF Init, RestingMatchesOrders, FilledWholeOrNotAtAll, OpenOrdersAreValid, NoMissedFill
<1>. QED BY <1>3, <1>4, <1>5 DEF BookInv, TypeOK

\* A place_order that finds the loss sets the flag and nothing else.
LEMMA TripOnPlaceStep ==
    ASSUME BookInv, TripOnPlace PROVE BookInv' /\ LedgerStep(orders, orders')
<1>1. MoneyTypeOK'
  BY DEF BookInv, TypeOK, MoneyTypeOK, TripOnPlace, moneyVars
<1>2. BookSound(orders, resting)' /\ (\A s \in Symbols : Quiet(orders, resting[s], ltp[s]))'
  BY InvFacts DEF TripOnPlace, bookVars
<1>3. BookInv'
  BY <1>1, <1>2, InvFromFacts DEF TripOnPlace, BookInv, TypeOK, BookTypeOK
<1>. QED BY <1>3 DEF TripOnPlace, bookVars, LedgerStep, OrderMoves

\* A rejected order enters the table and no bucket.
LEMMA RejectOrderStep ==
    ASSUME NEW r \in Request, BookInv, RejectOrder(r)
    PROVE  BookInv' /\ LedgerStep(orders, orders')
<1>1. MoneyTypeOK'
  BY DEF BookInv, TypeOK, MoneyTypeOK, RejectOrder, moneyVars
<1>. DEFINE o == NewOrder(r, "REJECTED")
<1>2. OrderSound(o) /\ o \in Order /\ o.status = "REJECTED"
  BY NewOrderSound DEF OrderSound, NewOrder
<1>. HIDE DEF o
<1>3. orders' = Append(orders, o) /\ resting' = resting /\ ltp' = ltp
  BY DEF RejectOrder, o
<1>4. ltp \in [Symbols -> Nat]
  BY DEF BookInv, TypeOK, BookTypeOK
<1>5. BookSound(orders', resting')
  BY <1>2, <1>3, InvFacts, AppendEnded
<1>6. \A s \in Symbols : Quiet(orders', resting'[s], ltp'[s])
  BY <1>2, <1>3, <1>4, InvFacts, AppendEnded
<1>7. BookInv'
  BY <1>1, <1>3, <1>5, <1>6, InvFromFacts
     DEF RejectOrder, killVars, BookInv, TypeOK, BookTypeOK
<1>8. LedgerStep(orders, orders')
  BY <1>2, <1>3, InvFacts, AppendMoves
<1>. QED BY <1>7, <1>8

\* A MARKET order with a price enters the table already FILLED.
LEMMA FillMarketOrderStep ==
    ASSUME NEW r \in Request, BookInv, FillMarketOrder(r)
    PROVE  BookInv' /\ LedgerStep(orders, orders')
<1>. DEFINE o == NewOrder(r, "OPEN")
<1>1. OrderSound(o) /\ o \in Order /\ o.status = "OPEN" /\ r.symbol \in Symbols
  BY NewOrderSound DEF OrderSound, NewOrder, FillMarketOrder
<1>2. OrderSound(Executed(o)) /\ Executed(o) \in Order /\ Executed(o).status = "FILLED"
  BY <1>1, ExecutedSound DEF OrderSound
<1>3. ltp \in [Symbols -> Nat]
  BY DEF BookInv, TypeOK, BookTypeOK
<1>. DEFINE acct == ApplyFill(Account(r.symbol), Len(orders) + 1, o,
                              SlippedPrice(r.side, ltp[r.symbol]))
<1>4. acct \in AccountType
  <2>1. SlippedPrice(r.side, ltp[r.symbol]) \in Int
    BY <1>1, <1>3, SlippedPriceType
  <2>2. Len(orders) + 1 \in Nat \ {0}
    BY InvFacts
  <2>. HIDE DEF o
  <2>. QED BY <1>1, <2>1, <2>2, InvFacts, ApplyFillType
<1>5. /\ orders' = Append(orders, Executed(o)) /\ resting' = resting /\ ltp' = ltp
      /\ Post(r.symbol, acct)
  BY DEF FillMarketOrder
<1>. HIDE DEF o, acct
<1>6. MoneyTypeOK'
  BY <1>1, <1>4, <1>5, PostType DEF BookInv, TypeOK
<1>7. BookSound(orders', resting')
  BY <1>2, <1>5, InvFacts, AppendEnded
<1>8. \A s \in Symbols : Quiet(orders', resting'[s], ltp'[s])
  BY <1>2, <1>3, <1>5, InvFacts, AppendEnded
<1>9. BookInv'
  BY <1>3, <1>5, <1>6, <1>7, <1>8, InvFromFacts
     DEF FillMarketOrder, killVars, BookInv, TypeOK, BookTypeOK
<1>10. LedgerStep(orders, orders')
  BY <1>2, <1>5, InvFacts, AppendMoves
<1>. QED BY <1>9, <1>10

\* Any other order enters the table and the bucket of its symbol; with a price the
\* whole bucket is scanned at once.
LEMMA RestOrderStep ==
    ASSUME NEW r \in Request, BookInv, RestOrder(r)
    PROVE  BookInv' /\ LedgerStep(orders, orders')
<1>. DEFINE o == NewOrder(r, "OPEN")
            s == r.symbol
            p == ltp[s]
            os == Append(orders, o)
            rs == [resting EXCEPT ![s] = @ \cup {Len(orders) + 1}]
            bucket == resting[s] \cup {Len(orders) + 1}
<1>1. OrderSound(o) /\ o \in Order /\ o.status = "OPEN" /\ o.symbol = s /\ s \in Symbols
  BY NewOrderSound DEF OrderSound, NewOrder, RestOrder
<1>2. ltp \in [Symbols -> Nat] /\ resting \in [Symbols -> SUBSET (1 .. Len(orders))]
  BY DEF BookInv, TypeOK, BookTypeOK
<1>3. /\ BookSound(os, rs) /\ rs[s] = bucket
      /\ \A t \in Symbols \ {s} : Quiet(os, rs[t], ltp[t])
  <2>. HIDE DEF o
  <2>. QED BY <1>1, <1>2, InvFacts, AppendOpen
<1>4. LedgerStep(orders, os)
  <2>. HIDE DEF o
  <2>. QED BY <1>1, InvFacts, AppendMoves
<1>5. ltp' = ltp /\ UNCHANGED killVars
  BY DEF RestOrder
<1>6. CASE p = NoPrice
  <2>1. orders' = os /\ resting' = rs /\ UNCHANGED moneyVars
    BY <1>6 DEF RestOrder
  <2>. HIDE DEF os, rs, o
  <2>2. MoneyTypeOK'
    BY <2>1 DEF BookInv, TypeOK, MoneyTypeOK, moneyVars
  <2>3. \A t \in Symbols : Quiet(orders', resting'[t], ltp'[t])
    BY <1>3, <1>5, <1>6, <2>1 DEF Quiet
  <2>4. BookInv'
    BY <1>2, <1>3, <1>5, <2>1, <2>2, <2>3, InvFromFacts
       DEF killVars, BookInv, TypeOK, BookTypeOK
  <2>. QED BY <1>4, <2>1, <2>4
<1>7. CASE p # NoPrice
  <2>1. /\ orders' = ScanOrders(os, bucket, p)
        /\ resting' = [resting EXCEPT ![s] = ScanBucket(os, bucket, p)]
        /\ Post(s, ScanAccount(Account(s), os, bucket, p))
    BY <1>7 DEF RestOrder
  <2>2. resting' = [rs EXCEPT ![s] = ScanBucket(os, bucket, p)]
    BY <1>1, <1>2, <2>1
  <2>3. p \in Nat \ {NoPrice}
    BY <1>1, <1>2, <1>7
  <2>. HIDE DEF os, rs, o, bucket, p
  <2>4. /\ BookSound(orders', resting') /\ Quiet(orders', resting'[s], p)
        /\ \A t \in Symbols \ {s} : Quiet(orders', resting'[t], ltp[t])
    <3>1. /\ orders' = ScanOrders(os, rs[s], p)
          /\ resting' = [rs EXCEPT ![s] = ScanBucket(os, rs[s], p)]
      BY <1>3, <2>1, <2>2
    <3>2. \A t \in Symbols \ {s} : ltp[t] \in Nat
      BY <1>2
    <3>. QED BY <1>1, <1>3, <2>3, <3>1, <3>2, ScanSound
  <2>5. ScanAccount(Account(s), os, bucket, p) \in AccountType
    <3>1. /\ os \in Seq(Order) /\ \A i \in 1 .. Len(os) : OrderSound(os[i])
          /\ \A i \in 1 .. Len(os) : i \in bucket => os[i].status = "OPEN"
      BY <1>1, <1>3 DEF BookSound
    <3>. QED BY <1>1, <2>3, <3>1, InvFacts, ScanAccountType
  <2>6. MoneyTypeOK'
    BY <1>1, <2>1, <2>5, PostType DEF BookInv, TypeOK
  <2>7. BookInv'
    BY <1>2, <1>5, <2>4, <2>6, InvFromFacts DEF killVars, BookInv, TypeOK, BookTypeOK, p
  <2>8. /\ LedgerStep(os, orders') /\ DOMAIN orders' = DOMAIN os
        /\ \A i \in DOMAIN os : orders'[i].status = "CANCELLED" => os[i].status = "CANCELLED"
    <3>1. orders' = ScanOrders(os, rs[s], p)
      BY <1>3, <2>1
    <3>2. LET os2 == ScanOrders(os, rs[s], p)
          IN  /\ LedgerStep(os, os2) /\ DOMAIN os2 = DOMAIN os
              /\ \A i \in DOMAIN os : os2[i].status = "CANCELLED" => os[i].status = "CANCELLED"
      <4>1. s \in Symbols /\ p \in Nat \ {NoPrice} /\ BookSound(os, rs)
        BY <1>1, <1>3, <2>3
      <4>. HIDE DEF s
      <4>. QED BY <4>1, ScanMoves
    <3>. HIDE DEF s
    <3>. QED BY <3>1, <3>2
  <2>9. LedgerStep(orders, orders')
    <3>1. \A i \in DOMAIN orders' : OrderSound(orders'[i])
      BY <2>4, LenProperties DEF BookSound
    <3>. QED BY <1>4, <2>8, <3>1, LedgerStepTransitive
  <2>. QED BY <2>7, <2>9
<1>. QED BY <1>6, <1>7

\* A cancelled order leaves its bucket.
LEMMA CancelOrderStep ==
    ASSUME NEW i \in DOMAIN orders, BookInv, CancelOrder(i)
    PROVE  BookInv' /\ LedgerStep(orders, orders')
<1>. DEFINE o == orders[i]
            n == [o EXCEPT !.status = "CANCELLED"]
<1>1. /\ i \in 1 .. Len(orders) /\ o \in Order /\ OrderSound(o) /\ o.status = "OPEN"
      /\ orders \in Seq(Order) /\ DOMAIN orders = 1 .. Len(orders) /\ Len(orders) \in Nat
  BY InvFacts, ElementOfSeq DEF BookSound, OrderSound, CancelOrder, Terminal, Order, Statuses
<1>2. n \in Order /\ OrderSound(n) /\ n.status = "CANCELLED" /\ n.symbol = o.symbol
      /\ n.qty = o.qty /\ n.filled_qty = o.filled_qty
  BY <1>1 DEF OrderSound, Order, Statuses
<1>3. orders' = [orders EXCEPT ![i] = n]
  BY DEF CancelOrder
<1>4. /\ resting' = [resting EXCEPT ![o.symbol] = @ \ {i}]
      /\ UNCHANGED <<moneyVars, ltp, killVars>>
  BY DEF CancelOrder
<1>5. /\ resting \in [Symbols -> SUBSET (1 .. Len(orders))] /\ o.symbol \in Symbols
      /\ ltp \in [Symbols -> Nat]
  BY <1>1 DEF BookInv, TypeOK, BookTypeOK, Order
<1>. HIDE DEF o, n
<1>6. /\ orders' \in Seq(Order) /\ Len(orders') = Len(orders)
      /\ DOMAIN orders' = 1 .. Len(orders)
      /\ orders'[i] = n
      /\ \A j \in 1 .. Len(orders) : j # i => orders'[j] = orders[j]
  BY <1>1, <1>2, <1>3, ExceptSeq
<1>7. /\ resting' \in [Symbols -> SUBSET (1 .. Len(orders))]
      /\ \A s \in Symbols \ {o.symbol} : resting'[s] = resting[s]
      /\ resting'[o.symbol] = resting[o.symbol] \ {i}
  BY <1>4, <1>5
<1>8. BookSound(orders', resting')
  <2>1. \A j \in 1 .. Len(orders) : OrderSound(orders'[j])
    BY <1>2, <1>6, InvFacts DEF BookSound
  <2>2. ASSUME NEW s \in Symbols, NEW j \in 1 .. Len(orders)
        PROVE  j \in resting'[s] <=> orders'[j].status = "OPEN" /\ orders'[j].symbol = s
    <3>1. j \in resting[s] <=> orders[j].status = "OPEN" /\ orders[j].symbol = s
      BY InvFacts DEF BookSound
    <3>2. CASE j = i
      BY <1>1, <1>2, <1>6, <1>7, <3>1, <3>2 DEF o
    <3>3. CASE j # i
      BY <1>6, <1>7, <3>1, <3>3
    <3>. QED BY <3>2, <3>3
  <2>. QED BY <1>6, <1>7, <2>1, <2>2 DEF BookSound
<1>9. \A s \in Symbols : Quiet(orders', resting'[s], ltp'[s])
  <2>1. \A s \in Symbols : \A j \in resting'[s] :
           j \in resting[s] /\ orders'[j] = orders[j]
    BY <1>1, <1>5, <1>6, <1>7, <1>8, InvFacts DEF BookSound, o
  <2>. QED BY <1>4, <2>1, InvFacts DEF Quiet
<1>10. MoneyTypeOK'
  BY <1>4 DEF BookInv, TypeOK, MoneyTypeOK, moneyVars
<1>11. BookInv'
  BY <1>4, <1>5, <1>8, <1>9, <1>10, InvFromFacts DEF killVars, BookInv, TypeOK, BookTypeOK
<1>12. LedgerStep(orders, orders')
  BY <1>1, <1>2, <1>6 DEF LedgerStep, OrderMoves, o
<1>. QED BY <1>11, <1>12

\* cancel_all_orders ends every order still OPEN and empties every bucket.
LEMMA CancelAllOrdersStep ==
    ASSUME BookInv, CancelAllOrders
    PROVE  BookInv' /\ LedgerStep(orders, orders')
<1>1. /\ orders \in Seq(Order) /\ DOMAIN orders = 1 .. Len(orders) /\ Len(orders) \in Nat
      /\ \A i \in 1 .. Len(orders) : orders[i] \in Order /\ OrderSound(orders[i])
  BY InvFacts, ElementOfSeq DEF BookSound
<1>. DEFINE new(i) == IF Terminal(orders[i]) THEN orders[i]
                      ELSE [orders[i] EXCEPT !.status = "CANCELLED"]
<1>2. /\ orders' = [i \in 1 .. Len(orders) |-> new(i)]
      /\ resting' = [s \in Symbols |-> {}]
      /\ UNCHANGED <<moneyVars, ltp, killVars>>
  BY <1>1 DEF CancelAllOrders
<1>3. ASSUME NEW i \in 1 .. Len(orders)
      PROVE  /\ new(i) \in Order /\ OrderSound(new(i)) /\ new(i).status # "OPEN"
             /\ OrderMoves(orders[i], new(i))
  <2>1. CASE Terminal(orders[i])
    BY <1>1, <2>1 DEF Terminal, OrderMoves
  <2>2. CASE ~Terminal(orders[i])
    <3>1. \A o \in Order : OrderSound(o) /\ ~Terminal(o) =>
             LET n == [o EXCEPT !.status = "CANCELLED"]
             IN  /\ n \in Order /\ OrderSound(n) /\ n.status # "OPEN" /\ OrderMoves(o, n)
      BY DEF OrderSound, Order, Statuses, Terminal, OrderMoves
    <3>. QED BY <1>1, <2>2, <3>1
  <2>. QED BY <2>1, <2>2
<1>. HIDE DEF new
<1>4. /\ orders' \in Seq(Order) /\ Len(orders') = Len(orders)
      /\ DOMAIN orders' = 1 .. Len(orders)
      /\ \A i \in 1 .. Len(orders) : orders'[i] = new(i)
  <2>1. orders' \in [1 .. Len(orders) -> Order]
    BY <1>2, <1>3
  <2>2. orders' \in Seq(Order)
    BY <1>1, <2>1, SeqDef
  <2>. QED BY <1>1, <1>2, <2>1, <2>2, LenProperties
<1>5. BookSound(orders', resting')
  BY <1>2, <1>3, <1>4 DEF BookSound
<1>6. \A s \in Symbols : Quiet(orders', resting'[s], ltp'[s])
  BY <1>2 DEF Quiet
<1>7. MoneyTypeOK'
  BY <1>2 DEF BookInv, TypeOK, MoneyTypeOK, moneyVars
<1>8. BookInv'
  BY <1>2, <1>5, <1>6, <1>7, InvFromFacts DEF killVars, BookInv, TypeOK, BookTypeOK
<1>9. LedgerStep(orders, orders')
  BY <1>1, <1>3, <1>4 DEF LedgerStep
<1>. QED BY <1>8, <1>9

\* A tick: the marked position is well typed and the bucket of its symbol is
\* scanned at the new price.
LEMMA UpdateLtpStep ==
    ASSUME NEW t \in Ticks, BookInv, UpdateLtp(t[1], t[2])
    PROVE  BookInv' /\ LedgerStep(orders, orders')
<1>. DEFINE s == t[1]
            p == t[2]
            marked == [Account(s) EXCEPT !.pos = MarkToMarket(@, p)]
<1>1. s \in Symbols /\ p \in Nat \ {NoPrice} /\ p \in Int
  BY TicksAssumption
<1>2. /\ ltp' = [ltp EXCEPT ![s] = p]
      /\ orders' = ScanOrders(orders, resting[s], p)
      /\ resting' = [resting EXCEPT ![s] = ScanBucket(orders, resting[s], p)]
      /\ Post(s, ScanAccount(marked, orders, resting[s], p))
      /\ \/ killed' = TRUE /\ squareOffs' = squareOffs + 1
         \/ killed' = killed /\ squareOffs' = squareOffs
      /\ killAmount' = killAmount
  <2>1. UpdateLtp(s, p)
    OBVIOUS
  <2>. HIDE DEF s, p
  <2>. QED BY <2>1, Zenon DEF UpdateLtp
<1>3. /\ ltp \in [Symbols -> Nat] /\ killed \in BOOLEAN /\ squareOffs \in Nat
      /\ killAmount \in KillAmounts
      /\ MoneyTypeOK /\ BookSound(orders, resting)
  BY InvFacts DEF BookInv, TypeOK, BookTypeOK
<1>4. marked \in AccountType
  <2>1. Account(s) \in AccountType
    BY <1>1, InvFacts
  <2>2. ASSUME NEW a \in AccountType PROVE [a EXCEPT !.pos = MarkToMarket(@, p)] \in AccountType
    <3>1. MarkToMarket(a.pos, p) \in Position
      BY <1>1 DEF AccountType, MarkToMarket, Position
    <3>. QED BY <3>1 DEF AccountType
  <2>. QED BY <2>1, <2>2
<1>. HIDE DEF s, p, marked
<1>5. MoneyTypeOK'
  <2>1. /\ orders \in Seq(Order) /\ \A i \in 1 .. Len(orders) : OrderSound(orders[i])
        /\ \A i \in 1 .. Len(orders) : i \in resting[s] => orders[i].status = "OPEN"
    BY <1>1, <1>3 DEF BookSound
  <2>2. ScanAccount(marked, orders, resting[s], p) \in AccountType
    BY <1>1, <1>4, <2>1, ScanAccountType
  <2>. QED BY <1>1, <1>2, <1>3, <2>2, PostType
<1>6. /\ BookSound(orders', resting') /\ Quiet(orders', resting'[s], p)
      /\ \A u \in Symbols \ {s} : Quiet(orders', resting'[u], ltp[u])
  <2>1. \A u \in Symbols : ltp[u] \in Nat /\ Quiet(orders, resting[u], ltp[u])
    BY <1>3, InvFacts
  <2>. QED BY <1>1, <1>2, <1>3, <2>1, ScanSound
<1>7. /\ ltp' \in [Symbols -> Nat] /\ ltp'[s] = p
      /\ \A u \in Symbols \ {s} : ltp'[u] = ltp[u]
  BY <1>1, <1>2, <1>3
<1>8. \A u \in Symbols : Quiet(orders', resting'[u], ltp'[u])
  BY <1>6, <1>7
<1>9. killed' \in BOOLEAN /\ squareOffs' \in Nat /\ killAmount' \in KillAmounts
  <2>1. killed' \in BOOLEAN /\ killAmount' \in KillAmounts
    BY <1>2, <1>3, Zenon
  <2>2. squareOffs' = squareOffs + 1 \/ squareOffs' = squareOffs
    BY <1>2, Zenon
  <2>. QED BY <1>3, <2>1, <2>2
<1>10. BookInv'
  BY <1>5, <1>6, <1>7, <1>8, <1>9, InvFromFacts
<1>11. LedgerStep(orders, orders')
  BY <1>1, <1>2, <1>3, ScanMoves
<1>. QED BY <1>10, <1>11

\* Executing the closing order of a position leaves nothing of the position.
LEMMA ClosingIsFlat ==
    ASSUME NEW s \in OpenSymbols, positions \in [Symbols -> Position], NEW id
    PROVE  Closing(s, id).pos.qty = 0
<1>. DEFINE held == positions[s].qty
            o == CloseOrder(s)
<1>1. held \in Int /\ held # 0
  BY DEF OpenSymbols, Position
<1>2. /\ o.side = (IF held > 0 THEN "SELL" ELSE "BUY")
      /\ o.qty = Abs(held)
  BY CloseOrderSound
<1>3. Remaining(o) = Abs(held)
  <2>1. o.filled_qty = 0
    BY DEF CloseOrder, NewOrder
  <2>. HIDE DEF o, held
  <2>. QED BY <1>1, <1>2, <2>1 DEF Remaining, Abs
<1>. HIDE DEF o
<1>4. ~Opening(positions[s], o.side)
  BY <1>1, <1>2 DEF Opening
<1>5. Closing(s, id).pos = Reduce(positions[s], o.side, Remaining(o), ClosePrice(s))
  BY <1>4 DEF Closing, ApplyFill, o
<1>6. Closing(s, id).pos.qty = held + Signed(o.side, Remaining(o))
  BY <1>5 DEF Reduce
<1>. QED BY <1>1, <1>2, <1>3, <1>6 DEF Signed, Abs

\* A square-off appends one FILLED order per open position, which it leaves
\* flat, and does not touch the resting orders.
LEMMA CloseOpenPositionsStep ==
    ASSUME BookInv, CloseOpenPositions, squareOffs' \in Nat
    PROVE  /\ BookInv' /\ LedgerStep(orders, orders')
           /\ \A i \in DOMAIN orders' \ DOMAIN orders :
                /\ orders'[i].status = "FILLED" /\ orders'[i].strategy_id = KillSwitch
                /\ positions'[orders'[i].symbol].qty = 0
<1>1. /\ ltp \in [Symbols -> Nat] /\ killed \in BOOLEAN /\ killAmount \in KillAmounts
      /\ positions \in [Symbols -> Position] /\ capital \in Int /\ fills \in Seq(Fill)
      /\ BookSound(orders, resting) /\ Len(orders) \in Nat /\ DOMAIN orders = 1 .. Len(orders)
      /\ orders \in Seq(Order) /\ resting \in [Symbols -> SUBSET (1 .. Len(orders))]
  BY InvFacts DEF BookInv, TypeOK, BookTypeOK, MoneyTypeOK
<1>2. PICK visit \in Visits(OpenSymbols) :
        /\ orders' = orders \o [k \in DOMAIN visit |-> Executed(CloseOrder(visit[k]))]
        /\ fills' = fills \o [k \in DOMAIN visit |->
                                Closing(visit[k], Len(orders) + k).fills[1]]
        /\ capital' = CashAfter(visit)
  BY DEF CloseOpenPositions
<1>3. /\ positions' = [s \in Symbols |-> IF s \in OpenSymbols THEN Closing(s, 0).pos
                                                              ELSE positions[s]]
      /\ UNCHANGED <<resting, ltp, killed, killAmount>>
  BY DEF CloseOpenPositions
<1>. DEFINE n == Cardinality(OpenSymbols)
<1>4. /\ n \in Nat /\ visit \in [1 .. n -> OpenSymbols]
      /\ DOMAIN visit = 1 .. n /\ Len(visit) = n
  <2>1. IsFiniteSet(OpenSymbols)
    BY AmountsAssumption, FS_Subset DEF OpenSymbols
  <2>2. n \in Nat
    BY <2>1, FS_CardinalityType
  <2>3. visit \in [1 .. n -> OpenSymbols]
    BY DEF Visits
  <2>. HIDE DEF n
  <2>4. visit \in Seq(OpenSymbols)
    BY <2>2, <2>3, SeqDef
  <2>. QED BY <2>2, <2>3, <2>4, LenProperties
<1>. HIDE DEF n
<1>5. ASSUME NEW s \in OpenSymbols
      PROVE  /\ OrderSound(Executed(CloseOrder(s))) /\ Executed(CloseOrder(s)) \in Order
             /\ Executed(CloseOrder(s)).status = "FILLED"
             /\ Executed(CloseOrder(s)).strategy_id = KillSwitch
             /\ Executed(CloseOrder(s)).symbol = s
  <2>. DEFINE o == CloseOrder(s)
  <2>1. /\ OrderSound(o) /\ o \in Order /\ o.status = "OPEN" /\ o.symbol = s
        /\ o.strategy_id = KillSwitch
    BY <1>1, CloseOrderSound DEF OrderSound
  <2>. HIDE DEF o
  <2>2. /\ OrderSound(Executed(o)) /\ Executed(o) \in Order /\ Executed(o).status = "FILLED"
        /\ Executed(o).strategy_id = KillSwitch /\ Executed(o).symbol = s
    BY <2>1, ExecutedSound DEF OrderSound
  <2>. QED BY <2>2 DEF o
<1>6. ASSUME NEW s \in OpenSymbols, NEW id \in Nat \ {0}
      PROVE  /\ Closing(s, id).pos \in Position /\ Closing(s, id).cash \in Int
             /\ Closing(s, id).fills[1] \in Fill
             /\ Closing(s, 0).pos = Closing(s, id).pos
             /\ Closing(s, 0).cash = Closing(s, id).cash
  <2>. DEFINE a == [pos |-> positions[s], cash |-> 0, fills |-> << >>]
  <2>1. a \in AccountType
    BY <1>1 DEF AccountType, OpenSymbols
  <2>2. ClosePrice(s) \in Int
    <3>1. positions[s].avg_price \in Int /\ ltp[s] \in Int
      BY <1>1 DEF OpenSymbols, Position
    <3>. QED BY <3>1, SlippedPriceType DEF ClosePrice
  <2>3. OrderSound(CloseOrder(s)) /\ CloseOrder(s).status = "OPEN"
    BY <1>1, CloseOrderSound
  <2>4. Closing(s, id) \in AccountType
    BY <2>1, <2>2, <2>3, ApplyFillType DEF Closing
  <2>5. Closing(s, id).fills = << [order |-> id, qty |-> Remaining(CloseOrder(s)),
                                   price |-> ClosePrice(s)] >>
    BY DEF Closing, ApplyFill
  <2>6. Closing(s, id).fills \in Seq(Fill) /\ Len(Closing(s, id).fills) = 1
    BY <2>4, <2>5 DEF AccountType
  <2>7. Closing(s, id).fills[1] \in Fill
    BY <2>6, ElementOfSeq
  <2>8. /\ Closing(s, 0).pos = Closing(s, id).pos
        /\ Closing(s, 0).cash = Closing(s, id).cash
    BY DEF Closing, ApplyFill
  <2>. QED BY <2>4, <2>7, <2>8 DEF AccountType
<1>. DEFINE added == [k \in DOMAIN visit |-> Executed(CloseOrder(visit[k]))]
            paid == [k \in DOMAIN visit |-> Closing(visit[k], Len(orders) + k).fills[1]]
<1>7. added \in Seq(Order) /\ Len(added) = n
  <2>1. added \in [1 .. n -> Order]
    BY <1>4, <1>5
  <2>2. added \in Seq(Order)
    BY <1>4, <2>1, SeqDef
  <2>. QED BY <1>4, <2>1, <2>2, LenProperties
<1>8. paid \in Seq(Fill)
  <2>1. \A k \in 1 .. n : Len(orders) + k \in Nat \ {0} /\ visit[k] \in OpenSymbols
    BY <1>1, <1>4
  <2>2. \A k \in 1 .. n : Closing(visit[k], Len(orders) + k).fills[1] \in Fill
    BY <1>6, <2>1
  <2>3. paid \in [1 .. n -> Fill]
    BY <1>4, <2>2
  <2>. QED BY <1>4, <2>3, SeqDef
<1>9. \A k \in 1 .. n : added[k] = Executed(CloseOrder(visit[k])) /\ visit[k] \in OpenSymbols
  BY <1>4
<1>10. orders' = orders \o added /\ fills' = fills \o paid
  BY <1>2
<1>. HIDE DEF added, paid
<1>11. MoneyTypeOK'
  <2>1. fills' \in Seq(Fill)
    BY <1>1, <1>8, <1>10, ConcatProperties
  <2>2. positions' \in [Symbols -> Position]
    <3>1. \A s \in OpenSymbols : Closing(s, 0).pos \in Position
      BY <1>6
    <3>. QED BY <1>1, <1>3, <3>1
  <2>3. capital' \in Int
    <3>1. \A s \in OpenSymbols : Closing(s, 0).cash \in Int
      BY <1>6
    <3>2. \A k \in DOMAIN visit : Closing(visit[k], 0).cash \in Int
      BY <1>4, <3>1
    <3>. QED BY <1>1, <1>2, <1>4, <3>2, CashAfterType
  <2>. QED BY <2>1, <2>2, <2>3 DEF MoneyTypeOK
<1>12. /\ orders' \in Seq(Order) /\ Len(orders') = Len(orders) + n
       /\ DOMAIN orders' = 1 .. (Len(orders) + n)
       /\ \A i \in 1 .. Len(orders) : orders'[i] = orders[i]
       /\ \A i \in 1 .. (Len(orders) + n) : i \notin 1 .. Len(orders) =>
             /\ i - Len(orders) \in 1 .. n
             /\ orders'[i] = added[i - Len(orders)]
  <2>1. /\ orders' \in Seq(Order) /\ Len(orders') = Len(orders) + n
        /\ \A i \in 1 .. Len(orders) + n :
             orders'[i] = IF i <= Len(orders) THEN orders[i] ELSE added[i - Len(orders)]
    BY <1>1, <1>7, <1>10, ConcatProperties
  <2>2. DOMAIN orders' = 1 .. (Len(orders) + n)
    BY <2>1, LenProperties
  <2>3. Len(orders) \in Nat /\ n \in Nat
    BY <1>1, <1>4
  <2>4. \A i \in 1 .. Len(orders) : orders'[i] = orders[i]
    BY <2>1, <2>3
  <2>5. ASSUME NEW i \in 1 .. (Len(orders) + n), i \notin 1 .. Len(orders)
        PROVE  i - Len(orders) \in 1 .. n /\ orders'[i] = added[i - Len(orders)]
    BY <2>1, <2>3, <2>5
  <2>. QED BY <2>1, <2>2, <2>4, <2>5
<1>13. ASSUME NEW i \in 1 .. (Len(orders) + n), i \notin 1 .. Len(orders)
       PROVE  /\ OrderSound(orders'[i]) /\ orders'[i].status = "FILLED"
              /\ orders'[i].strategy_id = KillSwitch /\ orders'[i].symbol \in OpenSymbols
  <2>. DEFINE k == i - Len(orders)
  <2>1. k \in 1 .. n /\ orders'[i] = added[k]
    BY <1>12, <1>13
  <2>. HIDE DEF k
  <2>. QED BY <1>5, <1>9, <2>1
<1>14. BookSound(orders', resting')
  <2>1. \A i \in 1 .. Len(orders') : OrderSound(orders'[i])
    BY <1>1, <1>12, <1>13 DEF BookSound
  <2>2. resting' \in [Symbols -> SUBSET (1 .. Len(orders'))]
    BY <1>1, <1>3, <1>4, <1>12
  <2>3. ASSUME NEW s \in Symbols, NEW i \in 1 .. Len(orders')
        PROVE  i \in resting'[s] <=> orders'[i].status = "OPEN" /\ orders'[i].symbol = s
    <3>1. CASE i \in 1 .. Len(orders)
      BY <1>1, <1>3, <1>12, <3>1 DEF BookSound
    <3>2. CASE i \notin 1 .. Len(orders)
      BY <1>1, <1>3, <1>12, <1>13, <3>2
    <3>. QED BY <3>1, <3>2
  <2>. QED BY <1>12, <2>1, <2>2, <2>3 DEF BookSound
<1>15. \A s \in Symbols : Quiet(orders', resting'[s], ltp'[s])
  <2>1. \A s \in Symbols : \A i \in resting[s] : orders'[i] = orders[i]
    BY <1>1, <1>12
  <2>. QED BY <1>3, <2>1, InvFacts DEF Quiet
<1>16. BookInv'
  BY <1>1, <1>3, <1>11, <1>14, <1>15, InvFromFacts
<1>17. LedgerStep(orders, orders')
  <2>1. DOMAIN orders \subseteq DOMAIN orders'
    BY <1>1, <1>4, <1>12
  <2>2. \A i \in DOMAIN orders : OrderMoves(orders[i], orders'[i])
    BY <1>1, <1>12 DEF OrderMoves
  <2>3. \A i \in DOMAIN orders' \ DOMAIN orders :
           OrderSound(orders'[i]) /\ orders'[i].status # "CANCELLED"
    BY <1>1, <1>12, <1>13
  <2>. QED BY <2>1, <2>2, <2>3 DEF LedgerStep
<1>18. ASSUME NEW i \in DOMAIN orders' \ DOMAIN orders
       PROVE  /\ orders'[i].status = "FILLED" /\ orders'[i].strategy_id = KillSwitch
              /\ positions'[orders'[i].symbol].qty = 0
  <2>1. /\ orders'[i].status = "FILLED" /\ orders'[i].strategy_id = KillSwitch
        /\ orders'[i].symbol \in OpenSymbols
    BY <1>1, <1>12, <1>13
  <2>2. \A s \in OpenSymbols : positions'[s].qty = 0
    <3>1. \A s \in OpenSymbols : s \in Symbols /\ Closing(s, 0).pos.qty = 0
      BY <1>1, ClosingIsFlat DEF OpenSymbols
    <3>. QED BY <1>3, <3>1
  <2>. QED BY <2>1, <2>2
<1>. QED BY <1>16, <1>17, <1>18

\* The operator's reset of the flag touches nothing but the flag.
LEMMA ResetKillSwitchStep ==
    ASSUME BookInv, ResetKillSwitch
    PROVE  BookInv' /\ LedgerStep(orders, orders')
<1>1. MoneyTypeOK'
  BY DEF BookInv, TypeOK, MoneyTypeOK, ResetKillSwitch, moneyVars
<1>2. BookSound(orders, resting)' /\ (\A s \in Symbols : Quiet(orders, resting[s], ltp[s]))'
  BY InvFacts DEF ResetKillSwitch, bookVars
<1>3. BookInv'
  BY <1>1, <1>2, InvFromFacts DEF ResetKillSwitch, BookInv, TypeOK, BookTypeOK
<1>. QED BY <1>3 DEF ResetKillSwitch, bookVars, LedgerStep, OrderMoves

\* A new threshold touches nothing but the threshold.
LEMMA SetKillAmountStep ==
    ASSUME NEW a \in KillAmounts, BookInv, SetKillAmount(a)
    PROVE  BookInv' /\ LedgerStep(orders, orders')
<1>1. MoneyTypeOK'
  BY DEF BookInv, TypeOK, MoneyTypeOK, SetKillAmount, moneyVars
<1>2. BookSound(orders, resting)' /\ (\A s \in Symbols : Quiet(orders, resting[s], ltp[s]))'
  BY InvFacts DEF SetKillAmount, bookVars
<1>3. BookInv'
  BY <1>1, <1>2, InvFromFacts DEF SetKillAmount, BookInv, TypeOK, BookTypeOK
<1>. QED BY <1>3 DEF SetKillAmount, bookVars, LedgerStep, OrderMoves

\* A step that changes no variable.
LEMMA StutterStep ==
    ASSUME BookInv, UNCHANGED vars
    PROVE  BookInv' /\ LedgerStep(orders, orders')
<1>1. MoneyTypeOK'
  BY DEF BookInv, TypeOK, MoneyTypeOK, vars
<1>2. BookSound(orders, resting)' /\ (\A s \in Symbols : Quiet(orders, resting[s], ltp[s]))'
  BY InvFacts DEF vars
<1>3. BookInv'
  BY <1>1, <1>2, InvFromFacts DEF vars, BookInv, TypeOK, BookTypeOK
<1>. QED BY <1>3 DEF vars, LedgerStep, OrderMoves

\* Every step preserves the invariant and moves the ledger as it may.
LEMMA NextStep ==
    ASSUME BookInv, [Next]_vars
    PROVE  BookInv' /\ LedgerStep(orders, orders')
<1>1. squareOffs \in Nat
  BY DEF BookInv, TypeOK, BookTypeOK
<1>2. CASE UNCHANGED vars
  BY <1>2, StutterStep
<1>3. CASE TripOnPlace
  BY <1>3, TripOnPlaceStep
<1>4. ASSUME NEW r \in Requests, RejectOrder(r) \/ FillMarketOrder(r) \/ RestOrder(r)
      PROVE  BookInv' /\ LedgerStep(orders, orders')
  BY <1>4, RequestsAssumption, RejectOrderStep, FillMarketOrderStep, RestOrderStep
<1>5. ASSUME NEW i \in DOMAIN orders, CancelOrder(i)
      PROVE  BookInv' /\ LedgerStep(orders, orders')
  BY <1>5, CancelOrderStep
<1>6. CASE CancelAllOrders
  BY <1>6, CancelAllOrdersStep
<1>7. ASSUME NEW t \in Ticks, UpdateLtp(t[1], t[2])
      PROVE  BookInv' /\ LedgerStep(orders, orders')
  BY <1>7, UpdateLtpStep
<1>8. CASE RunSquareOff
  <2>1. squareOffs' \in Nat
    BY <1>1, <1>8 DEF RunSquareOff
  <2>. QED BY <1>8, <2>1, CloseOpenPositionsStep DEF RunSquareOff
<1>9. CASE SquareOffAll
  BY <1>1, <1>9, CloseOpenPositionsStep DEF SquareOffAll
<1>10. CASE ResetKillSwitch
  BY <1>10, ResetKillSwitchStep
<1>11. ASSUME NEW a \in KillAmounts, SetKillAmount(a)
       PROVE  BookInv' /\ LedgerStep(orders, orders')
  BY <1>11, SetKillAmountStep
<1>. QED BY <1>2, <1>3, <1>4, <1>5, <1>6, <1>7, <1>8, <1>9, <1>10, <1>11 DEF Next

-----------------------------------------------------------------------------
(* The theorems                                                              *)

\* The inductive invariant of the order book holds in every reachable state.
THEOREM BookInvariant == Spec => []BookInv
<1>1. Init => BookInv
  BY InitInv
<1>2. BookInv /\ [Next]_vars => BookInv'
  BY NextStep
<1>. QED BY <1>1, <1>2, PTL DEF Spec

\* Every variable keeps values of its type (PaperBroker.__init__ and every
\* assignment of the class).
THEOREM TypeCorrect == Spec => []TypeOK
<1>1. BookInv => TypeOK
  BY DEF BookInv
<1>. QED BY <1>1, BookInvariant, PTL

\* _resting and _orders agree: the OPEN orders of a symbol, and nothing else,
\* are in the bucket that the next tick of the symbol scans.
THEOREM NoOrderIsLost == Spec => []RestingMatchesOrders
<1>1. BookInv => RestingMatchesOrders
  BY DEF BookInv
<1>. QED BY <1>1, BookInvariant, PTL

\* _apply_fill executes an order once and in full: PARTIALLY_FILLED is never
\* reached, and an order not FILLED has executed nothing.
THEOREM FillsAreWhole == Spec => []FilledWholeOrNotAtAll
<1>1. BookInv => FilledWholeOrNotAtAll
  BY DEF BookInv
<1>. QED BY <1>1, BookInvariant, PTL

\* After every operation no LIMIT order waits at a price it accepts and no stop
\* waits beyond its trigger (_try_fill_resting in update_ltp and place_order).
THEOREM NoFillIsMissed == Spec => []NoMissedFill
<1>1. BookInv => NoMissedFill
  BY DEF BookInv
<1>. QED BY <1>1, BookInvariant, PTL

\* A step that moves the orders as LedgerStep says is one of the ledger.
LEMMA LedgerMoves ==
    ASSUME LedgerStep(orders, orders')
    PROVE  Ledger!Next
<1>. DEFINE L == [i \in DOMAIN orders |->
                    [asked |-> orders[i].qty, done |-> orders[i].filled_qty,
                     state |-> LedgerState(orders[i].status)]]
<1>1. ASSUME NEW i \in DOMAIN orders
      PROVE  L'[i] = L[i] \/ Ledger!Execute(L[i], L'[i]) \/ Ledger!Withdraw(L[i], L'[i])
  <2>1. i \in DOMAIN orders' /\ OrderMoves(orders[i], orders'[i])
    BY DEF LedgerStep
  <2>2. /\ L[i] = [asked |-> orders[i].qty, done |-> orders[i].filled_qty,
                   state |-> LedgerState(orders[i].status)]
        /\ L'[i] = [asked |-> orders'[i].qty, done |-> orders'[i].filled_qty,
                    state |-> LedgerState(orders'[i].status)]
    BY <2>1
  <2>. HIDE DEF L
  <2>3. CASE orders'[i].status = orders[i].status /\ orders'[i].filled_qty = orders[i].filled_qty
    BY <2>1, <2>2, <2>3 DEF OrderMoves
  <2>4. CASE /\ orders[i].status = "OPEN" /\ orders'[i].status = "FILLED"
             /\ orders'[i].filled_qty = orders[i].qty
    <3>. DEFINE q == orders[i].qty
    <3>1. LedgerState("OPEN") = "working" /\ LedgerState("FILLED") = "executed"
      BY DEF LedgerState
    <3>2. /\ L[i] = [asked |-> q, done |-> orders[i].filled_qty, state |-> "working"]
          /\ L'[i] = [asked |-> q, done |-> q, state |-> "executed"]
      BY <2>1, <2>2, <2>4, <3>1 DEF OrderMoves
    <3>. HIDE DEF q
    <3>3. Ledger!Execute(L[i], L'[i])
      BY <3>2 DEF Ledger!Execute
    <3>. QED BY <3>3
  <2>5. CASE /\ orders[i].status = "OPEN" /\ orders'[i].status = "CANCELLED"
             /\ orders'[i].filled_qty = orders[i].filled_qty
    BY <2>1, <2>2, <2>5 DEF OrderMoves, Ledger!Withdraw, LedgerState
  <2>. QED BY <2>1, <2>3, <2>4, <2>5 DEF OrderMoves
<1>2. ASSUME NEW i \in DOMAIN orders' \ DOMAIN orders
      PROVE  Ledger!Enters(L'[i])
  <2>1. OrderSound(orders'[i]) /\ orders'[i].status # "CANCELLED"
    BY DEF LedgerStep
  <2>2. L'[i] = [asked |-> orders'[i].qty, done |-> orders'[i].filled_qty,
                 state |-> LedgerState(orders'[i].status)]
    OBVIOUS
  <2>. HIDE DEF L
  <2>. QED BY <2>1, <2>2 DEF OrderSound, Order, Statuses, Ledger!Enters, LedgerState
<1>3. DOMAIN L = DOMAIN orders /\ DOMAIN L' = DOMAIN orders'
  OBVIOUS
<1>4. DOMAIN orders \subseteq DOMAIN orders'
  BY DEF LedgerStep
<1>. QED BY <1>1, <1>2, <1>3, <1>4 DEF Ledger!Next

\* The order book implements OrderLedger: every order is refused, or works until
\* it is executed once and in full or withdrawn, and then never changes.
THEOREM LedgerRefinement == Spec => ImplementsLedger
<1>. DEFINE L == [i \in DOMAIN orders |->
                    [asked |-> orders[i].qty, done |-> orders[i].filled_qty,
                     state |-> LedgerState(orders[i].status)]]
<1>1. Init => Ledger!Init
  BY DEF Init, Ledger!Init
<1>2. BookInv /\ [Next]_vars => [Ledger!Next]_L
  BY NextStep, LedgerMoves
<1>. QED BY <1>1, <1>2, BookInvariant, PTL DEF Spec, ImplementsLedger, Ledger!Spec
-----------------------------------------------------------------------------
(* What a step may add to the order table                                    *)

\* An order that place_order stores carries the caller's strategy_id.
LEMMA PlacedOrders ==
    ASSUME BookInv, NEW r \in Request, RejectOrder(r) \/ FillMarketOrder(r) \/ RestOrder(r)
    PROVE  /\ ~killed
           /\ \A i \in DOMAIN orders' \ DOMAIN orders : orders'[i].strategy_id # KillSwitch
<1>1. /\ orders \in Seq(Order) /\ Len(orders) \in Nat /\ DOMAIN orders = 1 .. Len(orders)
      /\ r.strategy_id # KillSwitch /\ r.symbol \in Symbols
      /\ ltp \in [Symbols -> Nat] /\ resting \in [Symbols -> SUBSET (1 .. Len(orders))]
  BY InvFacts, RequestsAssumption DEF BookInv, TypeOK, BookTypeOK, Request
<1>2. ASSUME NEW o
      PROVE  LET os == Append(orders, o)
             IN  DOMAIN os \ DOMAIN orders = {Len(orders) + 1} /\ os[Len(orders) + 1] = o
  BY <1>1, AppendProperties, LenProperties
<1>. DEFINE new(status) == NewOrder(r, status)
<1>3. \A status : new(status).strategy_id = r.strategy_id
  BY DEF NewOrder
<1>4. CASE RejectOrder(r)
  <2>1. orders' = Append(orders, new("REJECTED")) /\ ~killed
    BY <1>4 DEF RejectOrder, Admits
  <2>. HIDE DEF new
  <2>. QED BY <1>1, <1>2, <1>3, <2>1
<1>5. CASE FillMarketOrder(r)
  <2>1. orders' = Append(orders, Executed(new("OPEN"))) /\ ~killed /\ ~Invalid(r)
    BY <1>5 DEF FillMarketOrder, Admits
  <2>2. OrderSound(new("OPEN")) /\ new("OPEN").status = "OPEN" /\ new("OPEN") \in Order
    BY <2>1, NewOrderSound DEF OrderSound, NewOrder
  <2>. HIDE DEF new
  <2>3. Executed(new("OPEN")).strategy_id = r.strategy_id
    BY <1>3, <2>2, ExecutedSound
  <2>. QED BY <1>1, <1>2, <2>1, <2>3
<1>6. CASE RestOrder(r)
  <2>. DEFINE s == r.symbol
              os == Append(orders, new("OPEN"))
              rs == [resting EXCEPT ![s] = @ \cup {Len(orders) + 1}]
              bucket == resting[s] \cup {Len(orders) + 1}
  <2>1. ~killed /\ ~Invalid(r)
    BY <1>6 DEF RestOrder, Admits
  <2>2. orders' = os \/ (ltp[s] # NoPrice /\ orders' = ScanOrders(os, bucket, ltp[s]))
    BY <1>6 DEF RestOrder
  <2>3. /\ OrderSound(new("OPEN")) /\ new("OPEN").status = "OPEN" /\ new("OPEN") \in Order
        /\ new("OPEN").symbol = s
    BY <2>1, NewOrderSound DEF OrderSound, NewOrder
  <2>. HIDE DEF new
  <2>4. BookSound(os, rs) /\ rs[s] = bucket
    BY <1>1, <2>3, InvFacts, AppendOpen
  <2>5. /\ DOMAIN os \ DOMAIN orders = {Len(orders) + 1} /\ os[Len(orders) + 1] = new("OPEN")
        /\ DOMAIN os = 1 .. Len(os)
    BY <1>2, <2>4, LenProperties DEF BookSound
  <2>. HIDE DEF os, rs, bucket, s
  <2>6. CASE orders' = os
    BY <1>1, <1>3, <2>1, <2>5, <2>6
  <2>7. CASE ltp[s] # NoPrice /\ orders' = ScanOrders(os, bucket, ltp[s])
    <3>1. ltp[s] \in Nat \ {NoPrice} /\ s \in Symbols /\ orders' = ScanOrders(os, rs[s], ltp[s])
      BY <1>1, <2>4, <2>7 DEF s
    <3>2. \A i \in 1 .. Len(os) : orders'[i].strategy_id = os[i].strategy_id
      BY <2>4, <3>1, ScanOrder
    <3>3. DOMAIN orders' = DOMAIN os
      BY <3>1 DEF ScanOrders
    <3>. QED BY <1>1, <1>3, <2>1, <2>5, <3>2, <3>3
  <2>. QED BY <2>2, <2>6, <2>7
<1>. QED BY <1>4, <1>5, <1>6

\* No operation but place_order and the square-off stores an order.
LEMMA NoOtherOrder ==
    ASSUME BookInv,
           \/ UNCHANGED vars \/ TripOnPlace
           \/ \E i \in DOMAIN orders : CancelOrder(i)
           \/ CancelAllOrders
           \/ \E t \in Ticks : UpdateLtp(t[1], t[2])
           \/ ResetKillSwitch
           \/ \E a \in KillAmounts : SetKillAmount(a)
    PROVE  DOMAIN orders' \ DOMAIN orders = {}
<1>1. CASE UNCHANGED vars \/ TripOnPlace \/ ResetKillSwitch
  BY <1>1 DEF vars, TripOnPlace, ResetKillSwitch, bookVars
<1>2. CASE \E i \in DOMAIN orders : CancelOrder(i)
  BY <1>2 DEF CancelOrder
<1>3. CASE CancelAllOrders
  BY <1>3 DEF CancelAllOrders
<1>4. CASE \E t \in Ticks : UpdateLtp(t[1], t[2])
  <2>1. \E s, p : orders' = ScanOrders(orders, resting[s], p)
    BY <1>4, Zenon DEF UpdateLtp
  <2>. QED BY <2>1 DEF ScanOrders
<1>5. CASE \E a \in KillAmounts : SetKillAmount(a)
  BY <1>5 DEF SetKillAmount, bookVars
<1>. QED BY <1>1, <1>2, <1>3, <1>4, <1>5

\* The orders a step adds: from a caller while the flag is clear, or from the
\* square-off of a position that it leaves flat.
LEMMA AddedOrders ==
    ASSUME BookInv, [Next]_vars, NEW i \in DOMAIN orders' \ DOMAIN orders
    PROVE  \/ ~killed /\ orders'[i].strategy_id # KillSwitch
           \/ /\ orders'[i].status = "FILLED" /\ orders'[i].strategy_id = KillSwitch
              /\ positions'[orders'[i].symbol].qty = 0
<1>1. CASE \E r \in Requests : RejectOrder(r) \/ FillMarketOrder(r) \/ RestOrder(r)
  BY <1>1, RequestsAssumption, PlacedOrders
<1>2. CASE RunSquareOff \/ SquareOffAll
  <2>1. CloseOpenPositions /\ squareOffs' \in Nat
    BY <1>2 DEF RunSquareOff, SquareOffAll, BookInv, TypeOK, BookTypeOK
  <2>. QED BY <2>1, CloseOpenPositionsStep
<1>. QED BY <1>1, <1>2, NoOtherOrder DEF Next

\* While the kill switch is on, place_order stores nothing: an order that
\* appears is a square-off order, already FILLED.
THEOREM KilledAdmitsNothing == Spec => KilledAcceptsNoOrder
<1>1. BookInv /\ [Next]_vars =>
        (killed => \A i \in DOMAIN orders' \ DOMAIN orders :
                      orders'[i].strategy_id = KillSwitch /\ orders'[i].status = "FILLED")
  BY AddedOrders
<1>. QED BY <1>1, BookInvariant, PTL DEF Spec, KilledAcceptsNoOrder

\* _square_off_unlocked closes: the position of every KILL_SWITCH order is flat
\* when the order appears, so it is neither left open nor reversed.
THEOREM SquareOffCloses == Spec => SquareOffOnlyCloses
<1>1. BookInv /\ [Next]_vars =>
        \A i \in DOMAIN orders' \ DOMAIN orders :
           orders'[i].strategy_id = KillSwitch => positions'[orders'[i].symbol].qty = 0
  BY AddedOrders
<1>. QED BY <1>1, BookInvariant, PTL DEF Spec, SquareOffOnlyCloses

\* A price is followed by the test of the loss, on the books its fills left.
LEMMA TickTests ==
    ASSUME BookInv, NEW s, NEW p, UpdateLtp(s, p)
    PROVE  killed' \/ ~Breached(positions)'
<1>1. /\ killAmount' = killAmount
      /\ ~killed /\ Breached(positions') => killed' = TRUE
      /\ killed \in BOOLEAN /\ (~(~killed /\ Breached(positions')) => killed' = killed)
  BY Zenon DEF UpdateLtp, BookInv, TypeOK, BookTypeOK
<1>2. Breached(positions)' <=> Breached(positions')
  BY <1>1 DEF Breached
<1>. QED BY <1>1, <1>2

\* update_ltp tests the loss after the fills of its own scan: a tick ends with
\* the flag set or with a loss below the threshold.
THEOREM NoTickIgnoresLoss == Spec => TickNoticesBreach
<1>1. ASSUME BookInv, [Next]_vars, NEW s \in Symbols, ltp'[s] # ltp[s]
      PROVE  killed' \/ ~Breached(positions)'
  <2>1. PICK t \in Ticks : UpdateLtp(t[1], t[2])
    <3>1. CASE UNCHANGED vars
      BY <1>1, <3>1 DEF vars
    <3>2. CASE TripOnPlace \/ RunSquareOff \/ SquareOffAll \/ ResetKillSwitch \/ CancelAllOrders
      BY <1>1, <3>2 DEF TripOnPlace, RunSquareOff, SquareOffAll, CloseOpenPositions,
                        ResetKillSwitch, CancelAllOrders
    <3>3. CASE \E r \in Requests : RejectOrder(r) \/ FillMarketOrder(r) \/ RestOrder(r)
      BY <1>1, <3>3 DEF RejectOrder, FillMarketOrder, RestOrder
    <3>4. CASE \/ \E i \in DOMAIN orders : CancelOrder(i)
               \/ \E a \in KillAmounts : SetKillAmount(a)
      BY <1>1, <3>4 DEF CancelOrder, SetKillAmount
    <3>. QED BY <1>1, <3>1, <3>2, <3>3, <3>4 DEF Next
  <2>. QED BY <1>1, <2>1, TickTests
<1>2. BookInv /\ [Next]_vars =>
        \A s \in Symbols : ltp'[s] # ltp[s] => killed' \/ ~Breached(positions)'
  BY <1>1
<1>. QED BY <1>2, BookInvariant, PTL DEF Spec, TickNoticesBreach
=============================================================================

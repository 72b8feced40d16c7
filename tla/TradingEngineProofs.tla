------------------------ MODULE TradingEngineProofs ------------------------
(***************************************************************************)
(* Theorems about the engine for every set of symbols, timeframes, ticks,  *)
(* strategies, thresholds and bounds: its types, the spacing of orders,    *)
(* the caps on purchases, the end of a losing day, and the guarantees of   *)
(* the broker, which hold however the engine calls it.                     *)
(*                                                                         *)
(* OrdersSpaced is not inductive.  EngineInv adds to it that the record of *)
(* signals is no older than the last order of a key (Recorded); that the   *)
(* rest of a tick is about symbols with a price (Priced), so that an order *)
(* for one is filled at once; and that therefore nothing rests             *)
(* (NothingRests), so that a tick executes no order by itself.             *)
(***************************************************************************)
EXTENDS TradingEngine, BrokerBooksProofs

-----------------------------------------------------------------------------
(* Arithmetic                                                                *)

\* The smaller of two integers, as FiniteSetsExt chooses it.
LEMMA MinOfTwo ==
    ASSUME NEW a \in Int, NEW b \in Int
    PROVE  Min({a, b}) \in Int /\ Min({a, b}) \in {a, b} /\ Min({a, b}) <= a /\ Min({a, b}) <= b
<1>. DEFINE S == {a, b}
<1>1. \E x \in S : \A y \in S : x <= y
  OBVIOUS
<1>2. Min(S) \in S /\ \A y \in S : Min(S) <= y
  <2>. HIDE DEF S
  <2>. QED BY <1>1, Zenon DEF Min
<1>. QED BY <1>2

\* The larger of two integers.
LEMMA MaxOfTwo ==
    ASSUME NEW a \in Int, NEW b \in Int
    PROVE  Max({a, b}) \in Int /\ Max({a, b}) \in {a, b} /\ Max({a, b}) >= a /\ Max({a, b}) >= b
<1>. DEFINE S == {a, b}
<1>1. \E x \in S : \A y \in S : x >= y
  OBVIOUS
<1>2. Max(S) \in S /\ \A y \in S : Max(S) >= y
  <2>. HIDE DEF S
  <2>. QED BY <1>1, Zenon DEF Max
<1>. QED BY <1>2

\* A whole number of parts that fits into the quotient fits into the dividend.
LEMMA Quotient ==
    ASSUME NEW a \in Int, NEW d \in Nat \ {0}, NEW q \in Int, q <= a \div d
    PROVE  a \div d \in Int /\ q * d <= a
<1>1. a \div d \in Int /\ (a \div d) * d <= a
  OBVIOUS
<1>. DEFINE k == a \div d
<1>. HIDE DEF k
<1>2. k \in Int /\ q <= k /\ k * d <= a
  BY <1>1 DEF k
<1>3. q * d <= k * d
  BY <1>2
<1>4. q * d \in Int /\ k * d \in Int
  BY <1>2
<1>. QED BY <1>1, <1>2, <1>3, <1>4

-----------------------------------------------------------------------------
(* The size of an order                                                      *)

\* What the risk manager reads of the books are integers.
LEMMA ValuesTyped ==
    ASSUME BookInv
    PROVE  /\ DailyPnl \in Int /\ PortfolioValue \in Int
           /\ \A sid : Exposure(sid) \in Int
<1>1. /\ positions \in [Symbols -> Position] /\ capital \in Int
      /\ orders \in Seq(Order) /\ DOMAIN orders = 1 .. Len(orders) /\ IsFiniteSet(Symbols)
  BY AmountsAssumption, LenProperties DEF BookInv, TypeOK, BookTypeOK, MoneyTypeOK
<1>. DEFINE pnl == [s \in Symbols |-> positions[s].realized_pnl + positions[s].unrealized_pnl]
            open == [s \in Symbols |-> positions[s].unrealized_pnl]
            size == [s \in Symbols |-> Abs(positions[s].qty)]
<1>2. \A s \in Symbols : pnl[s] \in Int /\ open[s] \in Int /\ size[s] \in Int
  <2>1. \A s \in Symbols : /\ positions[s].realized_pnl \in Int /\ positions[s].unrealized_pnl \in Int
                           /\ positions[s].qty \in Int
    BY <1>1 DEF Position
  <2>. QED BY <2>1 DEF Abs
<1>3. DailyPnl \in Int
  <2>. DEFINE Adds(g) == g = [T \in SUBSET Symbols |->
                 IF T = {} THEN 0
                 ELSE (positions[First(T)].realized_pnl + positions[First(T)].unrealized_pnl)
                      + g[T \ {First(T)}]]
  <2>1. \A g : Adds(g) <=> IsSum(g, pnl, Symbols)
    <3>1. \A T \in SUBSET Symbols : T # {} => First(T) \in Symbols
      BY FirstIn
    <3>. QED BY <3>1 DEF IsSum
  <2>2. DailyPnl = (CHOOSE g : Adds(g))[Symbols]
    BY DEF DailyPnl, DailyPnlOf, MapThenSumSet, MapThenFoldSet, First
  <2>. HIDE DEF Adds, pnl
  <2>3. \E g : Adds(g)
    BY <1>1, <2>1, SumExists
  <2>. DEFINE h == CHOOSE g : Adds(g)
  <2>4. Adds(h)
    BY <2>3, Zenon
  <2>. HIDE DEF h
  <2>5. IsSum(h, pnl, Symbols) /\ Symbols \in SUBSET Symbols
    BY <2>1, <2>4
  <2>6. Sum(pnl, Symbols) = h[Symbols]
    BY <1>1, <2>5, SumIs
  <2>7. Sum(pnl, Symbols) \in Int
    BY <1>1, <1>2, SumType
  <2>. QED BY <2>2, <2>6, <2>7 DEF h
<1>4. PortfolioValue \in Int
  <2>. DEFINE Adds(g) == g = [T \in SUBSET Symbols |->
                 IF T = {} THEN 0 ELSE positions[First(T)].unrealized_pnl + g[T \ {First(T)}]]
  <2>1. \A g : Adds(g) <=> IsSum(g, open, Symbols)
    <3>1. \A T \in SUBSET Symbols : T # {} => First(T) \in Symbols
      BY FirstIn
    <3>. QED BY <3>1 DEF IsSum
  <2>2. PortfolioValue = capital + (CHOOSE g : Adds(g))[Symbols]
    BY DEF PortfolioValue, MapThenSumSet, MapThenFoldSet, First
  <2>. HIDE DEF Adds, open
  <2>3. \E g : Adds(g)
    BY <1>1, <2>1, SumExists
  <2>. DEFINE h == CHOOSE g : Adds(g)
  <2>4. Adds(h)
    BY <2>3, Zenon
  <2>. HIDE DEF h
  <2>5. IsSum(h, open, Symbols) /\ Symbols \in SUBSET Symbols
    BY <2>1, <2>4
  <2>6. Sum(open, Symbols) = h[Symbols]
    BY <1>1, <2>5, SumIs
  <2>7. Sum(open, Symbols) \in Int
    BY <1>1, <1>2, SumType
  <2>. QED BY <1>1, <2>2, <2>6, <2>7 DEF h
<1>5. ASSUME NEW sid PROVE Exposure(sid) \in Int
  <2>. DEFINE traded == {orders[i].symbol : i \in {j \in DOMAIN orders :
                            orders[j].strategy_id = sid /\ orders[j].filled_qty > 0}}
              Adds(g) == g = [T \in SUBSET traded |->
                 IF T = {} THEN 0 ELSE Abs(positions[First(T)].qty) + g[T \ {First(T)}]]
  <2>1. traded \in SUBSET Symbols
    <3>1. \A i \in DOMAIN orders : orders[i].symbol \in Symbols
      <4>1. \A i \in DOMAIN orders : orders[i] \in Order
        BY <1>1, ElementOfSeq
      <4>. QED BY <4>1 DEF Order
    <3>. QED BY <3>1
  <2>2. Exposure(sid) = (CHOOSE g : Adds(g))[traded]
    BY DEF Exposure, MapThenSumSet, MapThenFoldSet, First
  <2>. HIDE DEF traded
  <2>3. \A g : Adds(g) <=> IsSum(g, size, traded)
    <3>1. \A T \in SUBSET traded : T # {} => First(T) \in Symbols
      BY <2>1, FirstIn
    <3>. QED BY <3>1 DEF IsSum
  <2>4. IsFiniteSet(traded)
    BY <1>1, <2>1, FS_Subset
  <2>. HIDE DEF Adds, size
  <2>5. \E g : Adds(g)
    BY <2>3, <2>4, SumExists
  <2>. DEFINE h == CHOOSE g : Adds(g)
  <2>6. Adds(h)
    BY <2>5, Zenon
  <2>. HIDE DEF h
  <2>7. IsSum(h, size, traded) /\ traded \in SUBSET traded
    BY <2>3, <2>6
  <2>8. Sum(size, traded) = h[traded]
    BY <2>4, <2>7, SumIs
  <2>9. Sum(size, traded) \in Int
    BY <1>2, <2>1, <2>4, SumType
  <2>. QED BY <2>2, <2>8, <2>9 DEF h
<1>. QED BY <1>3, <1>4, <1>5

\* As many shares as the headroom allows keep a holding within its share of the portfolio.
LEMMA HeadroomBound ==
    ASSUME BookInv, NEW n \in Nat, NEW held \in Int, NEW p \in Nat \ {NoPrice}
    PROVE  /\ Headroom(n, held, p) \in Int
           /\ \A q \in Int : q <= Headroom(n, held, p) =>
                100 * (held + q) * p <= n * PortfolioValue
<1>. DEFINE a == n * PortfolioValue - 100 * held * p
            d == 100 * p
<1>1. PortfolioValue \in Int
  BY ValuesTyped
<1>2. n * PortfolioValue \in Int /\ 100 * held * p \in Int /\ d \in Nat \ {0}
  BY <1>1 DEF NoPrice
<1>3. a \in Int
  BY <1>2
<1>4. Headroom(n, held, p) = a \div d
  BY DEF Headroom
<1>5. a \div d \in Int
  <2>. HIDE DEF a, d
  <2>. QED BY <1>2, <1>3
<1>6. ASSUME NEW q \in Int, q <= a \div d PROVE 100 * (held + q) * p <= n * PortfolioValue
  <2>1. q * d <= a
    <3>. HIDE DEF a, d
    <3>. QED BY <1>2, <1>3, <1>6, Quotient
  <2>2. 100 * (held + q) * p = 100 * held * p + q * d
    OBVIOUS
  <2>. DEFINE v == n * PortfolioValue
              b == 100 * held * p
              c == q * d
  <2>3. v \in Int /\ b \in Int /\ c \in Int /\ c <= v - b
    BY <1>2, <2>1
  <2>. HIDE DEF v, b, c
  <2>4. b + c <= v
    BY <2>3
  <2>. QED BY <2>2, <2>4 DEF v, b, c
<1>. QED BY <1>4, <1>5, <1>6

\* KellySizer.size proposes no negative quantity.
LEMMA SizeType ==
    ASSUME BookInv, NEW s \in Symbols, NEW p \in Nat \ {NoPrice}
    PROVE  Size(s, p) \in Nat
<1>. DEFINE share == Min({KellyPct, MAX_TRADE_FRACTION})
            d == 100 * p * LotSize[s]
            a == capital * share
<1>1. capital \in Int
  BY DEF BookInv, TypeOK, MoneyTypeOK
<1>2. KellyPct \in Nat /\ LotSize[s] \in Nat \ {0}
  BY RiskGateAssumption
<1>3. share \in Nat
  <2>1. KellyPct \in Int /\ MAX_TRADE_FRACTION \in Nat /\ MAX_TRADE_FRACTION \in Int
    BY <1>2 DEF MAX_TRADE_FRACTION
  <2>2. share \in {KellyPct, MAX_TRADE_FRACTION}
    BY <2>1, MinOfTwo, Zenon
  <2>. HIDE DEF share
  <2>. QED BY <1>2, <2>1, <2>2
<1>. HIDE DEF share
<1>4. d \in Nat \ {0}
  BY <1>2 DEF NoPrice
<1>5. CASE capital <= 0
  BY <1>5 DEF Size
<1>6. CASE ~(capital <= 0)
  <2>1. a \in Nat
    BY <1>1, <1>3, <1>6
  <2>2. a \div d \in Nat
    <3>. HIDE DEF a, d
    <3>. QED BY <1>4, <2>1
  <2>3. (a \div d) * LotSize[s] \in Nat
    <3>. HIDE DEF a, d
    <3>. QED BY <1>2, <2>2
  <2>4. Size(s, p) = (a \div d) * LotSize[s]
    BY <1>6 DEF Size, share
  <2>. QED BY <2>3, <2>4
<1>. QED BY <1>5, <1>6

\* RiskManager.check approves nothing while the gate is shut, and a purchase only within the
\* share of its symbol and, unless it is a single share, of the trade.
LEMMA ApprovedBound ==
    ASSUME BookInv, NEW sid, NEW s \in Symbols, NEW side, NEW q \in Nat \ {0},
           NEW p \in Nat \ {NoPrice}
    PROVE  LET n == Approved(sid, s, side, q, p)
           IN  /\ n \in Int /\ n <= q
               /\ n # 0 => GateOpen(p)
               /\ n > 0 /\ side # "SELL" =>
                    /\ 100 * (Abs(positions[s].qty) + n) * p <= MAX_SYMBOL_PCT * PortfolioValue
                    /\ n = 1 \/ 100 * n * p <= MAX_TRADE_PCT * PortfolioValue
<1>. DEFINE n == Approved(sid, s, side, q, p)
            room == Headroom(MAX_TRADE_PCT, 0, p)
            held == Abs(positions[s].qty)
            roomOfSymbol == Headroom(MAX_SYMBOL_PCT, held, p)
            roomOfStrategy == Headroom(MAX_STRATEGY_PCT, Exposure(sid), p)
            traded == TradeCap(q, p)
            symbols == SymbolCap(s, traded, p)
            bought == StrategyCap(sid, symbols, p)
<1>1. held \in Int
  BY DEF BookInv, TypeOK, MoneyTypeOK, Position, Abs
<1>2. /\ room \in Int /\ roomOfSymbol \in Int /\ roomOfStrategy \in Int
      /\ \A m \in Int : m <= room => 100 * (0 + m) * p <= MAX_TRADE_PCT * PortfolioValue
      /\ \A m \in Int : m <= roomOfSymbol =>
            100 * (held + m) * p <= MAX_SYMBOL_PCT * PortfolioValue
  <2>1. MAX_TRADE_PCT \in Nat /\ MAX_SYMBOL_PCT \in Nat /\ MAX_STRATEGY_PCT \in Nat
    BY DEF MAX_TRADE_PCT, MAX_SYMBOL_PCT, MAX_STRATEGY_PCT
  <2>2. Exposure(sid) \in Int
    BY ValuesTyped
  <2>3. 0 \in Int
    OBVIOUS
  <2>. HIDE DEF held
  <2>4. /\ room \in Int
        /\ \A m \in Int : m <= room => 100 * (0 + m) * p <= MAX_TRADE_PCT * PortfolioValue
    BY <2>1, <2>3, HeadroomBound, Zenon
  <2>5. /\ roomOfSymbol \in Int
        /\ \A m \in Int : m <= roomOfSymbol =>
              100 * (held + m) * p <= MAX_SYMBOL_PCT * PortfolioValue
    BY <1>1, <2>1, HeadroomBound, Zenon
  <2>6. roomOfStrategy \in Int
    BY <2>1, <2>2, HeadroomBound, Zenon
  <2>. QED BY <2>4, <2>5, <2>6
<1>. HIDE DEF room, roomOfSymbol, roomOfStrategy, held
<1>3. traded \in Int /\ traded <= q /\ (traded <= room \/ traded = 1)
  <2>1. /\ Max({1, room}) \in Int /\ Max({1, room}) \in {1, room}
    <3>1. 1 \in Int
      OBVIOUS
    <3>. QED BY <1>2, <3>1, MaxOfTwo, Zenon
  <2>2. traded = IF room < q THEN Max({1, room}) ELSE q
    BY DEF TradeCap, room
  <2>. HIDE DEF traded
  <2>. QED BY <1>2, <2>1, <2>2
<1>. HIDE DEF traded
<1>4. symbols \in Int /\ symbols <= traded /\ symbols <= roomOfSymbol
  <2>1. symbols = Min({traded, roomOfSymbol})
    BY DEF SymbolCap, roomOfSymbol, held
  <2>. HIDE DEF symbols
  <2>. QED BY <1>2, <1>3, <2>1, MinOfTwo
<1>. HIDE DEF symbols
<1>5. bought \in Int /\ bought <= symbols
  <2>1. bought = Min({symbols, roomOfStrategy})
    BY DEF StrategyCap, roomOfStrategy
  <2>. HIDE DEF bought
  <2>. QED BY <1>2, <1>4, <2>1, MinOfTwo
<1>. HIDE DEF bought
<1>6. n = IF ~GateOpen(p) THEN 0
          ELSE IF side = "SELL" THEN traded
          ELSE IF bought <= 0 \/ TooManyOpen(s) THEN 0 ELSE bought
  BY DEF Approved, bought, symbols, traded
<1>. HIDE DEF n
<1>7. n \in Int /\ n <= q /\ (n # 0 => GateOpen(p))
  BY <1>3, <1>4, <1>5, <1>6
<1>8. ASSUME n > 0, side # "SELL"
      PROVE  /\ 100 * (held + n) * p <= MAX_SYMBOL_PCT * PortfolioValue
             /\ n = 1 \/ 100 * n * p <= MAX_TRADE_PCT * PortfolioValue
  <2>1. n = bought /\ n \in Int
    BY <1>6, <1>7, <1>8
  <2>2. n <= roomOfSymbol /\ n <= traded
    BY <1>2, <1>3, <1>4, <1>5, <2>1
  <2>3. 100 * (held + n) * p <= MAX_SYMBOL_PCT * PortfolioValue
    BY <1>2, <2>1, <2>2
  <2>4. CASE traded <= room
    <3>1. n <= room
      BY <1>2, <1>3, <2>1, <2>2, <2>4
    <3>2. 100 * (0 + n) * p <= MAX_TRADE_PCT * PortfolioValue
      BY <1>2, <2>1, <3>1
    <3>3. 0 + n = n
      BY <2>1
    <3>. QED BY <2>3, <3>2, <3>3
  <2>5. CASE traded = 1
    BY <1>8, <2>1, <2>2, <2>3, <2>5
  <2>. QED BY <1>3, <2>4, <2>5
<1>. QED BY <1>7, <1>8 DEF n, held

-----------------------------------------------------------------------------
(* Sequences                                                                 *)

\* kept holds what Kept has kept after each element.
IsKept(kept, seq, S) ==
    /\ kept = [k \in 0 .. Len(seq) |->
                  IF k = 0 THEN <<>>
                  ELSE IF seq[k] \in S THEN Append(kept[k - 1], seq[k]) ELSE kept[k - 1]]
    /\ Kept(seq, S) = kept[Len(seq)]

\* The recursive function inside Kept exists.
LEMMA KeptRun ==
    ASSUME NEW seq, NEW S, Len(seq) \in Nat PROVE \E kept : IsKept(kept, seq, S)
<1>. DEFINE n == Len(seq)
            Next1(a, k) == IF seq[k] \in S THEN Append(a, seq[k]) ELSE a
            IsRun(g, m) == g = [k \in 0 .. m |-> IF k = 0 THEN <<>> ELSE Next1(g[k - 1], k)]
            Runs == {m \in Nat : \E g : IsRun(g, m)}
<1>. DEFINE run == CHOOSE f : f = [k \in 0 .. n |->
                        IF k = 0 THEN <<>>
                        ELSE IF seq[k] \in S THEN Append(f[k - 1], seq[k]) ELSE f[k - 1]]
<1>4. Kept(seq, S) = run[n]
  BY DEF Kept
<1>0. run = CHOOSE f : f = [k \in 0 .. n |-> IF k = 0 THEN <<>> ELSE Next1(f[k - 1], k)]
  OBVIOUS
<1>. HIDE DEF Next1, run
<1>1. 0 \in Runs
  <2>. DEFINE g == [k \in 0 .. 0 |-> <<>>]
  <2>1. IsRun(g, 0) OBVIOUS
  <2>. QED BY <2>1
<1>2. ASSUME NEW m \in Nat, m \in Runs PROVE m + 1 \in Runs
  <2>1. PICK g : IsRun(g, m) BY <1>2
  <2>. DEFINE h == [k \in 0 .. m + 1 |-> IF k = m + 1 THEN Next1(g[m], m + 1) ELSE g[k]]
  <2>2. IsRun(h, m + 1) BY <2>1
  <2>. HIDE DEF h, IsRun
  <2>. QED BY <2>2
<1>3. PICK g : IsRun(g, n)
  <2>. HIDE DEF Runs
  <2>1. Nat \subseteq Runs BY <1>1, <1>2, SetInduction
  <2>. QED BY <2>1 DEF Runs
<1>5. run = [k \in 0 .. n |-> IF k = 0 THEN <<>> ELSE Next1(run[k - 1], k)]
  BY <1>0, <1>3, Zenon
<1>6. IsKept(run, seq, S)
  BY <1>4, <1>5 DEF IsKept, Next1
<1>. QED BY <1>6

\* What is kept of a sequence are elements of the sequence.
LEMMA KeptType ==
    ASSUME NEW E, NEW seq \in Seq(E), NEW S PROVE Kept(seq, S) \in Seq(E)
<1>. DEFINE n == Len(seq)
<1>1. n \in Nat
  BY LenProperties
<1>2. PICK kept : IsKept(kept, seq, S)
  BY <1>1, KeptRun
<1>3. /\ kept = [k \in 0 .. n |->
                   IF k = 0 THEN <<>>
                   ELSE IF seq[k] \in S THEN Append(kept[k - 1], seq[k]) ELSE kept[k - 1]]
      /\ Kept(seq, S) = kept[n]
  BY <1>2 DEF IsKept
<1>. DEFINE Typed == {k \in Nat : k \in 0 .. n => kept[k] \in Seq(E)}
<1>4. 0 \in Typed
  BY <1>1, <1>3
<1>5. ASSUME NEW k \in Nat, k \in Typed PROVE k + 1 \in Typed
  <2>. SUFFICES ASSUME k + 1 \in 0 .. n PROVE kept[k + 1] \in Seq(E)
    OBVIOUS
  <2>1. kept[k] \in Seq(E)
    BY <1>1, <1>5
  <2>2. seq[k + 1] \in E
    BY <1>1, ElementOfSeq
  <2>3. kept[k + 1] = IF seq[k + 1] \in S THEN Append(kept[k], seq[k + 1]) ELSE kept[k]
    <3>1. \A j \in 0 .. n : j # 0 => kept[j] = IF seq[j] \in S THEN Append(kept[j - 1], seq[j])
                                                           ELSE kept[j - 1]
      BY <1>3, Zenon
    <3>2. k + 1 # 0 /\ (k + 1) - 1 = k
      OBVIOUS
    <3>. QED BY <3>1, <3>2, Zenon
  <2>. QED BY <2>1, <2>2, <2>3, AppendProperties
<1>. HIDE DEF Typed
<1>6. n \in Typed
  BY <1>1, <1>4, <1>5, SetInduction
<1>7. kept[n] \in Seq(E)
  <2>. HIDE DEF n
  <2>. QED BY <1>1, <1>6 DEF Typed
<1>. QED BY <1>3, <1>7

-----------------------------------------------------------------------------
(* What the engine does with the broker                                      *)

\* The engine places MARKET orders only, for symbols that have a price: none rests.
NothingRests == resting = [s \in Symbols |-> {}]

\* The broker's operations that the engine calls: those that carry no order, and the others.
Upkeep ==
    \/ UNCHANGED vars \/ TripOnPlace
    \/ \E t \in Ticks : UpdateLtp(t[1], t[2])
    \/ RunSquareOff \/ SquareOffAll \/ ResetKillSwitch
    \/ \E a \in KillAmounts : SetKillAmount(a)

Moves == Upkeep \/ \E r \in Request : FillMarketOrder(r)

\* Each of them moves the orders as the ledger allows.
LEMMA MovesAreLedgered ==
    ASSUME BookInv, Moves PROVE BookInv' /\ LedgerStep(orders, orders')
<1>1. squareOffs \in Nat
  BY DEF BookInv, TypeOK, BookTypeOK
<1>2. CASE UNCHANGED vars \/ TripOnPlace \/ ResetKillSwitch
  BY <1>2, StutterStep, TripOnPlaceStep, ResetKillSwitchStep DEF vars
<1>3. ASSUME NEW r \in Request, FillMarketOrder(r) PROVE BookInv' /\ LedgerStep(orders, orders')
  BY <1>3, FillMarketOrderStep
<1>4. ASSUME NEW t \in Ticks, UpdateLtp(t[1], t[2]) PROVE BookInv' /\ LedgerStep(orders, orders')
  BY <1>4, UpdateLtpStep
<1>5. CASE RunSquareOff \/ SquareOffAll
  <2>1. CloseOpenPositions /\ squareOffs' \in Nat
    BY <1>1, <1>5 DEF RunSquareOff, SquareOffAll
  <2>. QED BY <2>1, CloseOpenPositionsStep
<1>6. ASSUME NEW a \in KillAmounts, SetKillAmount(a) PROVE BookInv' /\ LedgerStep(orders, orders')
  BY <1>6, SetKillAmountStep
<1>. QED BY <1>2, <1>3, <1>4, <1>5, <1>6 DEF Moves, Upkeep

\* Each of them keeps the broker's two invariants.
LEMMA MovesKeepBooks ==
    ASSUME BookInv, BooksInv, Moves PROVE BookInv' /\ BooksInv'
<1>1. squareOffs \in Nat
  BY DEF BookInv, TypeOK, BookTypeOK
<1>2. CASE UNCHANGED vars \/ TripOnPlace \/ ResetKillSwitch
  BY <1>2, StutterStep, TripOnPlaceStep, ResetKillSwitchStep, SameBooks
     DEF vars, moneyVars, TripOnPlace, ResetKillSwitch, bookVars
<1>3. ASSUME NEW r \in Request, FillMarketOrder(r) PROVE BookInv' /\ BooksInv'
  BY <1>3, FillMarketOrderStep, FillMarketBooks
<1>4. ASSUME NEW t \in Ticks, UpdateLtp(t[1], t[2]) PROVE BookInv' /\ BooksInv'
  BY <1>4, UpdateLtpStep, UpdateLtpBooks
<1>5. CASE RunSquareOff \/ SquareOffAll
  <2>1. CloseOpenPositions /\ squareOffs' \in Nat
    BY <1>1, <1>5 DEF RunSquareOff, SquareOffAll
  <2>. QED BY <2>1, CloseOpenPositionsStep, CloseBooks
<1>6. ASSUME NEW a \in KillAmounts, SetKillAmount(a) PROVE BookInv' /\ BooksInv'
  BY <1>6, SetKillAmountStep, SameBooks DEF SetKillAmount, bookVars
<1>. QED BY <1>2, <1>3, <1>4, <1>5, <1>6 DEF Moves, Upkeep

\* The order table as a step leaves it, when it only appends.
Grows ==
    /\ orders' \in Seq(Order) /\ orders \in Seq(Order)
    /\ Len(orders) \in Nat /\ Len(orders') \in Nat /\ Len(orders) <= Len(orders')
    /\ DOMAIN orders = 1 .. Len(orders) /\ DOMAIN orders' = 1 .. Len(orders')
    /\ \A i \in 1 .. Len(orders) : orders'[i] = orders[i]

\* An order at the market is appended as its caller wrote it, and the position of its
\* symbol moves by its quantity.
LEMMA FillAppends ==
    ASSUME BookInv, NEW r \in Request, FillMarketOrder(r)
    PROVE  /\ Grows /\ Len(orders') = Len(orders) + 1
           /\ LET o == orders'[Len(orders) + 1]
              IN  /\ o.strategy_id = r.strategy_id /\ o.symbol = r.symbol /\ o.side = r.side
                  /\ o.qty = r.qty
           /\ positions'[r.symbol].qty = positions[r.symbol].qty + Signed(r.side, r.qty)
           /\ capital' = capital - Signed(r.side, SlippedPrice(r.side, ltp[r.symbol]) * r.qty)
<1>. DEFINE o == NewOrder(r, "OPEN")
<1>1. OrderSound(o) /\ o \in Order /\ o.status = "OPEN" /\ r.symbol \in Symbols
  BY NewOrderSound DEF OrderSound, NewOrder, FillMarketOrder
<1>2. /\ o.strategy_id = r.strategy_id /\ o.symbol = r.symbol /\ o.side = r.side
      /\ o.qty = r.qty /\ o.filled_qty = 0
  BY DEF NewOrder
<1>3. /\ orders' = Append(orders, Executed(o))
      /\ Post(r.symbol, ApplyFill(Account(r.symbol), Len(orders) + 1, o,
                                  SlippedPrice(r.side, ltp[r.symbol])))
  BY DEF FillMarketOrder
<1>4. /\ orders \in Seq(Order) /\ Len(orders) \in Nat /\ DOMAIN orders = 1 .. Len(orders)
      /\ positions \in [Symbols -> Position] /\ BookInv'
  BY LenProperties, FillMarketOrderStep DEF BookInv, TypeOK, BookTypeOK, MoneyTypeOK
<1>. DEFINE acct == ApplyFill(Account(r.symbol), Len(orders) + 1, o,
                              SlippedPrice(r.side, ltp[r.symbol]))
<1>5. /\ positions'[r.symbol].qty = positions[r.symbol].qty + Signed(r.side, r.qty)
      /\ capital' = capital - Signed(r.side, SlippedPrice(r.side, ltp[r.symbol]) * r.qty)
  <2>1. positions'[r.symbol] = acct.pos /\ capital' = acct.cash
    <3>. HIDE DEF acct
    <3>1. positions' = [positions EXCEPT ![r.symbol] = acct.pos] /\ capital' = acct.cash
      BY <1>3 DEF Post, acct
    <3>. QED BY <1>1, <1>4, <3>1
  <2>2. /\ Account(r.symbol) \in AccountType
        /\ Account(r.symbol).pos = positions[r.symbol] /\ Account(r.symbol).cash = capital
    BY <1>1, InvFacts DEF Account
  <2>3. Remaining(o) = r.qty
    <3>1. r.qty \in Nat
      BY DEF Request
    <3>. HIDE DEF o
    <3>. QED BY <1>2, <3>1 DEF Remaining
  <2>. HIDE DEF o
  <2>4. /\ acct.pos.qty = Account(r.symbol).pos.qty + Signed(o.side, Remaining(o))
        /\ acct.cash = Account(r.symbol).cash
                       - Signed(o.side, SlippedPrice(r.side, ltp[r.symbol]) * Remaining(o))
    <3>. DEFINE a == Account(r.symbol)
    <3>1. a \in AccountType
      BY <2>2
    <3>. HIDE DEF a
    <3>. DEFINE id == Len(orders) + 1
                price == SlippedPrice(r.side, ltp[r.symbol])
                q == Remaining(o)
                b == ApplyFill(a, id, o, price)
    <3>. HIDE DEF id, price, q
    <3>2. /\ b.pos.qty = a.pos.qty + Signed(o.side, q)
          /\ b.cash = a.cash - Signed(o.side, price * q)
          /\ b.fills = Append(a.fills, [order |-> id, qty |-> q, price |-> price])
      BY <3>1, ApplyFillBooks DEF q
    <3>. QED BY <3>2, Zenon DEF a, id, price, q
  <2>. HIDE DEF acct
  <2>. QED BY <1>2, <2>1, <2>2, <2>3, <2>4
<1>. HIDE DEF acct
<1>. HIDE DEF o
<1>6. /\ Executed(o).strategy_id = r.strategy_id /\ Executed(o).symbol = r.symbol
      /\ Executed(o).side = r.side /\ Executed(o).qty = r.qty /\ Executed(o) \in Order
  <2>1. Executed(o) \in Order
    BY <1>1, ExecutedSound DEF OrderSound
  <2>2. /\ Executed(o).strategy_id = o.strategy_id /\ Executed(o).symbol = o.symbol
        /\ Executed(o).side = o.side /\ Executed(o).qty = o.qty
    BY <1>1 DEF Executed, Order
  <2>. QED BY <1>2, <2>1, <2>2
<1>7. /\ orders' \in Seq(Order) /\ Len(orders') = Len(orders) + 1
      /\ DOMAIN orders' = 1 .. Len(orders')
      /\ \A i \in 1 .. Len(orders) : orders'[i] = orders[i]
      /\ orders'[Len(orders) + 1] = Executed(o)
  BY <1>3, <1>4, <1>6, AppendProperties, LenProperties
<1>. QED BY <1>4, <1>5, <1>6, <1>7 DEF Grows

\* The others append only the orders of a square-off, and none when nothing is open.
\* Nothing comes to rest, and a price that is known stays known.
LEMMA UpkeepAppends ==
    ASSUME BookInv, NothingRests, Upkeep
    PROVE  /\ Grows /\ NothingRests'
           /\ \A s \in Symbols : ltp[s] # NoPrice => ltp'[s] # NoPrice
           /\ \A i \in DOMAIN orders' \ DOMAIN orders :
                /\ orders'[i].status = "FILLED" /\ orders'[i].strategy_id = KillSwitch
                /\ positions'[orders'[i].symbol].qty = 0
           /\ OpenSymbols = {} => Len(orders') = Len(orders)
<1>1. /\ orders \in Seq(Order) /\ Len(orders) \in Nat /\ DOMAIN orders = 1 .. Len(orders)
      /\ orders \in [1 .. Len(orders) -> Order]
      /\ ltp \in [Symbols -> Nat] /\ squareOffs \in Nat
  BY LenProperties DEF BookInv, TypeOK, BookTypeOK
<1>2. ASSUME orders' = orders PROVE Grows
  BY <1>1, <1>2 DEF Grows
<1>3. CASE UNCHANGED vars \/ TripOnPlace \/ ResetKillSwitch
  <2>1. orders' = orders /\ resting' = resting /\ ltp' = ltp
    BY <1>3 DEF vars, TripOnPlace, ResetKillSwitch, bookVars
  <2>. QED BY <1>2, <2>1 DEF NothingRests
<1>4. ASSUME NEW a \in KillAmounts, SetKillAmount(a)
      PROVE  orders' = orders /\ resting' = resting /\ ltp' = ltp
  BY <1>4 DEF SetKillAmount, bookVars
<1>5. ASSUME NEW t \in Ticks, UpdateLtp(t[1], t[2])
      PROVE  /\ orders' = orders /\ NothingRests'
             /\ \A s \in Symbols : ltp[s] # NoPrice => ltp'[s] # NoPrice
  <2>1. t[1] \in Symbols /\ t[2] # NoPrice
    BY TicksAssumption
  <2>2. /\ ltp' = [ltp EXCEPT ![t[1]] = t[2]]
        /\ orders' = ScanOrders(orders, resting[t[1]], t[2])
        /\ resting' = [resting EXCEPT ![t[1]] = ScanBucket(orders, resting[t[1]], t[2])]
    BY <1>5 DEF UpdateLtp
  <2>3. resting[t[1]] = {}
    BY <2>1 DEF NothingRests
  <2>4. orders' = [i \in 1 .. Len(orders) |-> orders[i]]
    BY <1>1, <2>2, <2>3 DEF ScanOrders
  <2>5. orders' = orders
    BY <1>1, <2>4
  <2>6. ScanBucket(orders, resting[t[1]], t[2]) = {}
    BY <2>3 DEF ScanBucket
  <2>7. NothingRests'
    BY <2>2, <2>6 DEF NothingRests
  <2>. QED BY <1>1, <2>1, <2>2, <2>5, <2>7
<1>6. CASE RunSquareOff \/ SquareOffAll
  <2>1. CloseOpenPositions /\ squareOffs' \in Nat
    BY <1>1, <1>6 DEF RunSquareOff, SquareOffAll
  <2>2. resting' = resting /\ ltp' = ltp
    BY <2>1 DEF CloseOpenPositions
  <2>3. /\ BookInv' /\ LedgerStep(orders, orders')
        /\ \A i \in DOMAIN orders' \ DOMAIN orders :
             /\ orders'[i].status = "FILLED" /\ orders'[i].strategy_id = KillSwitch
             /\ positions'[orders'[i].symbol].qty = 0
    BY <2>1, CloseOpenPositionsStep
  <2>4. PICK visit \in Visits(OpenSymbols) :
          orders' = orders \o [k \in DOMAIN visit |-> Executed(CloseOrder(visit[k]))]
    BY <2>1 DEF CloseOpenPositions
  <2>. DEFINE added == [k \in DOMAIN visit |-> Executed(CloseOrder(visit[k]))]
  <2>5. /\ Len(visit) \in Nat /\ DOMAIN visit = 1 .. Len(visit)
        /\ Len(visit) = Cardinality(OpenSymbols)
        /\ \A k \in 1 .. Len(visit) : visit[k] \in OpenSymbols
    <3>1. IsFiniteSet(OpenSymbols)
      BY AmountsAssumption, FS_Subset DEF OpenSymbols
    <3>. QED BY <3>1, VisitOnce
  <2>6. \A s \in OpenSymbols : Executed(CloseOrder(s)) \in Order
    <3>1. positions \in [Symbols -> Position] /\ \A s \in OpenSymbols : s \in Symbols
      BY DEF BookInv, TypeOK, MoneyTypeOK, OpenSymbols
    <3>2. ltp \in [Symbols -> Nat]
      BY <1>1
    <3>3. 1 \in Nat \ {0}
      OBVIOUS
    <3>. QED BY <3>1, <3>2, <3>3, ClosingBooks, Zenon
  <2>7. added \in Seq(Order) /\ Len(added) = Len(visit)
    <3>1. added \in [1 .. Len(visit) -> Order]
      BY <2>5, <2>6
    <3>2. added \in Seq(Order)
      BY <2>5, <3>1, SeqDef
    <3>3. Len(added) \in Nat /\ 1 .. Len(added) = 1 .. Len(visit)
      BY <2>5, <3>1, <3>2, LenProperties
    <3>. QED BY <2>5, <3>2, <3>3, IntervalEnd
  <2>. HIDE DEF added
  <2>8. /\ orders' \in Seq(Order) /\ Len(orders') = Len(orders) + Len(visit)
        /\ \A i \in 1 .. Len(orders) + Len(visit) :
             orders'[i] = IF i <= Len(orders) THEN orders[i] ELSE added[i - Len(orders)]
    <3>1. orders' = orders \o added
      BY <2>4 DEF added
    <3>2. orders \in Seq(Order)
      BY <1>1
    <3>. DEFINE both == orders \o added
    <3>3. /\ both \in Seq(Order) /\ Len(both) = Len(orders) + Len(added)
          /\ \A i \in 1 .. Len(orders) + Len(added) :
               both[i] = IF i <= Len(orders) THEN orders[i] ELSE added[i - Len(orders)]
      BY <2>7, <3>2, ConcatProperties, Zenon
    <3>. HIDE DEF both
    <3>4. orders' = both
      BY <3>1 DEF both
    <3>5. Len(added) = Len(visit)
      BY <2>7
    <3>. QED BY <3>3, <3>4, <3>5
  <2>9. Grows
    <3>1. DOMAIN orders' = 1 .. Len(orders') /\ Len(orders') \in Nat
      BY <2>8, LenProperties
    <3>2. \A i \in 1 .. Len(orders) : orders'[i] = orders[i]
      BY <1>1, <2>5, <2>8
    <3>. QED BY <1>1, <2>5, <2>8, <3>1, <3>2 DEF Grows
  <2>10. OpenSymbols = {} => Len(orders') = Len(orders)
    BY <1>1, <2>5, <2>8, FS_EmptySet
  <2>. QED BY <2>2, <2>3, <2>9, <2>10 DEF NothingRests
<1>. QED BY <1>2, <1>3, <1>4, <1>5, <1>6 DEF Upkeep, NothingRests

\* Whatever the engine calls, orders are only appended.
LEMMA MovesAppend ==
    ASSUME BookInv, NothingRests, Moves
    PROVE  /\ Grows /\ NothingRests'
           /\ \A s \in Symbols : ltp[s] # NoPrice => ltp'[s] # NoPrice
<1>1. ASSUME NEW r \in Request, FillMarketOrder(r)
      PROVE  Grows /\ resting' = resting /\ ltp' = ltp
  <2>1. resting' = resting /\ ltp' = ltp
    BY <1>1 DEF FillMarketOrder
  <2>. QED BY <1>1, <2>1, FillAppends
<1>. QED BY <1>1, UpkeepAppends DEF Moves, NothingRests

-----------------------------------------------------------------------------
(* The inductive invariant                                                   *)

\* The clock, the thresholds and the counters.
ClockOK ==
    /\ gateAmount \in KillAmounts
    /\ now \in 0 .. MaxNow /\ ticks \in 0 .. MaxTicks /\ posts \in 0 .. MaxPosts

\* The rest of the tick.
TickOK ==
    /\ bucket \in [Symbols \X ToSet(Timeframes) -> {Never} \cup (0 .. MaxNow)]
    /\ bars \in Seq(Symbols \X ToSet(Timeframes)) /\ todo \in Seq(Traders \X Symbols)

\* A bar, and a strategy's turn, are about a symbol whose price is known.
Priced ==
    /\ \A k \in DOMAIN bars : ltp[bars[k][1]] # NoPrice
    /\ \A k \in DOMAIN todo : ltp[todo[k][2]] # NoPrice

\* What the operator and the classifier choose.
ChoiceOK ==
    /\ regime \in Regimes /\ since \in Nat
    /\ disabled \subseteq Traders /\ auto_select \in BOOLEAN /\ selected \subseteq Symbols

\* What the breakout strategies remember.
StrategyOK ==
    range \in Seq(Symbols) /\ Len(range) <= ORB_BARS /\ fired \subseteq Breakouts \X Sides

\* The records of the signals and of the orders.
RecordOK ==
    /\ dedup \in [Keys -> {Never} \cup (0 .. MaxNow)]
    /\ placed_at \in Seq(0 .. MaxNow) /\ Len(placed_at) = Len(orders)

\* What the window is measured by.
Key(o) == <<o.strategy_id, o.symbol, o.side>>

\* The last signal of a key came no earlier than the last order that carries it.
Recorded ==
    /\ \A key \in Keys : dedup[key] <= now
    /\ \A i \in DOMAIN orders : orders[i].strategy_id \in Traders =>
          dedup[Key(orders[i])] # Never /\ placed_at[i] <= dedup[Key(orders[i])]

EngineInv ==
    /\ BookInv /\ BooksInv /\ NothingRests
    /\ ClockOK /\ TickOK /\ Priced /\ ChoiceOK /\ StrategyOK /\ RecordOK
    /\ Recorded /\ OrdersSpaced

-----------------------------------------------------------------------------
(* The rest of a tick                                                        *)

\* A step that takes at most a strategy's turn from the rest of the tick.
LEMMA RestOfTick ==
    ASSUME TickOK, Priced, \A s \in Symbols : ltp[s] # NoPrice => ltp'[s] # NoPrice,
           bucket' = bucket, bars' = bars, todo' = todo \/ (todo # <<>> /\ todo' = Tail(todo))
    PROVE  TickOK' /\ Priced'
<1>1. /\ DOMAIN bars = 1 .. Len(bars) /\ DOMAIN todo = 1 .. Len(todo)
      /\ Len(bars) \in Nat /\ Len(todo) \in Nat
      /\ \A k \in DOMAIN bars : bars[k][1] \in Symbols
      /\ \A k \in DOMAIN todo : todo[k][2] \in Symbols
  <2>1. /\ DOMAIN bars = 1 .. Len(bars) /\ DOMAIN todo = 1 .. Len(todo)
        /\ Len(bars) \in Nat /\ Len(todo) \in Nat
    BY LenProperties DEF TickOK
  <2>2. \A k \in 1 .. Len(bars) : bars[k] \in Symbols \X ToSet(Timeframes)
    BY ElementOfSeq DEF TickOK
  <2>3. \A k \in 1 .. Len(todo) : todo[k] \in Traders \X Symbols
    BY ElementOfSeq DEF TickOK
  <2>. QED BY <2>1, <2>2, <2>3
<1>2. \A k \in DOMAIN bars' : ltp'[bars'[k][1]] # NoPrice
  BY <1>1 DEF Priced
<1>3. CASE todo' = todo
  <2>1. \A k \in DOMAIN todo' : ltp'[todo'[k][2]] # NoPrice
    BY <1>1, <1>3 DEF Priced
  <2>. QED BY <1>2, <1>3, <2>1 DEF TickOK, Priced
<1>4. CASE todo # <<>> /\ todo' = Tail(todo)
  <2>. DEFINE rest == Tail(todo)
  <2>1. /\ rest \in Seq(Traders \X Symbols) /\ Len(rest) = Len(todo) - 1
        /\ \A k \in 1 .. Len(rest) : rest[k] = todo[k + 1]
    BY <1>4, HeadTailProperties DEF TickOK
  <2>2. DOMAIN rest = 1 .. Len(rest)
    BY <2>1, LenProperties
  <2>. HIDE DEF rest
  <2>3. \A k \in DOMAIN rest : k + 1 \in DOMAIN todo /\ rest[k] = todo[k + 1]
    BY <1>1, <2>1, <2>2
  <2>4. \A k \in DOMAIN rest : ltp'[rest[k][2]] # NoPrice
    BY <1>1, <2>3 DEF Priced
  <2>5. todo' = rest
    BY <1>4 DEF rest
  <2>. QED BY <1>2, <2>1, <2>4, <2>5 DEF TickOK, Priced
<1>. QED BY <1>3, <1>4

\* The head of the rest of the tick: a strategy's turn at a symbol with a price.
LEMMA Turn ==
    ASSUME EngineInv, todo # <<>>
    PROVE  /\ Head(todo)[1] \in Traders /\ Head(todo)[2] \in Symbols
           /\ ltp[Head(todo)[2]] \in Nat \ {NoPrice}
<1>1. todo \in Seq(Traders \X Symbols) /\ ltp \in [Symbols -> Nat]
  BY DEF EngineInv, TickOK, BookInv, TypeOK, BookTypeOK
<1>2. Head(todo) \in Traders \X Symbols
  BY <1>1, HeadTailProperties
<1>3. Len(todo) \in Nat \ {0} /\ DOMAIN todo = 1 .. Len(todo)
  BY <1>1, EmptySeq, LenProperties
<1>4. 1 \in DOMAIN todo /\ Head(todo) = todo[1]
  BY <1>1, <1>3
<1>5. ltp[Head(todo)[2]] # NoPrice
  BY <1>4 DEF EngineInv, Priced
<1>. QED BY <1>1, <1>2, <1>5

\* The same of a closed bar.
LEMMA NextBar ==
    ASSUME EngineInv, bars # <<>>
    PROVE  /\ Head(bars)[1] \in Symbols /\ Head(bars)[2] \in ToSet(Timeframes)
           /\ ltp[Head(bars)[1]] # NoPrice
           /\ Tail(bars) \in Seq(Symbols \X ToSet(Timeframes))
           /\ \A k \in DOMAIN Tail(bars) : ltp[Tail(bars)[k][1]] # NoPrice
<1>1. bars \in Seq(Symbols \X ToSet(Timeframes))
  BY DEF EngineInv, TickOK
<1>2. /\ Head(bars) \in Symbols \X ToSet(Timeframes)
      /\ Tail(bars) \in Seq(Symbols \X ToSet(Timeframes)) /\ Len(Tail(bars)) = Len(bars) - 1
      /\ \A k \in 1 .. Len(Tail(bars)) : Tail(bars)[k] = bars[k + 1]
  BY <1>1, HeadTailProperties
<1>3. /\ Len(bars) \in Nat \ {0} /\ DOMAIN bars = 1 .. Len(bars)
      /\ DOMAIN Tail(bars) = 1 .. Len(Tail(bars))
  BY <1>1, <1>2, EmptySeq, LenProperties
<1>4. 1 \in DOMAIN bars /\ Head(bars) = bars[1]
  BY <1>1, <1>3
<1>. DEFINE rest == Tail(bars)
<1>5. \A k \in DOMAIN rest : k + 1 \in DOMAIN bars /\ rest[k] = bars[k + 1]
  <2>1. Len(rest) = Len(bars) - 1 /\ DOMAIN rest = 1 .. Len(rest)
        /\ \A k \in 1 .. Len(rest) : rest[k] = bars[k + 1]
    BY <1>2, <1>3
  <2>. HIDE DEF rest
  <2>. QED BY <1>3, <2>1
<1>6. ltp[Head(bars)[1]] # NoPrice
  BY <1>4 DEF EngineInv, Priced
<1>7. \A k \in DOMAIN rest : ltp[rest[k][1]] # NoPrice
  <2>. HIDE DEF rest
  <2>. QED BY <1>5 DEF EngineInv, Priced
<1>. QED BY <1>2, <1>6, <1>7

\* A bucket begins no later than the time it holds.
LEMMA Remainder ==
    ASSUME NEW n \in Nat, NEW d \in Nat \ {0} PROVE n % d \in 0 .. n
<1>1. n % d \in 0 .. (d - 1) /\ n \div d \in Nat /\ n = d * (n \div d) + (n % d)
  OBVIOUS
<1>. DEFINE k == n \div d
            m == n % d
<1>. HIDE DEF k, m
<1>2. k \in Nat /\ m \in Int /\ m >= 0 /\ n = d * k + m
  BY <1>1 DEF k, m
<1>3. d * k >= 0
  BY <1>2
<1>. QED BY <1>2, <1>3 DEF m

\* A tick leaves behind it the bars it closed and buckets that end no later than the clock.
LEMMA TickTick ==
    ASSUME EngineInv, NEW t \in Ticks, Tick(t[1], t[2])
    PROVE  TickOK' /\ Priced'
<1>. DEFINE s == t[1]
            p == t[2]
            E == ToSet(Timeframes)
<1>1. s \in Symbols /\ p # NoPrice
  BY TicksAssumption
<1>2. /\ todo = <<>> /\ todo' = todo
      /\ bars' = [k \in DOMAIN Closed(s) |-> <<s, Closed(s)[k]>>]
      /\ bucket' = [key \in DOMAIN bucket |->
                      IF key[1] = s THEN Max({bucket[key], Align(now, key[2])}) ELSE bucket[key]]
      /\ ltp' = [ltp EXCEPT ![s] = p]
  BY DEF Tick, EventLoop, UpdateLtp
<1>3. /\ now \in 0 .. MaxNow /\ bucket \in [Symbols \X E -> {Never} \cup (0 .. MaxNow)]
      /\ ltp \in [Symbols -> Nat] /\ todo \in Seq(Traders \X Symbols) /\ MaxNow \in Nat
  BY EngineAssumption DEF EngineInv, ClockOK, TickOK, BookInv, TypeOK, BookTypeOK
<1>4. Timeframes \in Seq(E)
  <2>1. Timeframes \in [1 .. Len(Timeframes) -> E] /\ Len(Timeframes) \in Nat
    BY EngineAssumption, LenProperties DEF ToSet
  <2>. QED BY <2>1, SeqDef
<1>5. Closed(s) \in Seq(E)
  BY <1>4, KeptType DEF Closed
<1>6. bars' \in Seq(Symbols \X E) /\ \A k \in DOMAIN bars' : ltp'[bars'[k][1]] # NoPrice
  <2>1. /\ Len(Closed(s)) \in Nat /\ DOMAIN Closed(s) = 1 .. Len(Closed(s))
        /\ \A k \in 1 .. Len(Closed(s)) : Closed(s)[k] \in E
    BY <1>5, LenProperties, ElementOfSeq
  <2>. DEFINE c == Closed(s)
  <2>. HIDE DEF c, E
  <2>2. bars' = [k \in 1 .. Len(c) |-> <<s, c[k]>>]
    BY <1>2, <2>1 DEF c
  <2>3. bars' \in [1 .. Len(c) -> Symbols \X E]
    BY <1>1, <2>1, <2>2 DEF c
  <2>4. bars' \in Seq(Symbols \X E)
    BY <2>1, <2>3, SeqDef DEF c
  <2>5. \A k \in DOMAIN bars' : bars'[k][1] = s
    BY <2>2
  <2>. QED BY <1>1, <1>2, <1>3, <2>4, <2>5
<1>7. bucket' \in [Symbols \X E -> {Never} \cup (0 .. MaxNow)]
  <2>1. ASSUME NEW key \in Symbols \X E
        PROVE  Max({bucket[key], Align(now, key[2])}) \in {Never} \cup (0 .. MaxNow)
    <3>1. bucket[key] \in {Never} \cup (0 .. MaxNow) /\ bucket[key] \in Int
      BY <1>3 DEF Never
    <3>2. Align(now, key[2]) \in 0 .. MaxNow
      <4>. DEFINE d == Interval[key[2]]
      <4>1. d \in Nat \ {0}
        BY EngineAssumption
      <4>. HIDE DEF d
      <4>2. now % d \in 0 .. now
        <5>1. now \in Nat
          BY <1>3
        <5>. QED BY <4>1, <5>1, Remainder
      <4>. QED BY <1>3, <4>2 DEF Align, d
    <3>. DEFINE a == bucket[key]
                b == Align(now, key[2])
    <3>3. a \in Int /\ b \in Int
      BY <1>3, <3>1, <3>2
    <3>. HIDE DEF a, b
    <3>4. Max({a, b}) \in {a, b}
      BY <3>3, MaxOfTwo
    <3>. QED BY <3>1, <3>2, <3>4 DEF a, b
  <2>. HIDE DEF E
  <2>. QED BY <1>2, <1>3, <2>1
<1>8. \A k \in DOMAIN todo' : ltp'[todo'[k][2]] # NoPrice
  BY <1>2
<1>. QED BY <1>2, <1>3, <1>6, <1>7, <1>8 DEF TickOK, Priced

\* A bar makes a turn for each strategy that it is shown to.
LEMMA BarTick ==
    ASSUME EngineInv, OnBar PROVE TickOK' /\ Priced'
<1>. DEFINE s == Head(bars)[1]
            tf == Head(bars)[2]
<1>1. /\ bars # <<>> /\ bars' = Tail(bars) /\ bucket' = bucket /\ ltp' = ltp
      /\ \/ todo' = [k \in DOMAIN Scanned(tf) |-> <<Scanned(tf)[k], s>>]
         \/ todo' = <<>>
  BY DEF OnBar, vars
<1>2. /\ s \in Symbols /\ tf \in ToSet(Timeframes) /\ ltp[s] # NoPrice
      /\ Tail(bars) \in Seq(Symbols \X ToSet(Timeframes))
      /\ \A k \in DOMAIN Tail(bars) : ltp[Tail(bars)[k][1]] # NoPrice
  BY <1>1, NextBar
<1>. HIDE DEF s, tf
<1>3. todo' \in Seq(Traders \X Symbols) /\ \A k \in DOMAIN todo' : ltp[todo'[k][2]] # NoPrice
  <2>1. CASE todo' = <<>>
    BY <2>1
  <2>2. CASE todo' = [k \in DOMAIN Scanned(tf) |-> <<Scanned(tf)[k], s>>]
    <3>1. TF_MAP[tf] \in Seq(Traders)
      BY <1>2, EngineAssumption
    <3>2. Scanned(tf) \in Seq(Traders)
      BY <3>1, KeptType DEF Scanned
    <3>. DEFINE c == Scanned(tf)
    <3>3. /\ Len(c) \in Nat /\ DOMAIN c = 1 .. Len(c)
          /\ \A k \in 1 .. Len(c) : c[k] \in Traders
      BY <3>2, LenProperties, ElementOfSeq
    <3>. HIDE DEF c
    <3>4. todo' = [k \in 1 .. Len(c) |-> <<c[k], s>>]
      BY <2>2, <3>3 DEF c
    <3>5. todo' \in [1 .. Len(c) -> Traders \X Symbols]
      BY <1>2, <3>3, <3>4
    <3>6. todo' \in Seq(Traders \X Symbols)
      BY <3>3, <3>5, SeqDef
    <3>. QED BY <1>2, <3>4, <3>6
  <2>. QED BY <1>1, <2>1, <2>2
<1>. QED BY <1>1, <1>2, <1>3 DEF EngineInv, TickOK, Priced

-----------------------------------------------------------------------------
(* One lemma for each action of the engine                                   *)

\* The parts of the invariant that a step must keep by itself, and how it calls the broker.
PartsKept ==
    /\ Moves /\ (Stamp \/ UNCHANGED <<orders, placed_at>>)
    /\ ClockOK' /\ now <= now' /\ TickOK' /\ Priced' /\ ChoiceOK' /\ StrategyOK'

\* The signals of the keys K are let through, and the orders of strategies carry those keys.
Signals(K) ==
    /\ K \subseteq Keys
    /\ \A key \in K : dedup[key] = Never \/ now - dedup[key] >= DEDUP_WINDOW
    /\ dedup' = [key \in Keys |-> IF key \in K THEN now ELSE dedup[key]]
    /\ \A i \in DOMAIN orders' \ DOMAIN orders :
          orders'[i].strategy_id \in Traders => Key(orders'[i]) \in K
    /\ K # {} => Len(orders') <= Len(orders) + 1

\* A call of the broker for anybody but a strategy.
NoTrade == Upkeep \/ \E r \in Request : FillMarketOrder(r) /\ r.strategy_id \notin Traders

\* Such a call lets no signal through.
LEMMA NoSignals ==
    ASSUME EngineInv, NoTrade, dedup' = dedup PROVE Moves /\ Signals({})
<1>1. BookInv /\ NothingRests /\ dedup \in [Keys -> {Never} \cup (0 .. MaxNow)]
  BY DEF EngineInv, RecordOK
<1>2. dedup' = [key \in Keys |-> dedup[key]]
  BY <1>1
<1>3. \A i \in DOMAIN orders' \ DOMAIN orders : orders'[i].strategy_id \notin Traders
  <2>1. CASE Upkeep
    BY <1>1, <2>1, UpkeepAppends, RequestsAssumption DEF Traders
  <2>2. ASSUME NEW r \in Request, FillMarketOrder(r), r.strategy_id \notin Traders
        PROVE  \A i \in DOMAIN orders' \ DOMAIN orders : orders'[i].strategy_id \notin Traders
    <3>1. /\ Grows /\ Len(orders') = Len(orders) + 1
          /\ orders'[Len(orders) + 1].strategy_id = r.strategy_id
      BY <1>1, <2>2, FillAppends
    <3>2. DOMAIN orders' \ DOMAIN orders = {Len(orders) + 1}
      BY <3>1 DEF Grows
    <3>. QED BY <2>2, <3>1, <3>2
  <2>. QED BY <2>1, <2>2 DEF NoTrade
<1>4. Moves
  BY DEF NoTrade, Moves
<1>. QED BY <1>2, <1>3, <1>4 DEF Signals

\* _on_tick
LEMMA TickStep ==
    ASSUME EngineInv, NEW t \in Ticks, Tick(t[1], t[2]) PROVE PartsKept /\ Signals({})
<1>1. NoTrade /\ dedup' = dedup
  BY DEF Tick, NoTrade, Upkeep
<1>2. TickOK' /\ Priced'
  BY TickTick
<1>3. ClockOK' /\ now <= now'
  BY EngineAssumption DEF Tick, EngineInv, ClockOK
<1>4. ChoiceOK'
  BY DEF Tick, choiceVars, EngineInv, ChoiceOK
<1>5. StrategyOK'
  BY DEF Tick, strategyVars, EngineInv, StrategyOK
<1>. QED BY <1>1, <1>2, <1>3, <1>4, <1>5, NoSignals DEF PartsKept, Tick

\* _on_bar
LEMMA BarStep ==
    ASSUME EngineInv, OnBar PROVE PartsKept /\ Signals({})
<1>1. NoTrade /\ dedup' = dedup /\ UNCHANGED <<orders, placed_at>>
  BY DEF OnBar, NoTrade, Upkeep, vars
<1>2. TickOK' /\ Priced'
  BY BarTick
<1>3. ClockOK' /\ now <= now'
  BY DEF OnBar, clockVars, EngineInv, ClockOK
<1>4. ChoiceOK'
  <2>1. since' \in Nat /\ regime' \in Regimes
    BY DEF OnBar, EngineInv, ChoiceOK
  <2>2. selected' \subseteq Symbols
    BY DEF OnBar, RunPairSelection, Selection, EngineInv, ChoiceOK
  <2>3. auto_select' = auto_select /\ disabled' = disabled
    BY DEF OnBar
  <2>. QED BY <2>1, <2>2, <2>3 DEF EngineInv, ChoiceOK
<1>5. StrategyOK'
  BY DEF OnBar, strategyVars, EngineInv, StrategyOK
<1>. QED BY <1>1, <1>2, <1>3, <1>4, <1>5, NoSignals DEF PartsKept

\* What a strategy shown a bar may change of its memory.
LEMMA BreakoutMemory ==
    ASSUME EngineInv, NEW side \in Sides, NEW sid \in Traders,
           BreaksOut(sid, side), range' = range
    PROVE  StrategyOK'
<1>1. fired \subseteq Breakouts \X Sides
  BY DEF EngineInv, StrategyOK
<1>2. fired' \subseteq Breakouts \X Sides
  BY <1>1 DEF BreaksOut
<1>. QED BY <1>2 DEF EngineInv, StrategyOK

\* A strategy's turn without a signal
LEMMA NoSignalStep ==
    ASSUME EngineInv, NoSignal PROVE PartsKept /\ Signals({})
<1>1. /\ NoTrade /\ dedup' = dedup /\ UNCHANGED <<orders, placed_at>> /\ ltp' = ltp
      /\ bucket' = bucket /\ bars' = bars /\ todo # <<>> /\ todo' = Tail(todo)
  BY DEF NoSignal, NoTrade, Upkeep, vars
<1>2. TickOK' /\ Priced'
  BY <1>1, RestOfTick DEF EngineInv
<1>3. ClockOK' /\ now <= now'
  BY DEF NoSignal, clockVars, EngineInv, ClockOK
<1>4. ChoiceOK'
  BY DEF NoSignal, choiceVars, EngineInv, ChoiceOK
<1>5. StrategyOK'
  <2>1. range \in Seq(Symbols) /\ Len(range) <= ORB_BARS /\ Len(range) \in Nat /\ ORB_BARS \in Nat
    BY EngineAssumption, LenProperties DEF EngineInv, StrategyOK
  <2>2. Head(todo)[2] \in Symbols
    BY <1>1, Turn
  <2>3. range' = range \/ (Len(range) < ORB_BARS /\ range' = Append(range, Head(todo)[2]))
    BY <2>1 DEF NoSignal, Remembers, RangeKnown
  <2>4. range' \in Seq(Symbols) /\ Len(range') <= ORB_BARS
    BY <2>1, <2>2, <2>3, AppendProperties
  <2>5. fired' = fired
    BY DEF NoSignal
  <2>. QED BY <2>4, <2>5 DEF EngineInv, StrategyOK
<1>. QED BY <1>1, <1>2, <1>3, <1>4, <1>5, NoSignals DEF PartsKept

\* _on_signal within the window
LEMMA RepeatedStep ==
    ASSUME EngineInv, NEW side \in Sides, Repeated(side) PROVE PartsKept /\ Signals({})
<1>1. /\ NoTrade /\ dedup' = dedup /\ UNCHANGED <<orders, placed_at>> /\ ltp' = ltp
      /\ bucket' = bucket /\ bars' = bars /\ todo # <<>> /\ todo' = Tail(todo)
  BY DEF Repeated, NoTrade, Upkeep, vars
<1>2. TickOK' /\ Priced'
  BY <1>1, RestOfTick DEF EngineInv
<1>3. ClockOK' /\ now <= now'
  BY DEF Repeated, clockVars, EngineInv, ClockOK
<1>4. ChoiceOK'
  BY DEF Repeated, choiceVars, EngineInv, ChoiceOK
<1>5. StrategyOK'
  <2>1. BreaksOut(Head(todo)[1], side) /\ range' = range
    BY DEF Repeated
  <2>. QED BY <1>1, <2>1, Turn, BreakoutMemory
<1>. QED BY <1>1, <1>2, <1>3, <1>4, <1>5, NoSignals DEF PartsKept

\* A signal that is let through either carries no order, or one at the market for the
\* quantity that the risk manager approved.
LEMMA SignalPlaces ==
    ASSUME EngineInv, NEW side \in Sides, OnSignal(side)
    PROVE  LET sid == Head(todo)[1]
               s == Head(todo)[2]
           IN  \/ UNCHANGED vars \/ TripOnPlace
               \/ \E q \in Nat \ {0}, n \in Nat \ {0} :
                     /\ q = Size(s, ltp[s]) /\ n = Approved(sid, s, side, q, ltp[s])
                     /\ MarketOrder(sid, s, side, n) \in Request
                     /\ FillMarketOrder(MarketOrder(sid, s, side, n))
<1>. DEFINE sid == Head(todo)[1]
            s == Head(todo)[2]
            q == Size(s, ltp[s])
            n == IF q = 0 THEN 0 ELSE Approved(sid, s, side, q, ltp[s])
            r == MarketOrder(sid, s, side, n)
<1>1. /\ todo # <<>>
      /\ IF n > 0 THEN Place(r) ELSE UNCHANGED vars
  BY DEF OnSignal
<1>2. sid \in Traders /\ s \in Symbols /\ ltp[s] \in Nat \ {NoPrice} /\ BookInv
  BY <1>1, Turn DEF EngineInv
<1>. HIDE DEF sid, s
<1>3. q \in Nat
  BY <1>2, SizeType
<1>. HIDE DEF q
<1>4. CASE ~(n > 0)
  BY <1>1, <1>4
<1>5. CASE n > 0
  <2>1. q # 0
    <3>1. CASE q = 0
      BY <1>5, <3>1
    <3>. QED BY <3>1
  <2>2. q \in Nat \ {0} /\ n = Approved(sid, s, side, q, ltp[s])
    BY <1>3, <2>1
  <2>3. n \in Int
    BY <1>2, <2>2, ApprovedBound
  <2>. HIDE DEF n
  <2>4. n \in Nat \ {0}
    BY <1>5, <2>3
  <2>5. r \in Request
    BY <1>2, <2>4 DEF MarketOrder, Request, Traders, OrderTypes, NoPrice
  <2>6. FillMarketOrder(r) \/ TripOnPlace \/ UNCHANGED vars
    BY <1>1, <1>5 DEF Place
  <2>7. CASE TripOnPlace \/ UNCHANGED vars
    BY <2>7
  <2>8. CASE FillMarketOrder(r)
    BY <2>2, <2>4, <2>5, <2>8 DEF sid, s, q
  <2>. QED BY <2>6, <2>7, <2>8
<1>. QED BY <1>4, <1>5

\* _on_signal outside the window
LEMMA SignalStep ==
    ASSUME EngineInv, NEW side \in Sides, OnSignal(side)
    PROVE  PartsKept /\ Signals({<<Head(todo)[1], Head(todo)[2], side>>})
<1>. DEFINE sid == Head(todo)[1]
            s == Head(todo)[2]
            key == <<sid, s, side>>
<1>1. /\ Stamp /\ bucket' = bucket /\ bars' = bars /\ todo # <<>> /\ todo' = Tail(todo)
      /\ BreaksOut(sid, side) /\ range' = range /\ Fresh(sid, s, side)
      /\ dedup' = [dedup EXCEPT ![<<sid, s, side>>] = now]
  BY DEF OnSignal
<1>2. sid \in Traders /\ s \in Symbols
  BY <1>1, Turn
<1>3. /\ BookInv /\ NothingRests /\ dedup \in [Keys -> {Never} \cup (0 .. MaxNow)]
      /\ key \in Keys
  BY <1>2 DEF EngineInv, RecordOK, Keys
<1>4. \/ UNCHANGED vars \/ TripOnPlace
      \/ \E n \in Nat : /\ MarketOrder(sid, s, side, n) \in Request
                        /\ FillMarketOrder(MarketOrder(sid, s, side, n))
  BY SignalPlaces
<1>5. Moves
  BY <1>4 DEF Moves, Upkeep
<1>6. TickOK' /\ Priced'
  <2>1. \A x \in Symbols : ltp[x] # NoPrice => ltp'[x] # NoPrice
    BY <1>3, <1>5, MovesAppend
  <2>. QED BY <1>1, <2>1, RestOfTick DEF EngineInv
<1>7. ClockOK' /\ now <= now'
  BY DEF OnSignal, clockVars, EngineInv, ClockOK
<1>8. ChoiceOK'
  BY DEF OnSignal, choiceVars, EngineInv, ChoiceOK
<1>9. StrategyOK'
  BY <1>1, <1>2, BreakoutMemory
<1>10. PartsKept
  BY <1>1, <1>5, <1>6, <1>7, <1>8, <1>9 DEF PartsKept
<1>11. /\ \A i \in DOMAIN orders' \ DOMAIN orders :
             orders'[i].strategy_id \in Traders => Key(orders'[i]) = key
       /\ Len(orders') <= Len(orders) + 1
  <2>1. CASE UNCHANGED vars \/ TripOnPlace
    <3>1. orders' = orders /\ Len(orders) \in Nat
      BY <1>3, <2>1, InvFacts DEF vars, TripOnPlace, bookVars
    <3>. QED BY <3>1
  <2>2. ASSUME NEW n \in Nat, MarketOrder(sid, s, side, n) \in Request,
               FillMarketOrder(MarketOrder(sid, s, side, n))
        PROVE  /\ \A i \in DOMAIN orders' \ DOMAIN orders : Key(orders'[i]) = key
               /\ Len(orders') <= Len(orders) + 1
    <3>. DEFINE r == MarketOrder(sid, s, side, n)
    <3>1. r.strategy_id = sid /\ r.symbol = s /\ r.side = side
      BY DEF MarketOrder
    <3>. HIDE DEF r, sid, s
    <3>2. /\ Grows /\ Len(orders') = Len(orders) + 1
          /\ LET o == orders'[Len(orders) + 1]
             IN  o.strategy_id = r.strategy_id /\ o.symbol = r.symbol /\ o.side = r.side
      BY <1>3, <2>2, FillAppends DEF r
    <3>3. DOMAIN orders' \ DOMAIN orders = {Len(orders) + 1}
      BY <3>2 DEF Grows
    <3>4. Len(orders') <= Len(orders) + 1
      BY <3>2 DEF Grows
    <3>. QED BY <3>1, <3>2, <3>3, <3>4 DEF Key
  <2>. QED BY <1>4, <2>1, <2>2
<1>12. dedup[key] = Never \/ now - dedup[key] >= DEDUP_WINDOW
  BY <1>1, Zenon DEF Fresh
<1>13. dedup' = [k \in Keys |-> IF k \in {key} THEN now ELSE dedup[k]]
  <2>. HIDE DEF key
  <2>1. dedup' = [dedup EXCEPT ![key] = now]
    BY <1>1 DEF key
  <2>. QED BY <1>3, <2>1
<1>14. Signals({key})
  <2>. HIDE DEF key
  <2>. QED BY <1>3, <1>11, <1>12, <1>13 DEF Signals
<1>. QED BY <1>10, <1>14

\* Between two ticks: the clock, the square-off callback and the operator's requests.
LEMMA IdleStep ==
    ASSUME EngineInv, Idling, dedup' = dedup, NoTrade, Stamp \/ UNCHANGED <<orders, placed_at>>,
           now' \in 0 .. MaxNow, now <= now', ticks' = ticks, posts' \in 0 .. MaxPosts,
           ChoiceOK'
    PROVE  PartsKept /\ Signals({})
<1>1. Moves /\ Signals({})
  BY NoSignals
<1>2. \A s \in Symbols : ltp[s] # NoPrice => ltp'[s] # NoPrice
  BY <1>1, MovesAppend DEF EngineInv
<1>3. bucket' = bucket /\ bars' = bars /\ todo' = todo
  BY DEF Idling, tickVars
<1>4. TickOK' /\ Priced'
  BY <1>2, <1>3, RestOfTick DEF EngineInv
<1>5. ClockOK'
  BY DEF Idling, EngineInv, ClockOK
<1>6. StrategyOK'
  BY DEF Idling, strategyVars, EngineInv, StrategyOK
<1>. QED BY <1>1, <1>4, <1>5, <1>6 DEF PartsKept

\* A request of the operator is within its bound.
LEMMA PostedStep ==
    ASSUME EngineInv, NEW k \in Nat, Posted(k), NoTrade, Stamp \/ UNCHANGED <<orders, placed_at>>,
           ChoiceOK'
    PROVE  PartsKept /\ Signals({})
<1>1. /\ now \in 0 .. MaxNow /\ posts \in 0 .. MaxPosts /\ MaxNow \in Nat /\ MaxPosts \in Nat
  BY EngineAssumption DEF EngineInv, ClockOK
<1>2. /\ Idling /\ posts + k <= MaxPosts /\ posts' = posts + k
      /\ now' = now /\ ticks' = ticks /\ dedup' = dedup
  BY DEF Posted
<1>3. now' \in 0 .. MaxNow /\ now <= now' /\ posts' \in 0 .. MaxPosts
  BY <1>1, <1>2
<1>. QED BY <1>2, <1>3, IdleStep

\* /api/position/close of one symbol.
LEMMA ClosePositionStep ==
    ASSUME EngineInv, NEW s \in Symbols, ClosePosition(s) PROVE NoTrade
<1>. DEFINE side == IF positions[s].qty > 0 THEN "SELL" ELSE "BUY"
            n == Abs(positions[s].qty)
            r == MarketOrder("MANUAL_CLOSE", s, side, n)
<1>1. Place(r)
  BY DEF ClosePosition
<1>2. n \in Nat
  <2>1. positions[s].qty \in Int
    BY DEF EngineInv, BookInv, TypeOK, MoneyTypeOK, Position
  <2>. QED BY <2>1 DEF Abs
<1>3. side \in Sides
  BY DEF Sides
<1>. HIDE DEF side, n
<1>4. r \in Request /\ r.strategy_id = "MANUAL_CLOSE"
  BY <1>2, <1>3, EngineAssumption DEF MarketOrder, Request, OrderTypes, NoPrice
<1>5. "MANUAL_CLOSE" \notin Traders
  BY DEF Traders
<1>. HIDE DEF r
<1>. QED BY <1>1, <1>4, <1>5 DEF Place, NoTrade, Upkeep

\* Every step of the engine keeps those parts and lets through the signals of some keys.
LEMMA EngineStep ==
    ASSUME EngineInv, [EngineNext]_allVars PROVE \E K : PartsKept /\ Signals(K)
<1>1. /\ ChoiceOK /\ 1 \in Nat /\ 2 \in Nat
      /\ now \in 0 .. MaxNow /\ posts \in 0 .. MaxPosts /\ MaxNow \in Nat
  BY EngineAssumption DEF EngineInv, ClockOK
<1>2. UNCHANGED choiceVars => ChoiceOK'
  BY <1>1 DEF choiceVars, ChoiceOK
<1>3. CASE UNCHANGED allVars
  <2>1. NoTrade /\ UNCHANGED <<orders, placed_at>> /\ dedup' = dedup /\ ltp' = ltp
    BY <1>3 DEF allVars, engineVars, vars, NoTrade, Upkeep
  <2>2. TickOK' /\ Priced' /\ ClockOK' /\ now <= now' /\ StrategyOK' /\ ChoiceOK'
    BY <1>1, <1>3, <2>1 DEF allVars, engineVars, tickVars, clockVars, strategyVars, choiceVars,
       EngineInv, TickOK, Priced, ClockOK, StrategyOK, ChoiceOK
  <2>. QED BY <2>1, <2>2, NoSignals DEF PartsKept
<1>4. ASSUME NEW t \in Ticks, Tick(t[1], t[2]) PROVE PartsKept /\ Signals({})
  BY <1>4, TickStep
<1>5. CASE OnBar \/ NoSignal
  BY <1>5, BarStep, NoSignalStep
<1>6. ASSUME NEW side \in Sides, Repeated(side) \/ OnSignal(side)
      PROVE  \E K : PartsKept /\ Signals(K)
  BY <1>6, RepeatedStep, SignalStep
<1>7. CASE TimePasses
  <2>1. /\ Idling /\ dedup' = dedup /\ NoTrade /\ UNCHANGED <<orders, placed_at>>
        /\ now' = now + 1 /\ now < MaxNow /\ ticks' = ticks /\ posts' = posts
        /\ UNCHANGED choiceVars
    BY <1>7 DEF TimePasses, NoTrade, Upkeep, vars
  <2>2. now' \in 0 .. MaxNow /\ now <= now'
    BY <1>1, <2>1
  <2>. QED BY <1>1, <1>2, <2>1, <2>2, IdleStep
<1>8. CASE SquareOff
  <2>1. /\ Idling /\ dedup' = dedup /\ NoTrade /\ Stamp
        /\ now' = now /\ ticks' = ticks /\ posts' = posts
        /\ UNCHANGED choiceVars
    BY <1>8 DEF SquareOff, NoTrade, Upkeep, clockVars
  <2>2. now' \in 0 .. MaxNow /\ now <= now'
    BY <1>1, <2>1
  <2>. QED BY <1>1, <1>2, <2>1, <2>2, IdleStep
<1>9. CASE Intelligence
  <2>1. Posted(1) /\ NoTrade /\ UNCHANGED <<orders, placed_at>>
    BY <1>9 DEF Intelligence, NoTrade, Upkeep, vars
  <2>2. ChoiceOK'
    BY <1>1, <1>9 DEF Intelligence, RunPairSelection, Selection, ChoiceOK
  <2>. QED BY <1>1, <2>1, <2>2, PostedStep
<1>10. ASSUME NEW sid \in Traders, ToggleStrategy(sid) PROVE PartsKept /\ Signals({})
  <2>1. Posted(2) /\ NoTrade /\ UNCHANGED <<orders, placed_at>>
    BY <1>10 DEF ToggleStrategy, NoTrade, Upkeep, vars
  <2>2. ChoiceOK'
    BY <1>1, <1>10 DEF ToggleStrategy, ChoiceOK
  <2>. QED BY <1>1, <2>1, <2>2, PostedStep
<1>11. ASSUME NEW enabled \in BOOLEAN, ToggleAuto(enabled) PROVE PartsKept /\ Signals({})
  <2>1. Posted(2) /\ NoTrade /\ UNCHANGED <<orders, placed_at>>
    BY <1>11 DEF ToggleAuto, NoTrade, Upkeep, vars
  <2>2. ChoiceOK'
    <3>1. /\ regime' \in Regimes /\ since' \in Nat /\ disabled' \subseteq Traders
          /\ selected' \subseteq Symbols
      BY <1>1, <1>11 DEF ToggleAuto, ChoiceOK
    <3>2. auto_select' \in BOOLEAN
      BY <1>11, Zenon DEF ToggleAuto
    <3>. QED BY <3>1, <3>2 DEF ChoiceOK
  <2>. QED BY <1>1, <2>1, <2>2, PostedStep
<1>12. ASSUME NEW S \in SUBSET Symbols, Override(S) PROVE PartsKept /\ Signals({})
  <2>1. Posted(2) /\ NoTrade /\ UNCHANGED <<orders, placed_at>>
    BY <1>12 DEF Override, NoTrade, Upkeep, vars
  <2>2. ChoiceOK'
    BY <1>1, <1>12 DEF Override, ChoiceOK
  <2>. QED BY <1>1, <2>1, <2>2, PostedStep
<1>13. CASE CloseAll
  <2>1. Posted(1) /\ NoTrade /\ Stamp /\ UNCHANGED choiceVars
    BY <1>13 DEF CloseAll, NoTrade, Upkeep
  <2>. QED BY <1>1, <1>2, <2>1, PostedStep
<1>14. CASE ResetKill
  <2>1. /\ Posted(1) /\ NoTrade /\ UNCHANGED <<orders, placed_at>> /\ UNCHANGED choiceVars
    BY <1>14 DEF ResetKill, ResetKillSwitch, bookVars, NoTrade, Upkeep
  <2>. QED BY <1>1, <1>2, <2>1, PostedStep
<1>15. ASSUME NEW s \in Symbols, ClosePosition(s) PROVE PartsKept /\ Signals({})
  <2>1. Posted(1) /\ NoTrade /\ Stamp /\ UNCHANGED choiceVars
    BY <1>15, ClosePositionStep DEF ClosePosition
  <2>. QED BY <1>1, <1>2, <2>1, PostedStep
<1>16. ASSUME NEW a \in KillAmounts, PostKillAmount(a) PROVE PartsKept /\ Signals({})
  <2>1. /\ Posted(1) /\ NoTrade /\ UNCHANGED <<orders, placed_at>> /\ UNCHANGED choiceVars
    BY <1>16 DEF PostKillAmount, SetKillAmount, bookVars, NoTrade, Upkeep
  <2>. QED BY <1>1, <1>2, <2>1, PostedStep
<1>. QED BY <1>3, <1>4, <1>5, <1>6, <1>7, <1>8, <1>9, <1>10, <1>11, <1>12, <1>13, <1>14,
            <1>15, <1>16 DEF EngineNext

-----------------------------------------------------------------------------
(* The records                                                               *)

\* The orders that a step appends are stamped with the time.
LEMMA Stamped ==
    ASSUME EngineInv, Grows, Stamp \/ UNCHANGED <<orders, placed_at>>
    PROVE  /\ placed_at' \in Seq(0 .. MaxNow) /\ Len(placed_at') = Len(orders')
           /\ \A i \in 1 .. Len(orders) : placed_at'[i] = placed_at[i]
           /\ \A i \in (1 .. Len(orders')) \ (1 .. Len(orders)) : placed_at'[i] = now
<1>1. /\ placed_at \in Seq(0 .. MaxNow) /\ Len(placed_at) = Len(orders) /\ now \in 0 .. MaxNow
      /\ Len(orders) \in Nat /\ Len(orders') \in Nat /\ Len(orders) <= Len(orders')
  BY DEF EngineInv, RecordOK, ClockOK, Grows
<1>2. CASE UNCHANGED <<orders, placed_at>>
  BY <1>1, <1>2
<1>3. CASE Stamp
  <2>. DEFINE m == Len(orders') - Len(orders)
              more == [k \in 1 .. m |-> now]
  <2>1. m \in Nat
    BY <1>1
  <2>2. placed_at' = placed_at \o more
    BY <1>3 DEF Stamp
  <2>. HIDE DEF m
  <2>3. more \in Seq(0 .. MaxNow) /\ Len(more) = m
    <3>1. more \in [1 .. m -> 0 .. MaxNow]
      BY <1>1
    <3>2. more \in Seq(0 .. MaxNow)
      BY <2>1, <3>1, SeqDef
    <3>3. Len(more) \in Nat /\ 1 .. Len(more) = 1 .. m
      BY <3>1, <3>2, LenProperties
    <3>. QED BY <2>1, <3>2, <3>3, IntervalEnd
  <2>4. \A k \in 1 .. m : more[k] = now
    OBVIOUS
  <2>. HIDE DEF more
  <2>5. /\ placed_at' \in Seq(0 .. MaxNow) /\ Len(placed_at') = Len(placed_at) + m
        /\ \A i \in 1 .. Len(placed_at) + m :
              placed_at'[i] = IF i <= Len(placed_at) THEN placed_at[i]
                                                     ELSE more[i - Len(placed_at)]
    <3>. DEFINE S == 0 .. MaxNow
                c == placed_at \o more
    <3>. HIDE DEF S
    <3>1. placed_at \in Seq(S) /\ more \in Seq(S)
      BY <1>1, <2>3 DEF S
    <3>2. /\ c \in Seq(S) /\ Len(c) = Len(placed_at) + Len(more)
          /\ \A i \in 1 .. Len(placed_at) + Len(more) :
                c[i] = IF i <= Len(placed_at) THEN placed_at[i] ELSE more[i - Len(placed_at)]
      BY <3>1, ConcatProperties
    <3>. HIDE DEF c
    <3>. QED BY <2>2, <2>3, <3>2 DEF S, c
  <2>6. Len(placed_at) + m = Len(orders')
    BY <1>1 DEF m
  <2>7. \A i \in 1 .. Len(orders) : placed_at'[i] = placed_at[i]
    BY <1>1, <2>5, <2>6
  <2>8. ASSUME NEW i \in (1 .. Len(orders')) \ (1 .. Len(orders)) PROVE placed_at'[i] = now
    <3>. DEFINE n == Len(placed_at)
    <3>1. n \in Nat /\ n = Len(orders) /\ i \in 1 .. n + m /\ i \notin 1 .. n
      BY <1>1, <2>6
    <3>. HIDE DEF n
    <3>2. ~(i <= n) /\ i - n \in 1 .. m
      BY <2>1, <3>1
    <3>3. placed_at'[i] = IF i <= n THEN placed_at[i] ELSE more[i - n]
      BY <2>5, <3>1 DEF n
    <3>. QED BY <2>4, <3>2, <3>3
  <2>. QED BY <2>5, <2>6, <2>7, <2>8
<1>. QED BY <1>2, <1>3

\* With the signals let through, the records keep what they say of the orders, and two
\* orders of the same key stay a window apart: the later one could only be placed when the
\* last signal, which came no earlier than the older order, was a window ago.
LEMMA RecordStep ==
    ASSUME EngineInv, PartsKept, NEW K, Signals(K)
    PROVE  RecordOK' /\ Recorded' /\ OrdersSpaced'
<1>1. /\ BookInv /\ NothingRests /\ now \in 0 .. MaxNow /\ DEDUP_WINDOW \in Nat /\ MaxNow \in Nat
      /\ dedup \in [Keys -> {Never} \cup (0 .. MaxNow)]
      /\ now' \in 0 .. MaxNow /\ now <= now'
  BY EngineAssumption DEF EngineInv, ClockOK, RecordOK, PartsKept
<1>2. /\ Grows /\ BookInv'
  BY <1>1, MovesAppend, MovesKeepBooks DEF PartsKept, EngineInv
<1>3. /\ placed_at' \in Seq(0 .. MaxNow) /\ Len(placed_at') = Len(orders')
      /\ \A i \in 1 .. Len(orders) : placed_at'[i] = placed_at[i]
      /\ \A i \in (1 .. Len(orders')) \ (1 .. Len(orders)) : placed_at'[i] = now
  BY <1>2, Stamped DEF PartsKept
<1>4. /\ DOMAIN orders = 1 .. Len(orders) /\ DOMAIN orders' = 1 .. Len(orders')
      /\ Len(orders) \in Nat /\ Len(orders') \in Nat /\ Len(orders) <= Len(orders')
      /\ \A i \in 1 .. Len(orders) : orders'[i] = orders[i]
      /\ orders \in Seq(Order)
  BY <1>2 DEF Grows
<1>5. /\ \A key \in K : key \in Keys /\ (dedup[key] = Never \/ now - dedup[key] >= DEDUP_WINDOW)
      /\ \A key \in Keys : dedup'[key] = IF key \in K THEN now ELSE dedup[key]
      /\ \A i \in 1 .. Len(orders') : i \notin 1 .. Len(orders) =>
            (orders'[i].strategy_id \in Traders => Key(orders'[i]) \in K)
      /\ K # {} => Len(orders') <= Len(orders) + 1
  BY <1>4 DEF Signals
<1>6. dedup' \in [Keys -> {Never} \cup (0 .. MaxNow)]
  BY <1>1 DEF Signals
<1>7. RecordOK'
  BY <1>3, <1>6 DEF RecordOK
<1>8. \A key \in Keys : /\ dedup[key] \in Int /\ dedup[key] <= now
                        /\ dedup'[key] \in Int /\ dedup'[key] <= now'
  <2>1. \A key \in Keys : dedup[key] <= now
    BY DEF EngineInv, Recorded
  <2>2. \A key \in Keys : dedup[key] \in Int
    BY <1>1 DEF Never
  <2>. QED BY <1>1, <1>5, <2>1, <2>2
<1>9. ASSUME NEW i \in 1 .. Len(orders), orders[i].strategy_id \in Traders
      PROVE  /\ Key(orders[i]) \in Keys /\ dedup[Key(orders[i])] # Never
             /\ placed_at[i] \in Nat /\ placed_at[i] <= dedup[Key(orders[i])]
  <2>1. orders[i] \in Order
    BY <1>4, ElementOfSeq
  <2>2. Key(orders[i]) \in Keys
    BY <1>9, <2>1 DEF Key, Keys, Order
  <2>3. placed_at[i] \in 0 .. MaxNow
    BY <1>1, ElementOfSeq DEF EngineInv, RecordOK
  <2>. QED BY <1>4, <1>9, <2>2, <2>3 DEF EngineInv, Recorded
<1>10. ASSUME NEW i \in 1 .. Len(orders'), orders'[i].strategy_id \in Traders
       PROVE  dedup'[Key(orders'[i])] # Never /\ placed_at'[i] <= dedup'[Key(orders'[i])]
  <2>1. CASE i \in 1 .. Len(orders)
    <3>. DEFINE key == Key(orders[i])
    <3>1. orders'[i] = orders[i] /\ placed_at'[i] = placed_at[i]
      BY <1>3, <1>4, <2>1
    <3>2. /\ key \in Keys /\ dedup[key] # Never
          /\ placed_at[i] \in Nat /\ placed_at[i] <= dedup[key]
      BY <1>9, <1>10, <2>1, <3>1
    <3>. HIDE DEF key
    <3>3. dedup'[key] # Never /\ placed_at[i] <= dedup'[key]
      BY <1>1, <1>5, <1>8, <3>2 DEF Never
    <3>. QED BY <3>1, <3>3 DEF key
  <2>2. CASE i \notin 1 .. Len(orders)
    <3>1. Key(orders'[i]) \in K /\ placed_at'[i] = now
      BY <1>3, <1>5, <1>10, <2>2
    <3>2. dedup'[Key(orders'[i])] = now
      BY <1>5, <3>1
    <3>. QED BY <1>1, <3>1, <3>2 DEF Never
  <2>. QED BY <2>1, <2>2
<1>11. Recorded'
  BY <1>4, <1>8, <1>10 DEF Recorded
<1>12. ASSUME NEW i \in 1 .. Len(orders'), NEW j \in 1 .. Len(orders'), i < j,
              orders'[i].strategy_id \in Traders, Key(orders'[i]) = Key(orders'[j])
       PROVE  placed_at'[j] - placed_at'[i] >= DEDUP_WINDOW
  <2>1. orders'[j].strategy_id \in Traders
    BY <1>12 DEF Key
  <2>2. CASE j \in 1 .. Len(orders)
    <3>1. i \in 1 .. Len(orders)
      BY <1>4, <1>12, <2>2
    <3>2. /\ orders'[i] = orders[i] /\ placed_at'[i] = placed_at[i]
          /\ orders'[j] = orders[j] /\ placed_at'[j] = placed_at[j]
      BY <1>3, <1>4, <2>2, <3>1
    <3>3. OrdersSpaced /\ i \in DOMAIN orders /\ j \in DOMAIN orders
      BY <1>4, <2>2, <3>1 DEF EngineInv
    <3>4. placed_at[j] - placed_at[i] >= DEDUP_WINDOW
      BY <1>12, <3>2, <3>3 DEF OrdersSpaced, Key
    <3>. QED BY <3>2, <3>4
  <2>3. CASE j \notin 1 .. Len(orders)
    <3>1. Key(orders'[j]) \in K /\ placed_at'[j] = now
      BY <1>3, <1>5, <2>1, <2>3
    <3>2. Len(orders') <= Len(orders) + 1
      BY <1>5, <3>1
    <3>3. i \in 1 .. Len(orders)
      BY <1>4, <1>12, <2>3, <3>2
    <3>. DEFINE key == Key(orders[i])
    <3>4. orders'[i] = orders[i] /\ placed_at'[i] = placed_at[i] /\ key \in K
      BY <1>3, <1>4, <1>12, <3>1, <3>3
    <3>5. /\ key \in Keys /\ dedup[key] # Never
          /\ placed_at[i] \in Nat /\ placed_at[i] <= dedup[key]
      BY <1>9, <1>12, <3>3, <3>4
    <3>. HIDE DEF key
    <3>6. now - dedup[key] >= DEDUP_WINDOW
      BY <1>5, <3>4, <3>5
    <3>. QED BY <1>1, <1>8, <3>1, <3>4, <3>5, <3>6
  <2>. QED BY <2>2, <2>3
<1>13. OrdersSpaced'
  BY <1>4, <1>12 DEF OrdersSpaced, Key
<1>. QED BY <1>7, <1>11, <1>13

\* Every step of the engine keeps the invariant.
LEMMA EngineInvStep ==
    ASSUME EngineInv, [EngineNext]_allVars PROVE EngineInv'
<1>1. PICK K : PartsKept /\ Signals(K)
  BY EngineStep
<1>2. BookInv' /\ BooksInv' /\ NothingRests'
  BY <1>1, MovesKeepBooks, MovesAppend DEF PartsKept, EngineInv
<1>3. RecordOK' /\ Recorded' /\ OrdersSpaced'
  BY <1>1, RecordStep
<1>. QED BY <1>1, <1>2, <1>3 DEF PartsKept, EngineInv

\* The morning: nothing is open, known or recorded.
LEMMA EngineInitInv == ASSUME EngineInit PROVE EngineInv
<1>1. BookInv /\ BooksInv
  BY InitInv, InitBooks DEF EngineInit
<1>2. NothingRests /\ orders = <<>> /\ killAmount \in KillAmounts
  BY DEF EngineInit, Init, NothingRests
<1>3. /\ MaxNow \in Nat /\ MaxTicks \in Nat /\ MaxPosts \in Nat /\ ORB_BARS \in Nat
      /\ "UNKNOWN" \in Regimes
  BY EngineAssumption
<1>4. ClockOK
  BY <1>2, <1>3 DEF EngineInit, ClockOK
<1>5. TickOK /\ Priced
  BY DEF EngineInit, TickOK, Priced
<1>6. ChoiceOK
  <2>1. regime \in Regimes /\ since \in Nat /\ disabled \subseteq Traders /\ selected \subseteq Symbols
    BY <1>3 DEF EngineInit
  <2>2. auto_select \in BOOLEAN
    BY Zenon DEF EngineInit
  <2>. QED BY <2>1, <2>2 DEF ChoiceOK
<1>7. StrategyOK
  <2>1. range \in Seq(Symbols) /\ Len(range) = 0 /\ fired = {}
    BY DEF EngineInit
  <2>. QED BY <1>3, <2>1 DEF StrategyOK
<1>8. RecordOK /\ Recorded
  <2>1. placed_at \in Seq(0 .. MaxNow) /\ Len(placed_at) = 0 /\ Len(orders) = 0
    BY <1>2 DEF EngineInit
  <2>2. dedup = [key \in Keys |-> Never] /\ now = 0
    BY DEF EngineInit
  <2>3. DOMAIN orders = {}
    BY <1>2
  <2>. QED BY <2>1, <2>2, <2>3 DEF RecordOK, Recorded, Never
<1>9. OrdersSpaced
  BY <1>2 DEF OrdersSpaced
<1>. QED BY <1>1, <1>2, <1>4, <1>5, <1>6, <1>7, <1>8, <1>9 DEF EngineInv

-----------------------------------------------------------------------------
(* The theorems                                                              *)

\* The inductive invariant of the engine holds in every reachable state.
THEOREM EngineInvariant == EngineSpec => []EngineInv
<1>1. EngineInit => EngineInv
  BY EngineInitInv
<1>2. EngineInv /\ [EngineNext]_allVars => EngineInv'
  BY EngineInvStep
<1>. QED BY <1>1, <1>2, PTL DEF EngineSpec

\* Every variable of the engine keeps values of its type; among them, the order of a signal is
\* stamped, ORBBreakout holds no more bars than its range has, and each breakout fires per side.
THEOREM EngineTypes == EngineSpec => []EngineTypeOK
<1>1. EngineInv => EngineTypeOK
  BY DEF EngineInv, BookInv, ClockOK, TickOK, ChoiceOK, StrategyOK, RecordOK, EngineTypeOK
<1>. QED BY <1>1, EngineInvariant, PTL

\* _on_signal: whatever ticks, bars, timeframes and requests come between, two orders of the
\* same strategy, symbol and side are at least the window of SIGNAL_DEDUP_SECONDS apart.
THEOREM WindowIsKept == EngineSpec => []OrdersSpaced
<1>1. EngineInv => OrdersSpaced
  BY DEF EngineInv
<1>. QED BY <1>1, EngineInvariant, PTL

\* Every step calls the broker for upkeep, or is a signal or a manual close.
LEMMA WhoTrades ==
    ASSUME [EngineNext]_allVars
    PROVE  \/ Upkeep
           \/ \E side \in Sides : OnSignal(side)
           \/ \E s \in Symbols : ClosePosition(s)
<1>1. CASE UNCHANGED allVars
  BY <1>1 DEF allVars, Upkeep
<1>2. ASSUME NEW t \in Ticks, Tick(t[1], t[2]) PROVE Upkeep
  BY <1>2 DEF Tick, Upkeep
<1>3. CASE OnBar \/ NoSignal \/ TimePasses \/ Intelligence
  BY <1>3 DEF OnBar, NoSignal, TimePasses, Intelligence, Upkeep
<1>4. ASSUME NEW side \in Sides, Repeated(side) PROVE Upkeep
  BY <1>4 DEF Repeated, Upkeep
<1>5. CASE SquareOff \/ CloseAll \/ ResetKill
  BY <1>5 DEF SquareOff, CloseAll, ResetKill, Upkeep
<1>6. ASSUME NEW sid \in Traders, ToggleStrategy(sid) PROVE Upkeep
  BY <1>6 DEF ToggleStrategy, Upkeep
<1>7. ASSUME NEW enabled \in BOOLEAN, ToggleAuto(enabled) PROVE Upkeep
  BY <1>7 DEF ToggleAuto, Upkeep
<1>8. ASSUME NEW S \in SUBSET Symbols, Override(S) PROVE Upkeep
  BY <1>8 DEF Override, Upkeep
<1>9. ASSUME NEW a \in KillAmounts, PostKillAmount(a) PROVE Upkeep
  BY <1>9 DEF PostKillAmount, Upkeep
<1>. QED BY <1>1, <1>2, <1>3, <1>4, <1>5, <1>6, <1>7, <1>8, <1>9 DEF EngineNext

\* Without a position nothing is left to sell, and at such a loss the gate is shut.
LEMMA ShutAfterLoss ==
    ASSUME EngineInv, [EngineNext]_allVars, Flat, DailyPnl <= -gateAmount
    PROVE  orders' = orders
<1>1. /\ BookInv /\ NothingRests /\ OpenSymbols = {}
      /\ DailyPnl \in Int /\ gateAmount \in Int
  BY ValuesTyped, AmountsAssumption DEF EngineInv, ClockOK, Flat, OpenSymbols
<1>2. ASSUME Grows, Len(orders') = Len(orders) PROVE orders' = orders
  BY <1>2, SeqEqual DEF Grows
<1>3. CASE Upkeep
  BY <1>1, <1>2, <1>3, UpkeepAppends
<1>4. ASSUME NEW side \in Sides, OnSignal(side) PROVE orders' = orders
  <2>. DEFINE sid == Head(todo)[1]
              s == Head(todo)[2]
  <2>1. sid \in Traders /\ s \in Symbols /\ ltp[s] \in Nat \ {NoPrice}
    <3>1. todo # <<>>
      BY <1>4 DEF OnSignal
    <3>. QED BY <3>1, Turn
  <2>2. \/ UNCHANGED vars \/ TripOnPlace
        \/ \E q \in Nat \ {0}, n \in Nat \ {0} : n = Approved(sid, s, side, q, ltp[s])
    BY <1>4, SignalPlaces
  <2>. HIDE DEF sid, s
  <2>3. CASE UNCHANGED vars \/ TripOnPlace
    BY <2>3 DEF vars, TripOnPlace, bookVars
  <2>4. ASSUME NEW q \in Nat \ {0}, NEW n \in Nat \ {0}, n = Approved(sid, s, side, q, ltp[s])
        PROVE  FALSE
    <3>1. GateOpen(ltp[s])
      BY <1>1, <2>1, <2>4, ApprovedBound
    <3>. QED BY <1>1, <3>1 DEF GateOpen
  <2>. QED BY <2>2, <2>3, <2>4
<1>5. ASSUME NEW s \in Symbols, ClosePosition(s) PROVE FALSE
  BY <1>5 DEF ClosePosition, Flat
<1>. QED BY <1>3, <1>4, <1>5, WhoTrades

\* The sum of a holding and a trade is no larger than their sizes together.
LEMMA HoldingBound ==
    ASSUME NEW held \in Int, NEW n \in Nat, NEW p \in Nat, NEW limit \in Int,
           100 * (Abs(held) + n) * p <= limit
    PROVE  100 * Abs(held + n) * p <= limit
<1>. DEFINE a == Abs(held + n)
            b == Abs(held) + n
<1>1. a \in Int /\ b \in Int /\ a <= b
  BY DEF Abs
<1>. HIDE DEF a, b
<1>2. a * p <= b * p /\ a * p \in Int /\ b * p \in Int
  BY <1>1
<1>3. 100 * a * p = 100 * (a * p) /\ 100 * b * p = 100 * (b * p)
  BY <1>1
<1>. QED BY <1>2, <1>3 DEF a, b

\* A step of a signal of s that appends order o, for n of the q shares that were sized.
Trade(side, s, q, n, o) ==
    /\ s \in Symbols /\ ltp[s] \in Nat \ {NoPrice} /\ n <= q /\ q = Size(s, ltp[s])
    /\ \E sid \in Traders : n = Approved(sid, s, side, q, ltp[s])
    /\ o.symbol = s /\ o.side = side /\ o.qty = n
    /\ positions'[s].qty = positions[s].qty + Signed(side, n)
    /\ capital' = capital - Signed(side, SlippedPrice(side, ltp[s]) * n)

\* The order of a strategy is placed by a signal, as the risk manager approved it.
LEMMA TradeOfSignal ==
    ASSUME EngineInv, [EngineNext]_allVars, NEW i \in NewTrades
    PROVE  \E side \in Sides, s \in Symbols, q \in Nat \ {0}, n \in Nat \ {0} :
              Trade(side, s, q, n, orders'[i])
<1>1. /\ BookInv /\ NothingRests
      /\ i \in DOMAIN orders' \ DOMAIN orders /\ orders'[i].strategy_id \in Traders
  BY DEF EngineInv, NewTrades
<1>2. KillSwitch \notin Traders
  BY RequestsAssumption DEF Traders
<1>3. ~Upkeep
  BY <1>1, <1>2, UpkeepAppends
<1>4. ASSUME NEW r \in Request, FillMarketOrder(r)
      PROVE  /\ orders'[i].strategy_id = r.strategy_id /\ orders'[i].symbol = r.symbol
             /\ orders'[i].side = r.side /\ orders'[i].qty = r.qty
             /\ positions'[r.symbol].qty = positions[r.symbol].qty + Signed(r.side, r.qty)
             /\ capital' = capital - Signed(r.side, SlippedPrice(r.side, ltp[r.symbol]) * r.qty)
  <2>1. /\ Grows /\ Len(orders') = Len(orders) + 1
        /\ LET o == orders'[Len(orders) + 1]
           IN  /\ o.strategy_id = r.strategy_id /\ o.symbol = r.symbol /\ o.side = r.side
               /\ o.qty = r.qty
        /\ positions'[r.symbol].qty = positions[r.symbol].qty + Signed(r.side, r.qty)
        /\ capital' = capital - Signed(r.side, SlippedPrice(r.side, ltp[r.symbol]) * r.qty)
    BY <1>1, <1>4, FillAppends
  <2>2. i = Len(orders) + 1
    BY <1>1, <2>1 DEF Grows
  <2>. QED BY <2>1, <2>2
<1>5. \A s \in Symbols : ~ClosePosition(s)
  <2>1. ASSUME NEW s \in Symbols, ClosePosition(s) PROVE FALSE
    <3>1. PICK r \in Request : FillMarketOrder(r) /\ r.strategy_id \notin Traders
      BY <1>3, <2>1, ClosePositionStep DEF NoTrade
    <3>. QED BY <1>1, <1>4, <3>1
  <2>. QED BY <2>1
<1>6. PICK side \in Sides : OnSignal(side)
  BY <1>3, <1>5, WhoTrades
<1>. DEFINE sid == Head(todo)[1]
            s == Head(todo)[2]
            p == ltp[s]
<1>7. sid \in Traders /\ s \in Symbols /\ p \in Nat \ {NoPrice}
  <2>1. todo # <<>>
    BY <1>6 DEF OnSignal
  <2>. QED BY <2>1, Turn
<1>8. ~(UNCHANGED vars) /\ ~TripOnPlace
  BY <1>3 DEF Upkeep
<1>9. PICK q \in Nat \ {0}, n \in Nat \ {0} :
        /\ q = Size(s, p) /\ n = Approved(sid, s, side, q, p)
        /\ MarketOrder(sid, s, side, n) \in Request
        /\ FillMarketOrder(MarketOrder(sid, s, side, n))
  BY <1>6, <1>8, SignalPlaces
<1>. HIDE DEF sid, s
<1>10. /\ orders'[i].symbol = s /\ orders'[i].side = side /\ orders'[i].qty = n
       /\ positions'[s].qty = positions[s].qty + Signed(side, n)
       /\ capital' = capital - Signed(side, SlippedPrice(side, p) * n)
  <2>. DEFINE r == MarketOrder(sid, s, side, n)
  <2>1. r.symbol = s /\ r.side = side /\ r.qty = n
    BY DEF MarketOrder
  <2>2. r \in Request /\ FillMarketOrder(r)
    BY <1>9
  <2>. HIDE DEF r
  <2>. QED BY <1>4, <2>1, <2>2
<1>11. n <= q
  BY <1>1, <1>7, <1>9, ApprovedBound
<1>12. Trade(side, s, q, n, orders'[i])
  BY <1>7, <1>9, <1>10, <1>11 DEF Trade
<1>. QED BY <1>7, <1>12

\* The order that a signal places, when it buys, is within the caps.
LEMMA BuyIsCapped ==
    ASSUME EngineInv, [EngineNext]_allVars, NEW i \in NewTrades, orders'[i].side = "BUY"
    PROVE  LET o == orders'[i]
               p == ltp[o.symbol]
           IN  /\ 100 * Abs(positions'[o.symbol].qty) * p <= MAX_SYMBOL_PCT * PortfolioValue
               /\ o.qty = 1 \/ 100 * o.qty * p <= MAX_TRADE_PCT * PortfolioValue
<1>1. BookInv /\ PortfolioValue \in Int /\ \A s \in Symbols : positions[s].qty \in Int
  BY ValuesTyped DEF EngineInv, BookInv, TypeOK, MoneyTypeOK, Position
<1>2. PICK side \in Sides, s \in Symbols, q \in Nat \ {0}, n \in Nat \ {0} :
        Trade(side, s, q, n, orders'[i])
  BY TradeOfSignal
<1>. DEFINE p == ltp[s]
<1>3. /\ orders'[i].symbol = s /\ orders'[i].qty = n /\ side = "BUY"
      /\ p \in Nat \ {NoPrice} /\ positions'[s].qty = positions[s].qty + n
  BY <1>2 DEF Trade, Signed
<1>4. PICK sid \in Traders : n = Approved(sid, s, side, q, p)
  BY <1>2 DEF Trade
<1>5. p = ltp[orders'[i].symbol]
  BY <1>3
<1>. HIDE DEF p
<1>6. /\ 100 * (Abs(positions[s].qty) + n) * p <= MAX_SYMBOL_PCT * PortfolioValue
      /\ n = 1 \/ 100 * n * p <= MAX_TRADE_PCT * PortfolioValue
  <2>1. n > 0 /\ side # "SELL"
    BY <1>3
  <2>. QED BY <1>1, <1>3, <1>4, <2>1, ApprovedBound
<1>7. 100 * Abs(positions[s].qty + n) * p <= MAX_SYMBOL_PCT * PortfolioValue
  <2>. DEFINE held == positions[s].qty
              limit == MAX_SYMBOL_PCT * PortfolioValue
  <2>1. held \in Int /\ p \in Nat /\ limit \in Int
    BY <1>1, <1>3 DEF MAX_SYMBOL_PCT
  <2>2. 100 * (Abs(held) + n) * p <= limit
    BY <1>6
  <2>. HIDE DEF held, limit
  <2>3. 100 * Abs(held + n) * p <= limit
    BY <2>1, <2>2, HoldingBound
  <2>. QED BY <2>3 DEF held, limit
<1>. QED BY <1>3, <1>5, <1>6, <1>7

\* What KellySizer.size proposes costs a fifth of the cash at most.
LEMMA SizeBound ==
    ASSUME BookInv, NEW s \in Symbols, NEW p \in Nat \ {NoPrice}, NEW q \in Nat \ {0},
           q = Size(s, p)
    PROVE  capital \in Nat /\ 5 * (q * p) <= capital
<1>. DEFINE share == Min({KellyPct, MAX_TRADE_FRACTION})
            d == 100 * p * LotSize[s]
            a == capital * share
            lots == a \div d
<1>1. capital \in Int /\ KellyPct \in Nat /\ LotSize[s] \in Nat \ {0}
  BY RiskGateAssumption DEF BookInv, TypeOK, MoneyTypeOK
<1>2. share \in Nat /\ share <= 20
  <2>1. KellyPct \in Int /\ MAX_TRADE_FRACTION \in Int
    BY <1>1 DEF MAX_TRADE_FRACTION
  <2>2. share \in {KellyPct, MAX_TRADE_FRACTION} /\ share <= MAX_TRADE_FRACTION
    BY <2>1, MinOfTwo, Zenon
  <2>. HIDE DEF share
  <2>. QED BY <1>1, <2>2 DEF MAX_TRADE_FRACTION
<1>. HIDE DEF share
<1>3. capital \in Nat /\ q = lots * LotSize[s]
  <2>1. ~(capital <= 0)
    BY DEF Size
  <2>. QED BY <1>1, <2>1 DEF Size, share
<1>4. d \in Nat \ {0} /\ a \in Int
  BY <1>1, <1>2 DEF NoPrice
<1>5. lots \in Int /\ lots * d <= a
  <2>. HIDE DEF a, d
  <2>1. lots \in Int
    BY <1>4
  <2>2. lots <= a \div d
    BY <2>1
  <2>. QED BY <1>4, <2>1, <2>2, Quotient
<1>. HIDE DEF lots
<1>6. 100 * (q * p) = lots * d
  BY <1>1, <1>3, <1>5
<1>7. a <= 20 * capital
  BY <1>2, <1>3
<1>8. q * p \in Nat /\ 20 * capital \in Nat /\ lots * d \in Int
  BY <1>3, <1>4, <1>5
<1>. DEFINE cost == q * p
<1>9. 100 * cost <= 20 * capital
  <2>. HIDE DEF a, d
  <2>. QED BY <1>4, <1>5, <1>6, <1>7, <1>8
<1>. HIDE DEF cost
<1>10. cost \in Nat
  BY <1>8 DEF cost
<1>11. 5 * cost <= capital
  BY <1>3, <1>9, <1>10
<1>. QED BY <1>3, <1>11 DEF cost

\* Slippage at most doubles a price.
LEMMA SlippedBound ==
    ASSUME NEW p \in Nat \ {NoPrice}
    PROVE  SlippedPrice("BUY", p) \in Int /\ SlippedPrice("BUY", p) <= 2 * p
<1>. DEFINE a == p * (10000 + SlippageBps) + 5000
<1>1. SlippedPrice("BUY", p) = a \div 10000
  BY DEF SlippedPrice
<1>2. a \in Int /\ a < 10000 * (2 * p + 1)
  <2>1. p \in Nat /\ p >= 1 /\ SlippageBps \in Nat /\ SlippageBps <= 9999
    BY AmountsAssumption DEF NoPrice
  <2>2. p * SlippageBps \in Int /\ p * SlippageBps <= p * 9999
    BY <2>1
  <2>3. p * (10000 + SlippageBps) = 10000 * p + p * SlippageBps
    BY <2>1
  <2>. QED BY <2>1, <2>2, <2>3
<1>. HIDE DEF a
<1>. QED BY <1>1, <1>2

\* The purchase that a signal makes is paid with two fifths of the cash at most.
LEMMA BuyIsPaid ==
    ASSUME EngineInv, [EngineNext]_allVars, NEW i \in NewTrades, orders'[i].side = "BUY"
    PROVE  0 <= capital' /\ 5 * (capital - capital') <= 2 * capital
<1>1. PICK side \in Sides, s \in Symbols, q \in Nat \ {0}, n \in Nat \ {0} :
        Trade(side, s, q, n, orders'[i])
  BY TradeOfSignal
<1>. DEFINE p == ltp[s]
            price == SlippedPrice("BUY", p)
<1>2. /\ p \in Nat \ {NoPrice} /\ n <= q /\ q = Size(s, p) /\ side = "BUY"
      /\ capital' = capital - price * n
  BY <1>1 DEF Trade, Signed
<1>. HIDE DEF p
<1>3. capital \in Nat /\ 5 * (q * p) <= capital
  BY <1>2, SizeBound DEF EngineInv
<1>4. price \in Int /\ price <= 2 * p
  BY <1>2, SlippedBound
<1>. HIDE DEF price
<1>5. price * n <= 2 * (q * p)
  <2>1. price * n <= (2 * p) * n
    BY <1>2, <1>4
  <2>2. p * n <= p * q
    BY <1>2
  <2>3. (2 * p) * n = 2 * (p * n) /\ p * q = q * p
    BY <1>2
  <2>4. price * n \in Int /\ (2 * p) * n \in Int /\ p * n \in Int /\ p * q \in Int /\ q * p \in Int
    BY <1>2, <1>4
  <2>. QED BY <2>1, <2>2, <2>3, <2>4
<1>. DEFINE cost == price * n
            worth == q * p
<1>6. cost \in Int /\ worth \in Int /\ cost <= 2 * worth /\ 5 * worth <= capital
      /\ capital' = capital - cost
  BY <1>2, <1>3, <1>4, <1>5
<1>. HIDE DEF cost, worth
<1>. QED BY <1>3, <1>6

\* RiskManager.check against its own threshold: once the day is closed out at such a loss, no
\* signal, reset, new threshold or toggle brings another order.
THEOREM DayEndsWithLoss == EngineSpec => LossEndsTheDay
<1>1. EngineInv /\ [EngineNext]_allVars => (Flat /\ DailyPnl <= -gateAmount => orders' = orders)
  BY ShutAfterLoss
<1>. QED BY <1>1, EngineInvariant, PTL DEF EngineSpec, LossEndsTheDay

\* RiskManager.check: the purchase of a strategy leaves the holding of its symbol within 30 %,
\* and the trade within 20 % unless it is one share, of the portfolio as it stood.
THEOREM BuysAreCapped == EngineSpec => BuysStayCapped
<1>1. EngineInv /\ [EngineNext]_allVars =>
        \A i \in NewTrades :
          LET o == orders'[i]
              p == ltp[o.symbol]
          IN  o.side = "BUY" =>
                /\ 100 * Abs(positions'[o.symbol].qty) * p <= MAX_SYMBOL_PCT * PortfolioValue
                /\ o.qty = 1 \/ 100 * o.qty * p <= MAX_TRADE_PCT * PortfolioValue
  BY BuyIsCapped
<1>. QED BY <1>1, EngineInvariant, PTL DEF EngineSpec, BuysStayCapped

\* The broker takes a purchase whatever it costs.  That none of a strategy overdraws the cash
\* follows from KellySizer.size, which RiskManager.check never exceeds, and the bound of slippage.
THEOREM PurchasesArePaid ==
    EngineSpec => [][\A i \in NewTrades : orders'[i].side = "BUY" =>
                        0 <= capital' /\ 5 * (capital - capital') <= 2 * capital]_allVars
<1>1. EngineInv /\ [EngineNext]_allVars =>
        \A i \in NewTrades : orders'[i].side = "BUY" =>
            0 <= capital' /\ 5 * (capital - capital') <= 2 * capital
  BY BuyIsPaid
<1>. QED BY <1>1, EngineInvariant, PTL DEF EngineSpec

\* The broker's own guarantees hold in the whole engine: no order lost, none filled in part or
\* beyond its limit; the orders, positions, cash and fills agree; and value is conserved up to
\* rounding until a strategy or the operator goes short.
THEOREM EngineBooks ==
    EngineSpec => [](RestingMatchesOrders /\ FilledWholeOrNotAtAll /\ FillsRespectLimits
                     /\ BooksReconcile /\ LongBookBalances)
<1>1. EngineInv => (RestingMatchesOrders /\ FilledWholeOrNotAtAll /\ FillsRespectLimits
                    /\ BooksReconcile /\ LongBookBalances)
  BY LimitsFromBooks, SumsFromBooks, BalanceFromBooks DEF EngineInv, BookInv
<1>. QED BY <1>1, EngineInvariant, PTL

\* Whoever calls, place_order stores nothing while the flag is set, and a square-off closes.
LEMMA EngineOrders ==
    ASSUME EngineInv, [EngineNext]_allVars, NEW i \in DOMAIN orders' \ DOMAIN orders
    PROVE  \/ ~killed /\ orders'[i].strategy_id # KillSwitch
           \/ /\ orders'[i].status = "FILLED" /\ orders'[i].strategy_id = KillSwitch
              /\ positions'[orders'[i].symbol].qty = 0
<1>1. BookInv /\ NothingRests
  BY DEF EngineInv
<1>2. Moves
  BY EngineStep DEF PartsKept
<1>3. CASE Upkeep
  BY <1>1, <1>3, UpkeepAppends
<1>4. ASSUME NEW r \in Request, FillMarketOrder(r)
      PROVE  ~killed /\ orders'[i].strategy_id # KillSwitch
  BY <1>1, <1>4, PlacedOrders
<1>. QED BY <1>2, <1>3, <1>4 DEF Moves

\* While the broker's flag is set, no signal and no manual close stores an order.
THEOREM EngineKilledAdmitsNothing == EngineSpec => KilledAcceptsNoOrder
<1>1. EngineInv /\ [EngineNext]_allVars =>
        [killed => \A i \in DOMAIN orders' \ DOMAIN orders :
                      orders'[i].strategy_id = KillSwitch /\ orders'[i].status = "FILLED"]_vars
  BY EngineOrders
<1>. QED BY <1>1, EngineInvariant, PTL DEF EngineSpec, KilledAcceptsNoOrder

\* Every square-off, by the callback or by the operator, leaves flat what it touches.
THEOREM EngineSquareOffCloses == EngineSpec => SquareOffOnlyCloses
<1>1. EngineInv /\ [EngineNext]_allVars =>
        [\A i \in DOMAIN orders' \ DOMAIN orders :
            orders'[i].strategy_id = KillSwitch => positions'[orders'[i].symbol].qty = 0]_vars
  BY EngineOrders
<1>. QED BY <1>1, EngineInvariant, PTL DEF EngineSpec, SquareOffOnlyCloses

\* The engine trades at the market and only what has a price: no order of its is ever left OPEN,
\* for a later tick to fill.
THEOREM NothingWaits == EngineSpec => [](\A i \in DOMAIN orders : orders[i].status # "OPEN")
<1>1. EngineInv => \A i \in DOMAIN orders : orders[i].status # "OPEN"
  <2>. SUFFICES ASSUME EngineInv, NEW i \in DOMAIN orders PROVE orders[i].status # "OPEN"
    OBVIOUS
  <2>1. orders[i].symbol \in Symbols
    <3>1. orders[i] \in Order
      BY LenProperties, ElementOfSeq DEF EngineInv, BookInv, TypeOK, BookTypeOK
    <3>. QED BY <3>1 DEF Order
  <2>. QED BY <2>1 DEF EngineInv, BookInv, RestingMatchesOrders, NothingRests
<1>. QED BY <1>1, EngineInvariant, PTL

\* The orders of the engine live as OrderLedger promises: whatever signals, ticks, routes and
\* callbacks come, each is refused, or executed once and in full, or withdrawn.
THEOREM EngineImplementsLedger == EngineSpec => ImplementsLedger
<1>. DEFINE L == [i \in DOMAIN orders |->
                    [asked |-> orders[i].qty, done |-> orders[i].filled_qty,
                     state |-> LedgerState(orders[i].status)]]
<1>1. EngineInit => Ledger!Init
  BY DEF EngineInit, Init, Ledger!Init
<1>2. EngineInv /\ [EngineNext]_allVars => [Ledger!Next]_L
  BY EngineStep, MovesAreLedgered, LedgerMoves DEF EngineInv, PartsKept
<1>. QED BY <1>1, <1>2, EngineInvariant, PTL DEF EngineSpec, ImplementsLedger, Ledger!Spec

\* A signal, a manual close or a square-off moves no price, so a price that changed was
\* followed by the test of the loss: no tick of the engine ends with a breach unnoticed.
THEOREM EngineNoticesLoss == EngineSpec => TickNoticesBreach
<1>1. ASSUME EngineInv, [EngineNext]_allVars, NEW s \in Symbols, ltp'[s] # ltp[s]
      PROVE  killed' \/ ~Breached(positions)'
  <2>1. Moves /\ BookInv
    BY <1>1, EngineStep DEF EngineInv, PartsKept
  <2>2. PICK t \in Ticks : UpdateLtp(t[1], t[2])
    <3>1. CASE UNCHANGED vars
      BY <1>1, <3>1 DEF vars
    <3>2. CASE TripOnPlace \/ RunSquareOff \/ SquareOffAll \/ ResetKillSwitch
      BY <1>1, <3>2 DEF TripOnPlace, RunSquareOff, SquareOffAll, CloseOpenPositions,
                        ResetKillSwitch
    <3>3. CASE \/ \E r \in Request : FillMarketOrder(r)
               \/ \E a \in KillAmounts : SetKillAmount(a)
      BY <1>1, <3>3 DEF FillMarketOrder, SetKillAmount
    <3>. QED BY <2>1, <3>1, <3>2, <3>3 DEF Moves, Upkeep
  <2>. QED BY <2>1, <2>2, TickTests
<1>2. EngineInv /\ [EngineNext]_allVars =>
        [\A s \in Symbols : ltp'[s] # ltp[s] => killed' \/ ~Breached(positions)']_vars
  BY <1>1
<1>. QED BY <1>2, EngineInvariant, PTL DEF EngineSpec, TickNoticesBreach

-----------------------------------------------------------------------------
(* The broker as AIBrain sees it                                             *)

\* The engine's broker without orders, cash and P&L.
Seen == INSTANCE BrokerView WITH qty <- [s \in Symbols |-> positions[s].qty]

\* No loss without a symbol to make it on.
LEMMA LossNeedsSymbol ==
    ASSUME BookInv, Breached(positions) PROVE Symbols # {}
<1>. SUFFICES ASSUME Symbols = {} PROVE FALSE
  OBVIOUS
<1>. DEFINE Adds(g) == g = [T \in SUBSET Symbols |->
               IF T = {} THEN 0
               ELSE (positions[First(T)].realized_pnl + positions[First(T)].unrealized_pnl)
                    + g[T \ {First(T)}]]
            none == [T \in SUBSET Symbols |-> 0]
            h == CHOOSE g : Adds(g)
<1>1. DailyPnlOf(positions) = h[Symbols]
  BY DEF DailyPnlOf, MapThenSumSet, MapThenFoldSet, First
<1>2. Adds(none)
  OBVIOUS
<1>3. Adds(h)
  <2>. HIDE DEF Adds, none
  <2>. QED BY <1>2, Zenon
<1>4. h[Symbols] = 0
  <2>. HIDE DEF h
  <2>. QED BY <1>3
<1>5. killAmount \in Nat \ {0}
  BY AmountsAssumption DEF BookInv, TypeOK, BookTypeOK
<1>. QED BY <1>1, <1>4, <1>5 DEF Breached

\* With nothing resting, a scan leaves the account as it is.
LEMMA EmptyScan ==
    ASSUME NEW acct, NEW os, NEW p, Len(os) \in Nat
    PROVE  ScanAccount(acct, os, {}, p) = acct
<1>1. PICK run : IsScan(run, acct, os, {}, p)
  BY ScanRun
<1>. DEFINE n == Len(os)
            Same == {k \in Nat : k \in 0 .. n => run[k] = acct}
<1>2. /\ run = [k \in 0 .. n |-> IF k = 0 THEN acct ELSE ScanStep(run[k - 1], os, {}, p, k)]
      /\ ScanAccount(acct, os, {}, p) = run[n]
  BY <1>1 DEF IsScan
<1>3. \A a, k : ScanStep(a, os, {}, p, k) = a
  BY DEF ScanStep
<1>4. 0 \in Same
  BY <1>2
<1>5. ASSUME NEW k \in Nat, k \in Same PROVE k + 1 \in Same
  <2>. SUFFICES ASSUME k + 1 \in 0 .. n PROVE run[k + 1] = acct
    OBVIOUS
  <2>1. k \in 0 .. n /\ (k + 1) - 1 = k /\ k + 1 # 0
    OBVIOUS
  <2>. QED BY <1>2, <1>3, <1>5, <2>1
<1>. HIDE DEF Same
<1>6. n \in Same
  BY <1>4, <1>5, SetInduction
<1>. QED BY <1>2, <1>6 DEF Same

\* A price moves no quantity, and whoever finds the loss posts one square-off.
LEMMA SeenTick ==
    ASSUME BookInv, NothingRests, NEW t \in Ticks, UpdateLtp(t[1], t[2]) PROVE Seen!BrokerNext
<1>. DEFINE s == t[1]
            p == t[2]
            marked == [Account(s) EXCEPT !.pos = MarkToMarket(@, p)]
            Qty == [x \in Symbols |-> positions[x].qty]
<1>1. s \in Symbols /\ p \in Nat \ {NoPrice} /\ NoPrice = Seen!NoPrice
  BY TicksAssumption DEF NoPrice, Seen!NoPrice
<1>2. positions \in [Symbols -> Position] /\ Len(orders) \in Nat /\ killed \in BOOLEAN
  BY LenProperties DEF BookInv, TypeOK, BookTypeOK, MoneyTypeOK
<1>3. /\ ltp' = [ltp EXCEPT ![s] = p]
      /\ Post(s, ScanAccount(marked, orders, resting[s], p))
      /\ \/ ~killed /\ killed' = TRUE /\ squareOffs' = squareOffs + 1
         \/ killed' = killed /\ squareOffs' = squareOffs
  BY Zenon DEF UpdateLtp
<1>4. positions' = [positions EXCEPT ![s] = marked.pos]
  <2>1. resting[s] = {}
    BY <1>1 DEF NothingRests
  <2>. HIDE DEF marked
  <2>2. ScanAccount(marked, orders, resting[s], p) = marked
    BY <1>2, <2>1, EmptyScan
  <2>. QED BY <1>3, <2>2 DEF Post
<1>5. marked.pos.qty = positions[s].qty
  <2>1. marked.pos = MarkToMarket(positions[s], p)
    BY DEF Account
  <2>. HIDE DEF marked
  <2>. QED BY <1>1, <1>2, <2>1 DEF MarkToMarket, Position
<1>. HIDE DEF marked, s, p
<1>6. Qty' = Qty
  BY <1>1, <1>2, <1>4, <1>5
<1>7. Qty' = [Qty EXCEPT ![s] = Qty[s]]
  BY <1>1, <1>6
<1>8. \E v \in Seen!AfterPrice(Seen!View(s)) : Seen!Store(s, v)
  <2>. DEFINE v == Seen!View(s)
              u == [held |-> v.held, killed |-> TRUE, posts |-> v.posts + 1]
  <2>1. v.held = Qty[s] /\ v.killed = killed /\ v.posts = squareOffs
    BY DEF Seen!View
  <2>2. v \in Seen!AfterPrice(v) /\ (~v.killed => u \in Seen!AfterPrice(v))
    BY DEF Seen!AfterPrice
  <2>3. u.held = v.held /\ u.killed = TRUE /\ u.posts = v.posts + 1
    OBVIOUS
  <2>. HIDE DEF v, u
  <2>4. CASE killed' = killed /\ squareOffs' = squareOffs
    <3>1. Seen!Store(s, v)
      BY <1>7, <2>1, <2>4 DEF Seen!Store
    <3>. QED BY <2>2, <3>1, Zenon DEF v, Seen!Store
  <2>5. CASE ~killed /\ killed' = TRUE /\ squareOffs' = squareOffs + 1
    <3>1. Seen!Store(s, u)
      BY <1>7, <2>1, <2>3, <2>5 DEF Seen!Store
    <3>2. u \in Seen!AfterPrice(v)
      BY <2>1, <2>2, <2>5
    <3>. QED BY <3>1, <3>2, Zenon DEF v, Seen!Store
  <2>. QED BY <1>3, <2>4, <2>5
<1>9. Seen!UpdateLtp(s, p)
  BY <1>3, <1>8 DEF Seen!UpdateLtp
<1>. QED BY <1>1, <1>9 DEF Seen!BrokerNext

\* An order at the market is filled, for its whole quantity.
LEMMA SeenFill ==
    ASSUME BookInv, NEW r \in Request, FillMarketOrder(r) PROVE Seen!BrokerNext
<1>. DEFINE s == r.symbol
            n == Signed(r.side, r.qty)
            Qty == [x \in Symbols |-> positions[x].qty]
            v == [held |-> Qty[s] + n, killed |-> FALSE, posts |-> squareOffs]
<1>1. /\ s \in Symbols /\ ltp[s] # NoPrice /\ ~killed /\ killed \in BOOLEAN
      /\ UNCHANGED <<ltp, killed, squareOffs>> /\ positions \in [Symbols -> Position]
  BY DEF FillMarketOrder, Admits, killVars, Request, BookInv, TypeOK, BookTypeOK, MoneyTypeOK
<1>2. n \in Int \ {0}
  <2>1. r.qty \in Nat /\ ~(r.qty <= 0)
    BY DEF FillMarketOrder, Invalid, Request
  <2>. QED BY <2>1 DEF Signed
<1>3. positions'[s].qty = positions[s].qty + n
  BY FillAppends
<1>. HIDE DEF n
<1>4. Qty' = [Qty EXCEPT ![s] = v.held]
  <2>. DEFINE pos == ApplyFill(Account(s), Len(orders) + 1, NewOrder(r, "OPEN"),
                               SlippedPrice(r.side, ltp[s])).pos
  <2>1. positions' = [positions EXCEPT ![s] = pos]
    BY DEF FillMarketOrder, Post
  <2>. HIDE DEF pos
  <2>. QED BY <1>1, <1>3, <2>1
<1>5. v \in Seen!AfterOrder(Seen!View(s), n)
  <2>1. Seen!View(s).held = Qty[s] /\ ~Seen!View(s).killed /\ Seen!View(s).posts = squareOffs
    BY <1>1 DEF Seen!View
  <2>. QED BY <2>1 DEF Seen!AfterOrder
<1>6. Seen!Store(s, v)
  <2>1. v.killed = FALSE /\ v.posts = squareOffs
    OBVIOUS
  <2>. HIDE DEF v
  <2>2. killed' = v.killed /\ squareOffs' = v.posts
    BY <1>1, <2>1
  <2>. QED BY <1>4, <2>2 DEF Seen!Store
<1>. HIDE DEF v
<1>7. Seen!PlaceOrder(s, n)
  <2>1. ltp[s] # Seen!NoPrice /\ UNCHANGED ltp
    BY <1>1 DEF Seen!NoPrice, NoPrice
  <2>. QED BY <1>5, <1>6, <2>1, Zenon DEF Seen!PlaceOrder, Seen!Store
<1>. QED BY <1>1, <1>2, <1>7 DEF Seen!BrokerNext

\* An order that finds the loss raises the flag and posts nothing.
LEMMA SeenTrip ==
    ASSUME BookInv, TripOnPlace PROVE Seen!BrokerNext
<1>. DEFINE Qty == [x \in Symbols |-> positions[x].qty]
<1>1. /\ ~killed /\ killed' = TRUE
      /\ UNCHANGED <<positions, ltp, squareOffs>> /\ Breached(positions)
  BY DEF TripOnPlace, moneyVars
<1>2. PICK s \in Symbols : TRUE
  BY <1>1, LossNeedsSymbol
<1>. DEFINE v == [held |-> Qty[s], killed |-> TRUE, posts |-> squareOffs]
<1>3. v.held = Qty[s] /\ v.killed = TRUE /\ v.posts = squareOffs
  OBVIOUS
<1>4. v \in Seen!AfterOrder(Seen!View(s), 1)
  <2>1. Seen!View(s).held = Qty[s] /\ ~Seen!View(s).killed /\ Seen!View(s).posts = squareOffs
    BY <1>1 DEF Seen!View
  <2>. QED BY <2>1 DEF Seen!AfterOrder
<1>. HIDE DEF v
<1>5. Qty' = [Qty EXCEPT ![s] = v.held]
  BY <1>1, <1>3
<1>6. Seen!Store(s, v)
  BY <1>1, <1>3, <1>5 DEF Seen!Store
<1>7. Seen!PlaceOrder(s, 1)
  <2>1. UNCHANGED ltp
    BY <1>1
  <2>. QED BY <1>3, <1>4, <1>6, <2>1, Zenon DEF Seen!PlaceOrder, Seen!Store
<1>8. 1 \in Int \ {0}
  OBVIOUS
<1>. QED BY <1>2, <1>7, <1>8 DEF Seen!BrokerNext

\* A square-off leaves nothing open and touches neither the prices nor the flag.
LEMMA SeenClose ==
    ASSUME BookInv, CloseOpenPositions
    PROVE  Seen!CloseAll /\ UNCHANGED <<ltp, killed>>
<1>1. positions \in [Symbols -> Position]
  BY DEF BookInv, TypeOK, MoneyTypeOK
<1>2. /\ positions' = [s \in Symbols |-> IF s \in OpenSymbols THEN Closing(s, 0).pos
                                                             ELSE positions[s]]
      /\ UNCHANGED <<ltp, killed>>
  BY DEF CloseOpenPositions
<1>3. \A s \in OpenSymbols : Closing(s, 0).pos.qty = 0
  BY <1>1, ClosingIsFlat
<1>4. \A s \in Symbols \ OpenSymbols : positions[s].qty = 0
  BY DEF OpenSymbols
<1>5. \A s \in Symbols : positions'[s].qty = 0
  BY <1>2, <1>3, <1>4
<1>. QED BY <1>2, <1>5 DEF Seen!CloseAll

\* What the engine does with its broker, a handler of AIBrain can see.
LEMMA MovesAreSeen ==
    ASSUME BookInv, NothingRests, Moves PROVE [Seen!BrokerNext]_(Seen!viewVars)
<1>1. CASE UNCHANGED vars
  BY <1>1 DEF vars, Seen!viewVars
<1>2. ASSUME NEW a \in KillAmounts, SetKillAmount(a) PROVE UNCHANGED Seen!viewVars
  BY <1>2 DEF SetKillAmount, moneyVars, Seen!viewVars
<1>3. CASE TripOnPlace
  BY <1>3, SeenTrip
<1>4. ASSUME NEW t \in Ticks, UpdateLtp(t[1], t[2]) PROVE Seen!BrokerNext
  BY <1>4, SeenTick
<1>5. ASSUME NEW r \in Request, FillMarketOrder(r) PROVE Seen!BrokerNext
  BY <1>5, SeenFill
<1>6. CASE RunSquareOff
  <2>1. /\ squareOffs > 0 /\ squareOffs' = squareOffs - 1
        /\ Seen!CloseAll /\ UNCHANGED <<ltp, killed>>
    BY <1>6, SeenClose DEF RunSquareOff
  <2>2. Seen!PostedSquareOff
    BY <2>1 DEF Seen!PostedSquareOff
  <2>. QED BY <2>2 DEF Seen!BrokerNext
<1>7. CASE SquareOffAll
  <2>1. squareOffs' = squareOffs /\ Seen!CloseAll /\ UNCHANGED <<ltp, killed>>
    BY <1>7, SeenClose DEF SquareOffAll
  <2>2. Seen!SquareOffAll
    BY <2>1 DEF Seen!SquareOffAll
  <2>. QED BY <2>2 DEF Seen!BrokerNext
<1>8. CASE ResetKillSwitch
  <2>1. Seen!ClearSwitch
    BY <1>8 DEF ResetKillSwitch, moneyVars, Seen!ClearSwitch
  <2>. QED BY <2>1 DEF Seen!BrokerNext
<1>. QED BY <1>1, <1>2, <1>3, <1>4, <1>5, <1>6, <1>7, <1>8 DEF Moves, Upkeep

\* BrokerView, from which AIBrain builds its handlers, is the broker of the engine seen from
\* outside: every call of PaperBroker by a tick, a signal, a route or a callback looks as it says.
THEOREM EngineImplementsView == EngineSpec => Seen!BrokerSpec
<1>1. EngineInit => Seen!BrokerInit
  BY DEF EngineInit, Init, FlatPosition, NoPrice, Seen!BrokerInit, Seen!NoPrice
<1>2. EngineInv /\ [EngineNext]_allVars => [Seen!BrokerNext]_(Seen!viewVars)
  BY EngineStep, MovesAreSeen DEF EngineInv, PartsKept
<1>. QED BY <1>1, <1>2, EngineInvariant, PTL DEF EngineSpec, Seen!BrokerSpec
=============================================================================

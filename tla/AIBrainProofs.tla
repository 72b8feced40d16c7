---------------------------- MODULE AIBrainProofs ----------------------------
(***************************************************************************)
(* Theorems about the AI brain, for every set of symbols, prices, answers, *)
(* sizes and trades: the server drives the trade monitor the way           *)
(* TradeMonitor says, whatever is interleaved with the brain's decisions,  *)
(* so what is proved of the monitor holds of the watches of the server.    *)
(***************************************************************************)
EXTENDS AIBrain, TradeMonitorProofs

-----------------------------------------------------------------------------
(* Views of the broker                                                       *)

Views == [held : Int, killed : BOOLEAN, posts : Nat]

\* All but the table of the monitor.
BrainTypes ==
    /\ qty \in [Symbols -> Int]
    /\ ltp \in [Symbols -> Nat]
    /\ killed \in BOOLEAN /\ enabled \in BOOLEAN
    /\ squareOffs \in Nat
    /\ todo \in Seq(Entry) /\ Len(todo) <= MaxPerCycle
    /\ \A i, j \in DOMAIN todo : todo[i].symbol = todo[j].symbol => i = j
    /\ reviewing \subseteq Symbols

\* What a price makes of a view is a view.
LEMMA AfterPriceType ==
    ASSUME NEW v \in Views
    PROVE  AfterPrice(v) \subseteq Views
<1>1. v.held \in Int /\ v.posts + 1 \in Nat
    BY DEF Views
<1>2. [held |-> v.held, killed |-> TRUE, posts |-> v.posts + 1] \in Views
    BY <1>1 DEF Views
<1>3. \A u \in AfterPrice(v) :
          u = v \/ u = [held |-> v.held, killed |-> TRUE, posts |-> v.posts + 1]
    BY Zenon DEF AfterPrice
<1> QED
    BY <1>2, <1>3, Zenon

\* What an order makes of a view is a view.
LEMMA AfterOrderType ==
    ASSUME NEW v \in Views, NEW n \in Int
    PROVE  AfterOrder(v, n) \subseteq Views
<1>1. v.held \in Int /\ v.held + n \in Int /\ v.posts \in Nat
    BY DEF Views
<1>2. /\ [held |-> v.held + n, killed |-> FALSE, posts |-> v.posts] \in Views
      /\ [held |-> v.held, killed |-> TRUE, posts |-> v.posts] \in Views
    BY <1>1 DEF Views
<1>3. \A u \in AfterOrder(v, n) :
          \/ u = v
          \/ u = [held |-> v.held + n, killed |-> FALSE, posts |-> v.posts]
          \/ u = [held |-> v.held, killed |-> TRUE, posts |-> v.posts]
    BY Zenon DEF AfterOrder
<1> QED
    BY <1>2, <1>3, Zenon

\* What a close makes of a view is a view.
LEMMA AfterCloseType ==
    ASSUME NEW v \in Views
    PROVE  AfterClose(v) \subseteq Views
<1>1. -v.held \in Int
    BY DEF Views
<1>2. AfterOrder(v, -v.held) \subseteq Views
    BY <1>1, AfterOrderType
<1> QED
    BY <1>2 DEF AfterClose

\* What a signal makes of a view is a view.
LEMMA AfterSignalType ==
    ASSUME NEW s \in Symbols, NEW v \in Views
    PROVE  AfterSignal(s, v) \subseteq Views
<1>1. \A n \in Trades : AfterOrder(v, n) \subseteq Views
    BY AfterOrderType, TradingAssumption
<1> QED
    BY <1>1 DEF AfterSignal

\* The view of a symbol, and the variables a view is stored in.
LEMMA ViewStore ==
    ASSUME BrainTypes, NEW s \in Symbols
    PROVE  /\ View(s) \in Views
           /\ \A v \in Views :
                 Store(s, v) => /\ qty' \in [Symbols -> Int] /\ killed' \in BOOLEAN
                                /\ squareOffs' \in Nat
<1>1. View(s) \in Views
    BY DEF BrainTypes, View, Views
<1>2. ASSUME NEW v \in Views, Store(s, v)
      PROVE  qty' \in [Symbols -> Int] /\ killed' \in BOOLEAN /\ squareOffs' \in Nat
    <2>1. v.held \in Int /\ v.killed \in BOOLEAN /\ v.posts \in Nat
        BY DEF Views
    <2> QED
        BY <1>2, <2>1 DEF Store, BrainTypes
<1> QED
    BY <1>1, <1>2

-----------------------------------------------------------------------------
(* Decisions                                                                 *)

\* A decision that is not flat is a plan within the ranges of the engine, with
\* a target at least twice its stop.
LEMMA DecisionsArePlans ==
    ASSUME NEW e \in Entry, NEW d \in Decisions(e), d # Flat
    PROVE  d \in Plan
<1>1. ASSUME NEW a \in Answers, d = Validated(a)
      PROVE  d \in Plan
    <2> DEFINE sl == Clamp(a.stop_loss_pct, 3, 20)
               tp == Clamp(a.take_profit_pct, 2 * sl, 40)
    <2>1. /\ a.direction \in Directions \cup {"flat"}
          /\ a.stop_loss_pct \in Int /\ a.take_profit_pct \in Int
        BY AnswersAssumption
    <2>2. sl \in 3 .. 20
        BY <2>1 DEF Clamp
    <2>3. tp \in 6 .. 40 /\ tp >= 2 * sl
        BY <2>1, <2>2 DEF Clamp
    <2>4. /\ d = [direction |-> a.direction, stop_loss_pct |-> sl, take_profit_pct |-> tp]
          /\ a.direction \in Directions
        BY <1>1, <2>1 DEF Validated
    <2> HIDE DEF sl, tp
    <2> QED
        BY <2>2, <2>3, <2>4 DEF Plan
<1>2. ASSUME d = RulesPlan(e)
      PROVE  d \in Plan
    <2>1. e.direction \in Directions
        BY DEF Entry
    <2> QED
        BY <1>2, <2>1 DEF RulesPlan, Plan
<1> QED
    BY <1>1, <1>2 DEF Decisions

\* A watch opened on a plan at a price is fresh.
LEMMA NewWatchFresh ==
    ASSUME NEW plan \in Plan, NEW p \in Nat \ {0}
    PROVE  Fresh(NewWatch(plan, p))
<1> DEFINE w == NewWatch(plan, p)
<1>1. /\ w.direction = plan.direction /\ w.stop_loss_pct = plan.stop_loss_pct
      /\ w.take_profit_pct = plan.take_profit_pct /\ w.entry_price = p
    BY DEF NewWatch
<1> HIDE DEF w
<1>2. [direction |-> w.direction, stop_loss_pct |-> w.stop_loss_pct,
       take_profit_pct |-> w.take_profit_pct] = plan
    BY <1>1 DEF Plan
<1> QED
    BY <1>1, <1>2 DEF Fresh, w

-----------------------------------------------------------------------------
(* What each handler does to the table of the monitor                        *)

\* A tick of s checks the watch of s, or leaves the table alone.
LEMMA TickMonitors ==
    ASSUME WatchesSound, NEW s \in Symbols, NEW p \in Nat \ {0}, Tick(s, p)
    PROVE  Check(s) \/ UNCHANGED watched
<1>1. CASE Watches(s) /\ watched' = Unwatch(s)
    BY <1>1 DEF Watches, Check
<1>2. CASE /\ Watches(s) /\ ~Exits(Checked(watched[s], p))
           /\ watched' = [watched EXCEPT ![s] = Checked(@, p)]
    <2> DEFINE w == Checked(watched[s], p)
    <2>1. s \in DOMAIN watched
        BY <1>2 DEF Watches
    <2>2. watched[s] \in Watch
        BY <2>1 DEF WatchesSound, Sound
    <2>3. w.current_price = p
        BY <2>2, PricedFields, TrailedFields DEF Checked
    <2>4. watched' = [watched EXCEPT ![s] = w] /\ ~Exits(w)
        BY <1>2
    <2>5. watched'[s] = w /\ s \in DOMAIN watched'
        BY <2>1, <2>4
    <2>6. w = Checked(watched[s], watched'[s].current_price)
        BY <2>3, <2>5
    <2>7. watched'[s].current_price \in Nat \ {0}
        BY <2>3, <2>5
    <2> HIDE DEF w
    <2> QED
        BY <2>1, <2>4, <2>5, <2>6, <2>7 DEF Check
<1>3. CASE watched' = watched
    BY <1>3
<1>4. \/ Watches(s) /\ watched' = Unwatch(s)
      \/ /\ Watches(s) /\ ~Exits(Checked(watched[s], p))
         /\ watched' = [watched EXCEPT ![s] = Checked(@, p)]
      \/ watched' = watched
    BY Zenon DEF Tick
<1> QED
    BY <1>1, <1>2, <1>3, <1>4

\* A decision opens a watch on a symbol that has none, or leaves the table alone.
LEMMA DecideMonitors ==
    ASSUME BrainTypes, Decide
    PROVE  UNCHANGED watched \/ \E s \in Symbols : Add(s)
<1>1. todo # << >> /\ Head(todo) \in Entry /\ Head(todo).symbol \in Symbols
    <2>1. todo # << >> /\ todo \in Seq(Entry)
        BY DEF Decide, BrainTypes
    <2>2. Head(todo) \in Entry
        BY <2>1
    <2> QED
        BY <2>1, <2>2 DEF Entry
<1> DEFINE s == Head(todo).symbol
<1>2. PICK d \in Decisions(Head(todo)) :
          \/ UNCHANGED watched
          \/ d # Flat /\ ltp[s] # NoPrice /\ Execute(s, d)
    BY Zenon DEF Decide
<1>3. CASE d # Flat /\ ltp[s] # NoPrice /\ Execute(s, d)
    <2>1. d \in Plan
        BY <1>1, <1>3, DecisionsArePlans
    <2>2. ltp[s] \in Nat \ {0}
        BY <1>1, <1>3 DEF BrainTypes, NoPrice
    <2>3. Fresh(NewWatch(d, ltp[s]))
        BY <2>1, <2>2, NewWatchFresh
    <2>4. s \notin DOMAIN watched
        BY <1>3, Zenon DEF Execute
    <2>5. watched' = watched \/ watched' = Watching(s, NewWatch(d, ltp[s]))
        BY <1>3, Zenon DEF Execute, Open
    <2>6. CASE watched' = Watching(s, NewWatch(d, ltp[s]))
        <3> DEFINE w == NewWatch(d, ltp[s])
        <3>1. Fresh(w) /\ watched' = Watching(s, w)
            BY <2>3, <2>6
        <3> HIDE DEF w, s
        <3>2. watched'[s] = w /\ DOMAIN watched' = DOMAIN watched \cup {s}
            BY <3>1 DEF Watching
        <3>3. Add(s)
            BY <2>4, <3>1, <3>2 DEF Add
        <3> QED
            BY <1>1, <3>3 DEF s
    <2> QED
        BY <2>5, <2>6
<1> QED
    BY <1>2, <1>3

\* Every step of the server is a step of the monitor, or leaves it alone.
LEMMA ServerMonitors ==
    ASSUME BrainTypes, WatchesSound, [Next]_vars
    PROVE  [MonitorNext]_watched
<1>1. ASSUME NEW t \in Ticks, Tick(t[1], t[2])
      PROVE  [MonitorNext]_watched
    <2>1. t[1] \in Symbols /\ t[2] \in Nat \ {0}
        BY TicksAssumption
    <2>2. Check(t[1]) \/ UNCHANGED watched
        BY <1>1, <2>1, TickMonitors
    <2> QED
        BY <2>1, <2>2 DEF MonitorNext
<1>2. ASSUME Decide
      PROVE  [MonitorNext]_watched
    BY <1>2, DecideMonitors DEF MonitorNext
<1>3. ASSUME TimePasses
      PROVE  [MonitorNext]_watched
    BY <1>3 DEF TimePasses, MonitorNext
<1>4. CASE \/ StartCycle \/ StartReview \/ (\E s \in Symbols : Review(s) \/ ManualClose(s))
           \/ RunSquareOff \/ ManualKill \/ ResetKillSwitch \/ ToggleBrain
    <2>1. UNCHANGED watched
        BY <1>4, Zenon DEF StartCycle, StartReview, Review, ManualClose, RunSquareOff, ManualKill,
                   ResetKillSwitch, ToggleBrain
    <2> QED
        BY <2>1
<1>5. CASE UNCHANGED vars
    BY <1>5 DEF vars
<1> QED
    BY <1>1, <1>2, <1>3, <1>4, <1>5 DEF Next

-----------------------------------------------------------------------------
(* Types                                                                     *)

\* Dropping the first entry of a shortlist leaves a shortlist.
LEMMA TailOfShortlist ==
    ASSUME BrainTypes, todo # << >>, todo' = Tail(todo)
    PROVE  /\ todo' \in Seq(Entry) /\ Len(todo') <= MaxPerCycle
           /\ \A i, j \in DOMAIN todo' : todo'[i].symbol = todo'[j].symbol => i = j
<1>1. todo \in Seq(Entry) /\ Len(todo) <= MaxPerCycle /\ MaxPerCycle \in Nat
    BY TradingAssumption DEF BrainTypes
<1> HIDE DEF Entry
<1>2. todo' \in Seq(Entry) /\ Len(todo') = Len(todo) - 1
    BY <1>1
<1>3. \A i \in DOMAIN todo' : i \in Nat /\ i + 1 \in DOMAIN todo /\ todo'[i] = todo[i + 1]
    BY <1>1, <1>2
<1>4. Len(todo') <= MaxPerCycle
    BY <1>1, <1>2
<1>5. ASSUME NEW i \in DOMAIN todo', NEW j \in DOMAIN todo', todo'[i].symbol = todo'[j].symbol
      PROVE  i = j
    <2>1. i + 1 = j + 1
        BY <1>3, <1>5 DEF BrainTypes
    <2> QED
        BY <1>3, <2>1
<1> QED
    BY <1>2, <1>4, <1>5

\* A shortlist is a sequence of entries.
LEMMA ShortlistType ==
    ASSUME NEW n \in 1 .. MaxPerCycle, NEW list \in [1 .. n -> Entry],
           \A i, j \in 1 .. n : list[i].symbol = list[j].symbol => i = j
    PROVE  /\ list \in Seq(Entry) /\ Len(list) <= MaxPerCycle
           /\ \A i, j \in DOMAIN list : list[i].symbol = list[j].symbol => i = j
<1> HIDE DEF Entry
<1>1. n \in Nat /\ n <= MaxPerCycle
    BY TradingAssumption
<1>2. list \in Seq(Entry) /\ Len(list) = n /\ DOMAIN list = 1 .. n
    BY <1>1
<1> QED
    BY <1>1, <1>2

\* Every step keeps the types.
LEMMA TypesStep ==
    ASSUME BrainTypes, Next
    PROVE  BrainTypes'
<1>1. ASSUME NEW t \in Ticks, Tick(t[1], t[2])
      PROVE  BrainTypes'
    <2> DEFINE s == t[1]
               p == t[2]
    <2>1. s \in Symbols /\ p \in Nat
        BY TicksAssumption
    <2>2. ltp' \in [Symbols -> Nat]
        BY <1>1, <2>1 DEF Tick, BrainTypes
    <2>3. PICK v \in UNION {AfterSignal(s, u) : u \in AfterPrice(View(s))} :
              Store(s, v) \/ \E c \in AfterClose(v) : Store(s, c)
        BY <1>1, Zenon DEF Tick
    <2>4. v \in Views
        <3>1. PICK u \in AfterPrice(View(s)) : v \in AfterSignal(s, u)
            BY <2>3
        <3>2. u \in Views
            BY <2>1, <3>1, ViewStore, AfterPriceType
        <3> QED
            BY <2>1, <3>1, <3>2, AfterSignalType
    <2>5. \E c \in Views : Store(s, c)
        BY <2>3, <2>4, AfterCloseType
    <2>6. qty' \in [Symbols -> Int] /\ killed' \in BOOLEAN /\ squareOffs' \in Nat
        BY <2>1, <2>5, ViewStore
    <2>7. UNCHANGED tasks
        BY <1>1 DEF Tick
    <2> QED
        BY <2>2, <2>6, <2>7 DEF BrainTypes, tasks
<1>2. ASSUME StartCycle
      PROVE  BrainTypes'
    <2>1. PICK n \in 1 .. MaxPerCycle : \E list \in [1 .. n -> Entry] :
              /\ \A i, j \in 1 .. n : list[i].symbol = list[j].symbol => i = j
              /\ todo' = list
        BY <1>2, Zenon DEF StartCycle
    <2>2. /\ todo' \in Seq(Entry) /\ Len(todo') <= MaxPerCycle
          /\ \A i, j \in DOMAIN todo' : todo'[i].symbol = todo'[j].symbol => i = j
        BY <2>1, ShortlistType
    <2>3. UNCHANGED <<books, enabled, reviewing>>
        BY <1>2 DEF StartCycle
    <2> QED
        BY <2>2, <2>3 DEF BrainTypes, books
<1>3. ASSUME Decide
      PROVE  BrainTypes'
    <2>1. todo # << >> /\ todo' = Tail(todo) /\ UNCHANGED <<ltp, enabled, reviewing>>
        BY <1>3 DEF Decide
    <2>2. Head(todo) \in Entry
        BY <2>1 DEF BrainTypes
    <2> DEFINE s == Head(todo).symbol
    <2>3. s \in Symbols
        BY <2>2 DEF Entry
    <2>4. \/ UNCHANGED <<qty, killed, squareOffs>>
          \/ \E d \in Decisions(Head(todo)) : d # Flat /\ Execute(s, d)
        BY <1>3, Zenon DEF Decide
    <2>5. ASSUME NEW d, Execute(s, d)
          PROVE  \E c \in Views : Store(s, c)
        <3>1. PICK size \in Sizes : Open(s, d, IF d.direction = "long" THEN size ELSE -size)
            BY <2>5, Zenon DEF Execute
        <3> DEFINE n == IF d.direction = "long" THEN size ELSE -size
        <3>2. n \in Int
            BY TradingAssumption
        <3>3. \E v \in AfterOrder(View(s), n) : Store(s, v)
            BY <3>1, Zenon DEF Open
        <3> HIDE DEF n
        <3> QED
            BY <2>3, <3>2, <3>3, ViewStore, AfterOrderType
    <2>6. qty' \in [Symbols -> Int] /\ killed' \in BOOLEAN /\ squareOffs' \in Nat
        <3>1. CASE UNCHANGED <<qty, killed, squareOffs>>
            BY <3>1 DEF BrainTypes
        <3>2. CASE \E c \in Views : Store(s, c)
            BY <2>3, <3>2, ViewStore
        <3> QED
            BY <2>4, <2>5, <3>1, <3>2
    <2>7. /\ todo' \in Seq(Entry) /\ Len(todo') <= MaxPerCycle
          /\ \A i, j \in DOMAIN todo' : todo'[i].symbol = todo'[j].symbol => i = j
        BY <2>1, TailOfShortlist
    <2> QED
        BY <2>1, <2>6, <2>7 DEF BrainTypes
<1>4. ASSUME NEW s \in Symbols, Review(s) \/ ManualClose(s)
      PROVE  BrainTypes'
    <2>1. UNCHANGED <<ltp, enabled, todo>> /\ reviewing' \subseteq reviewing
        BY <1>4 DEF Review, ManualClose, tasks
    <2>2. UNCHANGED <<qty, killed, squareOffs>> \/ \E c \in AfterClose(View(s)) : Store(s, c)
        BY <1>4, Zenon DEF Review, ManualClose
    <2>3. AfterClose(View(s)) \subseteq Views
        BY ViewStore, AfterCloseType
    <2>4. qty' \in [Symbols -> Int] /\ killed' \in BOOLEAN /\ squareOffs' \in Nat
        <3>1. CASE UNCHANGED <<qty, killed, squareOffs>>
            BY <3>1 DEF BrainTypes
        <3>2. CASE \E c \in AfterClose(View(s)) : Store(s, c)
            BY <2>3, <3>2, ViewStore
        <3> QED
            BY <2>2, <3>1, <3>2
    <2> QED
        BY <2>1, <2>4 DEF BrainTypes
<1>5. ASSUME StartReview
      PROVE  BrainTypes'
    BY <1>5 DEF StartReview, BrainTypes, OpenSymbols, books
<1>6. ASSUME RunSquareOff
      PROVE  BrainTypes'
    BY <1>6 DEF RunSquareOff, PostedSquareOff, CloseAll, BrainTypes, tasks
<1>7. ASSUME ManualKill
      PROVE  BrainTypes'
    BY <1>7 DEF ManualKill, SquareOffAll, CloseAll, BrainTypes, tasks
<1>8. ASSUME ResetKillSwitch
      PROVE  BrainTypes'
    BY <1>8 DEF ResetKillSwitch, ClearSwitch, BrainTypes, tasks
<1>9. ASSUME ToggleBrain
      PROVE  BrainTypes'
    <2>1. UNCHANGED <<books, todo, reviewing>> /\ enabled' \in BOOLEAN
        BY <1>9, Zenon DEF ToggleBrain, BrainTypes
    <2> QED
        BY <2>1 DEF BrainTypes, books
<1>10. ASSUME TimePasses
       PROVE  BrainTypes'
    BY <1>10 DEF TimePasses, BrainTypes, books, tasks
<1> QED
    BY <1>1, <1>2, <1>3, <1>4, <1>5, <1>6, <1>7, <1>8, <1>9, <1>10 DEF Next

-----------------------------------------------------------------------------
(* The theorems                                                              *)

\* The inductive invariant of the server.
THEOREM BrainSound == Spec => [](BrainTypes /\ WatchesSound)
<1>1. Init => BrainTypes /\ WatchesSound
    <2>1. ASSUME Init PROVE WatchesSound
        BY <2>1 DEF Init, MonitorInit, WatchesSound
    <2>2. ASSUME Init PROVE BrainTypes
        <3>1. << >> \in Seq(Entry) /\ Len(<< >>) <= MaxPerCycle /\ DOMAIN << >> = {}
            BY TradingAssumption
        <3>2. killed \in BOOLEAN /\ enabled \in BOOLEAN
            BY <2>2, Zenon DEF Init, BrokerInit
        <3> QED
            BY <2>2, <3>1, <3>2 DEF Init, BrokerInit, BrainTypes, NoPrice
    <2> QED
        BY <2>1, <2>2
<1>2. BrainTypes /\ WatchesSound /\ [Next]_vars => (BrainTypes /\ WatchesSound)'
    <2>1. ASSUME BrainTypes, WatchesSound, [Next]_vars PROVE WatchesSound'
        <3>1. [MonitorNext]_watched
            BY <2>1, ServerMonitors
        <3>2. CASE MonitorNext
            BY <2>1, <3>2, MonitorStep
        <3>3. CASE UNCHANGED watched
            BY <2>1, <3>3 DEF WatchesSound
        <3> QED
            BY <3>1, <3>2, <3>3
    <2>2. ASSUME BrainTypes, [Next]_vars PROVE BrainTypes'
        <3>1. CASE UNCHANGED vars
            BY <2>2, <3>1 DEF vars, BrainTypes
        <3> QED
            BY <2>2, <3>1, TypesStep
    <2> QED
        BY <2>1, <2>2
<1> QED
    BY <1>1, <1>2, PTL DEF Spec

\* Every variable of the server keeps its type.
THEOREM BrainTypeOK == Spec => []TypeOK
<1>1. BrainTypes /\ WatchesSound => TypeOK
    BY DEF BrainTypes, WatchesSound, Sound, TypeOK, WatchedTypeOK
<1> QED
    BY <1>1, BrainSound, PTL

\* The server drives the monitor as the monitor's own specification says: a
\* watch is opened on an unwatched symbol, on a plan within the engine's ranges
\* and at a real price, is moved by ticks of its symbol only and ends at an exit,
\* whatever strategies, reviews, kills and toggles happen between.
THEOREM BrainImplementsMonitor == Spec => MonitorSpec
<1>1. Init => MonitorInit
    BY DEF Init
<1>2. BrainTypes /\ WatchesSound /\ [Next]_vars => [MonitorNext]_watched
    BY ServerMonitors
<1> QED
    BY <1>1, <1>2, BrainSound, PTL DEF Spec, MonitorSpec

\* No stop, target or trailing stop of a position the brain watches is passed over.
THEOREM BrainMissesNoExit == Spec => []NoExitMissed
BY BrainImplementsMonitor, MonitorMissesNoExit, PTL

\* A trailing stop of the server that is active locks in a profit.
THEOREM BrainLocksInProfit == Spec => []TrailLocksInProfit
BY BrainImplementsMonitor, MonitorLocksInProfit, PTL

\* No step of the server loosens a stop.
THEOREM BrainNeverLoosens == Spec => StopNeverLoosens
BY BrainImplementsMonitor, MonitorNeverLoosens, PTL

-----------------------------------------------------------------------------
(* The kill switch, watches and late closers                                 *)

\* A killed broker answers every call with what it found.
LEMMA KilledAnswers ==
    ASSUME NEW v, v.killed = TRUE
    PROVE  /\ AfterPrice(v) = {v} /\ AfterClose(v) = {v}
           /\ \A n : AfterOrder(v, n) = {v}
           /\ \A s : AfterSignal(s, v) = {v}
<1>1. \A n : AfterOrder(v, n) = {v}
    BY Zenon DEF AfterOrder
<1>2. AfterClose(v) = {v}
    BY <1>1, Zenon DEF AfterClose
<1>3. AfterPrice(v) = {v}
    BY DEF AfterPrice
<1>4. ASSUME NEW s PROVE AfterSignal(s, v) = {v}
    <2> DEFINE N == {m \in Trades : ltp[s] # NoPrice /\ v.held + m \in -MaxQty .. MaxQty}
    <2>1. AfterSignal(s, v) = {v} \cup UNION {AfterOrder(v, n) : n \in N}
        BY Zenon DEF AfterSignal
    <2>2. \A x \in UNION {AfterOrder(v, n) : n \in N} : x = v
        BY <1>1
    <2> HIDE DEF N
    <2> QED
        BY <2>1, <2>2
<1> QED
    BY <1>1, <1>2, <1>3, <1>4

\* Storing a view changes the quantity of its symbol only.
LEMMA StoredQuantity ==
    ASSUME BrainTypes, NEW s \in Symbols, NEW v, Store(s, v)
    PROVE  qty'[s] = v.held /\ \A x \in Symbols \ {s} : qty'[x] = qty[x]
BY DEF Store, BrainTypes

\* A close leaves the quantity it found, or nothing.
LEMMA CloseHolds ==
    ASSUME NEW v \in Views, NEW c \in AfterClose(v)
    PROVE  /\ c.held \in {v.held, 0}
           /\ c.held = 0 \/ c.killed
           /\ c.posts = v.posts
<1>1. v.held \in Int /\ v.held + (-v.held) = 0
    BY DEF Views
<1>2. CASE v.held = 0
    BY <1>2 DEF AfterClose
<1>3. CASE v.held # 0 /\ v.killed
    BY <1>3 DEF AfterClose, AfterOrder
<1>4. CASE v.held # 0 /\ ~v.killed
    <2>1. \/ c = [held |-> v.held + (-v.held), killed |-> FALSE, posts |-> v.posts]
          \/ c = [held |-> v.held, killed |-> TRUE, posts |-> v.posts]
        BY <1>4, Zenon DEF AfterClose, AfterOrder
    <2> QED
        BY <1>1, <2>1
<1> QED
    BY <1>2, <1>3, <1>4

\* With the switch on, a step of the server closes positions and ends watches:
\* it opens, turns and starts nothing.
LEMMA KilledStep ==
    ASSUME BrainTypes, Next, killed
    PROVE  /\ \A s \in Symbols : qty'[s] \in {qty[s], 0}
           /\ DOMAIN watched' \subseteq DOMAIN watched
<1>0. killed = TRUE /\ \A s : View(s).killed = TRUE /\ View(s).held = qty[s]
    BY DEF BrainTypes, View
<1>1. ASSUME NEW t \in Ticks, Tick(t[1], t[2])
      PROVE  /\ \A s \in Symbols : qty'[s] \in {qty[s], 0}
             /\ DOMAIN watched' \subseteq DOMAIN watched
    <2> DEFINE s == t[1]
    <2>1. s \in Symbols
        BY TicksAssumption
    <2>2. PICK v \in UNION {AfterSignal(s, u) : u \in AfterPrice(View(s))} :
              Store(s, v) \/ \E c \in AfterClose(v) : Store(s, c)
        BY <1>1, Zenon DEF Tick
    <2>3. v = View(s)
        <3>1. PICK u \in AfterPrice(View(s)) : v \in AfterSignal(s, u)
            BY <2>2
        <3>2. u = View(s)
            BY <1>0, <3>1, KilledAnswers
        <3>3. AfterSignal(s, View(s)) = {View(s)}
            BY <1>0, KilledAnswers
        <3> QED
            BY <3>1, <3>2, <3>3, Zenon
    <2>4. Store(s, View(s))
        BY <1>0, <2>2, <2>3, KilledAnswers
    <2>5. \A x \in Symbols : qty'[x] = qty[x]
        BY <1>0, <2>1, <2>4, StoredQuantity
    <2>6. \/ watched' = Unwatch(s) \/ watched' = watched
          \/ watched' = [watched EXCEPT ![s] = Checked(@, t[2])]
        BY <1>1, Zenon DEF Tick
    <2>7. DOMAIN watched' \subseteq DOMAIN watched
        BY <2>6 DEF Unwatch
    <2> QED
        BY <2>5, <2>7
<1>2. ASSUME Decide
      PROVE  UNCHANGED <<qty, watched>>
    <2> DEFINE s == Head(todo).symbol
    <2>1. todo # << >> /\ todo \in Seq(Entry)
        BY <1>2 DEF Decide, BrainTypes
    <2>2. s \in Symbols
        <3>1. Head(todo) \in Entry
            BY <2>1
        <3> QED
            BY <3>1 DEF Entry
    <2>3. UNCHANGED <<qty, watched>> \/ \E d, n : Open(s, d, n)
        BY <1>2, Zenon DEF Decide, Execute
    <2>4. ASSUME NEW d, NEW n, Open(s, d, n)
          PROVE  UNCHANGED <<qty, watched>>
        <3>1. PICK v \in AfterOrder(View(s), n) :
                  /\ Store(s, v)
                  /\ v.held = qty[s] => watched' = watched
            BY <2>4, Zenon DEF Open
        <3>2. v = View(s)
            BY <1>0, <3>1, KilledAnswers
        <3>3. watched' = watched
            BY <1>0, <3>1, <3>2
        <3>4. qty' = [qty EXCEPT ![s] = qty[s]]
            BY <1>0, <3>1, <3>2 DEF Store
        <3>5. qty' = qty
            BY <2>2, <3>4 DEF BrainTypes
        <3> QED
            BY <3>3, <3>5
    <2> QED
        BY <2>3, <2>4
<1>3. ASSUME NEW s \in Symbols, Review(s) \/ ManualClose(s)
      PROVE  /\ \A x \in Symbols : qty'[x] = qty[x]
             /\ watched' = watched
    <2>1. UNCHANGED qty \/ \E v \in AfterClose(View(s)) : Store(s, v)
        BY <1>3, Zenon DEF Review, ManualClose
    <2>2. ASSUME NEW v \in AfterClose(View(s)), Store(s, v)
          PROVE  \A x \in Symbols : qty'[x] = qty[x]
        <3>1. v = View(s)
            BY <1>0, KilledAnswers
        <3> QED
            BY <1>0, <2>2, <3>1, StoredQuantity
    <2>3. watched' = watched
        BY <1>3, Zenon DEF Review, ManualClose
    <2> QED
        BY <2>1, <2>2, <2>3
<1>4. ASSUME RunSquareOff \/ ManualKill
      PROVE  (\A s \in Symbols : qty'[s] = 0) /\ watched' = watched
    BY <1>4 DEF RunSquareOff, ManualKill, PostedSquareOff, SquareOffAll, CloseAll
<1>5. ASSUME StartCycle \/ StartReview \/ ResetKillSwitch \/ ToggleBrain
      PROVE  UNCHANGED <<qty, watched>>
    BY <1>5, Zenon DEF StartCycle, StartReview, ResetKillSwitch, ClearSwitch, ToggleBrain, books
<1>6. ASSUME TimePasses
      PROVE  UNCHANGED qty /\ DOMAIN watched' = DOMAIN watched
    BY <1>6 DEF TimePasses, GrowOlder, books
<1> QED
    BY <1>1, <1>2, <1>3, <1>4, <1>5, <1>6 DEF Next

\* From the step the switch goes on, whatever was in flight changes a position
\* only by closing it, and no watch begins.
THEOREM BrainKilledOnlyFlattens == Spec => KilledOnlyFlattens
<1>1. BrainTypes /\ [Next]_vars =>
          [killed => /\ \A s \in Symbols : qty'[s] \in {qty[s], 0}
                     /\ DOMAIN watched' \subseteq DOMAIN watched]_vars
    BY KilledStep
<1> QED
    BY <1>1, BrainSound, PTL DEF Spec, KilledOnlyFlattens

\* Only a tick ends a watch or gives it a price.
LEMMA OnlyTicksMonitor ==
    ASSUME BrainTypes, WatchesSound, Next, NEW s \in DOMAIN watched
    PROVE  \/ \E p \in Nat \ {0} : Tick(s, p)
           \/ s \in DOMAIN watched' /\ (s \in Symbols => ltp'[s] = ltp[s])
<1>1. ASSUME NEW t \in Ticks, Tick(t[1], t[2])
      PROVE  \/ \E p \in Nat \ {0} : Tick(s, p)
             \/ s \in DOMAIN watched' /\ (s \in Symbols => ltp'[s] = ltp[s])
    <2>1. t[1] \in Symbols /\ t[2] \in Nat \ {0}
        BY TicksAssumption
    <2>2. CASE s = t[1]
        BY <1>1, <2>1, <2>2
    <2>3. CASE s # t[1]
        <3>1. ltp' = [ltp EXCEPT ![t[1]] = t[2]]
            BY <1>1 DEF Tick
        <3>2. \/ watched' = Unwatch(t[1]) \/ watched' = watched
              \/ watched' = [watched EXCEPT ![t[1]] = Checked(@, t[2])]
            BY <1>1, Zenon DEF Tick
        <3>3. s \in DOMAIN watched'
            BY <2>3, <3>2 DEF Unwatch
        <3> QED
            BY <2>3, <3>1, <3>3 DEF BrainTypes
    <2> QED
        BY <2>2, <2>3
<1>2. ASSUME Decide
      PROVE  s \in DOMAIN watched' /\ ltp' = ltp
    <2>1. UNCHANGED watched \/ \E x \in Symbols : Add(x)
        BY <1>2, DecideMonitors
    <2>2. ltp' = ltp
        BY <1>2 DEF Decide
    <2> QED
        BY <2>1, <2>2 DEF Add
<1>3. CASE \/ StartCycle \/ StartReview \/ (\E x \in Symbols : Review(x) \/ ManualClose(x))
           \/ RunSquareOff \/ ManualKill \/ ResetKillSwitch \/ ToggleBrain
    <2>1. UNCHANGED <<watched, ltp>>
        BY <1>3, Zenon DEF StartCycle, StartReview, Review, ManualClose, RunSquareOff, ManualKill,
                   PostedSquareOff, SquareOffAll, ResetKillSwitch, ClearSwitch, ToggleBrain, books
    <2> QED
        BY <2>1
<1>4. ASSUME TimePasses
      PROVE  s \in DOMAIN watched' /\ ltp' = ltp
    BY <1>4 DEF TimePasses, GrowOlder, books
<1> QED
    BY <1>1, <1>2, <1>3, <1>4 DEF Next

\* A tick that finds an exit closes the position, or is refused by the switch.
LEMMA TickEndsFlat ==
    ASSUME BrainTypes, NEW s \in Symbols, NEW p, Tick(s, p),
           s \in DOMAIN watched, s \notin DOMAIN watched'
    PROVE  qty'[s] = 0 \/ killed'
<1>1. PICK v \in UNION {AfterSignal(s, u) : u \in AfterPrice(View(s))} :
          \/ \E c \in AfterClose(v) : Store(s, c)
          \/ watched' = watched \/ watched' = [watched EXCEPT ![s] = Checked(@, p)]
    BY Zenon DEF Tick
<1>2. PICK c \in AfterClose(v) : Store(s, c)
    BY <1>1
<1>3. v \in Views
    <2>1. PICK u \in AfterPrice(View(s)) : v \in AfterSignal(s, u)
        BY <1>1
    <2>2. u \in Views
        BY <2>1, ViewStore, AfterPriceType
    <2> QED
        BY <2>1, <2>2, AfterSignalType
<1>4. c.held = 0 \/ c.killed
    BY <1>2, <1>3, CloseHolds
<1>5. qty'[s] = c.held
    BY <1>2, StoredQuantity
<1>6. killed' = c.killed
    BY <1>2 DEF Store
<1> QED
    BY <1>4, <1>5, <1>6, Zenon

\* A watch ends with its position closed, or with a closing order that the kill
\* switch refuses.
THEOREM BrainWatchEndsFlat == Spec => WatchEndsFlat
<1>1. ASSUME BrainTypes, WatchesSound, Next, NEW s \in DOMAIN watched \ DOMAIN watched'
      PROVE  qty'[s] = 0 \/ killed'
    <2>1. s \in Symbols
        BY <1>1 DEF WatchesSound
    <2>2. PICK p \in Nat \ {0} : Tick(s, p)
        BY <1>1, OnlyTicksMonitor
    <2> QED
        BY <1>1, <2>1, <2>2, TickEndsFlat
<1>2. BrainTypes /\ WatchesSound /\ [Next]_vars =>
          [\A s \in DOMAIN watched \ DOMAIN watched' : qty'[s] = 0 \/ killed']_vars
    BY <1>1
<1> QED
    BY <1>2, BrainSound, PTL DEF Spec, WatchEndsFlat

\* While the brain is on, no price of a watched symbol goes past the monitor.
THEOREM BrainChecksEveryTick == Spec => EveryTickIsChecked
<1>1. ASSUME BrainTypes, WatchesSound, Next, enabled = TRUE,
             NEW s \in DOMAIN watched \cap DOMAIN watched', ltp'[s] # ltp[s]
      PROVE  watched'[s].current_price = ltp'[s]
    <2>1. s \in Symbols /\ watched[s] \in Watch
        BY <1>1 DEF WatchesSound, Sound
    <2>2. PICK p \in Nat \ {0} : Tick(s, p)
        BY <1>1, <2>1, OnlyTicksMonitor
    <2>3. ltp'[s] = p
        <3>1. ltp' = [ltp EXCEPT ![s] = p]
            BY <2>2, Zenon DEF Tick
        <3> QED
            BY <1>1, <2>1, <3>1 DEF BrainTypes
    <2>4. Watches(s)
        BY <1>1 DEF Watches
    <2>5. watched' = Unwatch(s) \/ watched' = [watched EXCEPT ![s] = Checked(@, p)]
        BY <2>2, <2>4, Zenon DEF Tick
    <2>6. watched' = [watched EXCEPT ![s] = Checked(@, p)]
        BY <1>1, <2>5 DEF Unwatch
    <2>7. watched'[s] = Checked(watched[s], p)
        BY <2>6
    <2>8. Checked(watched[s], p).current_price = p
        BY <2>1, PricedFields, TrailedFields DEF Checked
    <2> QED
        BY <2>3, <2>7, <2>8
<1>2. BrainTypes /\ WatchesSound /\ [Next]_vars =>
          [\A s \in DOMAIN watched \cap DOMAIN watched' :
              enabled /\ ltp'[s] # ltp[s] => watched'[s].current_price = ltp'[s]]_vars
    <2>1. ASSUME BrainTypes, WatchesSound, Next,
                 NEW s \in DOMAIN watched \cap DOMAIN watched', enabled, ltp'[s] # ltp[s]
          PROVE  watched'[s].current_price = ltp'[s]
        <3>1. enabled = TRUE
            BY <2>1 DEF BrainTypes
        <3> QED
            BY <1>1, <2>1, <3>1
    <2> QED
        BY <2>1
<1> QED
    BY <1>2, BrainSound, PTL DEF Spec, EveryTickIsChecked

\* Prices post square-offs, orders and closes do not: a tick never takes one away.
LEMMA TickPosts ==
    ASSUME BrainTypes, NEW s \in Symbols, NEW p, Tick(s, p)
    PROVE  squareOffs' >= squareOffs /\ UNCHANGED tasks
<1>1. PICK v \in UNION {AfterSignal(s, u) : u \in AfterPrice(View(s))} :
          Store(s, v) \/ \E c \in AfterClose(v) : Store(s, c)
    BY Zenon DEF Tick
<1>2. PICK u \in AfterPrice(View(s)) : v \in AfterSignal(s, u)
    BY <1>1
<1>3. View(s) \in Views /\ u \in Views /\ v \in Views
    BY <1>2, ViewStore, AfterPriceType, AfterSignalType
<1>4. View(s).posts = squareOffs /\ squareOffs \in Nat
    BY DEF View, BrainTypes
<1>5. u.posts >= squareOffs
    <2>1. u = View(s) \/ u = [held |-> View(s).held, killed |-> TRUE, posts |-> View(s).posts + 1]
        BY <1>2, Zenon DEF AfterPrice
    <2> QED
        BY <1>4, <2>1
<1>6. v.posts = u.posts
    <2>1. v = u \/ \E n : v \in AfterOrder(u, n)
        BY <1>2, Zenon DEF AfterSignal
    <2>2. ASSUME NEW n, v \in AfterOrder(u, n)
          PROVE  v.posts = u.posts
        <3>1. \/ v = u
              \/ v = [held |-> u.held + n, killed |-> FALSE, posts |-> u.posts]
              \/ v = [held |-> u.held, killed |-> TRUE, posts |-> u.posts]
            BY <2>2, Zenon DEF AfterOrder
        <3> QED
            BY <3>1
    <2> QED
        BY <2>1, <2>2
<1>7. squareOffs' = v.posts
    <2>1. CASE Store(s, v)
        BY <2>1 DEF Store
    <2>2. CASE \E c \in AfterClose(v) : Store(s, c)
        <3>1. PICK c \in AfterClose(v) : Store(s, c)
            BY <2>2
        <3>2. c.posts = v.posts
            BY <1>3, CloseHolds
        <3> QED
            BY <3>1, <3>2 DEF Store
    <2> QED
        BY <1>1, <2>1, <2>2
<1>8. UNCHANGED tasks
    BY Zenon DEF Tick
<1> QED
    BY <1>5, <1>6, <1>7, <1>8

\* An order of a decision posts no square-off.
LEMMA DecidePosts ==
    ASSUME BrainTypes, Decide
    PROVE  UNCHANGED <<reviewing, squareOffs>>
<1> DEFINE s == Head(todo).symbol
<1>1. reviewing' = reviewing
    BY DEF Decide
<1>2. UNCHANGED squareOffs \/ \E d, n : Open(s, d, n)
    BY Zenon DEF Decide, Execute
<1>3. ASSUME NEW d, NEW n, Open(s, d, n)
      PROVE  squareOffs' = squareOffs
    <2>1. PICK v \in AfterOrder(View(s), n) : Store(s, v)
        BY <1>3, Zenon DEF Open
    <2>2. \/ v = View(s)
          \/ v = [held |-> View(s).held + n, killed |-> FALSE, posts |-> View(s).posts]
          \/ v = [held |-> View(s).held, killed |-> TRUE, posts |-> View(s).posts]
        BY <2>1, Zenon DEF AfterOrder
    <2>3. v.posts = View(s).posts /\ View(s).posts = squareOffs
        BY <2>2 DEF View
    <2> QED
        BY <2>1, <2>3 DEF Store
<1> QED
    BY <1>1, <1>2, <1>3

\* A review, however late its answer, and the posted square-off close positions:
\* they never open or reverse one.
THEOREM BrainLateClosersOnlyClose == Spec => LateClosersOnlyClose
<1>1. ASSUME BrainTypes, Next, reviewing' \subseteq reviewing,
             <<reviewing, squareOffs>>' # <<reviewing, squareOffs>>, squareOffs' <= squareOffs,
             NEW x \in Symbols
      PROVE  qty'[x] \in {qty[x], 0}
    <2>1. ASSUME NEW t \in Ticks, Tick(t[1], t[2])
          PROVE  FALSE
        <3>1. t[1] \in Symbols
            BY TicksAssumption
        <3>2. squareOffs' >= squareOffs /\ UNCHANGED tasks
            BY <1>1, <2>1, <3>1, TickPosts
        <3>3. squareOffs' \in Nat /\ squareOffs \in Nat
            BY <1>1, TypesStep DEF BrainTypes
        <3> QED
            BY <1>1, <3>2, <3>3 DEF tasks
    <2>2. ASSUME Decide
          PROVE  FALSE
        BY <1>1, <2>2, DecidePosts
    <2>3. ASSUME NEW s \in Symbols, Review(s) \/ ManualClose(s)
          PROVE  qty'[x] \in {qty[x], 0}
        <3>1. UNCHANGED qty \/ \E c \in AfterClose(View(s)) : Store(s, c)
            BY <2>3, Zenon DEF Review, ManualClose
        <3>2. ASSUME NEW c \in AfterClose(View(s)), Store(s, c)
              PROVE  qty'[x] \in {qty[x], 0}
            <4>1. View(s) \in Views /\ View(s).held = qty[s]
                BY <1>1, ViewStore DEF View
            <4>2. c.held \in {qty[s], 0}
                BY <4>1, CloseHolds
            <4> QED
                BY <1>1, <3>2, <4>2, StoredQuantity
        <3> QED
            BY <3>1, <3>2
    <2>4. ASSUME RunSquareOff \/ ManualKill
          PROVE  qty'[x] = 0
        BY <2>4 DEF RunSquareOff, ManualKill, PostedSquareOff, SquareOffAll, CloseAll
    <2>5. ASSUME \/ StartCycle \/ StartReview \/ ResetKillSwitch \/ ToggleBrain \/ TimePasses
          PROVE  UNCHANGED qty
        BY <2>5, Zenon DEF StartCycle, StartReview, ResetKillSwitch, ClearSwitch, ToggleBrain,
                   TimePasses, books
    <2> QED
        BY <1>1, <2>1, <2>2, <2>3, <2>4, <2>5 DEF Next
<1>2. BrainTypes /\ [Next]_vars =>
          [reviewing' \subseteq reviewing /\ <<reviewing, squareOffs>>' # <<reviewing, squareOffs>>
             /\ squareOffs' <= squareOffs => \A s \in Symbols : qty'[s] \in {qty[s], 0}]_vars
    BY <1>1
<1> QED
    BY <1>2, BrainSound, PTL DEF Spec, LateClosersOnlyClose
=============================================================================

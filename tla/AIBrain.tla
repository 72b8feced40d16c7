------------------------------- MODULE AIBrain -------------------------------
(***************************************************************************)
(* The AI brain of server/termux_server.py and everything that trades      *)
(* besides it: the decision cycle, the trade monitor with its executor,    *)
(* the position guardian, the strategies, the operator and the kill        *)
(* switch, all acting on the positions of one broker.                      *)
(*                                                                         *)
(* A handler is one step unless it awaits an LLM.  The decision cycle      *)
(* awaits one per entry of its shortlist and the guardian one per open     *)
(* position: what they read before is in todo and reviewing, and anything  *)
(* may happen before they use it.                                          *)
(*                                                                         *)
(* Of the broker this module keeps what BrokerView does: the quantities,   *)
(* the prices and the kill switch.  PaperBroker has the rest.              *)
(***************************************************************************)
EXTENDS TradeMonitor, Sequences, FiniteSets

CONSTANTS
    Ticks,         \* the <<symbol, price>> pairs the feed can deliver
    Answers,       \* what an LLM can answer to the decision prompt
    Sizes,         \* quantities the brain can ask for
    Trades,        \* signed quantities a strategy can trade on a bar
    MaxPositions,  \* MAX_CONCURRENT_POSITIONS
    MaxPerCycle,   \* AI_BRAIN_MAX_PER_CYCLE
    MaxQty,        \* bound: the largest position
    MaxSquareOffs  \* bound: square-offs waiting in the event loop

ASSUME TicksAssumption == Ticks \subseteq Symbols \X (Nat \ {0})
ASSUME AnswersAssumption ==
    Answers \subseteq [direction : Directions \cup {"flat"}, conviction : 0 .. 100,
                       stop_loss_pct : Int, take_profit_pct : Int]
ASSUME TradingAssumption ==
    /\ Sizes \subseteq Nat \ {0}
    /\ Trades \subseteq Int \ {0}
    /\ MaxPositions \in Nat /\ MaxPerCycle \in Nat /\ MaxQty \in Nat /\ MaxSquareOffs \in Nat

VARIABLES
    qty,           \* quantity of each position, negative when short
    ltp,           \* last price, or NoPrice
    killed,        \* _killed
    squareOffs,    \* square-offs posted to the event loop and not yet run
    enabled,       \* _ai_brain_enabled
    todo,          \* shortlist entries of the running cycle not decided yet
    reviewing      \* positions the guardian has asked an LLM about

books == <<qty, ltp, killed, squareOffs>>
tasks == <<enabled, todo, reviewing>>
vars  == <<qty, ltp, killed, squareOffs, watched, enabled, todo, reviewing>>

INSTANCE BrokerView

OpenSymbols == {s \in Symbols : qty[s] # 0}

-----------------------------------------------------------------------------
(* What handlers make of a view of the broker                                *)

\* Fault: a position is always closed by selling.
AfterClose_Sells(v) ==
    IF v.held = 0 THEN {v} ELSE AfterOrder(v, IF v.held > 0 THEN -v.held ELSE v.held)

\* A position that is read and closed in one step, if there is one.
AfterClose(v) == IF v.held = 0 THEN {v} ELSE AfterOrder(v, -v.held)

\* A bar completed by the tick of a symbol that has ticked before may make a
\* strategy trade (one, here).
AfterSignal(s, v) ==
    {v} \cup UNION {AfterOrder(v, n) :
                       n \in {m \in Trades : ltp[s] # NoPrice /\ v.held + m \in -MaxQty .. MaxQty}}

-----------------------------------------------------------------------------
(* _on_tick: price, bars and signals, then the monitor                       *)

\* Fault: the switch silences the monitor as well.
Watches_UnlessKilled(s) == enabled /\ ~killed /\ s \in DOMAIN watched

Watches(s) == enabled /\ s \in DOMAIN watched

\* Fault: the exit closes the quantity held before the bar was handled.
Tick_StaleQuantity(s, p) ==
    /\ ltp' = [ltp EXCEPT ![s] = p]
    /\ \E v \in UNION {AfterSignal(s, u) : u \in AfterPrice(View(s))} :
        IF Watches(s) /\ Exits(Checked(watched[s], p))
        THEN /\ \E c \in AfterOrder(v, -qty[s]) : Store(s, c)
             /\ watched' = Unwatch(s)
        ELSE /\ Store(s, v)
             /\ watched' = IF Watches(s)
                           THEN [watched EXCEPT ![s] = Checked(@, p)] ELSE watched
    /\ UNCHANGED tasks

Tick(s, p) ==
    /\ ltp' = [ltp EXCEPT ![s] = p]
    /\ \E v \in UNION {AfterSignal(s, u) : u \in AfterPrice(View(s))} :
        IF Watches(s) /\ Exits(Checked(watched[s], p))
        THEN \* executor.close: the watch ends whatever the broker answers
             /\ \E c \in AfterClose(v) : Store(s, c)
             /\ watched' = Unwatch(s)
        ELSE /\ Store(s, v)
             /\ watched' = IF Watches(s)
                           THEN [watched EXCEPT ![s] = Checked(@, p)] ELSE watched
    /\ UNCHANGED tasks

-----------------------------------------------------------------------------
(* _run_ai_brain: scan and shortlist, then one decision after another        *)

\* ShortlistEntry
Entry == [symbol : Symbols, direction : Directions]

\* _hard_check of the shortlister for a scanned symbol (H5, H6, H7).
Passes(s, direction) ==
    /\ ~killed
    /\ qty[s] = 0 => Cardinality(OpenSymbols) < MaxPositions
    /\ ~(qty[s] > 0 /\ direction = "long")
    /\ ~(qty[s] < 0 /\ direction = "short")

\* The scanner may find something for any symbols (H1 to H4).  The entries that
\* pass are ranked by a score, in any order, and cut at MaxPerCycle.
StartCycle ==
    /\ enabled /\ todo = << >>
    /\ \E n \in 1 .. MaxPerCycle : \E list \in [1 .. n -> Entry] :
        /\ \A i, j \in 1 .. n : list[i].symbol = list[j].symbol => i = j
        /\ \A i \in 1 .. n : Passes(list[i].symbol, list[i].direction)
        /\ todo' = list
    /\ UNCHANGED <<books, watched, enabled, reviewing>>

Clamp(n, low, high) == IF n < low THEN low ELSE IF n > high THEN high ELSE n

Flat == [direction |-> "flat"]

\* Fault: the target is clamped only from above.
Validated_NoRatio(a) ==
    LET sl == Clamp(a.stop_loss_pct, 3, 20)
    IN  IF a.conviction < 72 \/ a.direction = "flat" THEN Flat
        ELSE [direction |-> a.direction, stop_loss_pct |-> sl,
              take_profit_pct |-> Clamp(a.take_profit_pct, 6, 40)]

\* _validated_decision: below the threshold the decision is flat; the target is
\* at least twice the stop.
Validated(a) ==
    LET sl == Clamp(a.stop_loss_pct, 3, 20)
    IN  IF a.conviction < 72 \/ a.direction = "flat" THEN Flat
        ELSE [direction |-> a.direction, stop_loss_pct |-> sl,
              take_profit_pct |-> Clamp(a.take_profit_pct, 2 * sl, 40)]

\* _rules_decision, when the LLM is not asked or its answer is of no use: flat
\* unless the scanner was confident.
RulesPlan(e) == [direction |-> e.direction, stop_loss_pct |-> 10, take_profit_pct |-> 20]

Decisions(e) == {Validated(a) : a \in Answers} \cup {RulesPlan(e), Flat}

\* Fault: the monitor starts to watch whatever the broker answers.
Open_WatchesRefused(s, plan, n) ==
    \E v \in AfterOrder(View(s), n) :
        Store(s, v) /\ watched' = Watching(s, NewWatch(plan, ltp[s]))

\* The broker refuses, or fills and the monitor starts to watch.
Open(s, plan, n) ==
    \E v \in AfterOrder(View(s), n) :
        /\ Store(s, v)
        /\ watched' = IF v.held = qty[s] THEN watched ELSE Watching(s, NewWatch(plan, ltp[s]))

\* Fault: a symbol under watch is ordered again.
Execute_Again(s, plan) ==
    \E size \in Sizes :
        LET n == IF plan.direction = "long" THEN size ELSE -size
        IN  qty[s] + n \in -MaxQty .. MaxQty /\ Open(s, plan, n)

\* ActionExecutor.execute, for a decision that is not flat.
Execute(s, plan) ==
    /\ s \notin DOMAIN watched
    /\ \E size \in Sizes :
        LET n == IF plan.direction = "long" THEN size ELSE -size
        IN  qty[s] + n \in -MaxQty .. MaxQty /\ Open(s, plan, n)

\* The LLM has answered for the first entry.
Decide ==
    /\ todo # << >>
    /\ todo' = Tail(todo)
    /\ \E d \in Decisions(Head(todo)) :
        LET s == Head(todo).symbol
        IN  \/ /\ d = Flat \/ s \in DOMAIN watched \/ ltp[s] = NoPrice
               /\ UNCHANGED <<qty, killed, squareOffs, watched>>
            \/ d # Flat /\ ltp[s] # NoPrice /\ Execute(s, d)
    /\ UNCHANGED <<ltp, enabled, reviewing>>

-----------------------------------------------------------------------------
(* The guardian                                                              *)

StartReview ==
    /\ enabled /\ ~killed /\ reviewing = {}
    /\ reviewing' = OpenSymbols
    /\ UNCHANGED <<books, watched, enabled, todo>>

\* An LLM has answered about s.  A FULL_EXIT, when auto_execute is on (an operator's
\* switch, on or off at any time), closes the position found by then; the monitor
\* is not told.
Review(s) ==
    /\ s \in reviewing
    /\ reviewing' = reviewing \ {s}
    /\ \/ \E v \in AfterClose(View(s)) : Store(s, v)
       \/ UNCHANGED <<qty, killed, squareOffs>>
    /\ UNCHANGED <<ltp, watched, enabled, todo>>

-----------------------------------------------------------------------------
(* The event loop and the operator                                           *)

RunSquareOff == PostedSquareOff /\ UNCHANGED <<watched, tasks>>

\* /api/kill, and /api/position/close for all positions.
ManualKill == SquareOffAll /\ UNCHANGED <<watched, tasks>>

\* /api/position/close for one symbol.
ManualClose(s) ==
    /\ \E v \in AfterClose(View(s)) : Store(s, v)
    /\ UNCHANGED <<ltp, watched, tasks>>

ResetKillSwitch ==
    /\ squareOffs < MaxSquareOffs
    /\ ClearSwitch
    /\ UNCHANGED <<watched, tasks>>

ToggleBrain ==
    /\ enabled' = ~enabled
    /\ UNCHANGED <<books, watched, todo, reviewing>>

TimePasses == GrowOlder /\ UNCHANGED <<books, tasks>>

-----------------------------------------------------------------------------

Init ==
    /\ BrokerInit
    /\ MonitorInit
    /\ enabled = TRUE
    /\ todo = << >>
    /\ reviewing = {}

Next ==
    \/ \E t \in Ticks : Tick(t[1], t[2])
    \/ StartCycle
    \/ Decide
    \/ StartReview
    \/ \E s \in Symbols : Review(s) \/ ManualClose(s)
    \/ RunSquareOff
    \/ ManualKill
    \/ ResetKillSwitch
    \/ ToggleBrain
    \/ TimePasses

Spec == Init /\ [][Next]_vars

-----------------------------------------------------------------------------
(* Safety                                                                    *)

\* Every variable holds a value of its type; the shortlist has distinct symbols.
TypeOK ==
    /\ qty \in [Symbols -> Int]
    /\ ltp \in [Symbols -> Nat]
    /\ killed \in BOOLEAN /\ enabled \in BOOLEAN
    /\ squareOffs \in Nat
    /\ WatchedTypeOK
    /\ todo \in Seq(Entry) /\ Len(todo) <= MaxPerCycle
    /\ \A i, j \in DOMAIN todo : todo[i].symbol = todo[j].symbol => i = j
    /\ reviewing \subseteq Symbols

\* While the brain is on, a price that arrives for a watched symbol is checked:
\* the watch ends or has seen the price, whatever strategies and the kill switch
\* do in the same step.  With NoExitMissed: no stop is passed over.
EveryTickIsChecked ==
    [][\A s \in DOMAIN watched \cap DOMAIN watched' :
          enabled /\ ltp'[s] # ltp[s] => watched'[s].current_price = ltp'[s]]_vars

\* A watch ends with its position closed; the only other way is a closing order
\* that the kill switch refuses.
WatchEndsFlat ==
    [][\A s \in DOMAIN watched \ DOMAIN watched' : qty'[s] = 0 \/ killed']_vars

\* A review of the guardian, however late its answer, and the posted square-off
\* leave each quantity as it is or make it zero: they never open or reverse.
LateClosersOnlyClose ==
    [][reviewing' \subseteq reviewing /\ <<reviewing, squareOffs>>' # <<reviewing, squareOffs>>
         /\ squareOffs' <= squareOffs => \A s \in Symbols : qty'[s] \in {qty[s], 0}]_vars

\* Once the kill switch is on, nothing that was in flight (a signal, a shortlist,
\* a review) changes a position other than to close it, and no watch begins.
KilledOnlyFlattens ==
    [][killed => /\ \A s \in Symbols : qty'[s] \in {qty[s], 0}
                 /\ DOMAIN watched' \subseteq DOMAIN watched]_vars
=============================================================================

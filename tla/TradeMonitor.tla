----------------------------- MODULE TradeMonitor -----------------------------
(***************************************************************************)
(* The watch that ai_brain/trade_monitor.py keeps over the positions the   *)
(* AI brain opened: a hard stop, a target, a trailing stop and a limit on  *)
(* the time held, all evaluated when a tick of the symbol arrives.         *)
(*                                                                         *)
(* Percentages are per mille.  A level (stop, target, trailing stop) is a  *)
(* price times Scale, so that every comparison the code makes with floats  *)
(* is an exact comparison of integers here.                                *)
(***************************************************************************)
EXTENDS Integers

CONSTANTS
    Symbols,   \* instruments
    MaxHold    \* MAX_HOLD_MINUTES, in steps of the clock

ASSUME MaxHoldAssumption == MaxHold \in Nat \ {0}

VARIABLE
    watched    \* TradeMonitor._positions: its domain is monitored_symbols

Scale == 2000
Directions == {"long", "short"}

\* What an actionable decision asks the monitor to watch (the ranges are those
\* decision_engine.py clamps to).
Plan == {plan \in [direction : Directions, stop_loss_pct : 3 .. 20, take_profit_pct : 6 .. 40] :
            plan.take_profit_pct >= 2 * plan.stop_loss_pct}

\* a is better (no worse) than b for a position of direction d.
Better(d, a, b)  == IF d = "long" THEN a > b ELSE a < b
NoWorse(d, a, b) == IF d = "long" THEN a >= b ELSE a <= b

\* The level a given number of half per milles of price p in favour of d.
Level(d, p, halves) == IF d = "long" THEN p * (Scale + halves) ELSE p * (Scale - halves)

StopLevel(w)   == Level(w.direction, w.entry_price, -2 * w.stop_loss_pct)
TargetLevel(w) == Level(w.direction, w.entry_price, 2 * w.take_profit_pct)
TrailLevel(w)  == Level(w.direction, w.trail_extreme, -w.stop_loss_pct)

\* MonitoredPosition, as add creates it at price p.
NewWatch(plan, p) ==
    [direction |-> plan.direction, entry_price |-> p,
     stop_loss_pct |-> plan.stop_loss_pct, take_profit_pct |-> plan.take_profit_pct,
     trail_activated |-> FALSE, trail_extreme |-> p,
     trail_stop_price |-> Level(plan.direction, p, -2 * plan.stop_loss_pct),
     current_price |-> p, age |-> 0]

-----------------------------------------------------------------------------
(* check: update_price, activate_trail, update_trail, then the exits         *)

Priced(w, p) ==
    [w EXCEPT !.current_price = p,
              !.trail_extreme = IF Better(w.direction, p, @) THEN p ELSE @]

\* Fault: the trail starts at a quarter of the way to the target.
TrailTriggered_Early(w) ==
    NoWorse(w.direction, w.current_price * Scale,
            Level(w.direction, w.entry_price, w.take_profit_pct \div 2))

\* The profit is at least TRAIL_TRIGGER_FRAC of the way to the target.
TrailTriggered(w) ==
    NoWorse(w.direction, w.current_price * Scale,
            Level(w.direction, w.entry_price, w.take_profit_pct))

\* Fault: the stop follows the price, not its extreme.
Trailed_Loosens(w) ==
    IF w.trail_activated \/ TrailTriggered(w)
    THEN [w EXCEPT !.trail_activated = TRUE,
                   !.trail_stop_price = Level(w.direction, w.current_price, -w.stop_loss_pct)]
    ELSE w

Trailed(w) ==
    IF ~w.trail_activated /\ TrailTriggered(w)
    THEN [w EXCEPT !.trail_activated = TRUE, !.trail_stop_price = TrailLevel(w)]
    ELSE IF w.trail_activated /\ Better(w.direction, TrailLevel(w), w.trail_stop_price)
    THEN [w EXCEPT !.trail_stop_price = TrailLevel(w)]
    ELSE w

Checked(w, p) == Trailed(Priced(w, p))

StopHit(w)   == NoWorse(w.direction, StopLevel(w), w.current_price * Scale)
TargetHit(w) == NoWorse(w.direction, w.current_price * Scale, TargetLevel(w))
TrailHit(w)  == w.trail_activated /\ NoWorse(w.direction, w.trail_stop_price, w.current_price * Scale)
Expired(w)   == w.age >= MaxHold

\* Fault: an active trail takes the place of the target.
Exits_TrailInsteadOfTarget(w) ==
    StopHit(w) \/ (~w.trail_activated /\ TargetHit(w)) \/ TrailHit(w) \/ Expired(w)

\* check returns an ExitSignal.  Which of the reasons it names first is left out.
Exits(w) == StopHit(w) \/ TargetHit(w) \/ TrailHit(w) \/ Expired(w)

-----------------------------------------------------------------------------
(* The monitor by itself: what its callers can do to it                      *)

Unwatch(s)   == [x \in DOMAIN watched \ {s} |-> watched[x]]
Watching(s, w) == [x \in DOMAIN watched \cup {s} |-> IF x = s THEN w ELSE watched[x]]

\* One step older; an age past MaxHold is not told from MaxHold.
Aged(w) == [w EXCEPT !.age = IF @ < MaxHold THEN @ + 1 ELSE @]
GrowOlder == watched' = [s \in DOMAIN watched |-> Aged(watched[s])]

MonitorInit == watched = << >>

Fresh(w) ==
    LET plan == [direction |-> w.direction, stop_loss_pct |-> w.stop_loss_pct,
                 take_profit_pct |-> w.take_profit_pct]
    IN  plan \in Plan /\ w.entry_price \in Nat \ {0} /\ w = NewWatch(plan, w.entry_price)

\* A caller adds a symbol only when it is not monitored yet.
Add(s) ==
    /\ s \notin DOMAIN watched
    /\ DOMAIN watched' = DOMAIN watched \cup {s}
    /\ Fresh(watched'[s])
    /\ watched' = Watching(s, watched'[s])

\* A tick of s without an exit, or with one: every caller of check removes the
\* symbol at once when there is an exit, and for every watch some price is one.
Check(s) ==
    /\ s \in DOMAIN watched
    /\ \/ /\ s \in DOMAIN watched' /\ watched'[s].current_price \in Nat \ {0}
          /\ LET w == Checked(watched[s], watched'[s].current_price)
             IN  ~Exits(w) /\ watched' = [watched EXCEPT ![s] = w]
       \/ watched' = Unwatch(s)

MonitorNext ==
    /\ watched' # watched
    /\ (\E s \in Symbols : Add(s) \/ Check(s)) \/ GrowOlder

\* Every watch lives as this module says: opened on an unwatched symbol, moved
\* by its own ticks only, left alone by the rest of the program until its exit.
MonitorSpec == MonitorInit /\ [][MonitorNext]_watched

-----------------------------------------------------------------------------
(* Safety                                                                    *)

Watch == [direction : Directions, entry_price : Nat \ {0}, stop_loss_pct : 3 .. 20,
          take_profit_pct : 6 .. 40, trail_activated : BOOLEAN, trail_extreme : Nat \ {0},
          trail_stop_price : Nat, current_price : Nat \ {0}, age : 0 .. MaxHold]

\* The table holds watches, of known symbols, each with a target at least twice
\* as far as its stop.
WatchedTypeOK ==
    /\ DOMAIN watched \subseteq Symbols
    /\ \A s \in DOMAIN watched :
        watched[s] \in Watch /\ watched[s].take_profit_pct >= 2 * watched[s].stop_loss_pct

\* No exit is missed: what is still watched was, at the last price checked,
\* strictly between its stop and its target, and on the safe side of an active
\* trailing stop.
NoExitMissed ==
    \A s \in DOMAIN watched :
        ~StopHit(watched[s]) /\ ~TargetHit(watched[s]) /\ ~TrailHit(watched[s])

\* The trailing stop is where the header says, half the stop distance behind
\* the best price ("trail_high x (1 - sl_pct/2)", trade_monitor.py:12), and it
\* is on the profitable side of the entry as soon as it is active.  The second
\* part rests on the decision engine's clamp of the target to twice the stop.
TrailLocksInProfit ==
    \A s \in DOMAIN watched :
        LET w == watched[s]
        IN  w.trail_activated =>
                /\ w.trail_stop_price = TrailLevel(w)
                /\ Better(w.direction, w.trail_stop_price, w.entry_price * Scale)

\* While a symbol stays watched its trailing stop never moves against the
\* position, is never switched off, and entry, direction, stop and target stay.
StopNeverLoosens ==
    [][\A s \in DOMAIN watched \cap DOMAIN watched' :
          LET w == watched[s]
              v == watched'[s]
          IN  /\ v.direction = w.direction /\ v.entry_price = w.entry_price
              /\ StopLevel(v) = StopLevel(w) /\ TargetLevel(v) = TargetLevel(w)
              /\ w.trail_activated => v.trail_activated
              /\ NoWorse(w.direction, v.trail_stop_price, w.trail_stop_price)]_watched
=============================================================================

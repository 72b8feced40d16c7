-------------------------- MODULE TradeMonitorProofs --------------------------
(***************************************************************************)
(* Theorems about the trade monitor, for every set of symbols, every price *)
(* and every holding limit.                                                *)
(***************************************************************************)
EXTENDS TradeMonitor, TLAPS

-----------------------------------------------------------------------------
(* Arithmetic of levels                                                      *)

\* A product grows with its second factor.
LEMMA TimesMonotone ==
    ASSUME NEW a \in Nat, NEW b \in Int, NEW c \in Int, b <= c
    PROVE  a * b <= a * c
<1>1. c - b \in Nat
    OBVIOUS
<1>2. a * (c - b) \in Nat
    BY <1>1
<1>3. a * c = a * b + a * (c - b)
    OBVIOUS
<1>4. a * b \in Int /\ a * c \in Int
    OBVIOUS
<1> QED
    BY <1>2, <1>3, <1>4

\* A product with a positive first factor grows strictly with its second factor.
LEMMA TimesStrict ==
    ASSUME NEW a \in Nat \ {0}, NEW b \in Int, NEW c \in Int, b < c
    PROVE  a * b < a * c
<1>1. a * (b + 1) <= a * c
    BY TimesMonotone
<1>2. a * (b + 1) = a * b + a
    OBVIOUS
<1>3. a * b \in Int /\ a * c \in Int
    OBVIOUS
<1> QED
    BY <1>1, <1>2, <1>3

\* A long trade that is half way to a target of at least twice its stop can give
\* back half the stop distance and still be above its entry.
LEMMA ProfitLong ==
    ASSUME NEW e \in Nat \ {0}, NEW x \in Nat \ {0}, NEW sl \in 3 .. 20, NEW tp \in 6 .. 40,
           tp >= 2 * sl, x * 2000 >= e * (2000 + tp)
    PROVE  x * (2000 - sl) > e * 2000
<1> DEFINE r == 2000 - sl
<1>1. r \in Nat
    OBVIOUS
<1>2. e * (2000 + tp) >= e * (2000 + 2 * sl)
    BY TimesMonotone
<1>3. x * 2000 >= e * (2000 + 2 * sl)
    <2>1. e * (2000 + tp) \in Int /\ e * (2000 + 2 * sl) \in Int /\ x * 2000 \in Int
        OBVIOUS
    <2> QED
        BY <1>2, <2>1
<1>4. r * (x * 2000) >= r * (e * (2000 + 2 * sl))
    <2>1. x * 2000 \in Int /\ e * (2000 + 2 * sl) \in Int
        OBVIOUS
    <2> HIDE DEF r
    <2> QED
        BY <1>1, <1>3, <2>1, TimesMonotone
<1>5. (2000 + 2 * sl) * r > 4000000
    <2>1. (2000 + 2 * sl) * r = 4000000 + sl * (2000 - 2 * sl)
        OBVIOUS
    <2>2. sl * 0 < sl * (2000 - 2 * sl)
        BY TimesStrict
    <2> QED
        BY <2>1, <2>2
<1>6. e * ((2000 + 2 * sl) * r) > e * 4000000
    <2>1. (2000 + 2 * sl) * r \in Int
        OBVIOUS
    <2> QED
        BY <1>5, <2>1, TimesStrict
<1>7. r * (e * (2000 + 2 * sl)) = e * ((2000 + 2 * sl) * r)
    OBVIOUS
<1>8. r * (x * 2000) = 2000 * (x * r)
    OBVIOUS
<1>9. e * 4000000 = 2000 * (e * 2000)
    OBVIOUS
<1>10. x * r \in Int /\ e * 2000 \in Int /\ e * ((2000 + 2 * sl) * r) \in Int
    OBVIOUS
<1> QED
    BY <1>4, <1>6, <1>7, <1>8, <1>9, <1>10

\* The same for a short trade.
LEMMA ProfitShort ==
    ASSUME NEW e \in Nat \ {0}, NEW x \in Nat \ {0}, NEW sl \in 3 .. 20, NEW tp \in 6 .. 40,
           tp >= 2 * sl, x * 2000 <= e * (2000 - tp)
    PROVE  x * (2000 + sl) < e * 2000
<1> DEFINE r == 2000 + sl
<1>1. r \in Nat
    OBVIOUS
<1>2. e * (2000 - tp) <= e * (2000 - 2 * sl)
    BY TimesMonotone
<1>3. x * 2000 <= e * (2000 - 2 * sl)
    <2>1. e * (2000 - tp) \in Int /\ e * (2000 - 2 * sl) \in Int /\ x * 2000 \in Int
        OBVIOUS
    <2> QED
        BY <1>2, <2>1
<1>4. r * (x * 2000) <= r * (e * (2000 - 2 * sl))
    <2>1. x * 2000 \in Int /\ e * (2000 - 2 * sl) \in Int
        OBVIOUS
    <2> HIDE DEF r
    <2> QED
        BY <1>1, <1>3, <2>1, TimesMonotone
<1>5. (2000 - 2 * sl) * r < 4000000
    <2>1. (2000 - 2 * sl) * r = 4000000 - sl * (2000 + 2 * sl)
        OBVIOUS
    <2>2. sl * 0 < sl * (2000 + 2 * sl)
        BY TimesStrict
    <2> QED
        BY <2>1, <2>2
<1>6. e * ((2000 - 2 * sl) * r) < e * 4000000
    <2>1. (2000 - 2 * sl) * r \in Int
        OBVIOUS
    <2> QED
        BY <1>5, <2>1, TimesStrict
<1>7. r * (e * (2000 - 2 * sl)) = e * ((2000 - 2 * sl) * r)
    OBVIOUS
<1>8. r * (x * 2000) = 2000 * (x * r)
    OBVIOUS
<1>9. e * 4000000 = 2000 * (e * 2000)
    OBVIOUS
<1>10. x * r \in Int /\ e * 2000 \in Int /\ e * ((2000 - 2 * sl) * r) \in Int
    OBVIOUS
<1> QED
    BY <1>4, <1>6, <1>7, <1>8, <1>9, <1>10

-----------------------------------------------------------------------------
(* The inductive invariant of one watch                                      *)

\* The state of a trailing stop, against the best price seen.
TrailState(w) ==
    /\ w.trail_activated =>
         /\ w.trail_stop_price = TrailLevel(w)
         /\ NoWorse(w.direction, w.trail_extreme * Scale,
                    Level(w.direction, w.entry_price, w.take_profit_pct))
    /\ ~w.trail_activated => w.trail_stop_price = StopLevel(w)

\* The extreme is the best price since the entry.
ExtremeIsBest(w) ==
    /\ NoWorse(w.direction, w.trail_extreme, w.current_price)
    /\ NoWorse(w.direction, w.trail_extreme, w.entry_price)

Sound(w) == w \in Watch /\ w.take_profit_pct >= 2 * w.stop_loss_pct /\ ExtremeIsBest(w) /\ TrailState(w)

\* What a step may do to the levels of a watch.
Holds(w, v) ==
    /\ v.direction = w.direction /\ v.entry_price = w.entry_price
    /\ StopLevel(v) = StopLevel(w) /\ TargetLevel(v) = TargetLevel(w)
    /\ w.trail_activated => v.trail_activated
    /\ NoWorse(w.direction, v.trail_stop_price, w.trail_stop_price)

\* A level is an integer, and a level of a price better by no less is no worse.
LEMMA LevelMonotone ==
    ASSUME NEW d \in Directions, NEW p \in Nat \ {0}, NEW q \in Nat \ {0},
           NEW h \in -40 .. 80, NoWorse(d, q, p)
    PROVE  /\ Level(d, p, h) \in Nat
           /\ NoWorse(d, Level(d, q, h), Level(d, p, h))
<1> DEFINE up == 2000 + h
           down == 2000 - h
<1>1. up \in Nat /\ down \in Nat
    OBVIOUS
<1>2. /\ p * up = up * p /\ q * up = up * q
      /\ p * down = down * p /\ q * down = down * q
    OBVIOUS
<1>3. CASE d = "long"
    <2>1. Level(d, p, h) = up * p /\ Level(d, q, h) = up * q
        BY <1>2, <1>3 DEF Level, Scale
    <2>2. p <= q
        BY <1>3 DEF NoWorse
    <2> HIDE DEF up
    <2>3. up * p <= up * q
        BY <1>1, <2>2, TimesMonotone
    <2>4. up * p \in Nat /\ up * q \in Nat
        BY <1>1
    <2> QED
        BY <1>3, <2>1, <2>3, <2>4 DEF NoWorse
<1>4. CASE d = "short"
    <2>1. Level(d, p, h) = down * p /\ Level(d, q, h) = down * q
        BY <1>2, <1>4 DEF Level, Scale
    <2>2. q <= p
        BY <1>4 DEF NoWorse
    <2> HIDE DEF down
    <2>3. down * q <= down * p
        BY <1>1, <2>2, TimesMonotone
    <2>4. down * p \in Nat /\ down * q \in Nat
        BY <1>1
    <2> QED
        BY <1>4, <2>1, <2>3, <2>4 DEF NoWorse
<1> QED
    BY <1>3, <1>4 DEF Directions

\* A smaller number of half per milles gives a level that is no better.
LEMMA LevelOrder ==
    ASSUME NEW d \in Directions, NEW p \in Nat \ {0},
           NEW g \in -40 .. 80, NEW h \in -40 .. 80, g <= h
    PROVE  NoWorse(d, Level(d, p, h), Level(d, p, g))
<1>1. p * (2000 + g) <= p * (2000 + h) /\ p * (2000 - h) <= p * (2000 - g)
    BY TimesMonotone
<1>2. /\ p * (2000 + g) \in Int /\ p * (2000 + h) \in Int
      /\ p * (2000 - g) \in Int /\ p * (2000 - h) \in Int
    OBVIOUS
<1> QED
    BY <1>1, <1>2 DEF Level, NoWorse, Directions, Scale

\* NoWorse is transitive, and total with Better on integers.
LEMMA NoWorseOrder ==
    ASSUME NEW d \in Directions, NEW a \in Int, NEW b \in Int, NEW c \in Int
    PROVE  /\ NoWorse(d, a, b) /\ NoWorse(d, b, c) => NoWorse(d, a, c)
           /\ NoWorse(d, a, a)
           /\ Better(d, a, b) <=> ~NoWorse(d, b, a)
           /\ Better(d, a, b) => NoWorse(d, a, b)
           /\ NoWorse(d, a, b) /\ NoWorse(d, b, a) => a = b
BY DEF NoWorse, Better, Directions

-----------------------------------------------------------------------------
(* One check of one watch                                                    *)

\* The fields of a watch that has been given a price.
LEMMA PricedFields ==
    ASSUME NEW w \in Watch, NEW p \in Nat \ {0}
    PROVE  /\ Priced(w, p) \in Watch
           /\ Priced(w, p).current_price = p
           /\ Priced(w, p).trail_extreme =
                  IF Better(w.direction, p, w.trail_extreme) THEN p ELSE w.trail_extreme
           /\ Priced(w, p).direction = w.direction
           /\ Priced(w, p).entry_price = w.entry_price
           /\ Priced(w, p).stop_loss_pct = w.stop_loss_pct
           /\ Priced(w, p).take_profit_pct = w.take_profit_pct
           /\ Priced(w, p).trail_activated = w.trail_activated
           /\ Priced(w, p).trail_stop_price = w.trail_stop_price
           /\ Priced(w, p).age = w.age
BY DEF Priced, Watch

\* The levels a watch is measured against.
LEMMA LevelTypes ==
    ASSUME NEW w \in Watch
    PROVE  /\ w.direction \in Directions
           /\ StopLevel(w) \in Nat /\ TargetLevel(w) \in Nat /\ TrailLevel(w) \in Nat
           /\ Level(w.direction, w.entry_price, w.take_profit_pct) \in Nat
           /\ w.trail_stop_price \in Nat
           /\ w.current_price * Scale \in Nat /\ w.trail_extreme * Scale \in Nat
<1>1. /\ w.direction \in Directions /\ w.entry_price \in Nat \ {0} /\ w.trail_extreme \in Nat \ {0}
      /\ w.current_price \in Nat \ {0} /\ w.trail_stop_price \in Nat
      /\ w.stop_loss_pct \in 3 .. 20 /\ w.take_profit_pct \in 6 .. 40
    BY DEF Watch
<1>2. /\ -2 * w.stop_loss_pct \in -40 .. 80 /\ 2 * w.take_profit_pct \in -40 .. 80
      /\ -w.stop_loss_pct \in -40 .. 80 /\ w.take_profit_pct \in -40 .. 80
    BY <1>1
<1>3. NoWorse(w.direction, w.entry_price, w.entry_price) /\ NoWorse(w.direction, w.trail_extreme, w.trail_extreme)
    BY <1>1, NoWorseOrder
<1>4. /\ Level(w.direction, w.entry_price, -2 * w.stop_loss_pct) \in Nat
      /\ Level(w.direction, w.entry_price, 2 * w.take_profit_pct) \in Nat
      /\ Level(w.direction, w.trail_extreme, -w.stop_loss_pct) \in Nat
      /\ Level(w.direction, w.entry_price, w.take_profit_pct) \in Nat
    BY <1>1, <1>2, <1>3, LevelMonotone
<1>5. w.current_price * Scale \in Nat /\ w.trail_extreme * Scale \in Nat
    BY <1>1 DEF Scale
<1> QED
    BY <1>1, <1>4, <1>5 DEF StopLevel, TargetLevel, TrailLevel

\* A price that is no worse is no worse in units of levels.
LEMMA ScaledOrder ==
    ASSUME NEW d \in Directions, NEW a \in Nat \ {0}, NEW b \in Nat \ {0}, NoWorse(d, a, b)
    PROVE  NoWorse(d, a * Scale, b * Scale)
BY DEF NoWorse, Directions, Scale

\* A price moves the extreme to itself or not at all, and never to a worse one.
LEMMA PricedExtreme ==
    ASSUME NEW w \in Watch, NEW p \in Nat \ {0}, ExtremeIsBest(w)
    PROVE  /\ ExtremeIsBest(Priced(w, p))
           /\ NoWorse(w.direction, Priced(w, p).trail_extreme, w.trail_extreme)
<1>1. /\ w.direction \in Directions /\ w.entry_price \in Nat \ {0} /\ w.trail_extreme \in Nat \ {0}
    BY DEF Watch
<1> DEFINE x == IF Better(w.direction, p, w.trail_extreme) THEN p ELSE w.trail_extreme
<1>2. NoWorse(w.direction, w.trail_extreme, w.entry_price)
    BY DEF ExtremeIsBest
<1>3. /\ NoWorse(w.direction, x, p) /\ NoWorse(w.direction, x, w.trail_extreme)
      /\ NoWorse(w.direction, x, w.entry_price)
    BY <1>1, <1>2, NoWorseOrder
<1> HIDE DEF x
<1>4. /\ Priced(w, p).trail_extreme = x /\ Priced(w, p).current_price = p
      /\ Priced(w, p).direction = w.direction /\ Priced(w, p).entry_price = w.entry_price
    BY PricedFields DEF x
<1> QED
    BY <1>3, <1>4 DEF ExtremeIsBest

\* The levels of a watch that has been given a price.
LEMMA PricedLevels ==
    ASSUME NEW w \in Watch, NEW p \in Nat \ {0}, ExtremeIsBest(w)
    PROVE  /\ StopLevel(Priced(w, p)) = StopLevel(w)
           /\ TargetLevel(Priced(w, p)) = TargetLevel(w)
           /\ NoWorse(w.direction, TrailLevel(Priced(w, p)), TrailLevel(w))
<1> DEFINE v == Priced(w, p)
<1>1. /\ v.direction = w.direction /\ v.entry_price = w.entry_price
      /\ v.stop_loss_pct = w.stop_loss_pct /\ v.take_profit_pct = w.take_profit_pct
      /\ v.trail_extreme \in Nat \ {0}
    BY PricedFields DEF Watch
<1>2. NoWorse(w.direction, v.trail_extreme, w.trail_extreme)
    BY PricedExtreme
<1> HIDE DEF v
<1>3. w.direction \in Directions /\ w.trail_extreme \in Nat \ {0} /\ -w.stop_loss_pct \in -40 .. 80
    BY DEF Watch
<1>4. NoWorse(w.direction, Level(w.direction, v.trail_extreme, -w.stop_loss_pct),
              Level(w.direction, w.trail_extreme, -w.stop_loss_pct))
    BY <1>1, <1>2, <1>3, LevelMonotone
<1>5. StopLevel(v) = StopLevel(w) /\ TargetLevel(v) = TargetLevel(w)
    BY <1>1 DEF StopLevel, TargetLevel
<1>6. NoWorse(w.direction, TrailLevel(v), TrailLevel(w))
    BY <1>1, <1>4 DEF TrailLevel
<1> QED
    BY <1>5, <1>6 DEF v

\* What trailing does to the fields of a watch.
LEMMA TrailedFields ==
    ASSUME NEW w \in Watch
    PROVE  /\ Trailed(w) \in Watch
           /\ Trailed(w).direction = w.direction
           /\ Trailed(w).entry_price = w.entry_price
           /\ Trailed(w).stop_loss_pct = w.stop_loss_pct
           /\ Trailed(w).take_profit_pct = w.take_profit_pct
           /\ Trailed(w).trail_extreme = w.trail_extreme
           /\ Trailed(w).current_price = w.current_price
           /\ w.trail_activated => Trailed(w).trail_activated
           /\ Trailed(w).trail_activated => w.trail_activated \/ TrailTriggered(w)
           /\ ~w.trail_activated /\ Trailed(w).trail_activated =>
                  Trailed(w).trail_stop_price = TrailLevel(w)
           /\ w.trail_activated =>
                  Trailed(w).trail_stop_price =
                      IF Better(w.direction, TrailLevel(w), w.trail_stop_price)
                      THEN TrailLevel(w) ELSE w.trail_stop_price
           /\ ~Trailed(w).trail_activated => Trailed(w).trail_stop_price = w.trail_stop_price
<1>1. TrailLevel(w) \in Nat
    BY LevelTypes
<1> DEFINE l == TrailLevel(w)
           fresh == ~w.trail_activated /\ TrailTriggered(w)
           moved == w.trail_activated /\ Better(w.direction, l, w.trail_stop_price)
<1> HIDE DEF l
<1>2. CASE fresh
    <2>1. Trailed(w) = [w EXCEPT !.trail_activated = TRUE, !.trail_stop_price = l]
        BY <1>2 DEF Trailed, l
    <2>2. l \in Nat
        BY <1>1 DEF l
    <2> QED
        BY <1>2, <2>1, <2>2 DEF Watch, l
<1>3. CASE ~fresh /\ moved
    <2>1. Trailed(w) = [w EXCEPT !.trail_stop_price = l]
        BY <1>3 DEF Trailed, l
    <2>2. l \in Nat
        BY <1>1 DEF l
    <2> QED
        BY <1>3, <2>1, <2>2 DEF Watch, l
<1>4. CASE ~fresh /\ ~moved
    <2>1. Trailed(w) = w
        BY <1>4 DEF Trailed, l
    <2> QED
        BY <1>4, <2>1 DEF l
<1> QED
    BY <1>2, <1>3, <1>4

\* The stop, the target and the trail of a watch do not depend on its trail state.
LEMMA TrailedLevels ==
    ASSUME NEW w \in Watch
    PROVE  /\ StopLevel(Trailed(w)) = StopLevel(w)
           /\ TargetLevel(Trailed(w)) = TargetLevel(w)
           /\ TrailLevel(Trailed(w)) = TrailLevel(w)
           /\ ExtremeIsBest(w) => ExtremeIsBest(Trailed(w))
BY TrailedFields DEF StopLevel, TargetLevel, TrailLevel, ExtremeIsBest

\* Half the stop distance behind a price no worse than the entry is no worse
\* than the stop.
LEMMA TrailBeyondStop ==
    ASSUME NEW w \in Watch, ExtremeIsBest(w)
    PROVE  NoWorse(w.direction, TrailLevel(w), StopLevel(w))
<1>1. /\ w.direction \in Directions /\ w.entry_price \in Nat \ {0} /\ w.trail_extreme \in Nat \ {0}
      /\ w.stop_loss_pct \in 3 .. 20
    BY DEF Watch
<1>2. /\ -2 * w.stop_loss_pct \in -40 .. 80 /\ -w.stop_loss_pct \in -40 .. 80
      /\ -2 * w.stop_loss_pct <= -w.stop_loss_pct
    BY <1>1
<1>3. NoWorse(w.direction, w.trail_extreme, w.entry_price)
    BY DEF ExtremeIsBest
<1> DEFINE low == Level(w.direction, w.entry_price, -2 * w.stop_loss_pct)
           mid == Level(w.direction, w.entry_price, -w.stop_loss_pct)
           top == Level(w.direction, w.trail_extreme, -w.stop_loss_pct)
<1>4. NoWorse(w.direction, mid, low)
    BY <1>1, <1>2, LevelOrder
<1>5. NoWorse(w.direction, top, mid)
    BY <1>1, <1>2, <1>3, LevelMonotone
<1>6. NoWorse(w.direction, w.entry_price, w.entry_price) /\ NoWorse(w.direction, w.trail_extreme, w.trail_extreme)
    BY <1>1, NoWorseOrder
<1>7. low \in Nat /\ mid \in Nat /\ top \in Nat
    BY <1>1, <1>2, <1>6, LevelMonotone
<1> HIDE DEF low, mid, top
<1>8. NoWorse(w.direction, top, low)
    BY <1>1, <1>4, <1>5, <1>7, NoWorseOrder
<1> QED
    BY <1>8 DEF low, top, TrailLevel, StopLevel

\* A check keeps a watch sound, and does not loosen its stop.
LEMMA CheckedSound ==
    ASSUME NEW w, Sound(w), NEW p \in Nat \ {0}
    PROVE  Sound(Checked(w, p)) /\ Holds(w, Checked(w, p))
<1> DEFINE u == Priced(w, p)
           v == Trailed(u)
           d == w.direction
           L == Level(w.direction, w.entry_price, w.take_profit_pct)
<1>1. w \in Watch /\ ExtremeIsBest(w) /\ TrailState(w) /\ w.take_profit_pct >= 2 * w.stop_loss_pct
    BY DEF Sound
<1>2. u \in Watch /\ ExtremeIsBest(u) /\ NoWorse(d, u.trail_extreme, w.trail_extreme)
    BY <1>1, PricedFields, PricedExtreme
<1>3. /\ u.direction = d /\ u.entry_price = w.entry_price /\ u.stop_loss_pct = w.stop_loss_pct
      /\ u.take_profit_pct = w.take_profit_pct
      /\ u.trail_activated = w.trail_activated /\ u.trail_stop_price = w.trail_stop_price
    BY <1>1, PricedFields
<1>4. /\ StopLevel(u) = StopLevel(w) /\ TargetLevel(u) = TargetLevel(w)
      /\ NoWorse(d, TrailLevel(u), TrailLevel(w))
    BY <1>1, PricedLevels
<1> HIDE DEF u
<1>5. /\ v \in Watch
      /\ v.direction = d /\ v.entry_price = w.entry_price /\ v.stop_loss_pct = w.stop_loss_pct
      /\ v.take_profit_pct = w.take_profit_pct /\ v.trail_extreme = u.trail_extreme
    BY <1>2, <1>3, TrailedFields
<1>6. /\ w.trail_activated => v.trail_activated
      /\ v.trail_activated => w.trail_activated \/ TrailTriggered(u)
      /\ ~w.trail_activated /\ v.trail_activated => v.trail_stop_price = TrailLevel(u)
      /\ w.trail_activated =>
             v.trail_stop_price = IF Better(d, TrailLevel(u), w.trail_stop_price)
                                  THEN TrailLevel(u) ELSE w.trail_stop_price
      /\ ~v.trail_activated => v.trail_stop_price = w.trail_stop_price
    BY <1>2, <1>3, TrailedFields
<1>7. /\ StopLevel(v) = StopLevel(w) /\ TargetLevel(v) = TargetLevel(w)
      /\ TrailLevel(v) = TrailLevel(u) /\ ExtremeIsBest(v)
    BY <1>2, <1>4, TrailedLevels
<1> HIDE DEF v
<1>8. /\ d \in Directions /\ TrailLevel(u) \in Nat /\ TrailLevel(w) \in Nat /\ StopLevel(w) \in Nat
      /\ L \in Nat /\ w.trail_stop_price \in Nat
      /\ u.trail_extreme * Scale \in Nat /\ w.trail_extreme * Scale \in Nat
      /\ u.current_price * Scale \in Nat
    BY <1>1, <1>2, LevelTypes
<1>9. /\ w.trail_extreme \in Nat \ {0} /\ u.trail_extreme \in Nat \ {0} /\ u.current_price \in Nat \ {0}
    BY <1>1, <1>2 DEF Watch
<1>10. NoWorse(d, TrailLevel(u), StopLevel(w))
    BY <1>2, <1>3, <1>4, TrailBeyondStop
<1> HIDE DEF d, L
<1>11. CASE w.trail_activated
    <2>1. w.trail_stop_price = TrailLevel(w) /\ NoWorse(d, w.trail_extreme * Scale, L)
        BY <1>1, <1>11 DEF TrailState, d, L
    <2>2. v.trail_stop_price = TrailLevel(u)
        BY <1>4, <1>6, <1>8, <1>11, <2>1, NoWorseOrder
    <2>3. NoWorse(d, u.trail_extreme * Scale, w.trail_extreme * Scale)
        BY <1>2, <1>8, <1>9, ScaledOrder
    <2>4. NoWorse(d, u.trail_extreme * Scale, L)
        BY <1>8, <2>1, <2>3, NoWorseOrder
    <2>5. NoWorse(d, v.trail_stop_price, w.trail_stop_price)
        BY <1>4, <2>1, <2>2
    <2>6. v.trail_activated /\ NoWorse(v.direction, v.trail_extreme * Scale,
                                  Level(v.direction, v.entry_price, v.take_profit_pct))
        BY <1>5, <1>6, <1>11, <2>4 DEF L, d
    <2>7. TrailState(v)
        BY <1>7, <2>2, <2>6 DEF TrailState
    <2> QED
        BY <1>1, <1>5, <1>7, <2>5, <2>6, <2>7 DEF Sound, Holds, Checked, u, v, d
<1>12. CASE ~w.trail_activated /\ v.trail_activated
    <2>1. NoWorse(d, u.current_price * Scale, L)
        BY <1>3, <1>6, <1>12 DEF TrailTriggered, L, d
    <2>2. NoWorse(d, u.trail_extreme, u.current_price)
        BY <1>2, <1>3 DEF ExtremeIsBest
    <2>3. NoWorse(d, u.trail_extreme * Scale, u.current_price * Scale)
        BY <1>8, <1>9, <2>2, ScaledOrder
    <2>4. NoWorse(d, u.trail_extreme * Scale, L)
        BY <1>8, <2>1, <2>3, NoWorseOrder
    <2>5. v.trail_stop_price = TrailLevel(u) /\ w.trail_stop_price = StopLevel(w)
        BY <1>1, <1>6, <1>12 DEF TrailState
    <2>6. NoWorse(d, v.trail_stop_price, w.trail_stop_price)
        BY <1>10, <2>5
    <2>7. NoWorse(v.direction, v.trail_extreme * Scale,
                  Level(v.direction, v.entry_price, v.take_profit_pct))
        BY <1>5, <2>4 DEF L, d
    <2>8. TrailState(v)
        BY <1>7, <1>12, <2>5, <2>7 DEF TrailState
    <2> QED
        BY <1>1, <1>5, <1>7, <1>12, <2>6, <2>8 DEF Sound, Holds, Checked, u, v, d
<1>13. CASE ~w.trail_activated /\ ~v.trail_activated
    <2>1. v.trail_stop_price = w.trail_stop_price /\ w.trail_stop_price = StopLevel(w)
        BY <1>1, <1>6, <1>13 DEF TrailState
    <2>2. NoWorse(d, v.trail_stop_price, w.trail_stop_price)
        BY <1>8, <2>1, NoWorseOrder
    <2>3. TrailState(v)
        BY <1>7, <1>13, <2>1 DEF TrailState
    <2> QED
        BY <1>1, <1>5, <1>7, <1>13, <2>2, <2>3 DEF Sound, Holds, Checked, u, v, d
<1> QED
    BY <1>11, <1>12, <1>13

\* A greater number of half per milles gives a strictly better level.
LEMMA LevelStrict ==
    ASSUME NEW d \in Directions, NEW p \in Nat \ {0},
           NEW g \in -40 .. 80, NEW h \in -40 .. 80, g < h
    PROVE  ~NoWorse(d, Level(d, p, g), Level(d, p, h))
<1>1. p * (2000 + g) < p * (2000 + h) /\ p * (2000 - h) < p * (2000 - g)
    BY TimesStrict
<1>2. /\ p * (2000 + g) \in Int /\ p * (2000 + h) \in Int
      /\ p * (2000 - g) \in Int /\ p * (2000 - h) \in Int
    OBVIOUS
<1> QED
    BY <1>1, <1>2 DEF Level, NoWorse, Directions, Scale

\* No exit of a watch but the time limit is due.
Quiet(w) == ~StopHit(w) /\ ~TargetHit(w) /\ ~TrailHit(w)

\* A watch that has just been opened is sound, and no exit is due.
LEMMA FreshSound ==
    ASSUME NEW w, Fresh(w)
    PROVE  Sound(w) /\ Quiet(w)
<1> DEFINE d == w.direction
           e == w.entry_price
           sl == w.stop_loss_pct
           tp == w.take_profit_pct
<1>1. /\ d \in Directions /\ sl \in 3 .. 20 /\ tp \in 6 .. 40 /\ tp >= 2 * sl
      /\ e \in Nat \ {0}
    BY DEF Fresh, Plan
<1> DEFINE low == Level(d, e, -2 * sl)
<1>2. /\ -2 * sl \in -40 .. 80 /\ 0 \in -40 .. 80 /\ 2 * tp \in -40 .. 80
      /\ -2 * sl < 0 /\ 0 < 2 * tp
    BY <1>1
<1>3. NoWorse(d, e, e)
    BY <1>1, NoWorseOrder
<1>4. low \in Nat
    BY <1>1, <1>2, <1>3, LevelMonotone
<1>5. w = [direction |-> d, entry_price |-> e, stop_loss_pct |-> sl, take_profit_pct |-> tp,
           trail_activated |-> FALSE, trail_extreme |-> e, trail_stop_price |-> low,
           current_price |-> e, age |-> 0]
    BY DEF Fresh, NewWatch
<1>6. ~NoWorse(d, low, Level(d, e, 0)) /\ ~NoWorse(d, Level(d, e, 0), Level(d, e, 2 * tp))
    BY <1>1, <1>2, LevelStrict
<1>7. Level(d, e, 0) = e * Scale
    BY <1>1 DEF Level, Scale
<1> HIDE DEF d, e, sl, tp, low
<1>8. /\ w.trail_activated = FALSE /\ w.trail_extreme = e /\ w.trail_stop_price = low
      /\ w.current_price = e
    BY <1>5
<1>9. w \in Watch
    BY <1>1, <1>4, <1>5, MaxHoldAssumption DEF Watch
<1>10. ExtremeIsBest(w)
    BY <1>3, <1>8 DEF ExtremeIsBest, d, e
<1>11. TrailState(w)
    BY <1>8 DEF TrailState, StopLevel, low, d, e, sl
<1>12. ~StopHit(w)
    BY <1>6, <1>7, <1>8 DEF StopHit, StopLevel, low, d, e, sl
<1>13. ~TargetHit(w)
    BY <1>6, <1>7, <1>8 DEF TargetHit, TargetLevel, d, e, tp
<1>14. ~TrailHit(w)
    BY <1>8 DEF TrailHit
<1> QED
    BY <1>1, <1>9, <1>10, <1>11, <1>12, <1>13, <1>14 DEF Sound, Quiet, sl, tp

\* The clock does not touch the levels of a watch.
LEMMA AgedSound ==
    ASSUME NEW w, Sound(w), Quiet(w)
    PROVE  Sound(Aged(w)) /\ Quiet(Aged(w)) /\ Holds(w, Aged(w))
<1> DEFINE v == Aged(w)
<1>1. w \in Watch
    BY DEF Sound
<1>2. /\ v \in Watch
      /\ v.direction = w.direction /\ v.entry_price = w.entry_price
      /\ v.stop_loss_pct = w.stop_loss_pct /\ v.take_profit_pct = w.take_profit_pct
      /\ v.trail_activated = w.trail_activated /\ v.trail_extreme = w.trail_extreme
      /\ v.trail_stop_price = w.trail_stop_price /\ v.current_price = w.current_price
    BY <1>1, MaxHoldAssumption DEF Aged, Watch
<1> HIDE DEF v
<1>3. StopLevel(v) = StopLevel(w) /\ TargetLevel(v) = TargetLevel(w) /\ TrailLevel(v) = TrailLevel(w)
    BY <1>2 DEF StopLevel, TargetLevel, TrailLevel
<1>4. Quiet(v)
    BY <1>2, <1>3 DEF Quiet, StopHit, TargetHit, TrailHit
<1>5. ExtremeIsBest(v) /\ TrailState(v)
    BY <1>2, <1>3 DEF Sound, ExtremeIsBest, TrailState
<1>6. NoWorse(w.direction, v.trail_stop_price, w.trail_stop_price)
    BY <1>1, <1>2, NoWorseOrder DEF Watch
<1> QED
    BY <1>2, <1>3, <1>4, <1>5, <1>6 DEF Sound, Holds, v

\* An active trailing stop is on the profitable side of the entry.
LEMMA ActiveTrailProfits ==
    ASSUME NEW w, Sound(w), w.trail_activated
    PROVE  Better(w.direction, w.trail_stop_price, w.entry_price * Scale)
<1> DEFINE e == w.entry_price
           x == w.trail_extreme
           sl == w.stop_loss_pct
           tp == w.take_profit_pct
<1>1. /\ w.direction \in Directions /\ e \in Nat \ {0} /\ x \in Nat \ {0}
      /\ sl \in 3 .. 20 /\ tp \in 6 .. 40 /\ tp >= 2 * sl
    BY DEF Sound, Watch
<1>2. /\ w.trail_stop_price = Level(w.direction, x, -sl)
      /\ NoWorse(w.direction, x * Scale, Level(w.direction, e, tp))
    BY DEF Sound, TrailState, TrailLevel
<1> HIDE DEF e, x, sl, tp
<1>3. 2000 + (-sl) = 2000 - sl /\ 2000 - (-sl) = 2000 + sl
    BY <1>1
<1>4. CASE w.direction = "long"
    <2>1. x * 2000 >= e * (2000 + tp)
        BY <1>2, <1>4 DEF NoWorse, Level, Scale
    <2>2. x * (2000 - sl) > e * 2000
        BY <1>1, <2>1, ProfitLong
    <2>3. w.trail_stop_price = x * (2000 - sl)
        BY <1>2, <1>3, <1>4 DEF Level, Scale
    <2> QED
        BY <1>4, <2>2, <2>3 DEF Better, Scale, e
<1>5. CASE w.direction = "short"
    <2>1. x * 2000 <= e * (2000 - tp)
        BY <1>2, <1>5 DEF NoWorse, Level, Scale
    <2>2. x * (2000 + sl) < e * 2000
        BY <1>1, <2>1, ProfitShort
    <2>3. w.trail_stop_price = x * (2000 + sl)
        BY <1>2, <1>3, <1>5 DEF Level, Scale
    <2> QED
        BY <1>5, <2>2, <2>3 DEF Better, Scale, e
<1> QED
    BY <1>1, <1>4, <1>5 DEF Directions

-----------------------------------------------------------------------------
(* The monitor                                                               *)

\* Every watch is sound and has no exit due: inductive, and what the safety
\* properties of the monitor follow from.
WatchesSound ==
    /\ DOMAIN watched \subseteq Symbols
    /\ \A s \in DOMAIN watched : Sound(watched[s]) /\ Quiet(watched[s])

\* A watch that does not change holds its levels.
LEMMA HoldsReflexive ==
    ASSUME NEW w, Sound(w)
    PROVE  Holds(w, w)
BY NoWorseOrder DEF Sound, Holds, Watch

\* Every step of the monitor keeps the watches sound and their stops tight.
LEMMA MonitorStep ==
    ASSUME WatchesSound, MonitorNext
    PROVE  /\ WatchesSound'
           /\ \A s \in DOMAIN watched \cap DOMAIN watched' : Holds(watched[s], watched'[s])
<1>1. ASSUME NEW s \in Symbols, Add(s)
      PROVE  /\ WatchesSound'
             /\ \A x \in DOMAIN watched \cap DOMAIN watched' : Holds(watched[x], watched'[x])
    <2>1. /\ s \notin DOMAIN watched /\ DOMAIN watched' = DOMAIN watched \cup {s}
          /\ Fresh(watched'[s])
          /\ watched' = Watching(s, watched'[s])
        BY <1>1 DEF Add
    <2>2. Sound(watched'[s]) /\ Quiet(watched'[s])
        BY <2>1, FreshSound
    <2>3. \A x \in DOMAIN watched : watched'[x] = watched[x]
        BY <2>1 DEF Watching
    <2>4. \A x \in DOMAIN watched : Holds(watched[x], watched[x])
        BY HoldsReflexive DEF WatchesSound
    <2> QED
        BY <2>1, <2>2, <2>3, <2>4 DEF WatchesSound
<1>2. ASSUME NEW s \in Symbols, Check(s)
      PROVE  /\ WatchesSound'
             /\ \A x \in DOMAIN watched \cap DOMAIN watched' : Holds(watched[x], watched'[x])
    <2>1. s \in DOMAIN watched /\ Sound(watched[s]) /\ Quiet(watched[s])
        BY <1>2 DEF Check, WatchesSound
    <2>2. \A x \in DOMAIN watched : Holds(watched[x], watched[x])
        BY HoldsReflexive DEF WatchesSound
    <2>3. CASE watched' = Unwatch(s)
        <3>1. DOMAIN watched' = DOMAIN watched \ {s} /\ \A x \in DOMAIN watched' : watched'[x] = watched[x]
            BY <2>3 DEF Unwatch
        <3> QED
            BY <2>2, <3>1 DEF WatchesSound
    <2>4. CASE /\ s \in DOMAIN watched' /\ watched'[s].current_price \in Nat \ {0}
               /\ ~Exits(Checked(watched[s], watched'[s].current_price))
               /\ watched' = [watched EXCEPT ![s] = Checked(watched[s], watched'[s].current_price)]
        <3> DEFINE w == Checked(watched[s], watched'[s].current_price)
        <3>1. Sound(w) /\ Holds(watched[s], w)
            BY <2>1, <2>4, CheckedSound
        <3>2. Quiet(w)
            BY <2>4 DEF Exits, Quiet
        <3>3. watched' = [watched EXCEPT ![s] = w]
            BY <2>4
        <3> HIDE DEF w
        <3>4. DOMAIN watched' = DOMAIN watched /\ watched'[s] = w
              /\ \A x \in DOMAIN watched \ {s} : watched'[x] = watched[x]
            BY <2>1, <3>3
        <3> QED
            BY <2>2, <3>1, <3>2, <3>4 DEF WatchesSound
    <2> QED
        BY <1>2, <2>3, <2>4 DEF Check
<1>3. ASSUME GrowOlder
      PROVE  /\ WatchesSound'
             /\ \A x \in DOMAIN watched \cap DOMAIN watched' : Holds(watched[x], watched'[x])
    <2>1. DOMAIN watched' = DOMAIN watched /\ \A x \in DOMAIN watched : watched'[x] = Aged(watched[x])
        BY <1>3 DEF GrowOlder
    <2>2. \A x \in DOMAIN watched :
              Sound(Aged(watched[x])) /\ Quiet(Aged(watched[x])) /\ Holds(watched[x], Aged(watched[x]))
        BY AgedSound DEF WatchesSound
    <2> QED
        BY <2>1, <2>2 DEF WatchesSound
<1> QED
    BY <1>1, <1>2, <1>3 DEF MonitorNext

\* The watches of the monitor are sound, whatever its callers do.
THEOREM MonitorSound == MonitorSpec => []WatchesSound
<1>1. MonitorInit => WatchesSound
    BY DEF MonitorInit, WatchesSound
<1>2. WatchesSound /\ [MonitorNext]_watched => WatchesSound'
    <2>1. ASSUME WatchesSound, MonitorNext PROVE WatchesSound'
        BY <2>1, MonitorStep
    <2>2. ASSUME WatchesSound, UNCHANGED watched PROVE WatchesSound'
        BY <2>2 DEF WatchesSound
    <2> QED
        BY <2>1, <2>2
<1> QED
    BY <1>1, <1>2, PTL DEF MonitorSpec

\* The table of the monitor holds watches of known symbols, each with a target
\* at least twice as far as its stop.
THEOREM MonitorTypeOK == MonitorSpec => []WatchedTypeOK
<1>1. WatchesSound => WatchedTypeOK
    BY DEF WatchesSound, WatchedTypeOK, Sound
<1> QED
    BY <1>1, MonitorSound, PTL

\* No stop, target or trailing stop is passed over: what is still watched was
\* strictly inside them at the last price checked.
THEOREM MonitorMissesNoExit == MonitorSpec => []NoExitMissed
<1>1. WatchesSound => NoExitMissed
    BY DEF WatchesSound, NoExitMissed, Quiet
<1> QED
    BY <1>1, MonitorSound, PTL

\* An active trailing stop stands half the stop distance behind the best price,
\* and is on the profitable side of the entry.
THEOREM MonitorLocksInProfit == MonitorSpec => []TrailLocksInProfit
<1>1. ASSUME WatchesSound, NEW s \in DOMAIN watched, watched[s].trail_activated
      PROVE  /\ watched[s].trail_stop_price = TrailLevel(watched[s])
             /\ Better(watched[s].direction, watched[s].trail_stop_price,
                       watched[s].entry_price * Scale)
    <2>1. Sound(watched[s])
        BY <1>1 DEF WatchesSound
    <2> QED
        BY <1>1, <2>1, ActiveTrailProfits DEF Sound, TrailState
<1>2. WatchesSound => TrailLocksInProfit
    BY <1>1 DEF TrailLocksInProfit
<1> QED
    BY <1>2, MonitorSound, PTL

\* A stop never moves against the position it protects.
THEOREM MonitorNeverLoosens == MonitorSpec => StopNeverLoosens
<1> DEFINE Tight == \A s \in DOMAIN watched \cap DOMAIN watched' : Holds(watched[s], watched'[s])
<1>1. WatchesSound /\ [MonitorNext]_watched => [Tight]_watched
    BY MonitorStep
<1>2. Tight =>
        \A s \in DOMAIN watched \cap DOMAIN watched' :
          LET w == watched[s]
              v == watched'[s]
          IN  /\ v.direction = w.direction /\ v.entry_price = w.entry_price
              /\ StopLevel(v) = StopLevel(w) /\ TargetLevel(v) = TargetLevel(w)
              /\ w.trail_activated => v.trail_activated
              /\ NoWorse(w.direction, v.trail_stop_price, w.trail_stop_price)
    BY DEF Holds
<1> HIDE DEF Tight
<1> QED
    BY <1>1, <1>2, MonitorSound, PTL DEF MonitorSpec, StopNeverLoosens
=============================================================================

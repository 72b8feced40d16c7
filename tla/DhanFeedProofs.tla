----------------------------- MODULE DhanFeedProofs -----------------------------
(***************************************************************************)
(* Theorems about the feed for every set of symbols, every instrument list *)
(* and any number of additions and removals: what is registered is served  *)
(* on every connection, simulated prices never follow live ones, the       *)
(* contract of a future is its near month, every variable keeps its type.  *)
(***************************************************************************)
EXTENDS DhanFeed, TLAPS, SequenceTheorems, NaturalsInduction, WellFoundedInduction

-----------------------------------------------------------------------------
(* Where start() and the thread are                                          *)

Live == {"greeting", "subscribing", "receiving", "ticking"}

\* The thread exists only once start() watches it; before that nothing was received, and the
\* stand-in runs only if start() itself chose it.
PlacesInv ==
    /\ thread = "none" => /\ ~got_ticks
                          /\ sim # "off" => stage = "simulating"
    /\ thread # "none" => stage = "watching"
    /\ thread \notin {"none", "ended"} => thread_loop
    /\ thread \in Live => current_ws
    /\ SourcesNeverMix

\* Where they start.
LEMMA PlacesInit == Init => PlacesInv
BY DEF Init, PlacesInv, SourcesNeverMix, Live

\* start() launches the thread or the stand-in, never both.
LEMMA PlacesStart ==
    ASSUME PlacesInv, Start
    PROVE  PlacesInv'
<1>1. CASE StopWaiting \/ Preflight
    BY <1>1 DEF StopWaiting, Preflight, PlacesInv, SourcesNeverMix, threadVars, simVars
<1>2. CASE Resolve
    <2>1. /\ stage = "resolving" /\ UNCHANGED <<got_ticks, thread, current_ws, thread_loop>>
          /\ \/ stage' = "simulating" /\ sim' = "running"
             \/ stage' = "checking" /\ sim' = sim
        BY <1>2, Zenon DEF Resolve, threadVars, simVars
    <2>2. thread = "none"
        BY <2>1 DEF PlacesInv
    <2> QED
        BY <2>1, <2>2 DEF PlacesInv, SourcesNeverMix, Live
<1>3. CASE Launch
    BY <1>3 DEF Launch, PlacesInv, SourcesNeverMix, Live, simVars
<1> QED
    BY <1>1, <1>2, <1>3 DEF Start

\* The thread posts the stand-in only when it ends without ever having passed on a tick.
LEMMA PlacesThread ==
    ASSUME PlacesInv, Thread
    PROVE  PlacesInv'
<1>1. CASE Connected \/ Greeted \/ Subscribed \/ PassOn \/ ReceivedOther \/ ReceivedNothing
    BY <1>1 DEF Connected, Greeted, Subscribed, PassOn, ReceivedOther, ReceivedNothing,
       AfterMessage, PlacesInv, SourcesNeverMix, Live, startVars, simVars
<1>2. CASE \E s \in Symbols : Received(s)
    BY <1>2 DEF Received, PlacesInv, SourcesNeverMix, Live, startVars, simVars
<1>3. CASE Refused \/ Disconnected
    BY <1>3 DEF Refused, Disconnected, NextRound, PlacesInv, SourcesNeverMix, Live, startVars,
       simVars
<1>4. CASE Retry \/ ThreadExits
    BY <1>4 DEF Retry, ThreadExits, FallsBack, PlacesInv, SourcesNeverMix, Live, startVars,
       simVars
<1> QED
    BY <1>1, <1>2, <1>3, <1>4 DEF Thread

\* What else happens leaves the places of both alone, but for a posted stand-in that starts.
LEMMA PlacesRest ==
    ASSUME PlacesInv, Stand_in \/ Routes \/ Environment \/ UNCHANGED vars
    PROVE  PlacesInv'
<1>1. CASE Stand_in
    BY <1>1 DEF Stand_in, StartSim, SimRound, PlacesInv, SourcesNeverMix, startVars, threadVars
<1>2. CASE Routes \/ Environment \/ UNCHANGED vars
    <2>1. UNCHANGED <<got_ticks, sim, stage, thread, current_ws, thread_loop>>
        BY <1>2 DEF Routes, Environment, Add, Sent, Remove, AddFails, Stop, LoadMaster, Drop,
           vars, feedVars, startVars, threadVars, simVars
    <2> QED
        BY <2>1 DEF PlacesInv, SourcesNeverMix
<1> QED
    BY <1>1, <1>2

\* Once a tick of the exchange was passed on, simulated prices never start.
THEOREM PricesNeverMix == Spec => []SourcesNeverMix
<1>1. Init => PlacesInv
    BY PlacesInit
<1>2. PlacesInv /\ [Next]_vars => PlacesInv'
    BY PlacesStart, PlacesThread, PlacesRest DEF Next
<1>3. PlacesInv => SourcesNeverMix
    BY DEF PlacesInv
<1> QED
    BY <1>1, <1>2, <1>3, PTL DEF Spec

-----------------------------------------------------------------------------
(* Subscriptions                                                             *)

\* What is registered is in the list of the next connection; on this one it is in the list about
\* to be sent, in a message of its own, or served.  An addition that waits has registered its
\* symbol, which nothing removes while the event loop stands still; and what was accepted since
\* the map was there is registered, because only a removal takes it back.
SubsInv ==
    /\ ids = subs
    /\ late \subseteq ids
    /\ stage \in {"waiting", "resolving"} => late = {}
    /\ adding # NoSymbol => adding \in ids
    /\ alive /\ thread = "subscribing" => ids \subseteq to_send \cup served \cup sending
    /\ NoSubscriptionLost

\* Nothing is registered at the start.
LEMMA SubsInit == Init => SubsInv
BY DEF Init, SubsInv, NoSubscriptionLost, Established

\* The map that start() resolves replaces the list before there is a connection.
LEMMA SubsStart ==
    ASSUME PlacesInv, SubsInv, Start
    PROVE  SubsInv'
<1>1. CASE StopWaiting \/ Preflight
    BY <1>1 DEF StopWaiting, Preflight, SubsInv, NoSubscriptionLost, Established, bookVars,
       threadVars, linkVars, addVars
<1>2. CASE Resolve
    <2>1. /\ UNCHANGED <<adding, sending, late, alive, served, thread, to_send>>
          /\ adding = NoSymbol /\ stage = "resolving"
          /\ (ids' = ids /\ subs' = subs) \/ ids' = subs'
        BY <1>2, Zenon DEF Resolve, LoopFree, threadVars, linkVars, addVars
    <2>2. thread = "none" /\ late = {}
        BY <2>1 DEF PlacesInv, SubsInv
    <2> QED
        BY <2>1, <2>2 DEF SubsInv, NoSubscriptionLost, Established
<1>3. CASE Launch
    BY <1>3 DEF Launch, SubsInv, NoSubscriptionLost, Established, bookVars, linkVars, addVars
<1> QED
    BY <1>1, <1>2, <1>3 DEF Start

\* A new connection subscribes to the whole list as it is when it is built.
LEMMA SubsThread ==
    ASSUME PlacesInv, SubsInv, Thread
    PROVE  SubsInv'
<1>1. CASE Connected \/ Greeted
    BY <1>1 DEF Connected, Greeted, SubsInv, NoSubscriptionLost, Established, startVars,
       bookVars, linkVars, addVars
<1>2. CASE Subscribed \/ PassOn \/ ReceivedOther \/ ReceivedNothing
    BY <1>2 DEF Subscribed, PassOn, ReceivedOther, ReceivedNothing, AfterMessage, SubsInv,
       NoSubscriptionLost, Established, startVars, bookVars
<1>3. CASE \E s \in Symbols : Received(s)
    BY <1>3 DEF Received, SubsInv, NoSubscriptionLost, Established, startVars, bookVars,
       linkVars, addVars
<1>4. CASE Refused \/ Disconnected
    BY <1>4 DEF Refused, Disconnected, NextRound, SubsInv, NoSubscriptionLost, Established,
       startVars, bookVars, linkVars, addVars
<1>5. CASE Retry \/ ThreadExits
    BY <1>5 DEF Retry, ThreadExits, SubsInv, NoSubscriptionLost, Established, startVars,
       bookVars, linkVars, addVars
<1> QED
    BY <1>1, <1>2, <1>3, <1>4, <1>5 DEF Thread

\* What an answer with success adds to late: nothing while start() has no map, else its symbol.
LEMMA AcceptedLate ==
    ASSUME NEW s, Accept(s)
    PROVE  /\ late' \subseteq late \cup {s}
           /\ stage \in {"waiting", "resolving"} => late' = late
BY DEF Accept

\* While a connection is live an addition sends a message of its own; otherwise the list
\* covers it.
LEMMA SubsAdd ==
    ASSUME PlacesInv, SubsInv, NEW s \in Symbols, Add(s)
    PROVE  SubsInv'
<1>1. adding = NoSymbol /\ UNCHANGED <<stage, thread, to_send, alive, served>>
    BY DEF Add, LoopFree, startVars, threadVars, linkVars
<1>2. CASE s \in ids
    <2>1. Accept(s) /\ UNCHANGED <<ids, subs, sending, adding>>
        BY <1>2 DEF Add, bookVars
    <2> QED
        BY <1>1, <1>2, <2>1, AcceptedLate DEF SubsInv, NoSubscriptionLost, Established
<1>3. CASE s \notin ids /\ Sendable
    <2>1. /\ ids' = ids \cup {s} /\ subs' = subs \cup {s}
          /\ sending' = sending \cup {s} /\ adding' = s /\ late' = late
        BY <1>3 DEF Add
    <2> QED
        BY <1>1, <2>1 DEF SubsInv, NoSubscriptionLost, Established
<1>4. CASE s \notin ids /\ ~Sendable
    <2>1. thread \notin Live
        BY <1>4 DEF Sendable, PlacesInv, Live
    <2>2. /\ ids' = ids \cup {s} /\ subs' = subs \cup {s}
          /\ Accept(s) /\ UNCHANGED <<sending, adding>>
        BY <1>4 DEF Add
    <2> QED
        BY <1>1, <2>1, <2>2, AcceptedLate DEF SubsInv, NoSubscriptionLost, Established, Live
<1> QED
    BY <1>2, <1>3, <1>4

\* The other routes, the stand-in and the network keep what is registered covered.
LEMMA SubsRest ==
    ASSUME SubsInv,
           \/ Stand_in \/ Environment \/ AddFails \/ Stop \/ UNCHANGED vars
           \/ \E s \in Symbols : Sent(s) \/ Remove(s)
    PROVE  SubsInv'
<1>1. CASE Stand_in \/ AddFails \/ Stop \/ UNCHANGED vars
    BY <1>1 DEF Stand_in, StartSim, SimRound, AddFails, Stop, vars, feedVars, SubsInv,
       NoSubscriptionLost, Established, startVars, bookVars, threadVars, linkVars, addVars
<1>2. CASE Environment
    BY <1>2 DEF Environment, LoadMaster, Drop, feedVars, SubsInv, NoSubscriptionLost,
       Established, startVars, bookVars, threadVars, linkVars, addVars
<1>3. ASSUME NEW s \in Symbols, Sent(s)
      PROVE  SubsInv'
    <2>1. /\ sending' = sending \ {s} /\ served' = served \cup {s}
          /\ adding' = IF adding = s THEN NoSymbol ELSE adding
          /\ UNCHANGED <<stage, ids, subs, thread, to_send, alive>>
        BY <1>3 DEF Sent, startVars, bookVars, threadVars
    <2>2. (adding = s /\ Accept(s)) \/ late' = late
        BY <1>3 DEF Sent
    <2>3. adding = s => s \in ids
        BY FeedAssumption DEF SubsInv
    <2>4. /\ late' \subseteq ids
          /\ stage \in {"waiting", "resolving"} => late' = {}
        BY <2>2, <2>3, AcceptedLate DEF SubsInv
    <2>5. late' \subseteq late \cup {s}
        BY <2>2, AcceptedLate
    <2> QED
        BY <2>1, <2>4, <2>5 DEF SubsInv, NoSubscriptionLost, Established
<1>4. ASSUME NEW s \in Symbols, Remove(s)
      PROVE  SubsInv'
    BY <1>4 DEF Remove, LoopFree, SubsInv, NoSubscriptionLost, Established, startVars,
       threadVars, linkVars
<1> QED
    BY <1>1, <1>2, <1>3, <1>4

\* Whatever additions and removals fall between the steps of a connection, the exchange serves
\* on it, or is being asked for, every registered symbol and every one whose addition was answered
\* with success since start() had its map.
THEOREM SubscriptionsAreKept == Spec => []NoSubscriptionLost
<1>1. Init => PlacesInv /\ SubsInv
    BY PlacesInit, SubsInit
<1>2. PlacesInv /\ SubsInv /\ [Next]_vars => PlacesInv' /\ SubsInv'
    <2> SUFFICES ASSUME PlacesInv, SubsInv, [Next]_vars
                 PROVE  PlacesInv' /\ SubsInv'
        OBVIOUS
    <2>1. PlacesInv'
        BY PlacesStart, PlacesThread, PlacesRest DEF Next
    <2>2. SubsInv'
        BY SubsStart, SubsThread, SubsAdd, SubsRest DEF Next, Routes
    <2> QED
        BY <2>1, <2>2
<1>3. SubsInv => NoSubscriptionLost
    BY DEF SubsInv
<1> QED
    BY <1>1, <1>2, <1>3, PTL DEF Spec

-----------------------------------------------------------------------------
(* Numbers                                                                   *)

\* A set of numbers that is not empty has a smallest one.
LEMMA Smallest ==
    ASSUME NEW T, T \subseteq Nat, T # {} PROVE \E x \in T : \A y \in T : x <= y
<1>. DEFINE R == OpToRel(<, Nat)
<1>1. IsWellFoundedOn(R, Nat)
  BY NatLessThanWellFounded
<1>2. PICK x \in T : \A y \in T : ~(<<y, x>> \in R)
  BY <1>1, WFMin
<1>3. \A y \in T : ~(y < x)
  BY <1>2 DEF OpToRel
<1>. QED BY <1>3

\* A set that holds 0 and the successor of each of its numbers holds them all.
LEMMA SetInduction ==
    ASSUME NEW S, 0 \in S, \A n \in Nat : n \in S => n + 1 \in S
    PROVE  Nat \subseteq S
<1>. SUFFICES ASSUME Nat \ S # {} PROVE FALSE
  OBVIOUS
<1>1. PICK x \in Nat \ S : \A y \in Nat \ S : x <= y
  <2>1. Nat \ S \subseteq Nat
    OBVIOUS
  <2>. QED BY <2>1, Smallest
<1>2. x # 0 /\ x - 1 \in Nat
  OBVIOUS
<1>3. x - 1 \in S
  BY <1>1, <1>2
<1>. QED BY <1>2, <1>3

-----------------------------------------------------------------------------
(* Filtering                                                                 *)

\* kept holds what Kept has kept after each element.
IsKept(kept, seq, S) ==
    /\ kept = [k \in 0 .. Len(seq) |->
                  IF k = 0 THEN <<>>
                  ELSE IF seq[k] \in S THEN Append(kept[k - 1], seq[k]) ELSE kept[k - 1]]
    /\ Kept(seq, S) = kept[Len(seq)]

\* The recursive function inside Kept exists.
LEMMA KeptRun ==
    ASSUME NEW seq, NEW S, Len(seq) \in Nat PROVE \E kept : IsKept(kept, seq, S)
<1>. DEFINE n == Len(seq)
            Next1(a, k) == IF seq[k] \in S THEN Append(a, seq[k]) ELSE a
            IsRun(g, m) == g = [k \in 0 .. m |-> IF k = 0 THEN <<>> ELSE Next1(g[k - 1], k)]
            Runs == {m \in Nat : \E g : IsRun(g, m)}
<1>. DEFINE run == CHOOSE f : f = [k \in 0 .. n |->
                        IF k = 0 THEN <<>>
                        ELSE IF seq[k] \in S THEN Append(f[k - 1], seq[k]) ELSE f[k - 1]]
<1>1. Kept(seq, S) = run[n]
  BY DEF Kept
<1>2. run = CHOOSE f : f = [k \in 0 .. n |-> IF k = 0 THEN <<>> ELSE Next1(f[k - 1], k)]
  OBVIOUS
<1>. HIDE DEF Next1, run
<1>3. 0 \in Runs
  <2>. DEFINE g == [k \in 0 .. 0 |-> <<>>]
  <2>1. IsRun(g, 0) OBVIOUS
  <2>. QED BY <2>1
<1>4. ASSUME NEW m \in Nat, m \in Runs PROVE m + 1 \in Runs
  <2>1. PICK g : IsRun(g, m) BY <1>4
  <2>. DEFINE h == [k \in 0 .. m + 1 |-> IF k = m + 1 THEN Next1(g[m], m + 1) ELSE g[k]]
  <2>2. IsRun(h, m + 1) BY <2>1
  <2>. HIDE DEF h, IsRun
  <2>. QED BY <2>2
<1>5. PICK g : IsRun(g, n)
  <2>. HIDE DEF Runs
  <2>1. Nat \subseteq Runs BY <1>3, <1>4, SetInduction
  <2>. QED BY <2>1 DEF Runs
<1>6. run = [k \in 0 .. n |-> IF k = 0 THEN <<>> ELSE Next1(run[k - 1], k)]
  BY <1>2, <1>5, Zenon
<1>7. IsKept(run, seq, S)
  BY <1>1, <1>6 DEF IsKept, Next1
<1>. QED BY <1>7

\* No row stands behind one that it sorts before.
Sorted(seq) == \A i, j \in DOMAIN seq : i < j => ~Before(seq[j], seq[i])

\* What Kept keeps are the elements that are in the set, still sorted.
LEMMA KeptRows ==
    ASSUME NEW E, NEW seq \in Seq(E), NEW S
    PROVE  /\ Kept(seq, S) \in Seq(E)
           /\ RowsOf(Kept(seq, S)) = RowsOf(seq) \cap S
           /\ Sorted(seq) => Sorted(Kept(seq, S))
<1>. DEFINE n == Len(seq)
<1>1. n \in Nat /\ DOMAIN seq = 1 .. n /\ \A i \in 1 .. n : seq[i] \in E
  BY LenProperties, ElementOfSeq
<1>2. PICK kept : IsKept(kept, seq, S)
  BY <1>1, KeptRun
<1>3. /\ kept = [k \in 0 .. n |->
                   IF k = 0 THEN <<>>
                   ELSE IF seq[k] \in S THEN Append(kept[k - 1], seq[k]) ELSE kept[k - 1]]
      /\ Kept(seq, S) = kept[n]
  BY <1>2 DEF IsKept
<1>. DEFINE Good(s, k) == /\ s \in Seq(E)
                          /\ RowsOf(s) = {seq[i] : i \in 1 .. k} \cap S
                          /\ Sorted(seq) => Sorted(s)
            Typed == {k \in Nat : k \in 0 .. n => Good(kept[k], k)}
<1>4. 0 \in Typed
  <2>1. kept[0] = <<>>
    BY <1>1, <1>3
  <2>2. <<>> \in Seq(E) /\ DOMAIN <<>> = {} /\ 1 .. 0 = {}
    OBVIOUS
  <2>3. Good(<<>>, 0)
    BY <2>2 DEF RowsOf, Sorted
  <2>. QED BY <2>1, <2>3
<1>5. ASSUME NEW k \in Nat, k \in Typed PROVE k + 1 \in Typed
  <2>. SUFFICES ASSUME k + 1 \in 0 .. n PROVE Good(kept[k + 1], k + 1)
    OBVIOUS
  <2>1. Good(kept[k], k)
    BY <1>1, <1>5
  <2>2. seq[k + 1] \in E /\ k + 1 \in 1 .. n
    BY <1>1
  <2>3. kept[k + 1] = IF seq[k + 1] \in S THEN Append(kept[k], seq[k + 1]) ELSE kept[k]
    <3>1. \A j \in 0 .. n : j # 0 => kept[j] = IF seq[j] \in S THEN Append(kept[j - 1], seq[j])
                                                           ELSE kept[j - 1]
      BY <1>3, Zenon
    <3>2. k + 1 # 0 /\ (k + 1) - 1 = k
      OBVIOUS
    <3>. QED BY <3>1, <3>2, Zenon
  <2>4. {seq[i] : i \in 1 .. k + 1} = {seq[i] : i \in 1 .. k} \cup {seq[k + 1]}
    <3>1. 1 .. k + 1 = (1 .. k) \cup {k + 1}
      OBVIOUS
    <3>. QED BY <3>1
  <2>5. CASE seq[k + 1] \notin S
    BY <2>1, <2>3, <2>4, <2>5
  <2>6. CASE seq[k + 1] \in S
    <3>. DEFINE s == kept[k]
                e == seq[k + 1]
    <3>1. /\ kept[k + 1] = Append(s, e)
          /\ s \in Seq(E) /\ e \in E /\ e \in S
          /\ RowsOf(s) = {seq[i] : i \in 1 .. k} \cap S
          /\ Sorted(seq) => Sorted(s)
      BY <2>1, <2>2, <2>3, <2>6
    <3>2. Sorted(seq) => \A r \in RowsOf(s) : ~Before(e, r)
      <4>. SUFFICES ASSUME Sorted(seq), NEW i \in 1 .. k PROVE ~Before(e, seq[i])
        BY <3>1
      <4>1. i \in DOMAIN seq /\ k + 1 \in DOMAIN seq /\ i < k + 1
        BY <1>1, <2>2
      <4>. QED BY <4>1 DEF Sorted
    <3>. HIDE DEF s, e
    <3>3. /\ Append(s, e) \in Seq(E) /\ Len(s) \in Nat
          /\ DOMAIN Append(s, e) = 1 .. Len(s) + 1 /\ DOMAIN s = 1 .. Len(s)
          /\ \A i \in 1 .. Len(s) : Append(s, e)[i] = s[i]
          /\ Append(s, e)[Len(s) + 1] = e
      BY <3>1, AppendProperties, LenProperties
    <3>4. RowsOf(Append(s, e)) = RowsOf(s) \cup {e}
      <4>1. 1 .. Len(s) + 1 = (1 .. Len(s)) \cup {Len(s) + 1}
        BY <3>3
      <4>. QED BY <3>3, <4>1 DEF RowsOf
    <3>5. Sorted(seq) => Sorted(Append(s, e))
      <4>. SUFFICES ASSUME Sorted(seq), NEW i \in 1 .. Len(s) + 1, NEW j \in 1 .. Len(s) + 1, i < j
                    PROVE  ~Before(Append(s, e)[j], Append(s, e)[i])
        BY <3>3 DEF Sorted
      <4>1. i \in 1 .. Len(s)
        BY <3>3
      <4>2. CASE j \in 1 .. Len(s)
        BY <3>1, <3>3, <4>1, <4>2 DEF Sorted
      <4>3. CASE j = Len(s) + 1
        BY <3>2, <3>3, <4>1, <4>3 DEF RowsOf
      <4>. QED BY <3>3, <4>2, <4>3
    <3>6. RowsOf(Append(s, e)) = {seq[i] : i \in 1 .. k + 1} \cap S
      BY <2>4, <3>1, <3>4 DEF e
    <3>. QED BY <3>1, <3>3, <3>5, <3>6
  <2>. QED BY <2>5, <2>6
<1>. HIDE DEF Typed, Good
<1>6. n \in Typed
  BY <1>1, <1>4, <1>5, SetInduction
<1>7. Good(kept[n], n)
  <2>. HIDE DEF n
  <2>. QED BY <1>1, <1>6 DEF Typed
<1>8. Good(Kept(seq, S), n)
  BY <1>3, <1>7
<1>9. RowsOf(seq) = {seq[i] : i \in 1 .. n}
  BY <1>1 DEF RowsOf
<1>. QED BY <1>8, <1>9 DEF Good

-----------------------------------------------------------------------------
(* Sorting                                                                   *)

\* What the listings are assumed to hold: rows the sort key and the expiry test are defined on.
IsRow(r) == r.type \in Type /\ r.expiry \in Nat

\* The sort key orders rows strictly and leaves only equal keys unordered.
LEMMA BeforeOrders ==
    /\ \A a, b : IsRow(a) /\ IsRow(b) => ~(Before(a, b) /\ Before(b, a))
    /\ \A a, b, c : IsRow(a) /\ IsRow(b) /\ IsRow(c) /\ Before(a, b) /\ ~Before(c, b)
                        => Before(a, c)
    /\ \A a, b : /\ IsRow(a) /\ IsRow(b) /\ a.type = "FUT" /\ b.type = "FUT" /\ ~Before(b, a)
                 => a.expiry <= b.expiry
<1>1. \A a : IsRow(a) => Rank(a) \in 0 .. 2 /\ a.expiry \in Nat /\ (a.type = "FUT" => Rank(a) = 1)
  BY DEF IsRow, Rank, Type
<1>. QED BY <1>1 DEF Before

\* The rows of a concatenation; it is sorted when its halves are and fit.
LEMMA ConcatRows ==
    ASSUME NEW E, NEW s \in Seq(E), NEW t \in Seq(E)
    PROVE  /\ s \o t \in Seq(E)
           /\ RowsOf(s \o t) = RowsOf(s) \cup RowsOf(t)
           /\ /\ Sorted(s) /\ Sorted(t)
              /\ \A a \in RowsOf(s), b \in RowsOf(t) : ~Before(b, a)
              => Sorted(s \o t)
<1>. DEFINE m == Len(s)
            n == Len(t)
            c == s \o t
<1>1. /\ c \in Seq(E) /\ m \in Nat /\ n \in Nat /\ DOMAIN s = 1 .. m /\ DOMAIN t = 1 .. n
      /\ Len(c) = m + n /\ DOMAIN c = 1 .. m + n
      /\ \A i \in 1 .. m + n : c[i] = IF i <= m THEN s[i] ELSE t[i - m]
  BY ConcatProperties, LenProperties
<1>. HIDE DEF m, n, c
<1>2. \A i \in 1 .. m : i \in 1 .. m + n /\ c[i] = s[i]
  BY <1>1
<1>3. \A j \in 1 .. n : m + j \in 1 .. m + n /\ c[m + j] = t[j]
  BY <1>1
<1>4. \A i \in 1 .. m + n : i \notin 1 .. m => i - m \in 1 .. n /\ c[i] = t[i - m]
  BY <1>1
<1>5. RowsOf(c) = RowsOf(s) \cup RowsOf(t)
  <2>1. ASSUME NEW i \in 1 .. m + n PROVE c[i] \in RowsOf(s) \cup RowsOf(t)
    BY <1>1, <1>2, <1>4 DEF RowsOf
  <2>2. RowsOf(c) \subseteq RowsOf(s) \cup RowsOf(t)
    BY <1>1, <2>1 DEF RowsOf
  <2>3. ASSUME NEW x \in RowsOf(s) PROVE x \in RowsOf(c)
    <3>1. PICK i \in 1 .. m : x = s[i]
      BY <1>1 DEF RowsOf
    <3>2. i \in DOMAIN c /\ x = c[i]
      BY <1>1, <1>2, <3>1
    <3>. QED BY <3>2 DEF RowsOf
  <2>4. ASSUME NEW x \in RowsOf(t) PROVE x \in RowsOf(c)
    <3>1. PICK j \in 1 .. n : x = t[j]
      BY <1>1 DEF RowsOf
    <3>2. m + j \in DOMAIN c /\ x = c[m + j]
      BY <1>1, <1>3, <3>1
    <3>. QED BY <3>2 DEF RowsOf
  <2>. QED BY <2>2, <2>3, <2>4
<1>6. ASSUME Sorted(s), Sorted(t), \A a \in RowsOf(s), b \in RowsOf(t) : ~Before(b, a),
             NEW i \in 1 .. m + n, NEW j \in 1 .. m + n, i < j
      PROVE  ~Before(c[j], c[i])
  <2>1. CASE j \in 1 .. m
    <3>1. i \in 1 .. m
      BY <1>1, <1>6, <2>1
    <3>. QED BY <1>1, <1>2, <1>6, <2>1, <3>1 DEF Sorted
  <2>2. CASE i \in 1 .. m /\ j \notin 1 .. m
    BY <1>1, <1>2, <1>4, <1>6, <2>2 DEF RowsOf
  <2>3. CASE i \notin 1 .. m /\ j \notin 1 .. m
    <3>1. i - m < j - m
      BY <1>1, <1>6
    <3>. QED BY <1>1, <1>4, <1>6, <2>3, <3>1 DEF Sorted
  <2>4. i \notin 1 .. m => j \notin 1 .. m
    BY <1>1, <1>6
  <2>. QED BY <2>1, <2>2, <2>3, <2>4
<1>. QED BY <1>1, <1>5, <1>6 DEF Sorted, c

\* A row is inserted where the order has room for it.
LEMMA InsertedRows ==
    ASSUME NEW E, NEW seq \in Seq(E), NEW row \in E, \A r \in E : IsRow(r), Sorted(seq)
    PROVE  /\ Inserted(seq, row) \in Seq(E)
           /\ RowsOf(Inserted(seq, row)) = RowsOf(seq) \cup {row}
           /\ Sorted(Inserted(seq, row))
<1>. DEFINE front == Kept(seq, {r \in RowsOf(seq) : ~Before(row, r)})
            back == Kept(seq, {r \in RowsOf(seq) : Before(row, r)})
<1>1. /\ front \in Seq(E) /\ Sorted(front)
      /\ RowsOf(front) = {r \in RowsOf(seq) : ~Before(row, r)}
  BY KeptRows
<1>2. /\ back \in Seq(E) /\ Sorted(back)
      /\ RowsOf(back) = {r \in RowsOf(seq) : Before(row, r)}
  BY KeptRows
<1>. DEFINE mid == <<row>>
            upto == front \o mid
<1>3. Inserted(seq, row) = upto \o back
  BY DEF Inserted
<1>4. RowsOf(seq) \subseteq E
  BY ElementOfSeq, LenProperties DEF RowsOf
<1>5. mid \in Seq(E) /\ RowsOf(mid) = {row} /\ Sorted(mid)
  <2>1. DOMAIN mid = {1} /\ mid[1] = row
    OBVIOUS
  <2>. QED BY <2>1 DEF RowsOf, Sorted
<1>. HIDE DEF front, back, mid
<1>6. upto \in Seq(E) /\ Sorted(upto) /\ RowsOf(upto) = RowsOf(front) \cup {row}
  <2>1. \A a \in RowsOf(front), b \in RowsOf(mid) : ~Before(b, a)
    BY <1>1, <1>5
  <2>. QED BY <1>1, <1>5, <2>1, ConcatRows
<1>7. \A a \in RowsOf(upto), b \in RowsOf(back) : ~Before(b, a)
  BY <1>1, <1>2, <1>4, <1>6, BeforeOrders
<1>. HIDE DEF upto
<1>8. /\ upto \o back \in Seq(E) /\ Sorted(upto \o back)
      /\ RowsOf(upto \o back) = RowsOf(upto) \cup RowsOf(back)
  BY <1>2, <1>6, <1>7, ConcatRows
<1>9. RowsOf(front) \cup RowsOf(back) = RowsOf(seq)
  BY <1>1, <1>2
<1>. QED BY <1>3, <1>6, <1>8, <1>9

\* parsed holds the list after each row of the file.
IsParsed(parsed, rows) ==
    /\ parsed = [k \in 0 .. Len(rows) |->
                    IF k = 0 THEN <<>>
                    ELSE IF Expired(rows[k]) THEN parsed[k - 1]
                    ELSE Inserted(parsed[k - 1], rows[k])]
    /\ Parse(rows) = parsed[Len(rows)]

\* The recursive function inside Parse exists.
LEMMA ParsedRun ==
    ASSUME NEW rows, Len(rows) \in Nat PROVE \E parsed : IsParsed(parsed, rows)
<1>. DEFINE n == Len(rows)
            Next1(a, k) == IF Expired(rows[k]) THEN a ELSE Inserted(a, rows[k])
            IsRun(g, m) == g = [k \in 0 .. m |-> IF k = 0 THEN <<>> ELSE Next1(g[k - 1], k)]
            Runs == {m \in Nat : \E g : IsRun(g, m)}
<1>. DEFINE run == CHOOSE f : f = [k \in 0 .. n |->
                        IF k = 0 THEN <<>>
                        ELSE IF Expired(rows[k]) THEN f[k - 1] ELSE Inserted(f[k - 1], rows[k])]
<1>1. Parse(rows) = run[n]
  BY DEF Parse
<1>2. run = CHOOSE f : f = [k \in 0 .. n |-> IF k = 0 THEN <<>> ELSE Next1(f[k - 1], k)]
  OBVIOUS
<1>. HIDE DEF Next1, run
<1>3. 0 \in Runs
  <2>. DEFINE g == [k \in 0 .. 0 |-> <<>>]
  <2>1. IsRun(g, 0) OBVIOUS
  <2>. QED BY <2>1
<1>4. ASSUME NEW m \in Nat, m \in Runs PROVE m + 1 \in Runs
  <2>1. PICK g : IsRun(g, m) BY <1>4
  <2>. DEFINE h == [k \in 0 .. m + 1 |-> IF k = m + 1 THEN Next1(g[m], m + 1) ELSE g[k]]
  <2>2. IsRun(h, m + 1) BY <2>1
  <2>. HIDE DEF h, IsRun
  <2>. QED BY <2>2
<1>5. PICK g : IsRun(g, n)
  <2>. HIDE DEF Runs
  <2>1. Nat \subseteq Runs BY <1>3, <1>4, SetInduction
  <2>. QED BY <2>1 DEF Runs
<1>6. run = [k \in 0 .. n |-> IF k = 0 THEN <<>> ELSE Next1(run[k - 1], k)]
  BY <1>2, <1>5, Zenon
<1>7. IsParsed(run, rows)
  BY <1>1, <1>6 DEF IsParsed, Next1
<1>. QED BY <1>7

\* The parsed list is sorted and holds the rows that have not expired.
LEMMA ParseSorts ==
    ASSUME NEW E, NEW rows \in Seq(E), \A r \in E : IsRow(r)
    PROVE  /\ Parse(rows) \in Seq(E)
           /\ RowsOf(Parse(rows)) = {r \in RowsOf(rows) : ~Expired(r)}
           /\ Sorted(Parse(rows))
<1>. DEFINE n == Len(rows)
<1>1. n \in Nat /\ DOMAIN rows = 1 .. n /\ \A i \in 1 .. n : rows[i] \in E
  BY LenProperties, ElementOfSeq
<1>2. PICK parsed : IsParsed(parsed, rows)
  BY <1>1, ParsedRun
<1>3. /\ parsed = [k \in 0 .. n |->
                     IF k = 0 THEN <<>>
                     ELSE IF Expired(rows[k]) THEN parsed[k - 1]
                     ELSE Inserted(parsed[k - 1], rows[k])]
      /\ Parse(rows) = parsed[n]
  BY <1>2 DEF IsParsed
<1>. DEFINE Unexpired(k) == {r \in {rows[i] : i \in 1 .. k} : ~Expired(r)}
            Good(s, k) == s \in Seq(E) /\ RowsOf(s) = Unexpired(k) /\ Sorted(s)
            Reached == {k \in Nat : k \in 0 .. n => Good(parsed[k], k)}
<1>4. 0 \in Reached
  <2>1. parsed[0] = <<>>
    BY <1>1, <1>3
  <2>2. <<>> \in Seq(E) /\ DOMAIN <<>> = {} /\ 1 .. 0 = {}
    OBVIOUS
  <2>3. Good(<<>>, 0)
    BY <2>2 DEF RowsOf, Sorted
  <2>. QED BY <2>1, <2>3
<1>5. ASSUME NEW k \in Nat, k \in Reached PROVE k + 1 \in Reached
  <2>. SUFFICES ASSUME k + 1 \in 0 .. n PROVE Good(parsed[k + 1], k + 1)
    OBVIOUS
  <2>1. Good(parsed[k], k)
    BY <1>1, <1>5
  <2>2. rows[k + 1] \in E
    BY <1>1
  <2>3. parsed[k + 1] = IF Expired(rows[k + 1]) THEN parsed[k]
                        ELSE Inserted(parsed[k], rows[k + 1])
    <3>1. \A j \in 0 .. n : j # 0 => parsed[j] = IF Expired(rows[j]) THEN parsed[j - 1]
                                                ELSE Inserted(parsed[j - 1], rows[j])
      BY <1>3, Zenon
    <3>2. k + 1 # 0 /\ (k + 1) - 1 = k
      OBVIOUS
    <3>. QED BY <3>1, <3>2, Zenon
  <2>4. {rows[i] : i \in 1 .. k + 1} = {rows[i] : i \in 1 .. k} \cup {rows[k + 1]}
    <3>1. 1 .. k + 1 = (1 .. k) \cup {k + 1}
      OBVIOUS
    <3>. QED BY <3>1
  <2>5. CASE Expired(rows[k + 1])
    <3>1. Unexpired(k + 1) = Unexpired(k)
      BY <2>4, <2>5
    <3>. QED BY <2>1, <2>3, <2>5, <3>1
  <2>6. CASE ~Expired(rows[k + 1])
    <3>1. Unexpired(k + 1) = Unexpired(k) \cup {rows[k + 1]}
      BY <2>4, <2>6
    <3>. DEFINE s == parsed[k]
                row == rows[k + 1]
    <3>2. s \in Seq(E) /\ Sorted(s) /\ row \in E /\ RowsOf(s) = Unexpired(k)
      BY <2>1, <2>2
    <3>3. parsed[k + 1] = Inserted(s, row) /\ Unexpired(k + 1) = Unexpired(k) \cup {row}
      BY <2>3, <2>6, <3>1
    <3>. HIDE DEF s, row, Unexpired
    <3>4. /\ Inserted(s, row) \in Seq(E)
          /\ RowsOf(Inserted(s, row)) = RowsOf(s) \cup {row}
          /\ Sorted(Inserted(s, row))
      BY <3>2, InsertedRows
    <3>5. Good(Inserted(s, row), k + 1)
      BY <3>2, <3>3, <3>4
    <3>. QED BY <3>3, <3>5
  <2>. QED BY <2>5, <2>6
<1>. HIDE DEF Reached, Good
<1>6. n \in Reached
  BY <1>1, <1>4, <1>5, SetInduction
<1>7. Good(parsed[n], n)
  <2>. HIDE DEF n
  <2>. QED BY <1>1, <1>6 DEF Reached
<1>8. Good(Parse(rows), n)
  BY <1>3, <1>7
<1>9. RowsOf(rows) = {rows[i] : i \in 1 .. n}
  BY <1>1 DEF RowsOf
<1>. QED BY <1>8, <1>9 DEF Good

-----------------------------------------------------------------------------
(* Searching                                                                 *)

\* What a cut keeps of a sorted list sorts nowhere behind what it leaves out.
LEMMA CutRows ==
    ASSUME NEW E, NEW seq \in Seq(E), NEW n \in Nat
    PROVE  /\ Cut(seq, n) \in Seq(E)
           /\ RowsOf(Cut(seq, n)) \subseteq RowsOf(seq)
           /\ Sorted(seq) => /\ Sorted(Cut(seq, n))
                             /\ \A g \in RowsOf(Cut(seq, n)), r \in RowsOf(seq) :
                                   r \in RowsOf(Cut(seq, n)) \/ ~Before(r, g)
<1>. DEFINE m == IF Len(seq) < n THEN Len(seq) ELSE n
            c == Cut(seq, n)
<1>1. Len(seq) \in Nat /\ DOMAIN seq = 1 .. Len(seq) /\ \A i \in 1 .. Len(seq) : seq[i] \in E
  BY LenProperties, ElementOfSeq
<1>2. m \in 0 .. Len(seq)
  BY <1>1
<1>3. c = SubSeq(seq, 1, m)
  BY DEF Cut
<1>. HIDE DEF m, c
<1>4. c \in Seq(E) /\ DOMAIN c = 1 .. m /\ \A i \in 1 .. m : c[i] = seq[i] /\ i \in DOMAIN seq
  <2>1. \A i \in 1 .. m : seq[i] \in E /\ i \in DOMAIN seq
    BY <1>1, <1>2
  <2>2. /\ SubSeq(seq, 1, m) \in Seq(E)
        /\ Len(SubSeq(seq, 1, m)) = IF 1 <= m THEN m - 1 + 1 ELSE 0
        /\ \A i \in 1 .. m - 1 + 1 : SubSeq(seq, 1, m)[i] = seq[1 + i - 1]
    BY <1>2, <2>1, SubSeqProperties
  <2>3. m - 1 + 1 = m /\ Len(c) = m
    BY <1>2, <1>3, <2>2
  <2>4. DOMAIN c = 1 .. m
    BY <1>3, <2>2, <2>3, LenProperties
  <2>5. \A i \in 1 .. m : c[i] = seq[i]
    BY <1>2, <1>3, <2>2, <2>3
  <2>. QED BY <1>3, <2>1, <2>2, <2>4, <2>5
<1>5. RowsOf(c) \subseteq RowsOf(seq)
  BY <1>4 DEF RowsOf
<1>6. Sorted(seq) => Sorted(c)
  BY <1>4 DEF Sorted
<1>7. ASSUME Sorted(seq), NEW i \in 1 .. m, NEW j \in 1 .. Len(seq), seq[j] \notin RowsOf(c)
      PROVE  ~Before(seq[j], c[i])
  <2>1. j \notin 1 .. m
    BY <1>4, <1>7 DEF RowsOf
  <2>2. i < j
    BY <1>1, <1>2, <2>1
  <2>. QED BY <1>1, <1>4, <1>7, <2>2 DEF Sorted
<1>8. Sorted(seq) => \A g \in RowsOf(c), r \in RowsOf(seq) : r \in RowsOf(c) \/ ~Before(r, g)
  BY <1>1, <1>4, <1>7 DEF RowsOf
<1>. QED BY <1>4, <1>5, <1>6, <1>8 DEF c

\* A cut through the first of two lists, when it leaves out a row of it, is a cut of that list.
LEMMA CutInFirst ==
    ASSUME NEW E, NEW s \in Seq(E), NEW t \in Seq(E), NEW n \in Nat,
           NEW r \in RowsOf(s), r \notin RowsOf(Cut(s \o t, n))
    PROVE  Cut(s \o t, n) = Cut(s, n)
<1>. DEFINE c == s \o t
<1>1. /\ c \in Seq(E) /\ Len(s) \in Nat /\ Len(t) \in Nat /\ DOMAIN s = 1 .. Len(s)
      /\ DOMAIN c = 1 .. Len(s) + Len(t) /\ Len(c) = Len(s) + Len(t)
      /\ \A i \in 1 .. Len(s) : c[i] = s[i] /\ s[i] \in E
  BY ConcatProperties, LenProperties, ElementOfSeq
<1>. HIDE DEF c
<1>2. PICK p \in 1 .. Len(s) : r = s[p]
  BY <1>1 DEF RowsOf
<1>. DEFINE m == IF Len(c) < n THEN Len(c) ELSE n
<1>3. Cut(c, n) = SubSeq(c, 1, m) /\ m \in Nat /\ m <= Len(c)
  BY <1>1 DEF Cut
<1>. HIDE DEF m
<1>4. \A i \in 1 .. m : c[i] \in E
  BY <1>1, <1>3, ElementOfSeq
<1>5. /\ SubSeq(c, 1, m) \in Seq(E)
      /\ Len(SubSeq(c, 1, m)) = m
      /\ \A i \in 1 .. m : SubSeq(c, 1, m)[i] = c[i]
  <2>1. m \in Int /\ 1 \in Int /\ m - 1 + 1 = m /\ (1 > m => m = 0)
    BY <1>3
  <2>2. /\ SubSeq(c, 1, m) \in Seq(E)
        /\ Len(SubSeq(c, 1, m)) = IF 1 <= m THEN m - 1 + 1 ELSE 0
        /\ \A i \in 1 .. m - 1 + 1 : SubSeq(c, 1, m)[i] = c[1 + i - 1]
    BY <1>4, <2>1, SubSeqProperties
  <2>. QED BY <1>3, <2>1, <2>2
<1>6. m < p
  <2>. SUFFICES ASSUME p \in 1 .. m PROVE FALSE
    BY <1>1, <1>3
  <2>1. SubSeq(c, 1, m)[p] = r /\ p \in DOMAIN SubSeq(c, 1, m)
    BY <1>1, <1>2, <1>5, LenProperties
  <2>. QED BY <1>3, <2>1 DEF RowsOf, c
<1>7. m = n /\ n < Len(s)
  BY <1>1, <1>2, <1>3, <1>6 DEF m
<1>8. Cut(s, n) = SubSeq(s, 1, n)
  <2>. DEFINE l == Len(s)
  <2>2. l \in Nat /\ n < l
    BY <1>1, <1>7
  <2>. HIDE DEF l
  <2>3. (IF l < n THEN l ELSE n) = n
    BY <2>2
  <2>1. (IF Len(s) < n THEN Len(s) ELSE n) = n
    BY <2>3 DEF l
  <2>. QED BY <2>1 DEF Cut
<1>9. /\ SubSeq(s, 1, n) \in Seq(E)
      /\ Len(SubSeq(s, 1, n)) = n
      /\ \A i \in 1 .. n : SubSeq(s, 1, n)[i] = s[i]
  <2>1. n \in Int /\ 1 \in Int /\ n - 1 + 1 = n /\ (1 > n => n = 0)
    OBVIOUS
  <2>2. \A i \in 1 .. n : s[i] \in E
    BY <1>1, <1>7
  <2>3. /\ SubSeq(s, 1, n) \in Seq(E)
        /\ Len(SubSeq(s, 1, n)) = IF 1 <= n THEN n - 1 + 1 ELSE 0
        /\ \A i \in 1 .. n - 1 + 1 : SubSeq(s, 1, n)[i] = s[1 + i - 1]
    BY <2>1, <2>2, SubSeqProperties
  <2>. QED BY <2>1, <2>3
<1>10. \A i \in 1 .. n : SubSeq(c, 1, m)[i] = SubSeq(s, 1, n)[i]
  BY <1>1, <1>5, <1>7, <1>9
<1>11. SubSeq(c, 1, m) = SubSeq(s, 1, n)
  BY <1>5, <1>7, <1>9, <1>10, SeqEqual
<1>. QED BY <1>3, <1>8, <1>11 DEF c

\* A search returns rows of the list.
LEMMA SearchRows ==
    ASSUME NEW E, instruments \in Seq(E), NEW sym
    PROVE  RowsOf(Search(sym)) \subseteq RowsOf(instruments)
<1>. DEFINE Of(names) == {x \in RowsOf(instruments) : x.underlying \in names}
            found == Kept(instruments, Of({sym} \cup Longer[sym] \cup Within[sym]))
            met == Cut(found, 3 * SearchLimit + 1)
            A == Kept(met, Of({sym}))
            B == Kept(met, Of(Longer[sym]))
            C == Kept(met, Of(Within[sym]))
            AB == A \o B
<1>1. Search(sym) = Cut(AB \o C, SearchLimit)
  BY DEF Search
<1>2. SearchLimit \in Nat /\ 3 * SearchLimit + 1 \in Nat
  BY FeedAssumption
<1>3. found \in Seq(E) /\ RowsOf(found) \subseteq RowsOf(instruments)
  BY KeptRows
<1>. HIDE DEF found
<1>4. met \in Seq(E) /\ RowsOf(met) \subseteq RowsOf(found)
  BY <1>2, <1>3, CutRows
<1>. HIDE DEF met
<1>5. /\ A \in Seq(E) /\ B \in Seq(E) /\ C \in Seq(E)
      /\ RowsOf(A) \cup RowsOf(B) \cup RowsOf(C) \subseteq RowsOf(met)
  BY <1>4, KeptRows
<1>. HIDE DEF A, B, C
<1>6. AB \in Seq(E) /\ RowsOf(AB) = RowsOf(A) \cup RowsOf(B)
  BY <1>5, ConcatRows
<1>. HIDE DEF AB
<1>7. AB \o C \in Seq(E) /\ RowsOf(AB \o C) = RowsOf(AB) \cup RowsOf(C)
  BY <1>5, <1>6, ConcatRows
<1>8. RowsOf(Cut(AB \o C, SearchLimit)) \subseteq RowsOf(AB \o C)
  BY <1>2, <1>7, CutRows
<1>. QED BY <1>1, <1>3, <1>4, <1>5, <1>6, <1>7, <1>8

\* A future that the search leaves out, by its limit or because its scan stopped before, does
\* not expire before any future that the search returns.
LEMMA SearchFinds ==
    ASSUME NEW E, \A x \in E : IsRow(x), instruments \in Seq(E), Sorted(instruments),
           NEW sym, NEW r \in RowsOf(instruments), r.underlying = sym, r.type = "FUT",
           NEW g \in RowsOf(Search(sym)), g.type = "FUT"
    PROVE  r \in RowsOf(Search(sym)) \/ g.expiry <= r.expiry
<1>. DEFINE Of(names) == {x \in RowsOf(instruments) : x.underlying \in names}
            found == Kept(instruments, Of({sym} \cup Longer[sym] \cup Within[sym]))
            met == Cut(found, 3 * SearchLimit + 1)
            A == Kept(met, Of({sym}))
            B == Kept(met, Of(Longer[sym]))
            C == Kept(met, Of(Within[sym]))
            AB == A \o B
<1>1. Search(sym) = Cut(AB \o C, SearchLimit)
  BY DEF Search
<1>2. SearchLimit \in Nat /\ 3 * SearchLimit + 1 \in Nat
  BY FeedAssumption
<1>3. RowsOf(instruments) \subseteq E
  BY ElementOfSeq, LenProperties DEF RowsOf
<1>4. found \in Seq(E) /\ Sorted(found) /\ RowsOf(found) \subseteq RowsOf(instruments)
      /\ r \in RowsOf(found)
  BY KeptRows
<1>. HIDE DEF found
<1>5. /\ met \in Seq(E) /\ Sorted(met) /\ RowsOf(met) \subseteq RowsOf(found)
      /\ \A x \in RowsOf(met), y \in RowsOf(found) : y \in RowsOf(met) \/ ~Before(y, x)
  BY <1>2, <1>4, CutRows
<1>. HIDE DEF met
<1>6. /\ A \in Seq(E) /\ Sorted(A) /\ RowsOf(A) \subseteq RowsOf(met)
      /\ r \in RowsOf(met) => r \in RowsOf(A)
  BY <1>5, KeptRows
<1>7. /\ B \in Seq(E) /\ RowsOf(B) \subseteq RowsOf(met)
      /\ C \in Seq(E) /\ RowsOf(C) \subseteq RowsOf(met)
  BY <1>5, KeptRows
<1>. HIDE DEF A, B, C
<1>8. AB \in Seq(E) /\ RowsOf(AB) = RowsOf(A) \cup RowsOf(B)
  BY <1>6, <1>7, ConcatRows
<1>. HIDE DEF AB
<1>9. AB \o C \in Seq(E) /\ RowsOf(AB \o C) = RowsOf(AB) \cup RowsOf(C)
  BY <1>7, <1>8, ConcatRows
<1>10. g \in RowsOf(met) /\ g \in RowsOf(instruments)
  <2>1. RowsOf(Cut(AB \o C, SearchLimit)) \subseteq RowsOf(AB \o C)
    BY <1>2, <1>9, CutRows
  <2>. QED BY <1>1, <1>4, <1>5, <1>6, <1>7, <1>8, <1>9, <2>1
<1>11. ASSUME r \notin RowsOf(Search(sym)) PROVE ~Before(r, g)
  <2>1. CASE r \notin RowsOf(met)
    BY <1>4, <1>5, <1>10, <2>1
  <2>2. CASE r \in RowsOf(met)
    <3>1. r \in RowsOf(A) /\ r \in RowsOf(AB)
      BY <1>6, <1>8, <2>2
    <3>2. Cut(AB \o C, SearchLimit) = Cut(AB, SearchLimit)
      BY <1>1, <1>2, <1>7, <1>8, <1>11, <3>1, CutInFirst
    <3>3. Cut(AB, SearchLimit) = Cut(A, SearchLimit)
      BY <1>1, <1>2, <1>6, <1>7, <1>11, <3>1, <3>2, CutInFirst DEF AB
    <3>4. g \in RowsOf(Cut(A, SearchLimit)) /\ r \notin RowsOf(Cut(A, SearchLimit))
      BY <1>1, <1>11, <3>2, <3>3
    <3>. QED BY <1>2, <1>6, <3>1, <3>4, CutRows
  <2>. QED BY <2>1, <2>2
<1>12. ~Before(r, g) => g.expiry <= r.expiry
  BY <1>3, <1>10, BeforeOrders
<1>. QED BY <1>11, <1>12

\* Some row of a set expires first, and that is the one taken.
LEMMA NearestFirst ==
    ASSUME NEW rows, rows # {}, \A r \in rows : r.expiry \in Nat
    PROVE  Nearest(rows) \in rows /\ \A r \in rows : Nearest(rows).expiry <= r.expiry
<1>. DEFINE days == {r.expiry : r \in rows}
<1>1. PICK d \in days : \A e \in days : d <= e
  <2>1. days \subseteq Nat /\ days # {}
    OBVIOUS
  <2>. HIDE DEF days
  <2>. QED BY <2>1, Smallest
<1>2. \E r \in rows : \A o \in rows : r.expiry <= o.expiry
  BY <1>1
<1>. QED BY <1>2, Zenon DEF Nearest

\* The loader: the list of the file, once loaded, is the parsed one.
MasterInv ==
    /\ listing \in Listings
    /\ instruments \in {<<>>, Parse(listing)}
    /\ master = "loaded" => instruments = Parse(listing)

\* What the listings hold.
LEMMA ListingRows ==
    ASSUME listing \in Listings
    PROVE  listing \in Seq(RowsOf(listing)) /\ \A r \in RowsOf(listing) : IsRow(r)
BY ListingAssumption DEF RowsOf, IsRow, Type

\* Whichever way a future is looked up, the contract found is its near month or earlier.
LEMMA MapIsNearest ==
    ASSUME MasterInv, NEW reached, NEW s \in DOMAIN InstrumentMap(reached) \cap Futures
    PROVE  LET found == InstrumentMap(reached)[s] IN
           /\ ~Expired(found)
           /\ \A r \in RowsOf(listing) :
                 /\ r.type = "FUT" /\ r.underlying = s
                 /\ r.expiry # NoExpiry /\ ~Expired(r)
                 => found.expiry <= r.expiry
<1>. DEFINE hits == IF master = "loaded" THEN FutureHits(s)
                    ELSE IF s \in reached THEN RawHits(s) ELSE {}
            found == InstrumentMap(reached)[s]
<1>1. s \notin Equities
  BY FeedAssumption
<1>2. hits # {} /\ found = Nearest(hits)
  BY <1>1, FeedAssumption DEF InstrumentMap
<1>. HIDE DEF found
<1>. DEFINE Asked == {r \in RowsOf(listing) : /\ r.type = "FUT" /\ r.underlying = s
                                              /\ r.expiry # NoExpiry /\ ~Expired(r)}
<1>3. listing \in Seq(RowsOf(listing)) /\ \A r \in RowsOf(listing) : IsRow(r)
  BY ListingRows DEF MasterInv
<1>4. /\ \A h \in hits : h \in RowsOf(listing) /\ ~Expired(h)
      /\ \A r \in Asked, h \in hits : r \in hits \/ h.expiry <= r.expiry
  <2>1. CASE master = "loaded"
    <3>1. hits = {h \in RowsOf(Search(s)) : h.type = "FUT" /\ h.expiry # NoExpiry}
      BY <2>1 DEF FutureHits
    <3>2. /\ instruments \in Seq(RowsOf(listing)) /\ Sorted(instruments)
          /\ RowsOf(instruments) = {r \in RowsOf(listing) : ~Expired(r)}
      BY <1>3, <2>1, ParseSorts DEF MasterInv
    <3>. HIDE DEF hits
    <3>3. \A h \in hits : h \in RowsOf(instruments)
      <4>. SUFFICES ASSUME NEW h \in hits PROVE h \in RowsOf(instruments)
        OBVIOUS
      <4>. QED BY <1>3, <3>1, <3>2, SearchRows
    <3>4. ASSUME NEW r \in Asked, NEW h \in hits, r \notin hits PROVE h.expiry <= r.expiry
      <4>1. r \in RowsOf(instruments) /\ r \notin RowsOf(Search(s))
        BY <3>1, <3>2, <3>4
      <4>2. h \in RowsOf(Search(s)) /\ h.type = "FUT" /\ r.type = "FUT" /\ r.underlying = s
        BY <3>1
      <4>. QED BY <1>3, <3>2, <4>1, <4>2, SearchFinds
    <3>. QED BY <3>2, <3>3, <3>4
  <2>2. CASE master # "loaded"
    BY <1>2, <2>2 DEF RawHits
  <2>. QED BY <2>1, <2>2
<1>. HIDE DEF hits
<1>5. \A h \in hits : h.expiry \in Nat
  BY <1>3, <1>4 DEF IsRow
<1>6. found \in hits /\ \A h \in hits : found.expiry <= h.expiry
  BY <1>2, <1>5, NearestFirst
<1>. QED BY <1>4, <1>6 DEF found

-----------------------------------------------------------------------------
(* Types and contracts                                                       *)

\* The rows of the parsed list are rows of the file.
LEMMA ParsedRows ==
    ASSUME MasterInv
    PROVE  RowsOf(instruments) \subseteq RowsOf(listing)
<1>1. RowsOf(<<>>) = {}
  BY DEF RowsOf
<1>2. RowsOf(Parse(listing)) \subseteq RowsOf(listing)
  BY ListingRows, ParseSorts DEF MasterInv
<1>. QED BY <1>1, <1>2 DEF MasterInv

\* The thread that has counted too many instant disconnects ends.
CountInv ==
    /\ fast_fails \in 0 .. MaxFastFails
    /\ fast_fails = MaxFastFails => thread \in {"ending", "ended"}

\* The types of the loader's and the feed's variables, but for the count's.
FeedTypes ==
    /\ master \in {"loading", "loaded", "failed"}
    /\ file \in {"none", "stale", "fresh"}
    /\ running \in BOOLEAN /\ stage \in Stages
    /\ DOMAIN contract \subseteq Configured
    /\ ids \subseteq Symbols /\ subs \subseteq Symbols /\ all \subseteq Symbols
    /\ got_ticks \in BOOLEAN
    /\ thread \in ThreadStates
    /\ current_ws \in BOOLEAN /\ thread_loop \in BOOLEAN /\ connect_ok \in BOOLEAN
    /\ to_send \subseteq Symbols /\ in_hand \in Symbols \cup {NoSymbol}
    /\ alive \in BOOLEAN /\ served \subseteq Symbols
    /\ sending \subseteq Symbols /\ adding \in Symbols \cup {NoSymbol}
    /\ early \subseteq Symbols /\ late \subseteq Symbols
    /\ sim \in {"off", "posted", "running", "dead"} /\ sim_priced \subseteq Symbols

\* The inductive invariant of the feed's books.
FeedInv == PlacesInv /\ MasterInv /\ CountInv /\ FeedTypes /\ NearestContract

\* Where they start.
LEMMA FeedInit == Init => FeedInv
<1>. SUFFICES ASSUME Init PROVE FeedInv
  OBVIOUS
<1>1. PlacesInv
  BY PlacesInit
<1>2. MasterInv /\ CountInv
  BY FeedAssumption DEF Init, MasterInit, MasterInv, CountInv
<1>3. FeedTypes
  <2>1. DOMAIN contract = {}
    BY DEF Init
  <2>. QED BY <2>1 DEF Init, MasterInit, FeedTypes, Stages, ThreadStates, Symbols
<1>4. NearestContract
  <2>1. DOMAIN contract = {}
    BY DEF Init
  <2>. QED BY <2>1 DEF NearestContract
<1>. QED BY <1>1, <1>2, <1>3, <1>4 DEF FeedInv

\* The list is loaded once, and only LoadMaster and Resolve touch it or the contracts.
LEMMA ListStep ==
    ASSUME MasterInv, NearestContract, [Next]_vars
    PROVE  MasterInv' /\ NearestContract'
<1>1. CASE LoadMaster
  <2>1. Load /\ contract' = contract
    BY <1>1 DEF LoadMaster, feedVars, startVars
  <2>. QED BY <2>1 DEF Load, MasterInv, NearestContract
<1>2. CASE Resolve
  <2>1. UNCHANGED <<master, file, listing, instruments>>
    BY <1>2 DEF Resolve, masterVars
  <2>2. PICK reached \in SUBSET Futures : contract' = InstrumentMap(reached)
    BY <1>2, Zenon DEF Resolve
  <2>3. NearestContract'
    BY <2>1, <2>2, MapIsNearest DEF NearestContract
  <2>. QED BY <2>1, <2>3 DEF MasterInv
<1>3. CASE ~LoadMaster /\ ~Resolve
  <2>1. UNCHANGED <<master, listing, instruments, contract>>
    <3>1. CASE Start
      BY <1>3, <3>1 DEF Start, StopWaiting, Preflight, Launch, masterVars
    <3>2. CASE Thread
      BY <3>2 DEF Thread, Connected, Refused, Greeted, Subscribed, PassOn, ReceivedOther,
         ReceivedNothing, Received, Disconnected, Retry, ThreadExits, masterVars, startVars
    <3>3. CASE Stand_in \/ Routes \/ Drop
      BY <3>3 DEF Stand_in, StartSim, SimRound, Routes, Add, Sent, Remove, AddFails, Stop, Drop,
         masterVars, startVars
    <3>. QED BY <1>3, <3>1, <3>2, <3>3 DEF Next, Environment, vars, feedVars, masterVars,
                startVars
  <2>. QED BY <2>1 DEF MasterInv, NearestContract
<1>. QED BY <1>1, <1>2, <1>3

\* start() keeps the types: what it resolves are configured symbols.
LEMMA TypesStart ==
    ASSUME PlacesInv, CountInv, FeedTypes, Start
    PROVE  CountInv' /\ FeedTypes'
<1>1. CASE StopWaiting \/ Preflight
  BY <1>1 DEF StopWaiting, Preflight, CountInv, FeedTypes, Stages, masterVars, bookVars,
     threadVars, linkVars, addVars, simVars
<1>2. CASE Resolve
  <2>1. PICK reached \in SUBSET Futures :
            LET map == InstrumentMap(reached) IN
            /\ contract' = map
            /\ IF map = <<>>
               THEN /\ stage' = "simulating"
                    /\ sim' = "running" /\ sim_priced' = all
                    /\ UNCHANGED <<ids, subs>>
               ELSE /\ stage' = "checking"
                    /\ ids' = DOMAIN map /\ subs' = DOMAIN map
                    /\ UNCHANGED simVars
    BY <1>2, Zenon DEF Resolve
  <2>2. DOMAIN InstrumentMap(reached) \subseteq Configured
    BY DEF InstrumentMap, Configured
  <2>3. UNCHANGED <<master, file, running, all, got_ticks, threadVars, linkVars, addVars>>
    BY <1>2 DEF Resolve, masterVars
  <2>. DEFINE map == InstrumentMap(reached)
  <2>4. /\ contract' = map /\ DOMAIN map \subseteq Configured
        /\ \/ /\ stage' = "simulating" /\ sim' = "running" /\ sim_priced' = all
              /\ ids' = ids /\ subs' = subs
           \/ /\ stage' = "checking" /\ ids' = DOMAIN map /\ subs' = DOMAIN map
              /\ sim' = sim /\ sim_priced' = sim_priced
    BY <2>1, <2>2 DEF simVars
  <2>. HIDE DEF map
  <2>. QED BY <2>3, <2>4 DEF CountInv, FeedTypes, Stages, Symbols, threadVars, linkVars,
              addVars
<1>3. CASE Launch
  <2>1. thread = "none"
    BY <1>3 DEF Launch, PlacesInv
  <2>. QED BY <1>3, <2>1 DEF Launch, CountInv, FeedTypes, Stages, ThreadStates, masterVars,
              bookVars, linkVars, addVars, simVars
<1>. QED BY <1>1, <1>2, <1>3 DEF Start

\* The thread keeps the types: it counts no further than it ends at.
LEMMA TypesThread ==
    ASSUME CountInv, FeedTypes, Thread
    PROVE  CountInv' /\ FeedTypes'
<1>1. CASE Connected
  BY <1>1, FeedAssumption DEF Connected, CountInv, FeedTypes, ThreadStates,
     masterVars, startVars, bookVars, addVars, simVars
<1>2. CASE Greeted
  BY <1>2, FeedAssumption DEF Greeted, CountInv, FeedTypes, ThreadStates,
     masterVars, startVars, bookVars, linkVars, addVars, simVars
<1>3. CASE Retry
  BY <1>3, FeedAssumption DEF Retry, CountInv, FeedTypes, ThreadStates,
     masterVars, startVars, bookVars, linkVars, addVars, simVars
<1>4. CASE Subscribed
  BY <1>4, FeedAssumption DEF Subscribed,
     CountInv, FeedTypes, ThreadStates, masterVars, startVars, bookVars, simVars
<1>5. CASE PassOn \/ ReceivedOther \/ ReceivedNothing
  <2>1. /\ UNCHANGED <<master, file, running, stage, contract, bookVars, thread_loop, to_send,
                       served, adding, early, late, simVars>>
        /\ got_ticks' \in BOOLEAN /\ connect_ok' \in BOOLEAN /\ current_ws' \in BOOLEAN
        /\ alive' \in BOOLEAN /\ in_hand' \in Symbols \cup {NoSymbol} /\ sending' \subseteq Symbols
    BY <1>5 DEF PassOn, ReceivedOther, ReceivedNothing, AfterMessage, FeedTypes, masterVars,
       startVars
  <2>2. thread' \in {"receiving", "ending"} /\ fast_fails' \in {0, fast_fails}
        /\ fast_fails # MaxFastFails
    BY <1>5 DEF PassOn, ReceivedOther, ReceivedNothing, AfterMessage, CountInv
  <2>3. CountInv'
    BY <2>2, FeedAssumption DEF CountInv
  <2>4. FeedTypes'
    BY <2>1, <2>2 DEF FeedTypes, ThreadStates, bookVars, simVars
  <2>. QED BY <2>3, <2>4
<1>6. CASE \E s \in Symbols : Received(s)
  BY <1>6, FeedAssumption DEF Received, CountInv, FeedTypes, ThreadStates, masterVars, startVars,
     bookVars, linkVars, addVars, simVars
<1>7. CASE Refused \/ Disconnected
  <2>1. MaxFastFails \in Nat /\ fast_fails \in 0 .. MaxFastFails - 1
    BY <1>7, FeedAssumption DEF Refused, Disconnected, CountInv
  <2>2. /\ fast_fails' \in {fast_fails, fast_fails + 1}
        /\ thread' \in {"ending", "sleeping"}
        /\ fast_fails' >= MaxFastFails => thread' = "ending"
    BY <1>7 DEF Refused, Disconnected, NextRound
  <2>3. CountInv'
    BY <2>1, <2>2 DEF CountInv
  <2>4. thread' \in ThreadStates
    BY <2>2 DEF ThreadStates
  <2>5. /\ UNCHANGED <<master, file, running, stage, contract, bookVars, got_ticks, thread_loop,
                       in_hand, linkVars, adding, early, late, simVars>>
        /\ current_ws' \in BOOLEAN /\ connect_ok' \in BOOLEAN
        /\ to_send' \subseteq Symbols /\ sending' \subseteq Symbols
    BY <1>7 DEF Refused, Disconnected, FeedTypes, masterVars, startVars, addVars
  <2>6. FeedTypes'
    BY <2>4, <2>5 DEF FeedTypes, bookVars, linkVars, simVars
  <2>. QED BY <2>3, <2>6
<1>8. CASE ThreadExits
  BY <1>8 DEF ThreadExits, CountInv, FeedTypes, ThreadStates, masterVars, startVars, bookVars,
     linkVars, addVars
<1>. QED BY <1>1, <1>2, <1>3, <1>4, <1>5, <1>6, <1>7, <1>8 DEF Thread

\* So do the stand-in, the routes, the loader and the network.
LEMMA TypesRest ==
    ASSUME CountInv, FeedTypes, Stand_in \/ Routes \/ Environment \/ UNCHANGED vars
    PROVE  CountInv' /\ FeedTypes'
<1>1. CASE Stand_in
  BY <1>1 DEF Stand_in, StartSim, SimRound, CountInv, FeedTypes, masterVars, startVars, bookVars,
     threadVars, linkVars, addVars
<1>2. CASE LoadMaster
  <2>1. /\ master' \in {"loaded", "failed"} /\ file' \in {file, "fresh"}
        /\ UNCHANGED feedVars
    BY <1>2 DEF LoadMaster, Load
  <2>. QED BY <2>1 DEF feedVars, CountInv, FeedTypes, startVars, bookVars, threadVars, linkVars,
              addVars, simVars
<1>3. CASE Drop \/ Stop
  <2>1. /\ UNCHANGED <<master, file, stage, contract, bookVars, got_ticks, threadVars, served,
                       addVars, simVars>>
        /\ running' \in BOOLEAN /\ alive' \in BOOLEAN
    BY <1>3 DEF Drop, Stop, FeedTypes, masterVars, startVars, linkVars
  <2>. QED BY <2>1 DEF CountInv, FeedTypes, bookVars, threadVars, addVars, simVars
<1>4. CASE AddFails
  BY <1>4 DEF AddFails, CountInv, FeedTypes, masterVars, startVars, bookVars, threadVars,
     linkVars, simVars
<1>5. CASE UNCHANGED vars
  BY <1>5 DEF vars, feedVars, CountInv, FeedTypes, masterVars, startVars, bookVars, threadVars,
     linkVars, addVars, simVars
<1>6. ASSUME NEW s \in Symbols, Add(s) PROVE CountInv' /\ FeedTypes'
  BY <1>6 DEF Add, Accept, CountInv, FeedTypes, masterVars, startVars, bookVars, threadVars,
     linkVars, simVars
<1>7. ASSUME NEW s \in Symbols, Sent(s) \/ Remove(s) PROVE CountInv' /\ FeedTypes'
  BY <1>7 DEF Sent, Remove, Accept, CountInv, FeedTypes, masterVars, startVars, bookVars,
     threadVars, linkVars, simVars
<1>. QED BY <1>1, <1>2, <1>3, <1>4, <1>5, <1>6, <1>7 DEF Routes, Environment

\* The inductive invariant of the feed's books holds throughout.
THEOREM FeedInvariant == Spec => []FeedInv
<1>1. Init => FeedInv
  BY FeedInit
<1>2. FeedInv /\ [Next]_vars => FeedInv'
  <2>. SUFFICES ASSUME FeedInv, [Next]_vars PROVE FeedInv'
    OBVIOUS
  <2>1. PlacesInv'
    BY PlacesStart, PlacesThread, PlacesRest DEF Next, FeedInv
  <2>2. CountInv' /\ FeedTypes'
    BY TypesStart, TypesThread, TypesRest DEF Next, FeedInv
  <2>3. MasterInv' /\ NearestContract'
    BY ListStep DEF FeedInv
  <2>. QED BY <2>1, <2>2, <2>3 DEF FeedInv
<1>. QED BY <1>1, <1>2, PTL DEF Spec

\* Every variable of the loader and the feed keeps values of its type; the count of instant
\* disconnects never passes the number the thread gives up at.
THEOREM FeedTypeOK == Spec => []TypeOK
<1>1. FeedInv => TypeOK
  BY ParsedRows DEF FeedInv, MasterInv, CountInv, FeedTypes, TypeOK, MasterTypeOK
<1>. QED BY <1>1, FeedInvariant, PTL

\* Whatever the list holds, wherever the search stops and whichever way a future is looked up,
\* the feed subscribes to a contract that has not expired and is no later than the near month.
THEOREM ContractsAreNearest == Spec => []NearestContract
<1>1. FeedInv => NearestContract
  BY DEF FeedInv
<1>. QED BY <1>1, FeedInvariant, PTL
=============================================================================

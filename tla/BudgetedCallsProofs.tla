--------------------------- MODULE BudgetedCallsProofs ---------------------------
(***************************************************************************)
(* Theorems about the calls to language models, for every budget, set of   *)
(* prices and number of callers: the throttle's mode and file, the router's *)
(* attempts, and the bound on the day's spend that follows from the two.   *)
(***************************************************************************)
EXTENDS BudgetedCalls, FiniteSetTheorems, TLAPS

-----------------------------------------------------------------------------
(* The throttle                                                              *)

Ages == Absent .. CacheTtl + 1

\* The mode and the file are never behind the spend.
ThrottleInv == ThrottleTypeOK /\ AiMeansBudgetLeft /\ FileAgrees

\* Looking into the cache changes nothing but the age of one entry.
LEMMA GetCachedInv ==
    ASSUME ThrottleInv, NEW k \in Keys, GetCached(k),
           UNCHANGED <<spend, saved, synced, mode, day>>
    PROVE  ThrottleInv'
<1>1. CacheTtl \in Nat
    BY ThrottleAssumption
<1>2. cache \in [Keys -> Ages]
    BY DEF ThrottleInv, ThrottleTypeOK, Ages
<1>3. cache' \in [Keys -> Ages]
    BY <1>1, <1>2 DEF GetCached, Ages, Absent
<1> QED
    BY <1>3 DEF ThrottleInv, ThrottleTypeOK, Ages, AiMeansBudgetLeft, FileAgrees

\* Recording an answer switches the mode in the step that reaches the budget.
LEMMA RecordInv ==
    ASSUME ThrottleInv, NEW k \in Keys, NEW cost \in Nat, NEW ok \in BOOLEAN,
           Record(k, cost, ok)
    PROVE  ThrottleInv'
<1>1. CacheTtl \in Nat /\ Budget \in Nat
    BY ThrottleAssumption
<1>2. /\ cache \in [Keys -> Ages] /\ spend \in Nat /\ saved \in Nat
      /\ mode \in {"ai", "rules_only"} /\ day \in 0 .. MaxDays
    BY DEF ThrottleInv, ThrottleTypeOK, Ages
<1>3. /\ spend' = spend + cost /\ mode' = ModeAfter(mode, spend + cost)
      /\ saved' = (IF ok THEN spend + cost ELSE saved) /\ synced' = ok
      /\ day' = day
      /\ cache' = [j \in Keys |-> IF j = k THEN 0
                                  ELSE IF Expired(j) THEN Absent ELSE cache[j]]
    BY DEF Record, Persist
<1>4. cache' \in [Keys -> Ages]
    BY <1>1, <1>2, <1>3 DEF Ages, Absent
<1>5. synced' \in BOOLEAN /\ (synced' => ok)
    BY <1>3, Zenon
<1>6. spend' \in Nat /\ saved' \in Nat /\ (ok => saved' = spend')
    BY <1>2, <1>3
<1>7. mode' \in {"ai", "rules_only"} /\ (mode' = "ai" => spend' < Budget)
    BY <1>1, <1>2, <1>3 DEF ModeAfter
<1> QED
    BY <1>2, <1>3, <1>4, <1>5, <1>6, <1>7, Zenon
       DEF ThrottleInv, ThrottleTypeOK, Ages, AiMeansBudgetLeft, FileAgrees

\* A reset starts the day afresh.
LEMMA ResetDayInv ==
    ASSUME ThrottleInv, NEW ok \in BOOLEAN, ResetDay(ok)
    PROVE  ThrottleInv'
<1>1. Budget \in Nat \ {0}
    BY ThrottleAssumption
<1>2. /\ spend' = 0 /\ mode' = "ai" /\ synced' = ok
      /\ saved' = (IF ok THEN 0 ELSE saved)
      /\ cache' = cache /\ day' = day
    BY DEF ResetDay, Persist
<1>3. synced' \in BOOLEAN /\ (synced' => ok)
    BY <1>2, Zenon
<1>4. saved' \in Nat /\ (ok => saved' = spend') /\ spend' \in Nat /\ spend' < Budget
    BY <1>1, <1>2 DEF ThrottleInv, ThrottleTypeOK
<1> QED
    BY <1>2, <1>3, <1>4, Zenon DEF ThrottleInv, ThrottleTypeOK, AiMeansBudgetLeft, FileAgrees

\* Dropping answers, their ageing and a new date keep the invariant.
LEMMA ClockInv ==
    ASSUME ThrottleInv, (\E ks : InvalidateCache(ks)) \/ Age \/ NewDay
    PROVE  ThrottleInv'
<1>1. CacheTtl \in Nat /\ Budget \in Nat \ {0} /\ MaxDays \in Nat
    BY ThrottleAssumption
<1>2. cache \in [Keys -> Ages]
    BY DEF ThrottleInv, ThrottleTypeOK, Ages
<1>3. CASE \E ks : InvalidateCache(ks)
    <2>1. PICK ks : InvalidateCache(ks)
        BY <1>3
    <2>2. cache' \in [Keys -> Ages]
        BY <1>1, <1>2, <2>1 DEF InvalidateCache, Ages, Absent
    <2> QED
        BY <2>1, <2>2
           DEF InvalidateCache, ThrottleInv, ThrottleTypeOK, Ages, AiMeansBudgetLeft, FileAgrees
<1>4. CASE Age
    <2>1. cache' \in [Keys -> Ages]
        BY <1>1, <1>2, <1>4 DEF Age, Ages, Absent
    <2> QED
        BY <1>4, <2>1
           DEF Age, ThrottleInv, ThrottleTypeOK, Ages, AiMeansBudgetLeft, FileAgrees
<1>5. CASE NewDay
    <2>1. day' \in 0 .. MaxDays
        BY <1>1, <1>5 DEF NewDay, ThrottleInv, ThrottleTypeOK
    <2> QED
        BY <1>1, <1>5, <2>1
           DEF NewDay, ThrottleInv, ThrottleTypeOK, AiMeansBudgetLeft, FileAgrees
<1> QED
    BY <1>3, <1>4, <1>5

\* A restart takes the mode from the spend it reads.
LEMMA LoadInv ==
    ASSUME ThrottleInv, NEW readable \in BOOLEAN, Load(readable)
    PROVE  ThrottleInv'
<1>1. CacheTtl \in Nat /\ Budget \in Nat
    BY ThrottleAssumption
<1> DEFINE s == IF readable THEN saved ELSE 0
<1>2. /\ spend' = s /\ mode' = (IF s >= Budget THEN "rules_only" ELSE "ai")
      /\ cache' = [k \in Keys |-> Absent]
      /\ synced' = (readable \/ saved = 0)
      /\ saved' = saved /\ day' = day
    BY DEF Load
<1>3. s \in Nat /\ saved \in Nat
    BY DEF ThrottleInv, ThrottleTypeOK
<1>4. synced' \in BOOLEAN /\ (synced' => readable \/ saved = 0)
    <2>1. (readable \/ saved = 0) = TRUE \/ (readable \/ saved = 0) = FALSE
        OBVIOUS
    <2> QED
        BY <1>2, <2>1, Zenon
<1>5. synced' => saved' = spend'
    BY <1>2, <1>4
<1>6. cache' \in [Keys -> Ages]
    BY <1>1, <1>2 DEF Ages, Absent
<1> HIDE DEF s
<1>7. mode' \in {"ai", "rules_only"} /\ (mode' = "ai" => spend' < Budget)
    BY <1>1, <1>2, <1>3
<1> QED
    BY <1>2, <1>3, <1>4, <1>5, <1>6, <1>7
       DEF ThrottleInv, ThrottleTypeOK, Ages, AiMeansBudgetLeft, FileAgrees

-----------------------------------------------------------------------------
(* The router                                                                *)

Tasks == [Roles -> Statuses]
Bills == [Roles -> Costs \cup {0}]

\* What the attempts of a call can be at each of its stages.
Matches(s, t) ==
    /\ s = "idle" => t = NoTasks
    /\ s = "last" => \A r \in Roles : t[r] = "running" => r = "fallback"
    /\ s = "first" => \A r \in Roles : r # "primary" => t[r] = "none"

RouterInv == RouterTypeOK /\ \A c \in Callers : Matches(stage[c], task[c])

\* A step of one call that leaves its attempts matching its stage keeps the invariant.
LEMMA OneCall ==
    ASSUME RouterInv, NEW c \in Callers, NEW s \in Stages, NEW k \in CallKinds,
           NEW t \in Tasks, NEW b \in Bills, Matches(s, t),
           stage' = [stage EXCEPT ![c] = s], kind' = [kind EXCEPT ![c] = k],
           task' = [task EXCEPT ![c] = t], paid' = [paid EXCEPT ![c] = b]
    PROVE  RouterInv'
<1>1. /\ stage \in [Callers -> Stages] /\ kind \in [Callers -> CallKinds]
      /\ task \in [Callers -> Tasks] /\ paid \in [Callers -> Bills]
    BY DEF RouterInv, RouterTypeOK, Tasks, Bills
<1>2. RouterTypeOK'
    BY <1>1 DEF RouterTypeOK, Tasks, Bills
<1>3. ASSUME NEW d \in Callers PROVE Matches(stage'[d], task'[d])
    BY <1>1, <1>3 DEF RouterInv
<1> QED
    BY <1>2, <1>3 DEF RouterInv, Matches

\* The state of one call has its types.
LEMMA CallTypes ==
    ASSUME RouterInv, NEW c \in Callers
    PROVE  /\ stage[c] \in Stages /\ kind[c] \in CallKinds
           /\ task[c] \in Tasks /\ paid[c] \in Bills
           /\ stage = [stage EXCEPT ![c] = stage[c]] /\ kind = [kind EXCEPT ![c] = kind[c]]
           /\ task = [task EXCEPT ![c] = task[c]] /\ paid = [paid EXCEPT ![c] = paid[c]]
BY DEF RouterInv, RouterTypeOK, Tasks, Bills

\* A call starts with the attempts of its first stage.
LEMMA StartCallInv ==
    ASSUME RouterInv, NEW c \in Callers, NEW k \in Kinds[c], StartCall(c, k)
    PROVE  RouterInv'
<1>1. k \in CallKinds
    BY RouterAssumption
<1>2. /\ stage' = [stage EXCEPT ![c] = FirstStage(k)] /\ kind' = [kind EXCEPT ![c] = k]
      /\ task' = [task EXCEPT ![c] = Launched(k)] /\ paid' = [paid EXCEPT ![c] = paid[c]]
    BY CallTypes DEF StartCall
<1>3. FirstStage(k) \in Stages
    BY <1>1 DEF FirstStage, Stages, CallKinds
<1>4. Launched(k) \in Tasks
    BY DEF Launched, Tasks, Statuses
<1>5. Matches(FirstStage(k), Launched(k))
    BY <1>1 DEF Matches, FirstStage, Launched, CallKinds, Roles
<1> QED
    BY <1>1, <1>2, <1>3, <1>4, <1>5, CallTypes, OneCall

\* The end of an attempt: only a running one ends, so its call is not idle.
LEMMA AttemptInv ==
    ASSUME RouterInv, NEW c \in Callers, NEW r \in Roles,
           Fail(c, r) \/ (\E cost \in Costs : Answer(c, r, cost))
    PROVE  RouterInv'
<1>1. /\ task[c] \in Tasks /\ paid[c] \in Bills /\ stage[c] \in Stages /\ kind[c] \in CallKinds
      /\ task \in [Callers -> Tasks] /\ paid \in [Callers -> Bills]
    BY CallTypes DEF RouterInv, RouterTypeOK, Tasks, Bills
<1>2. Matches(stage[c], task[c]) /\ task[c][r] = "running"
    BY DEF RouterInv, Fail, Answer
<1>3. \A x \in Statuses \ {"running"} :
         /\ [task[c] EXCEPT ![r] = x] \in Tasks
         /\ [task EXCEPT ![c][r] = x] = [task EXCEPT ![c] = [task[c] EXCEPT ![r] = x]]
         /\ Matches(stage[c], [task[c] EXCEPT ![r] = x])
    <2> SUFFICES ASSUME NEW x \in Statuses \ {"running"}
                 PROVE  /\ [task[c] EXCEPT ![r] = x] \in Tasks
                        /\ [task EXCEPT ![c][r] = x] =
                             [task EXCEPT ![c] = [task[c] EXCEPT ![r] = x]]
                        /\ Matches(stage[c], [task[c] EXCEPT ![r] = x])
        OBVIOUS
    <2>1. [task[c] EXCEPT ![r] = x] \in Tasks
        BY <1>1 DEF Tasks
    <2>2. stage[c] # "idle" /\ (stage[c] = "first" => r = "primary")
        BY <1>2 DEF Matches, NoTasks
    <2>3. Matches(stage[c], [task[c] EXCEPT ![r] = x])
        BY <1>1, <1>2, <2>2 DEF Matches, Tasks
    <2> QED
        BY <1>1, <2>1, <2>3
<1>4. CASE Fail(c, r)
    <2>1. task' = [task EXCEPT ![c] = [task[c] EXCEPT ![r] = "failed"]]
        BY <1>4 DEF Fail
    <2>2. /\ stage' = [stage EXCEPT ![c] = stage[c]] /\ kind' = [kind EXCEPT ![c] = kind[c]]
          /\ paid' = [paid EXCEPT ![c] = paid[c]]
        BY <1>4, CallTypes DEF Fail
    <2>3. "failed" \in Statuses \ {"running"}
        BY DEF Statuses
    <2> DEFINE t == [task[c] EXCEPT ![r] = "failed"]
    <2>4. t \in Tasks /\ Matches(stage[c], t) /\ task' = [task EXCEPT ![c] = t]
        BY <1>3, <2>1, <2>3
    <2> HIDE DEF t
    <2> QED
        BY <1>1, <2>2, <2>4, OneCall
<1>5. ASSUME NEW cost \in Costs, Answer(c, r, cost)
      PROVE  RouterInv'
    <2>1. /\ task' = [task EXCEPT ![c] = [task[c] EXCEPT ![r] = "ok"]]
          /\ paid' = [paid EXCEPT ![c] = [paid[c] EXCEPT ![r] = cost]]
          /\ stage' = stage /\ kind' = kind
        BY <1>5 DEF Answer
    <2>2. [paid[c] EXCEPT ![r] = cost] \in Bills
        BY <1>1 DEF Bills
    <2>3. stage' = [stage EXCEPT ![c] = stage[c]] /\ kind' = [kind EXCEPT ![c] = kind[c]]
        BY <2>1, CallTypes
    <2>4. "ok" \in Statuses \ {"running"}
        BY DEF Statuses
    <2> DEFINE t == [task[c] EXCEPT ![r] = "ok"]
               b == [paid[c] EXCEPT ![r] = cost]
    <2>5. /\ t \in Tasks /\ Matches(stage[c], t) /\ task' = [task EXCEPT ![c] = t]
          /\ b \in Bills /\ paid' = [paid EXCEPT ![c] = b]
        BY <1>3, <2>1, <2>2, <2>4
    <2> HIDE DEF t, b
    <2> QED
        BY <1>1, <2>3, <2>5, OneCall
<1> QED
    BY <1>4, <1>5

\* A call that moves on to the last model leaves no other attempt running.
LEMMA MoveInv ==
    ASSUME RouterInv, NEW c \in Callers, Move(c, "last", "fallback")
    PROVE  RouterInv'
<1> DEFINE t == [q \in Roles |-> IF q = "fallback" THEN "running" ELSE "none"]
<1>1. /\ stage' = [stage EXCEPT ![c] = "last"] /\ task' = [task EXCEPT ![c] = t]
      /\ kind' = kind /\ paid' = paid
    BY DEF Move
<1>2. t \in Tasks /\ Matches("last", t)
    BY DEF Tasks, Statuses, Matches
<1>3. /\ kind' = [kind EXCEPT ![c] = kind[c]] /\ paid' = [paid EXCEPT ![c] = paid[c]]
      /\ kind[c] \in CallKinds /\ paid[c] \in Bills /\ "last" \in Stages
    BY <1>1, CallTypes DEF Stages
<1> HIDE DEF t
<1> QED
    BY <1>1, <1>2, <1>3, OneCall

\* A call that goes into the race.
LEMMA RaceInv ==
    ASSUME RouterInv, NEW c \in Callers, NEW x \in Statuses,
           stage' = [stage EXCEPT ![c] = "race"], kind' = kind,
           task' = [task EXCEPT ![c]["primary"] = x, ![c]["secondary"] = "running"],
           paid' = paid \/ paid' = [paid EXCEPT ![c]["primary"] = 0]
    PROVE  RouterInv'
<1>1. /\ task[c] \in Tasks /\ paid[c] \in Bills
      /\ task \in [Callers -> Tasks] /\ paid \in [Callers -> Bills]
    BY CallTypes DEF RouterInv, RouterTypeOK, Tasks, Bills
<1> DEFINE t == [task[c] EXCEPT !["primary"] = x, !["secondary"] = "running"]
           b == [paid[c] EXCEPT !["primary"] = 0]
<1>2. t \in Tasks /\ b \in Bills /\ Matches("race", t)
    BY <1>1 DEF Tasks, Bills, Statuses, Roles, Matches
<1>3. task' = [task EXCEPT ![c] = t]
    BY <1>1 DEF Tasks, Roles
<1>4. paid' = [paid EXCEPT ![c] = paid[c]] \/ paid' = [paid EXCEPT ![c] = b]
    BY <1>1, CallTypes
<1>5. /\ kind' = [kind EXCEPT ![c] = kind[c]]
      /\ kind[c] \in CallKinds /\ "race" \in Stages
    BY CallTypes DEF Stages
<1> HIDE DEF t, b
<1>6. CASE paid' = [paid EXCEPT ![c] = paid[c]]
    BY <1>1, <1>2, <1>3, <1>5, <1>6, OneCall
<1>7. CASE paid' = [paid EXCEPT ![c] = b]
    BY <1>2, <1>3, <1>5, <1>7, OneCall
<1> QED
    BY <1>4, <1>6, <1>7

\* The attempts of a call and its progress keep the invariant.
LEMMA RouterStepInv ==
    ASSUME RouterInv, NEW c \in Callers, RouterStep(c)
    PROVE  RouterInv'
<1>1. CASE \E r \in Roles : Fail(c, r) \/ \E cost \in Costs : Answer(c, r, cost)
    BY <1>1, AttemptInv
<1>2. CASE PrimaryLate(c)
    <2>1. CASE Move(c, "last", "fallback")
        BY <2>1, MoveInv
    <2>2. CASE /\ stage' = [stage EXCEPT ![c] = "race"]
               /\ task' = [task EXCEPT ![c]["primary"] = IF @ = "running" THEN @ ELSE "none",
                                       ![c]["secondary"] = "running"]
               /\ paid' = [paid EXCEPT ![c]["primary"] = 0]
               /\ UNCHANGED kind
        <3> DEFINE x == IF task[c]["primary"] = "running" THEN task[c]["primary"] ELSE "none"
        <3>1. x \in Statuses
            BY DEF Statuses
        <3>2. task' = [task EXCEPT ![c]["primary"] = x, ![c]["secondary"] = "running"]
            BY <2>2
        <3> HIDE DEF x
        <3> QED
            BY <2>2, <3>1, <3>2, RaceInv
    <2> QED
        BY <1>2, <2>1, <2>2 DEF PrimaryLate
<1>3. CASE PrimaryFailed(c)
    <2>1. CASE Move(c, "last", "fallback")
        BY <2>1, MoveInv
    <2>2. CASE /\ stage' = [stage EXCEPT ![c] = "race"]
               /\ task' = [task EXCEPT ![c]["primary"] = "none", ![c]["secondary"] = "running"]
               /\ UNCHANGED <<kind, paid>>
        BY <2>2, RaceInv DEF Statuses
    <2> QED
        BY <1>3, <2>1, <2>2 DEF PrimaryFailed
<1>4. CASE RaceLost(c) \/ RaceLate(c)
    BY <1>4, MoveInv DEF RaceLost, RaceLate
<1> QED
    BY <1>1, <1>2, <1>3, <1>4 DEF RouterStep

\* A call that ends leaves nothing behind.
LEMMA EndCallInv ==
    ASSUME RouterInv, NEW c \in Callers, EndCall(c)
    PROVE  RouterInv'
<1>1. NoTasks \in Tasks /\ NoCosts \in Bills /\ Matches("idle", NoTasks)
    BY DEF NoTasks, NoCosts, Tasks, Bills, Statuses, Matches
<1>2. "idle" \in Stages /\ "primary" \in CallKinds
    BY DEF Stages, CallKinds
<1> QED
    BY <1>1, <1>2, OneCall DEF EndCall

-----------------------------------------------------------------------------
(* The bound on a day's spend                                                *)

\* The most that the answer of one call can cost: a consensus pays two models.
MostPaid == 2 * Max(Costs)

\* The spend s leaves room for the most that the calls of F can cost.
Room(s, F) == s + MostPaid * Cardinality(F) < Budget + MostPaid * Cardinality(Deciders)

\* There is a highest cost.
LEMMA MostPaidType ==
    /\ MostPaid \in Nat /\ Max(Costs) \in Nat
    /\ \A cost \in Costs \cup {0} : cost \in Nat /\ cost <= Max(Costs)
<1>1. Max(Costs) \in Costs /\ \A cost \in Costs : Max(Costs) >= cost
    BY RouterAssumption, Zenon DEF Max
<1> DEFINE m == Max(Costs)
<1>2. m \in Costs /\ (\A cost \in Costs : m >= cost) /\ Costs \subseteq Nat
    BY <1>1, RouterAssumption
<1> HIDE DEF m
<1>3. /\ m \in Nat /\ 2 * m \in Nat
      /\ \A cost \in Costs \cup {0} : cost \in Nat /\ cost <= m
    BY <1>2
<1> QED
    BY <1>3 DEF MostPaid, m

\* Multiplication by a natural number is monotone.
LEMMA TimesMonotone ==
    ASSUME NEW a \in Nat, NEW b \in Nat, NEW c \in Nat, b <= c
    PROVE  /\ a * b \in Nat /\ a * c \in Nat
           /\ a * b <= a * c
<1>1. c - b \in Nat /\ a * b \in Nat /\ a * c \in Nat
    OBVIOUS
<1>2. a * (c - b) \in Nat
    BY <1>1
<1>3. a * c = a * b + a * (c - b)
    OBVIOUS
<1> QED
    BY <1>1, <1>2, <1>3

\* The deciders are finitely many, and so is every set of them.
LEMMA DecidersFinite ==
    ASSUME NEW F \in SUBSET Deciders, NEW G \in SUBSET F
    PROVE  /\ IsFiniteSet(F) /\ Cardinality(F) \in Nat /\ Cardinality(G) \in Nat
           /\ Cardinality(Deciders) \in Nat
           /\ Cardinality(F) <= Cardinality(Deciders)
           /\ Cardinality(G) <= Cardinality(F)
<1>1. Deciders \subseteq Callers /\ IsFiniteSet(Callers)
    BY CallersAssumption
<1>2. IsFiniteSet(Deciders)
    BY <1>1, FS_Subset
<1>3. IsFiniteSet(F) /\ Cardinality(F) <= Cardinality(Deciders)
    BY <1>2, FS_Subset
<1>4. IsFiniteSet(G) /\ Cardinality(G) <= Cardinality(F)
    BY <1>3, FS_Subset
<1> QED
    BY <1>2, <1>3, <1>4, FS_CardinalityType

\* Less spend and fewer calls leave room.
LEMMA RoomShrinks ==
    ASSUME NEW s \in Nat, NEW u \in Nat, u <= s,
           NEW F \in SUBSET Deciders, NEW G \in SUBSET F, Room(s, F)
    PROVE  Room(u, G)
<1> DEFINE f == MostPaid * Cardinality(F)
           g == MostPaid * Cardinality(G)
           d == MostPaid * Cardinality(Deciders)
<1>1. f \in Nat /\ g \in Nat /\ g <= f
    BY DecidersFinite, MostPaidType, TimesMonotone
<1>2. d \in Nat /\ Budget \in Nat
    BY DecidersFinite, MostPaidType, TimesMonotone, ThrottleAssumption
<1>3. s + f < Budget + d
    BY DEF Room
<1> HIDE DEF f, g, d
<1>4. u + g < Budget + d
    BY <1>1, <1>2, <1>3
<1> QED
    BY <1>4 DEF Room, f, g, d

\* While budget is left there is room for every decider.
LEMMA RoomToAsk ==
    ASSUME NEW s \in Nat, s < Budget, NEW F \in SUBSET Deciders
    PROVE  Room(s, F)
<1> DEFINE f == MostPaid * Cardinality(F)
           d == MostPaid * Cardinality(Deciders)
<1>1. f \in Nat /\ d \in Nat /\ f <= d
    BY DecidersFinite, MostPaidType, TimesMonotone
<1>2. Budget \in Nat
    BY ThrottleAssumption
<1> HIDE DEF f, d
<1>3. s + f < Budget + d
    BY <1>1, <1>2
<1> QED
    BY <1>3 DEF Room, f, d

\* A call that ends pays at most what was kept for it.
LEMMA RoomPays ==
    ASSUME NEW s \in Nat, NEW F \in SUBSET Deciders, NEW c \in F, Room(s, F),
           NEW cost \in Nat, cost <= MostPaid
    PROVE  Room(s + cost, F \ {c})
<1> DEFINE n == Cardinality(F \ {c})
           m == MostPaid
           d == MostPaid * Cardinality(Deciders)
<1>1. Cardinality(F) = n + 1 /\ n \in Nat
    <2>1. Cardinality(F \ {c}) = Cardinality(F) - 1
        BY DecidersFinite, FS_RemoveElement
    <2>2. Cardinality(F) \in Nat /\ n \in Nat
        BY DecidersFinite
    <2> HIDE DEF n
    <2> QED
        BY <2>1, <2>2 DEF n
<1>2. m \in Nat /\ d \in Nat /\ Budget \in Nat
    BY DecidersFinite, MostPaidType, TimesMonotone, ThrottleAssumption
<1>3. s + m * (n + 1) < Budget + d
    BY <1>1 DEF Room
<1> HIDE DEF n, m, d
<1>4. m * (n + 1) = m * n + m /\ m * n \in Nat
    BY <1>1, <1>2
<1>5. cost <= m
    BY DEF m
<1>6. (s + cost) + m * n < Budget + d
    BY <1>1, <1>2, <1>3, <1>4, <1>5
<1> QED
    BY <1>6 DEF Room, n, m, d

\* What a call returns costs at most MostPaid; an idle call returns nothing.
LEMMA ReturnableBound ==
    ASSUME RouterInv, NEW c \in Callers, NEW cost \in Returnable(c)
    PROVE  ~Idle(c) /\ cost \in Nat /\ cost <= MostPaid
<1>1. paid[c] \in Bills /\ stage[c] \in Stages
    BY CallTypes
<1>2. \A r \in Roles : paid[c][r] \in Nat /\ paid[c][r] <= Max(Costs)
    BY <1>1, MostPaidType DEF Bills
<1>3. ~Idle(c)
    BY DEF Returnable, Idle
<1>4. \/ \E r \in Roles : cost = paid[c][r]
      \/ cost = paid[c]["primary"] + paid[c]["fallback"]
    BY <1>1 DEF Returnable, Stages, In, Roles
<1>5. Max(Costs) \in Nat
    BY MostPaidType
<1>6. \A r \in Roles, q \in Roles :
          /\ paid[c][r] <= MostPaid
          /\ paid[c][r] + paid[c][q] \in Nat /\ paid[c][r] + paid[c][q] <= MostPaid
    BY <1>2, <1>5 DEF MostPaid
<1> QED
    BY <1>2, <1>3, <1>4, <1>6 DEF Roles

\* The progress of a call neither starts nor ends one.
LEMMA StepKeepsCalls ==
    ASSUME RouterInv, NEW c \in Callers, RouterStep(c)
    PROVE  InFlight' = InFlight
<1>1. stage \in [Callers -> Stages]
    BY DEF RouterInv, RouterTypeOK
<1>2. stage' = stage \/ (stage[c] # "idle" /\ \E s \in {"race", "last"} :
                                                stage' = [stage EXCEPT ![c] = s])
    BY Zenon DEF RouterStep, Fail, Answer, PrimaryLate, PrimaryFailed, RaceLost, RaceLate, Move
<1>3. \A d \in Callers : stage'[d] = "idle" <=> stage[d] = "idle"
    BY <1>1, <1>2
<1> QED
    BY <1>3, CallersAssumption DEF InFlight, Idle

-----------------------------------------------------------------------------
(* The callers                                                               *)

\* What a restart reads from the file leaves room as well.
CallsInv ==
    /\ ThrottleInv /\ RouterInv
    /\ asked \in [Deciders -> Keys] /\ outcome \in [Deciders -> Outcomes]
    /\ Room(spend, InFlight) /\ Room(saved, {})

\* The spend and what the file holds are numbers; the decisions in flight are decisions.
LEMMA CallsTypes ==
    ASSUME CallsInv
    PROVE  spend \in Nat /\ saved \in Nat /\ InFlight \in SUBSET Deciders
BY DEF CallsInv, ThrottleInv, ThrottleTypeOK, InFlight

\* Concluding a decision keeps the type of the outcomes.
LEMMA ConcludesType ==
    ASSUME CallsInv, NEW c \in Callers, NEW o \in Outcomes, Concludes(c, o)
    PROVE  outcome' \in [Deciders -> Outcomes]
BY DEF CallsInv, Concludes

\* A decision is asked for only while budget is left.
LEMMA AskToDecideInv ==
    ASSUME CallsInv, NEW c \in Callers, NEW k \in Keys, AskToDecide(c, k)
    PROVE  CallsInv'
<1>1. PICK q \in Kinds[c] : StartCall(c, q)
    BY DEF AskToDecide
<1>2. RouterInv'
    BY <1>1, StartCallInv DEF CallsInv
<1>3. ThrottleInv'
    BY GetCachedInv DEF CallsInv, AskToDecide
<1>4. spend \in Nat /\ spend < Budget
    BY DEF AskToDecide, CanCall, CallsInv, ThrottleInv, AiMeansBudgetLeft, ThrottleTypeOK
<1>5. spend' = spend /\ saved' = saved /\ outcome' = outcome
      /\ asked' = [asked EXCEPT ![c] = k]
    BY DEF AskToDecide
<1>6. InFlight' \in SUBSET Deciders
    BY DEF InFlight
<1>7. Room(spend, InFlight')
    BY <1>4, <1>6, RoomToAsk
<1>8. asked' \in [Deciders -> Keys]
    BY <1>5 DEF CallsInv
<1> QED
    BY <1>2, <1>3, <1>5, <1>7, <1>8 DEF CallsInv, Room

\* The other askers do not spend.
LEMMA AskInv ==
    ASSUME CallsInv, NEW c \in Callers, AskToWatch(c) \/ AskUnbudgeted(c)
    PROVE  CallsInv'
<1>1. /\ c \notin Deciders /\ \E q \in Kinds[c] : StartCall(c, q)
      /\ UNCHANGED <<throttleVars, asked, outcome>>
    BY CallersAssumption DEF AskToWatch, AskUnbudgeted
<1>2. PICK q \in Kinds[c] : StartCall(c, q)
    BY <1>1
<1>3. RouterInv'
    BY <1>2, StartCallInv DEF CallsInv
<1>4. stage \in [Callers -> Stages]
    BY DEF CallsInv, RouterInv, RouterTypeOK
<1>5. \A d \in Deciders : stage'[d] = stage[d]
    BY <1>1, <1>2, <1>4, CallersAssumption DEF StartCall
<1>6. InFlight' = InFlight
    BY <1>5 DEF InFlight, Idle
<1> QED
    BY <1>1, <1>3, <1>6 DEF CallsInv, throttleVars, ThrottleInv, ThrottleTypeOK,
       AiMeansBudgetLeft, FileAgrees, Room

\* An answer of the cache and a refusal ask nobody.
LEMMA NoCallInv ==
    ASSUME CallsInv, NEW c \in Callers, NEW k \in Keys, Refuse(c) \/ FromCache(c, k)
    PROVE  CallsInv'
<1>1. /\ UNCHANGED <<routerVars, spend, saved>>
      /\ \E o \in {"refused", "cache"} : Concludes(c, o)
    BY DEF Refuse, FromCache, throttleVars
<1>2. outcome' \in [Deciders -> Outcomes]
    BY <1>1, ConcludesType DEF Outcomes
<1>3. asked' \in [Deciders -> Keys]
    BY DEF CallsInv, Refuse, FromCache
<1>4. ThrottleInv'
    <2>1. CASE Refuse(c)
        BY <2>1 DEF Refuse, throttleVars, CallsInv, ThrottleInv, ThrottleTypeOK,
           AiMeansBudgetLeft, FileAgrees
    <2>2. CASE FromCache(c, k)
        BY <2>2, GetCachedInv DEF FromCache, CallsInv
    <2> QED
        BY <2>1, <2>2
<1>5. RouterInv' /\ InFlight' = InFlight
    BY <1>1 DEF routerVars, CallsInv, RouterInv, RouterTypeOK, Matches, InFlight, Idle
<1> QED
    BY <1>1, <1>2, <1>3, <1>4, <1>5 DEF CallsInv, Room

\* A call that ends leaves the decisions in flight without it.
LEMMA EndLeaves ==
    ASSUME CallsInv, NEW c \in Callers, EndCall(c)
    PROVE  InFlight' = InFlight \ {c}
<1>1. stage \in [Callers -> Stages]
    BY DEF CallsInv, RouterInv, RouterTypeOK
<1>2. \A d \in Callers : stage'[d] = IF d = c THEN "idle" ELSE stage[d]
    BY <1>1 DEF EndCall
<1> QED
    BY <1>2, CallersAssumption DEF InFlight, Idle

\* An answer is paid from the room that was kept for its call.
LEMMA AnsweredInv ==
    ASSUME CallsInv, NEW c \in Callers, Answered(c)
    PROVE  CallsInv'
<1>1. PICK cost \in Returnable(c) :
        /\ EndCall(c) /\ Concludes(c, "ai")
        /\ IF c \in Deciders
           THEN \E ok \in BOOLEAN : Record(asked[c], cost, ok)
           ELSE UNCHANGED throttleVars
        /\ UNCHANGED asked
    BY DEF Answered
<1>2. RouterInv' /\ InFlight' = InFlight \ {c}
    BY <1>1, EndCallInv, EndLeaves DEF CallsInv
<1>3. ~Idle(c) /\ cost \in Nat /\ cost <= MostPaid
    BY ReturnableBound DEF CallsInv
<1>4. asked' \in [Deciders -> Keys] /\ outcome' \in [Deciders -> Outcomes]
    BY <1>1, ConcludesType DEF CallsInv, Outcomes
<1>5. CASE c \in Deciders
    <2>1. PICK ok \in BOOLEAN : Record(asked[c], cost, ok)
        BY <1>1, <1>5
    <2>2. ThrottleInv'
        BY <1>3, <1>5, <2>1, RecordInv DEF CallsInv
    <2>3. spend' = spend + cost /\ (saved' = spend + cost \/ saved' = saved)
        BY <2>1 DEF Record, Persist
    <2>4. Room(spend + cost, InFlight \ {c})
        BY <1>3, <1>5, CallsTypes, RoomPays DEF CallsInv, InFlight
    <2>5. Room(spend + cost, {})
        <3>1. spend + cost \in Nat /\ InFlight \ {c} \in SUBSET Deciders
            BY <1>3, CallsTypes
        <3> QED
            BY <2>4, <3>1, RoomShrinks
    <2> QED
        BY <1>2, <1>4, <2>2, <2>3, <2>4, <2>5 DEF CallsInv, Room
<1>6. CASE c \notin Deciders
    <2>1. InFlight' = InFlight
        BY <1>2, <1>6 DEF InFlight
    <2> QED
        BY <1>1, <1>2, <1>4, <1>6, <2>1 DEF CallsInv, throttleVars, ThrottleInv,
           ThrottleTypeOK, AiMeansBudgetLeft, FileAgrees, Room
<1> QED
    BY <1>5, <1>6

\* An error costs nothing.
LEMMA RaisedInv ==
    ASSUME CallsInv, NEW c \in Callers, Raised(c)
    PROVE  CallsInv'
<1>1. RouterInv' /\ InFlight' = InFlight \ {c} /\ UNCHANGED <<throttleVars, asked>>
    BY EndCallInv, EndLeaves DEF Raised, CallsInv
<1>2. outcome' \in [Deciders -> Outcomes]
    BY ConcludesType DEF Raised, Outcomes
<1>3. Room(spend, InFlight \ {c})
    BY CallsTypes, RoomShrinks DEF CallsInv
<1> QED
    BY <1>1, <1>2, <1>3 DEF CallsInv, throttleVars, ThrottleInv, ThrottleTypeOK,
       AiMeansBudgetLeft, FileAgrees, Room

\* A step of the router changes neither the spend nor who waits.
LEMMA RouterInvStep ==
    ASSUME CallsInv, NEW c \in Callers, Router(c)
    PROVE  CallsInv'
<1>1. RouterInv' /\ InFlight' = InFlight
    BY RouterStepInv, StepKeepsCalls DEF CallsInv, Router
<1>2. UNCHANGED <<throttleVars, asked, outcome>>
    BY DEF Router
<1> QED
    BY <1>1, <1>2 DEF CallsInv, throttleVars, ThrottleInv, ThrottleTypeOK,
       AiMeansBudgetLeft, FileAgrees, Room

\* Resets, dropped answers, time and a new date leave no more spent than before.
LEMMA OperatorInv ==
    ASSUME CallsInv, Reset \/ Invalidate \/ Clock
    PROVE  CallsInv'
<1>1. /\ UNCHANGED <<routerVars, asked, outcome>>
      /\ \/ \E ok \in BOOLEAN : ResetDay(ok)
         \/ (\E ks : InvalidateCache(ks)) \/ Age \/ NewDay
    BY DEF Reset, Invalidate, Clock
<1>2. ThrottleInv'
    BY <1>1, ResetDayInv, ClockInv DEF CallsInv
<1>3. spend' \in Nat /\ saved' \in Nat /\ spend' <= spend /\ saved' <= saved
    BY <1>1, CallsTypes DEF ResetDay, Persist, InvalidateCache, Age, NewDay
<1>4. RouterInv' /\ InFlight' = InFlight
    BY <1>1 DEF routerVars, CallsInv, RouterInv, RouterTypeOK, Matches, InFlight, Idle
<1>5. Room(spend', InFlight) /\ Room(saved', {})
    BY <1>3, CallsTypes, RoomShrinks DEF CallsInv
<1> QED
    BY <1>1, <1>2, <1>4, <1>5 DEF CallsInv, Room

\* After a restart nothing is in flight, and the spend is what the file holds.
LEMMA RestartInv ==
    ASSUME CallsInv, Restart
    PROVE  CallsInv'
<1>1. PICK readable \in BOOLEAN : Load(readable)
    BY DEF Restart
<1>2. ThrottleInv'
    BY <1>1, LoadInv DEF CallsInv
<1>3. RouterInv' /\ InFlight' = {}
    <2>1. /\ NoTasks \in Tasks /\ NoCosts \in Bills
          /\ "idle" \in Stages /\ "primary" \in CallKinds
        BY DEF NoTasks, NoCosts, Tasks, Bills, Statuses, Stages, CallKinds
    <2>2. /\ stage' = [c \in Callers |-> "idle"] /\ kind' = [c \in Callers |-> "primary"]
          /\ task' = [c \in Callers |-> NoTasks] /\ paid' = [c \in Callers |-> NoCosts]
        BY DEF Restart
    <2>3. RouterTypeOK'
        BY <2>1, <2>2 DEF RouterTypeOK, Tasks, Bills
    <2>4. RouterInv'
        BY <2>2, <2>3 DEF RouterInv, Matches
    <2>5. InFlight' = {}
        BY <2>2, CallersAssumption DEF InFlight, Idle
    <2> QED
        BY <2>4, <2>5
<1>4. saved' = saved /\ spend' \in Nat /\ spend' <= saved
    BY <1>1, CallsTypes DEF Load
<1>5. Room(spend', {})
    BY <1>4, CallsTypes, RoomShrinks DEF CallsInv
<1>6. asked' \in [Deciders -> Keys] /\ outcome' \in [Deciders -> Outcomes]
    BY DEF Restart, CallsInv, Outcomes
<1> QED
    BY <1>2, <1>3, <1>4, <1>5, <1>6 DEF CallsInv, Room

\* CallsInv is inductive.
LEMMA CallsStep ==
    ASSUME CallsInv, [Next]_vars
    PROVE  CallsInv'
<1>1. CASE UNCHANGED vars
    BY <1>1 DEF vars, CallsInv, ThrottleInv, ThrottleTypeOK, AiMeansBudgetLeft, FileAgrees,
       RouterInv, RouterTypeOK, Matches, InFlight, Idle, Room
<1>2. Keys # {}
    BY ThrottleAssumption
<1> QED
    BY <1>1, <1>2, NoCallInv, AskInv, AskToDecideInv, RouterInvStep, AnsweredInv, RaisedInv,
       OperatorInv, RestartInv DEF Next

\* Nothing is spent and nothing in flight at the start.
LEMMA CallsInit == Init => CallsInv
<1> SUFFICES ASSUME Init PROVE CallsInv
    OBVIOUS
<1>1. /\ Budget \in Nat \ {0} /\ CacheTtl \in Nat /\ MaxDays \in Nat /\ Keys # {}
    BY ThrottleAssumption
<1>2. ThrottleInv
    <2>1. cache \in [Keys -> Absent .. CacheTtl + 1]
        BY <1>1 DEF Init, ThrottleInit, Absent
    <2>2. synced \in BOOLEAN
        BY Zenon DEF Init, ThrottleInit
    <2>3. /\ spend = 0 /\ saved = 0 /\ mode = "ai" /\ day \in 0 .. MaxDays
        BY <1>1 DEF Init, ThrottleInit
    <2> QED
        BY <1>1, <2>1, <2>2, <2>3
           DEF ThrottleInv, ThrottleTypeOK, AiMeansBudgetLeft, FileAgrees
<1>3. RouterInv /\ InFlight = {}
    <2>1. /\ NoTasks \in Tasks /\ NoCosts \in Bills
          /\ "idle" \in Stages /\ "primary" \in CallKinds
        BY DEF NoTasks, NoCosts, Tasks, Bills, Statuses, Stages, CallKinds
    <2>2. /\ stage = [c \in Callers |-> "idle"] /\ kind = [c \in Callers |-> "primary"]
          /\ task = [c \in Callers |-> NoTasks] /\ paid = [c \in Callers |-> NoCosts]
        BY DEF Init, RouterInit
    <2>3. RouterTypeOK
        BY <2>1, <2>2 DEF RouterTypeOK, Tasks, Bills
    <2> QED
        BY <2>2, <2>3, CallersAssumption DEF RouterInv, Matches, InFlight, Idle
<1>4. asked \in [Deciders -> Keys] /\ outcome \in [Deciders -> Outcomes]
    <2>1. (CHOOSE k \in Keys : TRUE) \in Keys
        BY <1>1
    <2> QED
        BY <2>1 DEF Init, Outcomes
<1>5. Room(spend, InFlight) /\ Room(saved, {})
    <2>1. spend = 0 /\ saved = 0 /\ 0 < Budget
        BY <1>1 DEF Init, ThrottleInit
    <2>2. Room(0, {})
        BY <2>1, RoomToAsk
    <2> QED
        BY <1>3, <2>1, <2>2
<1> QED
    BY <1>2, <1>3, <1>4, <1>5 DEF CallsInv

-----------------------------------------------------------------------------
(* Theorems                                                                  *)

\* The spend, the attempts and the decisions keep the invariant together.
THEOREM CallsAlways == Spec => []CallsInv
<1>1. Init => CallsInv
    BY CallsInit
<1>2. CallsInv /\ [Next]_vars => CallsInv'
    BY CallsStep
<1> QED
    BY <1>1, <1>2, PTL DEF Spec

\* The throttle, the router and the callers have their types.
THEOREM CallsTypeOK == Spec => []TypeOK
<1>1. CallsInv => TypeOK
    BY DEF CallsInv, ThrottleInv, RouterInv, TypeOK
<1> QED
    BY <1>1, CallsAlways, PTL

\* The AI is allowed only while today's spend is under the budget.
THEOREM AiNeedsBudget == Spec => []AiMeansBudgetLeft
<1>1. CallsInv => AiMeansBudgetLeft
    BY DEF CallsInv, ThrottleInv
<1> QED
    BY <1>1, CallsAlways, PTL

\* A restart neither forgets nor invents what the last write that succeeded told of the day.
THEOREM SpendSurvives == Spec => []FileAgrees
<1>1. CallsInv => FileAgrees
    BY DEF CallsInv, ThrottleInv
<1> QED
    BY <1>1, CallsAlways, PTL

\* The budget is overrun by at most one answer of each decision in flight, for every budget,
\* every set of prices and any number of deciders.
THEOREM SpendIsBounded == Spec => []OverrunBounded
<1>1. CallsInv => OverrunBounded
    BY DEF CallsInv, OverrunBounded, Room, MostPaid
<1> QED
    BY <1>1, CallsAlways, PTL

\* Nothing runs for a call that has ended, and only the last model for one that waits for it.
THEOREM AttemptsAreCancelled == Spec => []NoStrayAttempt
<1>1. CallsInv => NoStrayAttempt
    BY DEF CallsInv, RouterInv, Matches, NoStrayAttempt, Idle, In
<1> QED
    BY <1>1, CallsAlways, PTL

\* What NoAnswerDiscarded says of a step.
KeepsAnswers ==
    \A c \in Callers : stage[c] \in {"first", "race"} /\ stage'[c] = "last" => In(c, "ok") = {}

\* A call goes on to the last model in one of four steps, each of which finds no answer.
LEMMA MoveFindsNothing ==
    ASSUME RouterInv, NEW c \in Callers, RouterStep(c)
    PROVE  KeepsAnswers
<1>1. stage \in [Callers -> Stages]
    BY DEF RouterInv, RouterTypeOK
<1>2. CASE stage' = stage
    BY <1>2 DEF KeepsAnswers
<1>3. \A s \in Stages : stage' = [stage EXCEPT ![c] = s] =>
          \A d \in Callers \ {c} : stage'[d] = stage[d]
    BY <1>1
<1>4. stage' # stage => \E s \in {"race", "last"} : stage' = [stage EXCEPT ![c] = s]
    BY Zenon DEF RouterStep, Fail, Answer, PrimaryLate, PrimaryFailed, RaceLost, RaceLate, Move
<1>5. ASSUME stage' # stage, stage'[c] = "last"
      PROVE  In(c, "ok") = {}
    <2>1. CASE PrimaryLate(c)
        <3>1. Matches("first", task[c]) /\ stage[c] = "first"
            BY <2>1 DEF PrimaryLate, RouterInv
        <3>2. task[c]["primary"] = "running"
            BY <1>1, <1>5, <2>1 DEF PrimaryLate
        <3> QED
            BY <3>1, <3>2 DEF Matches, In
    <2>2. CASE PrimaryFailed(c)
        <3>1. Matches("first", task[c]) /\ task[c]["primary"] = "failed"
            BY <2>2 DEF PrimaryFailed, RouterInv
        <3> QED
            BY <3>1 DEF Matches, In
    <2>3. CASE RaceLost(c) \/ RaceLate(c)
        BY <2>3 DEF RaceLost, RaceLate
    <2> QED
        BY <1>5, <2>1, <2>2, <2>3 DEF RouterStep, Fail, Answer
<1> QED
    BY <1>1, <1>2, <1>3, <1>4, <1>5 DEF KeepsAnswers, Stages

\* The last model is asked only when none of those still waited for has answered.
THEOREM AnswersAreKept == Spec => NoAnswerDiscarded
<1>1. ASSUME CallsInv, [Next]_vars PROVE [KeepsAnswers]_routerVars
    <2>1. CASE UNCHANGED routerVars
        BY <2>1
    <2>2. ASSUME NEW c \in Callers, Router(c) PROVE KeepsAnswers
        BY <1>1, <2>2, MoveFindsNothing DEF Router, CallsInv
    <2>3. ASSUME NEW c \in Callers, EndCall(c) PROVE KeepsAnswers
        BY <2>3 DEF EndCall, CallsInv, RouterInv, RouterTypeOK, KeepsAnswers
    <2>4. ASSUME NEW c \in Callers, NEW q, StartCall(c, q) PROVE KeepsAnswers
        BY <2>4 DEF StartCall, Idle, CallsInv, RouterInv, RouterTypeOK, KeepsAnswers
    <2>5. CASE Restart
        BY <2>5 DEF Restart, KeepsAnswers
    <2> QED
        BY <1>1, <2>1, <2>2, <2>3, <2>4, <2>5 DEF Next, vars, routerVars, Refuse, FromCache,
           AskToDecide, AskToWatch, AskUnbudgeted, Answered, Raised, Reset, Invalidate, Clock
<1>2. CallsInv /\ [Next]_vars => [KeepsAnswers]_routerVars
    BY <1>1
<1>3. KeepsAnswers =>
        \A c \in Callers : stage[c] \in {"first", "race"} /\ stage'[c] = "last"
                           => In(c, "ok") = {}
    BY DEF KeepsAnswers
<1> HIDE DEF KeepsAnswers
<1> QED
    BY <1>2, <1>3, CallsAlways, PTL DEF Spec, NoAnswerDiscarded
=============================================================================

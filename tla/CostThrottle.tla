---------------------------- MODULE CostThrottle ----------------------------
(***************************************************************************)
(* The budget guard and answer cache of ai_brain/cost_throttle.py.         *)
(*                                                                         *)
(* record() holds the lock but awaits nothing inside it, so each method is *)
(* one step.  Only today's entry of _daily_spend is ever read: spend is    *)
(* that entry in memory, saved the same entry in the state file, and a new *)
(* day finds neither.  The counts of cache hits, which are only displayed,  *)
(* and the warning before the limit, which is only logged, are left out.   *)
(***************************************************************************)
EXTENDS Integers

CONSTANTS
    Keys,        \* hashes of prompts
    Budget,      \* the daily budget
    CacheTtl,    \* _cache_ttl, in steps of the clock
    MaxDays      \* bound: days a run lasts

ASSUME ThrottleAssumption ==
    /\ Keys # {}
    /\ Budget \in Nat \ {0} /\ CacheTtl \in Nat /\ MaxDays \in Nat

VARIABLES
    spend,       \* _daily_spend[today]
    saved,       \* the same entry in the state file
    synced,      \* history: the last attempt to write the file succeeded
    mode,        \* _mode
    cache,       \* _cache: the age of the answer to each prompt, or Absent
    day          \* date.today()

throttleVars == <<spend, saved, synced, mode, cache, day>>

Absent  == -1
Expired(k) == cache[k] > CacheTtl

ThrottleTypeOK ==
    /\ spend \in Nat /\ saved \in Nat
    /\ synced \in BOOLEAN
    /\ mode \in {"ai", "rules_only"}
    /\ cache \in [Keys -> Absent .. CacheTtl + 1]
    /\ day \in 0 .. MaxDays

CanCall == mode = "ai"

\* Fault: the mode is changed only by a spend beyond the budget.
ModeAfter_OffByOne(m, s) ==
    IF m = "ai" /\ s > Budget THEN "rules_only"
    ELSE IF m = "rules_only" /\ s < Budget THEN "ai" ELSE m

\* The two changes of mode in _check_thresholds, one after the other.
ModeAfter(m, s) ==
    IF m = "ai" /\ s >= Budget THEN "rules_only"
    ELSE IF m = "rules_only" /\ s < Budget THEN "ai" ELSE m

\* Fault: the file is written before the spend is added.
Persist_Before(s, ok) ==
    saved' = (IF ok THEN spend ELSE saved) /\ synced' = ok

\* A failure to write is swallowed; the rename leaves the old file whole.
Persist(s, ok) ==
    saved' = (IF ok THEN s ELSE saved) /\ synced' = ok

Hit(k) == cache[k] # Absent /\ ~Expired(k)

\* get_cached drops the entry it finds expired.
GetCached(k) == cache' = [cache EXCEPT ![k] = IF Expired(k) THEN Absent ELSE @]

\* Fault: the entry of the day is the budget that is left.
Record_CountsDown(k, cost, ok) ==
    /\ spend' = spend - cost
    /\ cache' = [cache EXCEPT ![k] = 0]
    /\ mode' = ModeAfter(mode, spend - cost)
    /\ Persist(spend - cost, ok)
    /\ UNCHANGED day

\* record(); _evict_expired sees the new entry with age 0.
Record(k, cost, ok) ==
    LET s == spend + cost
    IN  /\ spend' = s
        /\ cache' = [j \in Keys |-> IF j = k THEN 0
                                    ELSE IF Expired(j) THEN Absent ELSE cache[j]]
        /\ mode' = ModeAfter(mode, s)
        /\ Persist(s, ok)
        /\ UNCHANGED day

ResetDay(ok) ==
    /\ spend' = 0 /\ mode' = "ai"
    /\ Persist(0, ok)
    /\ UNCHANGED <<cache, day>>

InvalidateCache(ks) ==
    /\ cache' = [k \in Keys |-> IF k \in ks THEN Absent ELSE cache[k]]
    /\ UNCHANGED <<spend, saved, synced, mode, day>>

\* The clock: cached answers age, and the date changes with nothing noticing.
Age ==
    /\ \E k \in Keys : cache[k] \in 0 .. CacheTtl
    /\ cache' = [k \in Keys |-> IF cache[k] \in 0 .. CacheTtl THEN cache[k] + 1 ELSE cache[k]]
    /\ UNCHANGED <<spend, saved, synced, mode, day>>

NewDay ==
    /\ day < MaxDays
    /\ day' = day + 1
    /\ spend' = 0 /\ saved' = 0
    /\ UNCHANGED <<synced, mode, cache>>

\* Fault: the mode of a restarted process does not depend on the file.
Load_InAiMode(readable) ==
    LET s == IF readable THEN saved ELSE 0
    IN  /\ spend' = s
        /\ mode' = "ai"
        /\ cache' = [k \in Keys |-> Absent]
        /\ synced' = (readable \/ saved = 0)
        /\ UNCHANGED <<saved, day>>

\* __init__ and _load_state after a restart; a file that cannot be read starts
\* the day afresh.
Load(readable) ==
    LET s == IF readable THEN saved ELSE 0
    IN  /\ spend' = s
        /\ mode' = (IF s >= Budget THEN "rules_only" ELSE "ai")
        /\ cache' = [k \in Keys |-> Absent]
        /\ synced' = (readable \/ saved = 0)
        /\ UNCHANGED <<saved, day>>

ThrottleInit ==
    /\ spend = 0 /\ saved = 0 /\ synced = TRUE
    /\ mode = "ai"
    /\ cache = [k \in Keys |-> Absent]
    /\ day = 0

-----------------------------------------------------------------------------
\* Properties of the throttle

(* The AI is allowed only while today's recorded spend is under the budget,
   whatever the order of answers, days, resets and restarts. *)
AiMeansBudgetLeft == mode = "ai" => spend < Budget

(* After a write that succeeded the state file agrees with memory, so a
   restart neither forgets nor invents spend of the day. *)
FileAgrees == synced => saved = spend
=============================================================================

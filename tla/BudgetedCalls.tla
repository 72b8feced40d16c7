---------------------------- MODULE BudgetedCalls ----------------------------
(***************************************************************************)
(* Everything in the server that asks a language model: the decision       *)
(* engine, the market sentinel and the meta advisor, which ask the cost    *)
(* throttle first, and the position guardian, which does not.  Each of     *)
(* them is a task that waits for the router while the others, the clock,   *)
(* the operator and restarts go on.  Only the decision engine looks into   *)
(* the cache and records what its answers cost.                            *)
(***************************************************************************)
EXTENDS CostThrottle, AIRouter, FiniteSets, FiniteSetsExt

CONSTANTS
    Deciders,    \* callers that run DecisionEngine.decide
    Watchers,    \* callers that ask can_call and record nothing
    Unbudgeted   \* callers that do not ask can_call

ASSUME CallersAssumption ==
    /\ Callers = Deciders \cup Watchers \cup Unbudgeted
    /\ Deciders \cap (Watchers \cup Unbudgeted) = {}
    /\ Watchers \cap Unbudgeted = {}
    /\ IsFiniteSet(Callers)

VARIABLES
    asked,       \* the prompt of each decider's last question
    outcome      \* source of each decider's last decision

vars == <<spend, saved, synced, mode, cache, day,
          stage, kind, task, paid, asked, outcome>>

Outcomes == {"none", "ai", "cache", "rules", "refused"}

TypeOK ==
    /\ ThrottleTypeOK /\ RouterTypeOK
    /\ asked \in [Deciders -> Keys]
    /\ outcome \in [Deciders -> Outcomes]

Concludes(c, o) ==
    outcome' = [d \in Deciders |-> IF d = c THEN o ELSE outcome[d]]

\* The rules-only branch of decide; the sentinel and the advisor are refused
\* likewise, and keep nothing of it.
Refuse(c) ==
    /\ c \in Deciders /\ Idle(c) /\ ~CanCall
    /\ Concludes(c, "refused")
    /\ UNCHANGED <<throttleVars, routerVars, asked>>

\* decide answers from the cache.
FromCache(c, k) ==
    /\ c \in Deciders /\ Idle(c) /\ CanCall /\ Hit(k)
    /\ GetCached(k)
    /\ Concludes(c, "cache")
    /\ asked' = [asked EXCEPT ![c] = k]
    /\ UNCHANGED <<spend, saved, synced, mode, day, routerVars>>

\* decide asks the router; an entry found expired is gone by then.
AskToDecide(c, k) ==
    /\ c \in Deciders /\ CanCall /\ ~Hit(k)
    /\ GetCached(k)
    /\ \E q \in Kinds[c] : StartCall(c, q)
    /\ asked' = [asked EXCEPT ![c] = k]
    /\ UNCHANGED <<spend, saved, synced, mode, day, outcome>>

AskToWatch(c) ==
    /\ c \in Watchers /\ CanCall
    /\ \E q \in Kinds[c] : StartCall(c, q)
    /\ UNCHANGED <<throttleVars, asked, outcome>>

AskUnbudgeted(c) ==
    /\ c \in Unbudgeted
    /\ \E q \in Kinds[c] : StartCall(c, q)
    /\ UNCHANGED <<throttleVars, asked, outcome>>

\* The router's answer reaches its caller; decide records it.
Answered(c) ==
    \E cost \in Returnable(c) :
        /\ EndCall(c)
        /\ Concludes(c, "ai")
        /\ IF c \in Deciders
           THEN \E ok \in BOOLEAN : Record(asked[c], cost, ok)
           ELSE UNCHANGED throttleVars
        /\ UNCHANGED asked

\* It raises: every caller falls back on its rules.
Raised(c) ==
    /\ Raises(c)
    /\ EndCall(c)
    /\ Concludes(c, "rules")
    /\ UNCHANGED <<throttleVars, asked>>

Router(c) == RouterStep(c) /\ UNCHANGED <<throttleVars, asked, outcome>>

Reset == \E ok \in BOOLEAN : ResetDay(ok) /\ UNCHANGED <<routerVars, asked, outcome>>

Invalidate ==
    /\ \E ks \in {{k} : k \in Keys} \cup {Keys} : InvalidateCache(ks)
    /\ UNCHANGED <<routerVars, asked, outcome>>

Clock == (Age \/ NewDay) /\ UNCHANGED <<routerVars, asked, outcome>>

\* The process ends at any point and starts again: what was in flight is lost.
Restart ==
    /\ \E readable \in BOOLEAN : Load(readable)
    /\ stage' = [c \in Callers |-> "idle"]
    /\ kind' = [c \in Callers |-> "primary"]
    /\ task' = [c \in Callers |-> NoTasks]
    /\ paid' = [c \in Callers |-> NoCosts]
    /\ outcome' = [c \in Deciders |-> "none"]
    /\ UNCHANGED asked

Init ==
    /\ ThrottleInit /\ RouterInit
    /\ asked \in [Deciders -> {CHOOSE k \in Keys : TRUE}]
    /\ outcome = [c \in Deciders |-> "none"]

Next ==
    \/ \E c \in Callers :
          \/ Refuse(c) \/ AskToWatch(c) \/ AskUnbudgeted(c)
          \/ \E k \in Keys : FromCache(c, k) \/ AskToDecide(c, k)
          \/ Router(c) \/ Answered(c) \/ Raised(c)
    \/ Reset \/ Invalidate \/ Clock \/ Restart

\* Every wait has a time limit, and the event loop resumes every task that can
\* go on; nobody is obliged to ask, and days need not pass.
Fairness == \A c \in Callers : WF_vars(Router(c) \/ Answered(c) \/ Raised(c))

Spec == Init /\ [][Next]_vars /\ Fairness

-----------------------------------------------------------------------------
\* Properties

InFlight == {c \in Deciders : ~Idle(c)}

(* "Enforce a daily budget ceiling": can_call is asked before the wait and the
   cost recorded after it, so the ceiling is overrun by at most one answer of
   each decision that was in flight, whatever days, resets and restarts do. *)
OverrunBounded ==
    LET MaxCost == 2 * Max(Costs)
    IN  spend + MaxCost * Cardinality(InFlight) < Budget + MaxCost * Cardinality(Deciders)

(* A task that asked a model goes on in the end: every path through the router
   returns or raises. *)
CallsEnd == \A c \in Callers : ~Idle(c) ~> Idle(c)

(* What cost_throttle.py:236 says of a new day: a caller is refused only when
   today's spend has reached the budget. *)
RefusedOnlyWhenSpent ==
    [][\A c \in Deciders : outcome[c] # "refused" /\ outcome'[c] = "refused"
          => spend >= Budget]_vars
=============================================================================

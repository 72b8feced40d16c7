------------------------------ MODULE AIRouter ------------------------------
(***************************************************************************)
(* The inference gateway of ai_brain/ai_router.py: one call of call() per  *)
(* caller, and the attempts it makes on the models.                        *)
(*                                                                         *)
(* Every attempt (_call_claude, _call_bedrock, _call_gpt, _call_gemini)    *)
(* ends with an answer, with an error (a client that cannot be built and   *)
(* the hard timeout are errors), or because it is cancelled.  Between the  *)
(* end of an attempt and the step in which the coroutine that waits for it *)
(* goes on, others may run.  The router's own log and total of costs are   *)
(* only displayed and are left out.                                        *)
(***************************************************************************)
EXTENDS Integers

CONSTANTS
    Callers,     \* tasks that may have a call in flight
    Kinds,       \* [Callers -> the ways each of them calls the router]
    Costs        \* what an answer can cost

Roles    == {"primary", "secondary", "fallback"}
Statuses == {"none", "running", "ok", "failed"}   \* "none": not started, or given up
CallKinds == {"primary", "analyse", "fallback", "consensus"}
Stages   == {"idle", "first", "race", "last", "both"}

ASSUME RouterAssumption ==
    /\ Kinds \in [Callers -> SUBSET CallKinds]
    /\ Costs \subseteq Nat
    /\ \E most \in Costs : \A cost \in Costs : most >= cost

VARIABLES
    stage,       \* what each call waits for
    kind,        \* which of the paths of call() it took; "primary" when idle
    task,        \* the attempts of each call, by the role of their model
    paid         \* what the answer of each attempt cost

routerVars == <<stage, kind, task, paid>>

RouterTypeOK ==
    /\ stage \in [Callers -> Stages]
    /\ kind \in [Callers -> CallKinds]
    /\ task \in [Callers -> [Roles -> Statuses]]
    /\ paid \in [Callers -> [Roles -> Costs \cup {0}]]

Idle(c)  == stage[c] = "idle"
In(c, s) == {r \in Roles : task[c][r] = s}

NoTasks == [r \in Roles |-> "none"]
NoCosts == [r \in Roles |-> 0]

\* The attempts of a call that starts: both models of a consensus, else one.
Launched(k) ==
    [r \in Roles |-> IF \/ r = "primary" /\ k # "fallback"
                        \/ r = "fallback" /\ k \in {"fallback", "consensus"}
                     THEN "running" ELSE "none"]

FirstStage(k) == CASE k = "consensus" -> "both" [] k = "fallback" -> "last" [] OTHER -> "first"

StartCall(c, k) ==
    /\ Idle(c) /\ k \in Kinds[c]
    /\ stage' = [stage EXCEPT ![c] = FirstStage(k)]
    /\ kind' = [kind EXCEPT ![c] = k]
    /\ task' = [task EXCEPT ![c] = Launched(k)]
    /\ UNCHANGED paid

Answer(c, r, cost) ==
    /\ task[c][r] = "running"
    /\ task' = [task EXCEPT ![c][r] = "ok"]
    /\ paid' = [paid EXCEPT ![c][r] = cost]
    /\ UNCHANGED <<stage, kind>>

Fail(c, r) ==
    /\ task[c][r] = "running"
    /\ task' = [task EXCEPT ![c][r] = "failed"]
    /\ UNCHANGED <<stage, kind, paid>>

\* The call moves on to an attempt r; nothing else runs or counts for it.
Move(c, s, r) ==
    /\ stage' = [stage EXCEPT ![c] = s]
    /\ task' = [task EXCEPT ![c] = [q \in Roles |-> IF q = r THEN "running" ELSE "none"]]
    /\ UNCHANGED <<kind, paid>>

\* The primary is late.  wait_for cancels it; in the analyse step it goes on
\* behind its shield and races the secondary, unless it ends in the very moment
\* of the timeout: then it is not waited for any more, and its answer is lost.
PrimaryLate(c) ==
    /\ stage[c] = "first"
    /\ \/ kind[c] = "primary" /\ task[c]["primary"] = "running" /\ Move(c, "last", "fallback")
       \/ /\ kind[c] = "analyse" /\ task[c]["primary"] \in {"running", "ok"}
          /\ stage' = [stage EXCEPT ![c] = "race"]
          /\ task' = [task EXCEPT ![c]["primary"] = IF @ = "running" THEN @ ELSE "none",
                                  ![c]["secondary"] = "running"]
          /\ paid' = [paid EXCEPT ![c]["primary"] = 0]
          /\ UNCHANGED kind

\* The primary fails in time: analyse then waits for the secondary alone.
PrimaryFailed(c) ==
    /\ stage[c] = "first" /\ task[c]["primary"] = "failed"
    /\ IF kind[c] = "analyse"
       THEN /\ stage' = [stage EXCEPT ![c] = "race"]
            /\ task' = [task EXCEPT ![c]["primary"] = "none", ![c]["secondary"] = "running"]
            /\ UNCHANGED <<kind, paid>>
       ELSE Move(c, "last", "fallback")

\* Fault: the first attempt to end decides, whatever another one brought.
RaceLost_AnyFailure(c) ==
    /\ stage[c] = "race" /\ In(c, "failed") # {}
    /\ Move(c, "last", "fallback")

\* asyncio.wait returned with failures only: the rest is cancelled unheard.
RaceLost(c) ==
    /\ stage[c] = "race" /\ In(c, "failed") # {} /\ In(c, "ok") = {}
    /\ Move(c, "last", "fallback")

RaceLate(c) ==
    /\ stage[c] = "race" /\ In(c, "failed") = {} /\ In(c, "ok") = {}
    /\ Move(c, "last", "fallback")

\* What a call that can return now returns: the costs of the answer it may
\* give its caller, and whether it may raise instead.
Returnable(c) ==
    CASE stage[c] = "first" -> {paid[c][r] : r \in In(c, "ok") \cap {"primary"}}
      [] stage[c] = "race"  -> {paid[c][r] : r \in In(c, "ok")}
      [] stage[c] = "last"  -> {paid[c][r] : r \in In(c, "ok") \cap {"fallback"}}
      [] stage[c] = "both" /\ In(c, "running") = {} /\ In(c, "ok") # {} ->
            {paid[c]["primary"] + paid[c]["fallback"]}
      [] OTHER -> {}

\* Fault: an error of the last model is passed to nobody.
Raises_NotLast(c) ==
    /\ stage[c] = "both" /\ In(c, "running") = {}
    /\ In(c, "ok") = {} \/ In(c, "failed") = {}

Raises(c) ==
    \/ stage[c] = "last" /\ task[c]["fallback"] = "failed"
    \/ /\ stage[c] = "both" /\ In(c, "running") = {}
       /\ In(c, "ok") = {} \/ In(c, "failed") = {}     \* both failed, or disagree

\* Fault: the loser of the race is not cancelled.
EndCall_LeavesRunning(c) ==
    /\ stage' = [stage EXCEPT ![c] = "idle"]
    /\ task' = [task EXCEPT ![c] = [r \in Roles |-> IF task[c][r] = "running"
                                                    THEN "running" ELSE "none"]]
    /\ paid' = [paid EXCEPT ![c] = NoCosts]
    /\ kind' = [kind EXCEPT ![c] = "primary"]

\* The call gives its caller an answer or an error; a race is cancelled.
EndCall(c) ==
    /\ stage' = [stage EXCEPT ![c] = "idle"]
    /\ task' = [task EXCEPT ![c] = NoTasks]
    /\ paid' = [paid EXCEPT ![c] = NoCosts]
    /\ kind' = [kind EXCEPT ![c] = "primary"]

RouterStep(c) ==
    \/ \E r \in Roles : Fail(c, r) \/ \E cost \in Costs : Answer(c, r, cost)
    \/ PrimaryLate(c) \/ PrimaryFailed(c) \/ RaceLost(c) \/ RaceLate(c)

RouterInit ==
    /\ stage = [c \in Callers |-> "idle"]
    /\ kind = [c \in Callers |-> "primary"]
    /\ task = [c \in Callers |-> NoTasks]
    /\ paid = [c \in Callers |-> NoCosts]

-----------------------------------------------------------------------------
\* Properties of the router

(* An attempt runs only for a call that can still use it: what a call gives up
   is cancelled, so its late answer does not count. *)
NoStrayAttempt ==
    \A c \in Callers :
        /\ Idle(c) => task[c] = NoTasks
        /\ stage[c] = "last" => In(c, "running") \subseteq {"fallback"}

(* The last model is asked only when none of those still waited for has
   answered by then. *)
NoAnswerDiscarded ==
    [][\A c \in Callers : stage[c] \in {"first", "race"} /\ stage'[c] = "last"
                            => In(c, "ok") = {}]_routerVars
=============================================================================

---- MODULE Tuning ----
(***************************************************************************)
(* How the parameters of the running server change: the settings file and  *)
(* its routes (server/termux_server.py), and the suggestions of the meta   *)
(* advisor (ai_brain/meta_advisor.py) that the operator accepts.           *)
(*                                                                         *)
(* The file is rewritten whole: opening it empties it, and the process may *)
(* end before it is filled again.  Percentages are integers.  Of the       *)
(* settings the model keeps the Kelly fraction, the kill-switch percentage *)
(* and whether the stored credentials are there; of the suggestions those  *)
(* of the first two and of the guardian's switch.  Accepting one of the    *)
(* others only rewrites the file with a value that no one reads.           *)
(***************************************************************************)
EXTENDS Integers

CONSTANTS
    Posted,         \* Kelly fractions the operator may post
    Suggested,      \* Kelly fractions an LLM may suggest
    KillPcts,       \* kill-switch percentages the operator may post and an LLM suggest
    Unset           \* no value

KellyLow == 10      \* _SAFE_BOUNDS
KellyHigh == 100
KillPctLow == 1
KillPctHigh == 10
DefaultKelly == 50  \* _DEFAULTS
DefaultKillPct == 3

ASSUME TuningAssumption ==
    /\ Posted \subseteq Int /\ Suggested \subseteq Int /\ KillPcts \subseteq Nat
    /\ Unset \notin Int

VARIABLES
    up,             \* the server runs
    settings,       \* what the settings file reads as
    writing,        \* the file is open and still empty: what is to be written
    sizer,          \* _kelly_sizer.kelly_fraction, which sizes orders
    shadowed,       \* _kelly_sizer._kelly_fraction, which the routes write
    auto_execute,   \* _guardian.auto_execute
    broker_pct,     \* the loss at which the broker's kill switch fires
    gate_pct,       \* the loss at which the risk manager's gate shuts
    asking,         \* the advisor waits for its LLM
    last_result,    \* its suggestions that were not accepted: parameter -> value
    author          \* history: who wrote the Kelly fraction of the file

tuningVars == <<up, settings, writing, sizer, shadowed, auto_execute, broker_pct, gate_pct,
                asking, last_result, author>>

Empty == [kelly |-> Unset, kill_pct |-> Unset, secrets |-> FALSE]
NotWriting == [kelly |-> Unset, kill_pct |-> Unset, secrets |-> Unset]

Parameters == {"kelly_fraction", "kill_switch_pct", "guardian_auto_execute"}
Nothing == [p \in Parameters |-> Unset]

Or(value, default) == IF value = Unset THEN default ELSE value

\* The server's one thread is not inside the writing of the file.
Serving == up /\ writing = NotWriting

\* A fault: a suggested value is taken as it comes.
Clamped_Raw(value) == value

\* _parse brings a number within its safe bounds.
Clamped(value) ==
    IF value < KellyLow THEN KellyLow ELSE IF value > KellyHigh THEN KellyHigh ELSE value

ClampedPct(value) ==
    IF value < KillPctLow THEN KillPctLow ELSE IF value > KillPctHigh THEN KillPctHigh ELSE value

Rewrite(content) ==
    /\ settings' = Empty
    /\ writing' = content

----------------------------------------------------------------------------
\* POST /api/settings: merged into what the file holds, then into the running parts: the
\* broker's threshold, an attribute of the sizer that nothing sizes by, the guardian's
\* switch.  Posted secrets that are masked keep the stored ones.
PostSettings(kelly, pct, auto) ==
    /\ Serving
    /\ LET merged == [settings EXCEPT !.kelly = Or(kelly, @), !.kill_pct = Or(pct, @)]
       IN  /\ Rewrite(merged)
           /\ broker_pct' = Or(merged.kill_pct, DefaultKillPct)
           /\ shadowed' = Or(merged.kelly, DefaultKelly)
    /\ auto_execute' = Or(auto, auto_execute)
    /\ author' = IF kelly = Unset THEN author ELSE "operator"
    /\ UNCHANGED <<up, sizer, gate_pct, asking, last_result>>

WriteDone ==
    /\ up /\ writing # NotWriting
    /\ settings' = writing /\ writing' = NotWriting
    /\ UNCHANGED <<up, sizer, shadowed, auto_execute, broker_pct, gate_pct, asking, last_result, author>>

\* POST /api/guardian/auto_execute: not stored.
SetAutoExecute(enabled) ==
    /\ Serving
    /\ auto_execute' = enabled
    /\ UNCHANGED <<up, settings, writing, sizer, shadowed, broker_pct, gate_pct, asking, last_result, author>>

\* The advisor's cycle.  Its input reads the shadowed attribute, which exists only once a
\* route has written it; until then the cycle raises before it asks.
AskAdvisor ==
    /\ Serving /\ ~asking /\ shadowed # Unset
    /\ asking' = TRUE
    /\ UNCHANGED <<up, settings, writing, sizer, shadowed, auto_execute, broker_pct, gate_pct, last_result, author>>

\* The answer replaces the suggestions, also those the operator is looking at; a failure
\* leaves none.
AdvisorAnswers ==
    /\ Serving /\ asking
    /\ asking' = FALSE
    /\ \E kelly \in Suggested \cup {Unset}, pct \in KillPcts \cup {Unset},
          auto \in BOOLEAN \cup {Unset} :
        last_result' = [kelly_fraction |-> IF kelly = Unset THEN Unset ELSE Clamped(kelly),
                        kill_switch_pct |-> IF pct = Unset THEN Unset ELSE ClampedPct(pct),
                        guardian_auto_execute |-> auto]
    /\ UNCHANGED <<up, settings, writing, sizer, shadowed, auto_execute, broker_pct, gate_pct, author>>

\* accept_suggestion with _apply_tweak: the first one of that name, once.
AcceptKelly ==
    /\ Serving /\ last_result["kelly_fraction"] # Unset
    /\ shadowed' = last_result["kelly_fraction"]
    /\ Rewrite([settings EXCEPT !.kelly = last_result["kelly_fraction"]])
    /\ last_result' = [last_result EXCEPT !["kelly_fraction"] = Unset]
    /\ author' = "advisor"
    /\ UNCHANGED <<up, sizer, auto_execute, broker_pct, gate_pct, asking>>

\* _apply_tweak has no case for the percentage: neither the broker nor the gate hears of it
\* before the next start.
AcceptKillPct ==
    /\ Serving /\ last_result["kill_switch_pct"] # Unset
    /\ Rewrite([settings EXCEPT !.kill_pct = last_result["kill_switch_pct"]])
    /\ last_result' = [last_result EXCEPT !["kill_switch_pct"] = Unset]
    /\ UNCHANGED <<up, sizer, shadowed, auto_execute, broker_pct, gate_pct, asking, author>>

AcceptAutoExecute ==
    /\ Serving /\ last_result["guardian_auto_execute"] # Unset
    /\ auto_execute' = last_result["guardian_auto_execute"]
    /\ Rewrite(settings)
    /\ last_result' = [last_result EXCEPT !["guardian_auto_execute"] = Unset]
    /\ UNCHANGED <<up, sizer, shadowed, broker_pct, gate_pct, asking, author>>

\* KellySizer refuses a fraction outside (0, 1], and the server does not start.
Boots == Or(settings.kelly, DefaultKelly) \in 1 .. 100

\* The process ends, maybe in the middle of a write, and is started again.
TuningCrash ==
    /\ up' = Boots
    /\ writing' = NotWriting
    /\ sizer' = Or(settings.kelly, DefaultKelly)
    /\ shadowed' = Unset
    /\ auto_execute' = FALSE
    /\ broker_pct' = Or(settings.kill_pct, DefaultKillPct)
    /\ gate_pct' = Or(settings.kill_pct, DefaultKillPct)
    /\ asking' = FALSE /\ last_result' = Nothing
    /\ author' = IF settings.kelly = Unset THEN "default" ELSE author
    /\ UNCHANGED settings

TuningStep ==
    \/ \E kelly \in Posted \cup {Unset}, pct \in KillPcts \cup {Unset},
          auto \in BOOLEAN \cup {Unset} : PostSettings(kelly, pct, auto)
    \/ \E enabled \in BOOLEAN : SetAutoExecute(enabled)
    \/ WriteDone
    \/ AskAdvisor \/ AdvisorAnswers \/ AcceptKelly \/ AcceptKillPct \/ AcceptAutoExecute

TuningInit ==
    /\ up = TRUE
    /\ settings = [Empty EXCEPT !.secrets = TRUE] /\ writing = NotWriting
    /\ sizer = DefaultKelly /\ shadowed = Unset /\ auto_execute = FALSE
    /\ broker_pct = DefaultKillPct /\ gate_pct = DefaultKillPct
    /\ asking = FALSE /\ last_result = Nothing
    /\ author = "default"

TuningTypeOK ==
    /\ up \in BOOLEAN /\ asking \in BOOLEAN /\ auto_execute \in BOOLEAN
    /\ settings \in [kelly : Int \cup {Unset}, kill_pct : Nat \cup {Unset}, secrets : BOOLEAN]
    /\ writing \in [kelly : Int \cup {Unset}, kill_pct : Nat \cup {Unset}, secrets : BOOLEAN]
                     \cup {NotWriting}
    /\ sizer \in Int /\ shadowed \in Int \cup {Unset}
    /\ broker_pct \in Nat /\ gate_pct \in Nat
    /\ DOMAIN last_result = Parameters
    /\ author \in {"default", "operator", "advisor"}

----------------------------------------------------------------------------
\* Only a value the operator posted can keep the server from starting: an accepted suggestion
\* can not, nor a file whose writing was cut off (meta_advisor.py:274-336,
\* termux_server.py:543-558, kelly_sizer.py:48-51).
OnlyTheOperatorStopsTheServer == ~up => author = "operator"
============================================================================

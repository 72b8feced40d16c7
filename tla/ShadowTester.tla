---- MODULE ShadowTester ----
(***************************************************************************)
(* The gate for new brain versions of ai_layer/shadow_tester.py: in live   *)
(* mode a version is deployed after a shadow window of its own, in which   *)
(* its Sharpe ratio must come near that of live trading.                   *)
(*                                                                         *)
(* The state is kept in memory and written to a file after every change;   *)
(* a write opens the file (which empties it) and then fills it, and the    *)
(* process may end in between: the file then reads as no state at all.     *)
(***************************************************************************)
EXTENDS Integers

CONSTANTS
    Brains,         \* the versions a caller puts to the test
    Ratios,         \* the Sharpe ratios reported to the tester
    ShadowDays,     \* _SHADOW_DAYS
    MaxDay,         \* bound on the calendar
    NoBrain

ASSUME ShadowAssumption ==
    /\ Ratios \subseteq Int /\ 0 \in Ratios
    /\ ShadowDays \in Nat /\ MaxDay \in Nat
    /\ NoBrain \notin Brains

VARIABLES
    paper,          \* _paper_mode
    state,          \* _state: the shadow window, and the live benchmark
    saved,          \* what the state file reads as
    saving,         \* the file is open and still empty
    today,
    windows,        \* history: the <<version, day>> of every start_shadow
    reports,        \* history: the <<version, ratio>> of every report on a version
    deployed        \* the versions should_deploy let through

shadowVars == <<paper, state, saved, saving, today, windows, reports, deployed>>

NoWindow == [version |-> NoBrain, started |-> 0, sharpe |-> 0]
NoState == [shadow |-> NoWindow, live |-> 0]

\* The tester runs on one thread: nothing else of it happens while it writes its file.
CanRun == ~saving

\* The change of memory and the opening of the file.
Change(new) ==
    /\ state' = new
    /\ saved' = NoState
    /\ saving' = TRUE

StartShadow(v, x) ==
    /\ CanRun /\ ~paper
    /\ Change([state EXCEPT !.shadow = [version |-> v, started |-> today, sharpe |-> x]])
    /\ windows' = windows \cup {<<v, today>>} /\ reports' = reports \cup {<<v, x>>}
    /\ UNCHANGED <<paper, today, deployed>>

\* A fault: a report on any version is taken for the one in the window.
UpdateShadowSharpe_AnyVersion(v, x) ==
    /\ CanRun /\ state.shadow.version # NoBrain
    /\ Change([state EXCEPT !.shadow.sharpe = x])
    /\ reports' = reports \cup {<<v, x>>}
    /\ UNCHANGED <<paper, today, windows, deployed>>

\* A report on another version than the one in the window is ignored.
UpdateShadowSharpe(v, x) ==
    /\ CanRun /\ state.shadow.version = v
    /\ Change([state EXCEPT !.shadow.sharpe = x])
    /\ reports' = reports \cup {<<v, x>>}
    /\ UNCHANGED <<paper, today, windows, deployed>>

UpdateLiveSharpe(x) ==
    /\ CanRun
    /\ Change([state EXCEPT !.live = x])
    /\ UNCHANGED <<paper, today, windows, reports, deployed>>

SaveState ==
    /\ saving
    /\ saved' = state /\ saving' = FALSE
    /\ UNCHANGED <<paper, state, today, windows, reports, deployed>>

should_deploy(v) ==
    \/ paper
    \/ /\ state.shadow.version = v
       /\ today - state.shadow.started >= ShadowDays
       /\ state.live <= 0 \/ 100 * state.shadow.sharpe >= 95 * state.live

\* The caller asks for v and deploys it when the answer is yes.
Deploy(v) ==
    /\ CanRun /\ should_deploy(v)
    /\ deployed' = deployed \cup {v}
    /\ UNCHANGED <<paper, state, saved, saving, today, windows, reports>>

ShadowNewDay ==
    /\ today < MaxDay
    /\ today' = today + 1
    /\ UNCHANGED <<paper, state, saved, saving, windows, reports, deployed>>

\* The process ends and starts again from the file.
ShadowCrash ==
    /\ state' = saved /\ saving' = FALSE
    /\ UNCHANGED <<paper, saved, today, windows, reports, deployed>>

ShadowStep ==
    \/ \E v \in Brains, x \in Ratios : StartShadow(v, x) \/ UpdateShadowSharpe(v, x)
    \/ \E x \in Ratios : UpdateLiveSharpe(x)
    \/ \E v \in Brains : Deploy(v)
    \/ SaveState \/ ShadowNewDay

ShadowInit ==
    /\ paper \in BOOLEAN
    /\ state = NoState /\ saved = NoState /\ saving = FALSE
    /\ today = 0
    /\ windows = {} /\ reports = {} /\ deployed = {}

States ==
    [shadow : [version : Brains \cup {NoBrain}, started : 0 .. MaxDay, sharpe : Ratios],
     live : Ratios]

ShadowTypeOK ==
    /\ paper \in BOOLEAN
    /\ state \in States /\ saved \in States /\ saving \in BOOLEAN
    /\ today \in 0 .. MaxDay
    /\ windows \subseteq Brains \X (0 .. MaxDay)
    /\ reports \subseteq Brains \X Ratios
    /\ deployed \subseteq Brains

----------------------------------------------------------------------------
\* In live mode a version is deployed only after a whole window that was started for it, and
\* on a ratio that was reported for it, whatever other versions were started, reported on or
\* restored from the file in between (shadow_tester.py:35-101).
PromotedOnItsOwnRecord ==
    [][\A v \in deployed' \ deployed :
          ~paper => /\ \E d \in 0 .. today - ShadowDays : <<v, d>> \in windows
                    /\ <<v, state.shadow.sharpe>> \in reports]_shadowVars
============================================================================

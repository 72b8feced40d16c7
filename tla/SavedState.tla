---- MODULE SavedState ----
(***************************************************************************)
(* Everything the program keeps in files that it rewrites in place: the    *)
(* brain versions, the state of the shadow tester, the settings.           *)
(*                                                                         *)
(* The three share neither files nor memory and do not call each other, so *)
(* a behaviour follows one of them: it takes that part's steps, and that   *)
(* part's share of the end of the process, which can come between any two. *)
(***************************************************************************)
EXTENDS BrainVersions, ShadowTester, Tuning

VARIABLE
    part            \* the part this behaviour follows

vars == <<part, versionVars, shadowVars, tuningVars>>

Init ==
    /\ part \in {"versions", "shadow", "tuning"}
    /\ VersionsInit /\ ShadowInit /\ TuningInit

Next ==
    \/ /\ part = "versions"
       /\ VersionsStep \/ VersionsCrash
       /\ UNCHANGED <<part, shadowVars, tuningVars>>
    \/ /\ part = "shadow"
       /\ ShadowStep \/ ShadowCrash
       /\ UNCHANGED <<part, versionVars, tuningVars>>
    \/ /\ part = "tuning"
       /\ TuningStep \/ TuningCrash
       /\ UNCHANGED <<part, versionVars, shadowVars>>

Spec == Init /\ [][Next]_vars

\* Every part's variables have their types.
TypeOK == VersionsTypeOK /\ ShadowTypeOK /\ TuningTypeOK
============================================================================

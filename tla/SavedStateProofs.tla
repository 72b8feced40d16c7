---------------------------- MODULE SavedStateProofs ----------------------------
(***************************************************************************)
(* Theorems about the files the program rewrites in place, for every       *)
(* number of saves, every calendar and every set of values: what survives  *)
(* the end of the process, wherever it falls.                              *)
(*                                                                         *)
(* The invariant of each part is inductive over that part's steps; the     *)
(* other parts leave its variables alone.                                  *)
(***************************************************************************)
EXTENDS SavedState, FiniteSetTheorems, TLAPS

-----------------------------------------------------------------------------
(* Brain versions                                                            *)

FileStates == {"none", "torn", "whole"}

Jobs == [step : Steps, version : Versions] \cup {Idle}

\* The files of a version are written in order, so whole metrics mean a whole version; a
\* version that is being written has no metrics yet, and what the link is about to point to is
\* whole if it is the newest.
VersionsInv ==
    /\ \E n \in 0 .. MaxVersions : Versions = 1 .. n
    /\ files \in [Versions -> [Parts -> FileStates]]
    /\ sharpe \in [Versions -> Sharpes]
    /\ current \in Versions \cup {NoVersion}
    /\ job \in Jobs
    /\ NewestIsWhole
    /\ \A v \in Versions : files[v]["metrics"] = "whole" => Whole(v)
    /\ job.step \in Parts => files[job.version]["metrics"] # "whole"
    /\ job.step = "params" => files[job.version]["weights"] = "whole"
    /\ job.step = "metrics" => /\ files[job.version]["weights"] = "whole"
                               /\ files[job.version]["params"] = "whole"
    /\ job.step \in {"unlink", "link"} =>
            /\ job.version \in Versions
            /\ job.version = Max(Versions) => Whole(job.version)

\* The job in progress is idle or names a version.
LEMMA JobCases ==
    ASSUME job \in Jobs
    PROVE  /\ job # Idle => job.step \in Steps /\ job.version \in Versions
           /\ job.step \in Steps => job # Idle
BY DEF Jobs, Steps, Parts, Idle

\* The greatest of the first numbers is the last of them.
LEMMA MaxOfFirst ==
    ASSUME NEW n \in Nat, n >= 1
    PROVE  Max(1 .. n) = n
<1>1. n \in 1 .. n /\ \A y \in 1 .. n : n >= y
    OBVIOUS
<1>2. Max(1 .. n) \in 1 .. n /\ \A y \in 1 .. n : Max(1 .. n) >= y
    BY <1>1, Zenon DEF Max
<1> QED
    BY <1>1, <1>2

\* Saving starts a version that has none of its files.
LEMMA BeginSaveInv ==
    ASSUME VersionsInv, NEW x \in Sharpes, BeginSave(x)
    PROVE  VersionsInv'
<1>1. PICK n \in 0 .. MaxVersions : Versions = 1 .. n
    BY DEF VersionsInv
<1>2. Cardinality(Versions) = n
    <2>1. n \in Int /\ 1 \in Int /\ n >= 0
        BY <1>1, VersionsAssumption
    <2>2. Cardinality(1 .. n) = IF 1 > n THEN 0 ELSE n - 1 + 1
        BY <2>1, FS_Interval
    <2> QED
        BY <1>1, <2>1, <2>2
<1> DEFINE v == n + 1
           blank == [p \in Parts |-> "none"]
<1>3. /\ v <= MaxVersions
      /\ files' = [u \in Versions \cup {v} |-> IF u = v THEN blank ELSE files[u]]
      /\ sharpe' = [u \in Versions \cup {v} |-> IF u = v THEN x ELSE sharpe[u]]
      /\ job' = [step |-> "weights", version |-> v]
      /\ current' = current
    BY <1>2 DEF BeginSave
<1>4. v \in 1 .. MaxVersions /\ Versions \cup {v} = 1 .. v /\ v \notin Versions
    BY <1>1, <1>3, VersionsAssumption
<1>5. Versions' = Versions \cup {v}
    BY <1>3 DEF Versions
<1>6. files' \in [Versions' -> [Parts -> FileStates]] /\ sharpe' \in [Versions' -> Sharpes]
    <2>1. blank \in [Parts -> FileStates]
        BY DEF FileStates
    <2> HIDE DEF blank
    <2> QED
        BY <1>3, <1>5, <2>1 DEF VersionsInv
<1>7. \A u \in Versions : u # v /\ files'[u] = files[u]
    BY <1>3, <1>4
<1>8. files'[v] = blank /\ files'[v]["metrics"] = "none"
    BY <1>3 DEF Parts
<1>9. job' \in Jobs'
    BY <1>3, <1>5 DEF Jobs, Steps, Parts
<1>10. NewestIsWhole'
    <2>1. v \in Nat /\ v >= 1 /\ Versions' = 1 .. v
        BY <1>1, <1>4, <1>5, VersionsAssumption
    <2>2. Max(Versions') = v
        <3> HIDE DEF v
        <3> QED
            BY <2>1, MaxOfFirst
    <2>3. current' # v
        BY <1>3, <1>4 DEF VersionsInv, NoVersion
    <2> QED
        BY <2>2, <2>3 DEF NewestIsWhole
<1>11. \A u \in Versions' : files'[u]["metrics"] = "whole" => Whole(u)'
    BY <1>5, <1>7, <1>8 DEF VersionsInv, Whole
<1>12. \E m \in 0 .. MaxVersions : Versions' = 1 .. m
    BY <1>4, <1>5
<1>13. current' \in Versions' \cup {NoVersion}
    BY <1>3, <1>5 DEF VersionsInv
<1>14. job'.step = "weights" /\ job'.version = v
    BY <1>3
<1> HIDE DEF v, blank
<1> QED
    BY <1>6, <1>8, <1>9, <1>10, <1>11, <1>12, <1>13, <1>14 DEF VersionsInv, Parts, NoVersion

\* A file is completed while the metrics of its version are still missing.
LEMMA WriteFileInv ==
    ASSUME VersionsInv, WriteFile
    PROVE  VersionsInv'
<1> DEFINE v == job.version
           s == job.step
<1>1. v \in Versions /\ s \in Parts /\ job # Idle
    BY JobCases DEF VersionsInv, WriteFile, Steps
<1>2. /\ files' = [files EXCEPT ![v] = [@ EXCEPT ![s] = "whole"]]
      /\ job' = [step |-> After(s), version |-> v]
      /\ sharpe' = sharpe /\ current' = current
    BY DEF WriteFile
<1>3. files \in [Versions -> [Parts -> FileStates]]
    BY DEF VersionsInv
<1>4. files[v] \in [Parts -> FileStates]
    BY <1>1, <1>3
<1> HIDE DEF v, s
<1>5. Versions' = Versions
    BY <1>2 DEF Versions
<1>6. [files[v] EXCEPT ![s] = "whole"] \in [Parts -> FileStates]
    BY <1>1, <1>4 DEF FileStates
<1>7. files' \in [Versions' -> [Parts -> FileStates]]
    BY <1>1, <1>2, <1>3, <1>5, <1>6
<1>8. /\ files'[v][s] = "whole"
      /\ \A p \in Parts \ {s} : files'[v][p] = files[v][p]
      /\ \A u \in Versions \ {v} : files'[u] = files[u]
    BY <1>1, <1>2, <1>3, <1>4
<1>9. After(s) \in Steps /\ job'.step = After(s) /\ job'.version = v
    BY <1>1, <1>2 DEF After, Steps, Parts
<1>10. job' \in Jobs'
    BY <1>1, <1>2, <1>5, <1>9 DEF Jobs
<1>11. files[v]["metrics"] # "whole"
    BY <1>1 DEF VersionsInv, v, s
<1>12. s = "params" => files[v]["weights"] = "whole"
    BY DEF VersionsInv, v, s
<1>13. s = "metrics" => files[v]["weights"] = "whole" /\ files[v]["params"] = "whole"
    BY DEF VersionsInv, v, s
<1>14. s = "metrics" => \A p \in Parts : files'[v][p] = "whole"
    BY <1>8, <1>13 DEF Parts
<1>15. ~(current = v /\ current = Max(Versions) /\ current # NoVersion)
    BY <1>1, <1>11 DEF VersionsInv, NewestIsWhole, Whole, Parts
<1>16. NewestIsWhole'
    BY <1>2, <1>5, <1>8, <1>15 DEF VersionsInv, NewestIsWhole, Whole, NoVersion
<1>17. \A u \in Versions' : files'[u]["metrics"] = "whole" => Whole(u)'
    <2>1. \A u \in Versions \ {v} : files'[u]["metrics"] = "whole" => Whole(u)'
        BY <1>8 DEF VersionsInv, Whole
    <2>2. files'[v]["metrics"] = "whole" => s = "metrics"
        BY <1>8, <1>11 DEF Parts
    <2> QED
        BY <1>5, <1>14, <2>1, <2>2 DEF Whole
<1>18. CASE s = "weights"
    BY <1>1, <1>2, <1>5, <1>7, <1>8, <1>9, <1>10, <1>11, <1>16, <1>17, <1>18
       DEF VersionsInv, After, Parts
<1>19. CASE s = "params"
    BY <1>1, <1>2, <1>5, <1>7, <1>8, <1>9, <1>10, <1>11, <1>12, <1>16, <1>17, <1>19
       DEF VersionsInv, After, Parts
<1>20. CASE s = "metrics"
    BY <1>1, <1>2, <1>5, <1>7, <1>8, <1>9, <1>10, <1>14, <1>16, <1>17, <1>20
       DEF VersionsInv, After, Parts, Whole
<1> QED
    BY <1>1, <1>18, <1>19, <1>20 DEF Parts

\* There are two versions at least: the one before the last exists and is not the newest.
LEMMA PriorExists ==
    ASSUME VersionsInv, Cardinality(Versions) >= 2
    PROVE  Prior \in Versions /\ Prior # Max(Versions)
<1>1. PICK n \in 0 .. MaxVersions : Versions = 1 .. n
    BY DEF VersionsInv
<1>2. n \in Nat
    BY <1>1, VersionsAssumption
<1>3. n >= 2
    <2>1. n \in Int /\ 1 \in Int
        BY <1>2
    <2>2. Cardinality(1 .. n) = IF 1 > n THEN 0 ELSE n - 1 + 1
        BY <2>1, FS_Interval
    <2> QED
        BY <1>1, <1>2, <2>2
<1>4. Max(Versions) = n
    BY <1>1, <1>2, <1>3, MaxOfFirst
<1>5. n - 1 \in Versions \ {n} /\ \A y \in Versions \ {n} : n - 1 >= y
    BY <1>1, <1>2, <1>3
<1>6. Max(Versions \ {n}) \in Versions \ {n}
    BY <1>5, Zenon DEF Max
<1> QED
    BY <1>4, <1>6 DEF Prior

\* A roll-back goes to a version that is not the newest, whole or not.
LEMMA BeginRollbackInv ==
    ASSUME VersionsInv, BeginRollback
    PROVE  VersionsInv'
<1>1. Prior \in Versions /\ Prior # Max(Versions)
    BY PriorExists DEF BeginRollback
<1>2. /\ job' = [step |-> "unlink", version |-> Prior]
      /\ files' = files /\ sharpe' = sharpe /\ current' = current
    BY DEF BeginRollback
<1>3. job' \in Jobs' /\ job'.step = "unlink" /\ job'.version = Prior
    BY <1>1, <1>2 DEF Jobs, Steps, Versions
<1> HIDE DEF Prior
<1> QED
    BY <1>1, <1>2, <1>3 DEF VersionsInv, Versions, Whole, NewestIsWhole, Parts, NoVersion

\* The link goes away and comes back on the version of the job.
LEMMA LinkInv ==
    ASSUME VersionsInv, Unlink \/ Link
    PROVE  VersionsInv'
<1>1. job.step \in {"unlink", "link"}
    BY DEF Unlink, Link
<1>2. job.version \in Versions /\ (job.version = Max(Versions) => Whole(job.version))
    BY <1>1 DEF VersionsInv
<1>3. CASE Unlink
    <2>1. /\ job' = [step |-> "link", version |-> job.version]
          /\ files' = files /\ sharpe' = sharpe /\ current' = NoVersion
        BY <1>3 DEF Unlink
    <2>2. job' \in Jobs' /\ job'.step = "link" /\ job'.version = job.version
        BY <1>2, <2>1 DEF Jobs, Steps, Versions
    <2> QED
        BY <1>2, <2>1, <2>2 DEF VersionsInv, Versions, Whole, NewestIsWhole, Parts
<1>4. CASE Link
    <2>1. /\ job' = Idle
          /\ files' = files /\ sharpe' = sharpe /\ current' = job.version
        BY <1>4 DEF Link
    <2>2. job' \in Jobs' /\ job'.step = "idle"
        BY <2>1 DEF Jobs, Idle
    <2> QED
        BY <1>2, <2>1, <2>2 DEF VersionsInv, Versions, Whole, NewestIsWhole, Parts
<1> QED
    BY <1>3, <1>4

\* The end of the process tears at most the file being written, which is not of a whole version.
LEMMA VersionsCrashInv ==
    ASSUME VersionsInv, VersionsCrash
    PROVE  VersionsInv'
<1>1. /\ job' = Idle /\ sharpe' = sharpe /\ current' = current
      /\ job'.step = "idle"
    BY DEF VersionsCrash, Idle
<1>2. CASE files' = files
    BY <1>1, <1>2 DEF VersionsInv, Jobs, Versions, Whole, NewestIsWhole, Parts
<1>3. CASE /\ job.step \in Parts
           /\ files' = [files EXCEPT ![job.version] = [@ EXCEPT ![job.step] = "torn"]]
    <2> DEFINE v == job.version
               s == job.step
    <2>1. v \in Versions /\ s \in Parts
        BY <1>3, JobCases DEF VersionsInv, Steps
    <2>2. files \in [Versions -> [Parts -> FileStates]] /\ files[v] \in [Parts -> FileStates]
        BY <2>1 DEF VersionsInv
    <2>3. files' = [files EXCEPT ![v] = [@ EXCEPT ![s] = "torn"]]
        BY <1>3
    <2>4. files[v]["metrics"] # "whole"
        BY <1>3 DEF VersionsInv
    <2> HIDE DEF v, s
    <2>5. Versions' = Versions
        BY <2>3 DEF Versions
    <2>6. [files[v] EXCEPT ![s] = "torn"] \in [Parts -> FileStates]
        BY <2>1, <2>2 DEF FileStates
    <2>7. files' \in [Versions' -> [Parts -> FileStates]]
        BY <2>1, <2>2, <2>3, <2>5, <2>6
    <2>8. /\ files'[v]["metrics"] # "whole"
          /\ \A u \in Versions \ {v} : files'[u] = files[u]
        BY <2>1, <2>2, <2>3, <2>4 DEF Parts
    <2>9. ~(current = v /\ current = Max(Versions) /\ current # NoVersion)
        BY <2>1, <2>4 DEF VersionsInv, NewestIsWhole, Whole, Parts
    <2>10. NewestIsWhole'
        BY <1>1, <2>5, <2>8, <2>9 DEF VersionsInv, NewestIsWhole, Whole, NoVersion
    <2>11. \A u \in Versions' : files'[u]["metrics"] = "whole" => Whole(u)'
        BY <2>5, <2>8 DEF VersionsInv, Whole
    <2> QED
        BY <1>1, <2>5, <2>7, <2>10, <2>11 DEF VersionsInv, Jobs, Parts
<1> QED
    BY <1>2, <1>3 DEF VersionsCrash

\* VersionsInv is inductive.
LEMMA VersionsStepInv ==
    ASSUME VersionsInv, (VersionsStep \/ VersionsCrash) \/ UNCHANGED versionVars
    PROVE  VersionsInv'
<1>1. CASE VersionsStep
    BY <1>1, BeginSaveInv, BeginRollbackInv, WriteFileInv, LinkInv DEF VersionsStep
<1>2. CASE VersionsCrash
    BY <1>2, VersionsCrashInv
<1>3. CASE UNCHANGED versionVars
    BY <1>3 DEF versionVars, VersionsInv, Jobs, Versions, Whole, NewestIsWhole
<1> QED
    BY <1>1, <1>2, <1>3

-----------------------------------------------------------------------------
(* Shadow test                                                               *)

Windows == [version : Brains \cup {NoBrain}, started : 0 .. MaxDay, sharpe : Ratios]

\* A window was started, on its day, for its version, and its ratio was reported for that
\* version.
Backed(w) ==
    w.version # NoBrain => /\ <<w.version, w.started>> \in windows
                           /\ <<w.version, w.sharpe>> \in reports

\* The window in memory and the one in the file are both backed: the process may go on from
\* either.
ShadowInv ==
    /\ ShadowTypeOK
    /\ Backed(state.shadow) /\ Backed(saved.shadow)

\* What a deployment must rest on.
OnItsRecord ==
    \A v \in deployed' \ deployed :
        ~paper => /\ \E d \in 0 .. today - ShadowDays : <<v, d>> \in windows
                  /\ <<v, state.shadow.sharpe>> \in reports

\* No state at all is a state with no window.
LEMMA NoStateType == NoState \in States /\ NoState.shadow.version = NoBrain
<1>1. 0 \in 0 .. MaxDay /\ 0 \in Ratios
    BY ShadowAssumption
<1>2. NoWindow \in Windows
    BY <1>1 DEF NoWindow, Windows
<1>3. NoState.shadow = NoWindow /\ NoWindow.version = NoBrain
    BY DEF NoState, NoWindow
<1> QED
    BY <1>1, <1>2, <1>3 DEF NoState, States, Windows

\* The parts of a state have their types.
LEMMA StateParts ==
    ASSUME NEW q \in States
    PROVE  q.shadow \in Windows /\ q.live \in Ratios
BY DEF States, Windows

\* A state with another window is a state.
LEMMA NewWindow ==
    ASSUME NEW q \in States, NEW w \in Windows
    PROVE  /\ [q EXCEPT !.shadow = w] \in States
           /\ [q EXCEPT !.shadow = w].shadow = w
BY DEF States, Windows

\* A backed window stays backed as history grows.
LEMMA StaysBacked ==
    ASSUME NEW w, Backed(w), windows \subseteq windows', reports \subseteq reports'
    PROVE  w.version # NoBrain => /\ <<w.version, w.started>> \in windows'
                                  /\ <<w.version, w.sharpe>> \in reports'
BY DEF Backed

\* A change of memory to a backed state keeps the invariant: the file is empty until it is
\* written.
LEMMA ChangeInv ==
    ASSUME ShadowInv, NEW q \in States, Change(q),
           windows' \subseteq Brains \X (0 .. MaxDay), reports' \subseteq Brains \X Ratios,
           q.shadow.version # NoBrain => /\ <<q.shadow.version, q.shadow.started>> \in windows'
                                         /\ <<q.shadow.version, q.shadow.sharpe>> \in reports',
           UNCHANGED <<paper, today, deployed>>
    PROVE  ShadowInv'
<1>1. state' = q /\ saved' = NoState /\ saving' = TRUE
    BY DEF Change
<1>2. ShadowTypeOK'
    BY <1>1, NoStateType DEF ShadowInv, ShadowTypeOK
<1>3. Backed(state.shadow)'
    BY <1>1 DEF Backed
<1>4. Backed(saved.shadow)'
    BY <1>1, NoStateType DEF Backed
<1> QED
    BY <1>2, <1>3, <1>4 DEF ShadowInv

\* StartShadow opens the window of its version.
LEMMA StartShadowInv ==
    ASSUME ShadowInv, NEW v \in Brains, NEW x \in Ratios, StartShadow(v, x)
    PROVE  ShadowInv'
<1> DEFINE w == [version |-> v, started |-> today, sharpe |-> x]
           q == [state EXCEPT !.shadow = w]
<1>1. state \in States /\ today \in 0 .. MaxDay
    BY DEF ShadowInv, ShadowTypeOK
<1>2. w \in Windows /\ w.version = v /\ w.started = today /\ w.sharpe = x
    BY <1>1 DEF Windows
<1>3. /\ Change(q)
      /\ windows' = windows \cup {<<v, today>>} /\ reports' = reports \cup {<<v, x>>}
      /\ UNCHANGED <<paper, today, deployed>>
    BY DEF StartShadow
<1>4. /\ windows' \subseteq Brains \X (0 .. MaxDay)
      /\ reports' \subseteq Brains \X Ratios
    BY <1>1, <1>3 DEF ShadowInv, ShadowTypeOK
<1> HIDE DEF w
<1>5. q \in States /\ q.shadow = w
    BY <1>1, <1>2, NewWindow
<1> HIDE DEF q
<1> QED
    BY <1>2, <1>3, <1>4, <1>5, ChangeInv

\* UpdateShadowSharpe changes the ratio of the version it is a report on.
LEMMA UpdateShadowInv ==
    ASSUME ShadowInv, NEW v \in Brains, NEW x \in Ratios, UpdateShadowSharpe(v, x)
    PROVE  ShadowInv'
<1> DEFINE u == state.shadow
           w == [version |-> v, started |-> u.started, sharpe |-> x]
           q == [state EXCEPT !.shadow.sharpe = x]
<1>1. state \in States /\ u \in Windows
    BY StateParts DEF ShadowInv, ShadowTypeOK
<1>2. /\ u.version = v /\ Change(q)
      /\ windows' = windows /\ reports' = reports \cup {<<v, x>>}
      /\ UNCHANGED <<paper, today, deployed>>
    BY DEF UpdateShadowSharpe
<1>3. w \in Windows /\ w.version = v /\ w.started = u.started /\ w.sharpe = x
    BY <1>1 DEF Windows
<1>4. <<v, u.started>> \in windows
    BY <1>2, ShadowAssumption DEF ShadowInv, Backed
<1>5. [u EXCEPT !.sharpe = x] = w
    BY <1>1, <1>2 DEF Windows
<1>6. q = [state EXCEPT !.shadow = w]
    BY <1>1, <1>5 DEF States
<1>7. /\ windows' \subseteq Brains \X (0 .. MaxDay)
      /\ reports' \subseteq Brains \X Ratios
    BY <1>2 DEF ShadowInv, ShadowTypeOK
<1> HIDE DEF w, u
<1>8. q \in States /\ q.shadow = w
    BY <1>1, <1>3, <1>6, NewWindow
<1> HIDE DEF q
<1> QED
    BY <1>2, <1>3, <1>4, <1>7, <1>8, ChangeInv

\* UpdateLiveSharpe leaves the window alone.
LEMMA UpdateLiveInv ==
    ASSUME ShadowInv, NEW x \in Ratios, UpdateLiveSharpe(x)
    PROVE  ShadowInv'
<1> DEFINE q == [state EXCEPT !.live = x]
<1>1. state \in States
    BY DEF ShadowInv, ShadowTypeOK
<1>2. q \in States /\ q.shadow = state.shadow
    BY <1>1 DEF States
<1>3. /\ Change(q) /\ windows' = windows /\ reports' = reports
      /\ UNCHANGED <<paper, today, deployed>>
    BY DEF UpdateLiveSharpe
<1>4. /\ windows' \subseteq Brains \X (0 .. MaxDay)
      /\ reports' \subseteq Brains \X Ratios
    BY <1>3 DEF ShadowInv, ShadowTypeOK
<1> HIDE DEF q
<1> QED
    BY <1>2, <1>3, <1>4, ChangeInv DEF ShadowInv, Backed

\* The other steps keep the states as they are, or go from one of them to the other.
LEMMA OtherShadowInv ==
    ASSUME ShadowInv,
           SaveState \/ ShadowNewDay \/ ShadowCrash \/ (\E v \in Brains : Deploy(v))
    PROVE  ShadowInv'
<1>1. CASE SaveState
    BY <1>1 DEF SaveState, ShadowInv, ShadowTypeOK, Backed
<1>2. CASE ShadowNewDay
    <2>1. today' \in 0 .. MaxDay
        BY <1>2, ShadowAssumption DEF ShadowNewDay, ShadowInv, ShadowTypeOK
    <2> QED
        BY <1>2, <2>1 DEF ShadowNewDay, ShadowInv, ShadowTypeOK, Backed
<1>3. CASE ShadowCrash
    BY <1>3 DEF ShadowCrash, ShadowInv, ShadowTypeOK, Backed
<1>4. CASE \E v \in Brains : Deploy(v)
    BY <1>4 DEF Deploy, ShadowInv, ShadowTypeOK, Backed
<1> QED
    BY <1>1, <1>2, <1>3, <1>4

\* ShadowInv is inductive.
LEMMA ShadowStepInv ==
    ASSUME ShadowInv, (ShadowStep \/ ShadowCrash) \/ UNCHANGED shadowVars
    PROVE  ShadowInv'
<1>1. CASE ShadowStep \/ ShadowCrash
    BY <1>1, StartShadowInv, UpdateShadowInv, UpdateLiveInv, OtherShadowInv DEF ShadowStep
<1>2. CASE UNCHANGED shadowVars
    BY <1>2 DEF shadowVars, ShadowInv, ShadowTypeOK, Backed
<1> QED
    BY <1>1, <1>2

\* Only Deploy lets a version through, and only on what the window shows.
LEMMA DeployOnRecord ==
    ASSUME ShadowInv, (ShadowStep \/ ShadowCrash) \/ UNCHANGED shadowVars
    PROVE  OnItsRecord
<1>1. CASE deployed' = deployed
    BY <1>1 DEF OnItsRecord
<1>2. ASSUME NEW v \in Brains, Deploy(v)
      PROVE  OnItsRecord
    <2> SUFFICES ASSUME ~paper, v \notin deployed
                 PROVE  /\ \E d \in 0 .. today - ShadowDays : <<v, d>> \in windows
                        /\ <<v, state.shadow.sharpe>> \in reports
        BY <1>2 DEF OnItsRecord, Deploy
    <2>1. state.shadow.version = v /\ today - state.shadow.started >= ShadowDays
        BY <1>2 DEF Deploy, should_deploy
    <2>2. <<v, state.shadow.started>> \in windows /\ <<v, state.shadow.sharpe>> \in reports
        BY <2>1, ShadowAssumption DEF ShadowInv, Backed
    <2>3. state.shadow.started \in 0 .. MaxDay
        BY StateParts DEF ShadowInv, ShadowTypeOK, Windows
    <2>4. state.shadow.started \in 0 .. today - ShadowDays
        BY <2>1, <2>3, ShadowAssumption DEF ShadowInv, ShadowTypeOK
    <2> QED
        BY <2>2, <2>4
<1> QED
    BY <1>1, <1>2 DEF ShadowStep, ShadowCrash, shadowVars, StartShadow, UpdateShadowSharpe,
       UpdateLiveSharpe, SaveState, ShadowNewDay

-----------------------------------------------------------------------------
(* Settings and suggestions                                                  *)

Contents == [kelly : Int \cup {Unset}, kill_pct : Nat \cup {Unset}, secrets : BOOLEAN]

\* What KellySizer takes, or nothing, for which there is a default.
Fits(kelly) == kelly = Unset \/ kelly \in 1 .. 100

\* A fraction that would keep the server from starting, in the file or on its way there, is
\* the operator's; the suggestions are all within their bounds.
TuningInv ==
    /\ TuningTypeOK
    /\ last_result["kelly_fraction"] \in (KellyLow .. KellyHigh) \cup {Unset}
    /\ last_result["kill_switch_pct"] \in Nat \cup {Unset}
    /\ last_result["guardian_auto_execute"] \in BOOLEAN \cup {Unset}
    /\ author # "operator" => Fits(settings.kelly) /\ Fits(writing.kelly)
    /\ OnlyTheOperatorStopsTheServer

\* Opening the file empties it.
LEMMA RewriteFile ==
    ASSUME NEW c \in Contents, Rewrite(c)
    PROVE  /\ settings' \in Contents /\ writing' \in Contents /\ writing' = c
           /\ Fits(settings.kelly)'
<1>1. Empty \in Contents /\ Empty.kelly = Unset
    BY DEF Empty, Contents
<1> QED
    BY <1>1 DEF Rewrite, Fits

\* PostSettings merges what was posted into what the file holds.
LEMMA PostSettingsInv ==
    ASSUME TuningInv, NEW kelly \in Posted \cup {Unset}, NEW pct \in KillPcts \cup {Unset},
           NEW auto \in BOOLEAN \cup {Unset}, PostSettings(kelly, pct, auto)
    PROVE  TuningInv'
<1> DEFINE c == [settings EXCEPT !.kelly = Or(kelly, @), !.kill_pct = Or(pct, @)]
<1>1. settings \in Contents
    BY DEF TuningInv, TuningTypeOK, Contents
<1>2. /\ Or(kelly, settings.kelly) \in Int \cup {Unset}
      /\ Or(pct, settings.kill_pct) \in Nat \cup {Unset}
    BY <1>1, TuningAssumption DEF Or, Contents
<1>3. c \in Contents /\ c.kelly = Or(kelly, settings.kelly)
    BY <1>1, <1>2 DEF Contents
<1>4. /\ Rewrite(c)
      /\ broker_pct' = Or(c.kill_pct, DefaultKillPct)
      /\ shadowed' = Or(c.kelly, DefaultKelly)
      /\ auto_execute' = Or(auto, auto_execute)
      /\ author' = IF kelly = Unset THEN author ELSE "operator"
      /\ up /\ up' = up /\ sizer' = sizer /\ gate_pct' = gate_pct
      /\ asking' = asking /\ last_result' = last_result
    BY DEF PostSettings, Serving
<1> HIDE DEF c
<1>5. broker_pct' \in Nat /\ shadowed' \in Int \cup {Unset}
    BY <1>3, <1>4 DEF Or, Contents, DefaultKillPct, DefaultKelly
<1>6. auto_execute' \in BOOLEAN
    BY <1>4, Zenon DEF Or, TuningInv, TuningTypeOK
<1>7. author' # "operator" => Fits(settings.kelly)' /\ Fits(writing.kelly)'
    BY <1>3, <1>4, RewriteFile DEF TuningInv, Fits, Or
<1>8. TuningTypeOK'
    BY <1>3, <1>4, <1>5, <1>6, RewriteFile DEF TuningInv, TuningTypeOK, Contents
<1> QED
    BY <1>4, <1>7, <1>8 DEF TuningInv, OnlyTheOperatorStopsTheServer

\* A number within the safe bounds is one the sizer takes.
LEMMA ClampedFits ==
    ASSUME NEW k \in Int
    PROVE  Clamped(k) \in KellyLow .. KellyHigh
BY DEF Clamped, KellyLow, KellyHigh

LEMMA ClampedPctIsNat ==
    ASSUME NEW p \in Nat
    PROVE  ClampedPct(p) \in Nat
BY DEF ClampedPct, KillPctLow, KillPctHigh

\* The suggestions of an answer are within their bounds.
LEMMA AdvisorAnswersInv ==
    ASSUME TuningInv, AdvisorAnswers
    PROVE  TuningInv'
<1>1. PICK kelly \in Suggested \cup {Unset}, pct \in KillPcts \cup {Unset},
           auto \in BOOLEAN \cup {Unset} :
        last_result' = [kelly_fraction |-> IF kelly = Unset THEN Unset ELSE Clamped(kelly),
                        kill_switch_pct |-> IF pct = Unset THEN Unset ELSE ClampedPct(pct),
                        guardian_auto_execute |-> auto]
    BY Zenon DEF AdvisorAnswers
<1>2. /\ last_result'["kelly_fraction"] = IF kelly = Unset THEN Unset ELSE Clamped(kelly)
      /\ last_result'["kill_switch_pct"] = IF pct = Unset THEN Unset ELSE ClampedPct(pct)
      /\ last_result'["guardian_auto_execute"] = auto
      /\ DOMAIN last_result' = Parameters
    BY <1>1 DEF Parameters
<1>3. last_result'["kelly_fraction"] \in (KellyLow .. KellyHigh) \cup {Unset}
    BY <1>2, ClampedFits, TuningAssumption
<1>4. last_result'["kill_switch_pct"] \in Nat \cup {Unset}
    BY <1>2, ClampedPctIsNat, TuningAssumption
<1>5. last_result'["guardian_auto_execute"] \in BOOLEAN \cup {Unset}
    BY <1>2, Zenon
<1>6. /\ asking' = FALSE
      /\ UNCHANGED <<up, settings, writing, sizer, shadowed, auto_execute, broker_pct,
                     gate_pct, author>>
    BY DEF AdvisorAnswers
<1>7. TuningTypeOK'
    BY <1>2, <1>6 DEF TuningInv, TuningTypeOK
<1>8. /\ author' # "operator" => Fits(settings.kelly)' /\ Fits(writing.kelly)'
      /\ OnlyTheOperatorStopsTheServer'
    BY <1>6 DEF TuningInv, OnlyTheOperatorStopsTheServer, Fits
<1> QED
    BY <1>3, <1>4, <1>5, <1>7, <1>8, Zenon DEF TuningInv

\* An accepted fraction is one the sizer takes.
LEMMA AcceptKellyInv ==
    ASSUME TuningInv, AcceptKelly
    PROVE  TuningInv'
<1> DEFINE k == last_result["kelly_fraction"]
           c == [settings EXCEPT !.kelly = k]
<1>1. k \in 10 .. 100
    BY DEF AcceptKelly, TuningInv, KellyLow, KellyHigh
<1>2. settings \in Contents
    BY DEF TuningInv, TuningTypeOK, Contents
<1>3. c \in Contents /\ c.kelly = k
    BY <1>1, <1>2 DEF Contents
<1>4. /\ shadowed' = k /\ Rewrite(c)
      /\ last_result' = [last_result EXCEPT !["kelly_fraction"] = Unset]
      /\ author' = "advisor" /\ up /\ up' = up
      /\ UNCHANGED <<sizer, auto_execute, broker_pct, gate_pct, asking>>
    BY DEF AcceptKelly, Serving
<1>5. /\ DOMAIN last_result' = Parameters
      /\ last_result'["kelly_fraction"] = Unset
      /\ last_result'["kill_switch_pct"] = last_result["kill_switch_pct"]
      /\ last_result'["guardian_auto_execute"] = last_result["guardian_auto_execute"]
    BY <1>4 DEF TuningInv, TuningTypeOK, Parameters
<1> HIDE DEF k, c
<1>6. Fits(settings.kelly)' /\ Fits(writing.kelly)'
    BY <1>1, <1>3, <1>4, RewriteFile DEF Fits
<1>7. TuningTypeOK'
    BY <1>1, <1>3, <1>4, <1>5, RewriteFile DEF TuningInv, TuningTypeOK, Contents
<1> QED
    BY <1>4, <1>5, <1>6, <1>7 DEF TuningInv, OnlyTheOperatorStopsTheServer

\* An accepted percentage leaves the fraction of the file as it is.
LEMMA AcceptKillPctInv ==
    ASSUME TuningInv, AcceptKillPct
    PROVE  TuningInv'
<1> DEFINE p == last_result["kill_switch_pct"]
           c == [settings EXCEPT !.kill_pct = p]
<1>1. p \in Nat
    BY DEF AcceptKillPct, TuningInv
<1>2. settings \in Contents
    BY DEF TuningInv, TuningTypeOK, Contents
<1>3. c \in Contents /\ c.kelly = settings.kelly
    BY <1>1, <1>2 DEF Contents
<1>4. /\ Rewrite(c)
      /\ last_result' = [last_result EXCEPT !["kill_switch_pct"] = Unset]
      /\ up
      /\ UNCHANGED <<up, sizer, shadowed, auto_execute, broker_pct, gate_pct, asking, author>>
    BY DEF AcceptKillPct, Serving
<1>5. /\ DOMAIN last_result' = Parameters
      /\ last_result'["kill_switch_pct"] = Unset
      /\ last_result'["kelly_fraction"] = last_result["kelly_fraction"]
      /\ last_result'["guardian_auto_execute"] = last_result["guardian_auto_execute"]
    BY <1>4 DEF TuningInv, TuningTypeOK, Parameters
<1> HIDE DEF p, c
<1>6. author' # "operator" => Fits(settings.kelly)' /\ Fits(writing.kelly)'
    BY <1>3, <1>4, RewriteFile DEF TuningInv, Fits
<1>7. TuningTypeOK'
    BY <1>3, <1>4, <1>5, RewriteFile DEF TuningInv, TuningTypeOK, Contents
<1> QED
    BY <1>4, <1>5, <1>6, <1>7 DEF TuningInv, OnlyTheOperatorStopsTheServer

\* An accepted switch rewrites the file with what it holds.
LEMMA AcceptAutoExecuteInv ==
    ASSUME TuningInv, AcceptAutoExecute
    PROVE  TuningInv'
<1>1. settings \in Contents
    BY DEF TuningInv, TuningTypeOK, Contents
<1>2. /\ auto_execute' = last_result["guardian_auto_execute"]
      /\ last_result["guardian_auto_execute"] # Unset
      /\ Rewrite(settings)
      /\ last_result' = [last_result EXCEPT !["guardian_auto_execute"] = Unset]
      /\ up /\ UNCHANGED <<up, sizer, shadowed, broker_pct, gate_pct, asking, author>>
    BY DEF AcceptAutoExecute, Serving
<1>3. auto_execute' \in BOOLEAN
    BY <1>2, Zenon DEF TuningInv
<1>4. /\ DOMAIN last_result' = Parameters
      /\ last_result'["guardian_auto_execute"] = Unset
      /\ last_result'["kelly_fraction"] = last_result["kelly_fraction"]
      /\ last_result'["kill_switch_pct"] = last_result["kill_switch_pct"]
    BY <1>2 DEF TuningInv, TuningTypeOK, Parameters
<1>5. author' # "operator" => Fits(settings.kelly)' /\ Fits(writing.kelly)'
    BY <1>1, <1>2, RewriteFile DEF TuningInv, Fits
<1>6. TuningTypeOK'
    BY <1>1, <1>2, <1>3, <1>4, RewriteFile DEF TuningInv, TuningTypeOK, Contents
<1> QED
    BY <1>2, <1>4, <1>5, <1>6 DEF TuningInv, OnlyTheOperatorStopsTheServer

\* The file gets what was to be written.
LEMMA WriteDoneInv ==
    ASSUME TuningInv, WriteDone
    PROVE  TuningInv'
<1>1. /\ up /\ settings' = writing /\ writing # NotWriting /\ writing' = NotWriting
      /\ UNCHANGED <<up, sizer, shadowed, auto_execute, broker_pct, gate_pct, asking,
                     last_result, author>>
    BY DEF WriteDone
<1>2. settings' \in Contents
    BY <1>1 DEF TuningInv, TuningTypeOK, Contents
<1>3. Fits(writing.kelly)'
    BY <1>1 DEF Fits, NotWriting
<1>4. TuningTypeOK'
    BY <1>1, <1>2 DEF TuningInv, TuningTypeOK, Contents
<1> QED
    BY <1>1, <1>3, <1>4 DEF TuningInv, OnlyTheOperatorStopsTheServer, Fits

\* The server starts from the file unless the fraction there does not fit.
LEMMA TuningCrashInv ==
    ASSUME TuningInv, TuningCrash
    PROVE  TuningInv'
<1>1. settings \in Contents
    BY DEF TuningInv, TuningTypeOK, Contents
<1>2. /\ up' = Boots /\ writing' = NotWriting
      /\ sizer' = Or(settings.kelly, DefaultKelly) /\ shadowed' = Unset
      /\ auto_execute' = FALSE
      /\ broker_pct' = Or(settings.kill_pct, DefaultKillPct)
      /\ gate_pct' = Or(settings.kill_pct, DefaultKillPct)
      /\ asking' = FALSE /\ last_result' = Nothing
      /\ author' = IF settings.kelly = Unset THEN "default" ELSE author
      /\ settings' = settings
    BY DEF TuningCrash
<1>3. sizer' \in Int /\ broker_pct' \in Nat /\ gate_pct' \in Nat
    BY <1>1, <1>2 DEF Contents, Or, DefaultKelly, DefaultKillPct
<1>4. /\ DOMAIN last_result' = Parameters
      /\ last_result'["kelly_fraction"] = Unset
      /\ last_result'["kill_switch_pct"] = Unset
      /\ last_result'["guardian_auto_execute"] = Unset
    BY <1>2 DEF Nothing, Parameters
<1>5. Fits(settings.kelly) => Boots
    BY DEF Fits, Boots, Or, DefaultKelly
<1>6. up' \in BOOLEAN
    <2>1. Boots = TRUE \/ Boots = FALSE
        BY DEF Boots
    <2> QED
        BY <1>2, <2>1, Zenon
<1>7. author' # "operator" => Fits(settings.kelly)' /\ Fits(writing.kelly)'
    BY <1>2 DEF TuningInv, Fits, NotWriting
<1>8. OnlyTheOperatorStopsTheServer'
    BY <1>2, <1>5, <1>7 DEF OnlyTheOperatorStopsTheServer, Fits
<1>9. TuningTypeOK'
    BY <1>1, <1>2, <1>3, <1>4, <1>6 DEF TuningInv, TuningTypeOK, Contents
<1> QED
    BY <1>4, <1>7, <1>8, <1>9 DEF TuningInv

\* TuningInv is inductive.
LEMMA TuningStepInv ==
    ASSUME TuningInv, (TuningStep \/ TuningCrash) \/ UNCHANGED tuningVars
    PROVE  TuningInv'
<1>1. CASE \E enabled \in BOOLEAN : SetAutoExecute(enabled)
    BY <1>1 DEF SetAutoExecute, TuningInv, TuningTypeOK, OnlyTheOperatorStopsTheServer, Fits
<1>2. CASE AskAdvisor
    BY <1>2 DEF AskAdvisor, TuningInv, TuningTypeOK, OnlyTheOperatorStopsTheServer, Fits
<1>3. CASE UNCHANGED tuningVars
    BY <1>3 DEF tuningVars, TuningInv, TuningTypeOK, OnlyTheOperatorStopsTheServer, Fits
<1> QED
    BY <1>1, <1>2, <1>3, PostSettingsInv, WriteDoneInv, AdvisorAnswersInv, AcceptKellyInv,
       AcceptKillPctInv, AcceptAutoExecuteInv, TuningCrashInv DEF TuningStep

-----------------------------------------------------------------------------
(* The three together                                                        *)

\* Every part keeps its invariant, whatever part a behaviour follows.
SavedInv == VersionsInv /\ ShadowInv /\ TuningInv

\* The initial states satisfy the invariant.
LEMMA SavedInit == Init => SavedInv
<1> SUFFICES ASSUME Init PROVE SavedInv
    OBVIOUS
<1>1. VersionsInv
    <2>1. 0 \in 0 .. MaxVersions /\ files = <<>> /\ sharpe = <<>> /\ Versions = 1 .. 0
        BY VersionsAssumption DEF Init, VersionsInit, Versions
    <2>2. files \in [Versions -> [Parts -> FileStates]] /\ sharpe \in [Versions -> Sharpes]
        BY <2>1
    <2>3. job = Idle /\ job.step = "idle" /\ current = NoVersion
        BY DEF Init, VersionsInit, Idle
    <2> QED
        BY <2>1, <2>2, <2>3 DEF VersionsInv, Jobs, NewestIsWhole, Parts
<1>2. ShadowInv
    <2>1. /\ state = NoState /\ saved = NoState /\ today = 0
          /\ windows = {} /\ reports = {} /\ deployed = {}
        BY DEF Init, ShadowInit
    <2>2. paper \in BOOLEAN /\ saving \in BOOLEAN
        BY Zenon DEF Init, ShadowInit
    <2>3. today \in 0 .. MaxDay
        BY <2>1, ShadowAssumption
    <2>4. ShadowTypeOK
        BY <2>1, <2>2, <2>3, NoStateType, Zenon DEF ShadowTypeOK
    <2> QED
        BY <2>1, <2>4, NoStateType, Zenon DEF ShadowInv, Backed
<1>3. TuningInv
    <2>1. settings = [kelly |-> Unset, kill_pct |-> Unset, secrets |-> TRUE]
        BY DEF Init, TuningInit, Empty
    <2>2. settings \in Contents
        BY <2>1 DEF Contents
    <2>3. /\ DOMAIN last_result = Parameters
          /\ last_result["kelly_fraction"] = Unset
          /\ last_result["kill_switch_pct"] = Unset
          /\ last_result["guardian_auto_execute"] = Unset
        BY DEF Init, TuningInit, Nothing, Parameters
    <2>4. TuningTypeOK
        <3>1. up \in BOOLEAN /\ asking \in BOOLEAN /\ auto_execute \in BOOLEAN
            BY Zenon DEF Init, TuningInit
        <3>2. /\ sizer \in Int /\ shadowed \in Int \cup {Unset}
              /\ broker_pct \in Nat /\ gate_pct \in Nat
              /\ author \in {"default", "operator", "advisor"}
            BY DEF Init, TuningInit, DefaultKelly, DefaultKillPct
        <3>3. writing = NotWriting
            BY DEF Init, TuningInit
        <3> QED
            BY <2>2, <2>3, <3>1, <3>2, <3>3, Zenon DEF TuningTypeOK, Contents
    <2>5. Fits(settings.kelly) /\ Fits(writing.kelly) /\ up = TRUE
        BY <2>1 DEF Init, TuningInit, Fits, NotWriting
    <2> QED
        BY <2>3, <2>4, <2>5 DEF TuningInv, OnlyTheOperatorStopsTheServer
<1> QED
    BY <1>1, <1>2, <1>3 DEF SavedInv

\* A step is a step of one part, and leaves the others alone.
LEMMA SavedStep ==
    ASSUME [Next]_vars
    PROVE  /\ (VersionsStep \/ VersionsCrash) \/ UNCHANGED versionVars
           /\ (ShadowStep \/ ShadowCrash) \/ UNCHANGED shadowVars
           /\ (TuningStep \/ TuningCrash) \/ UNCHANGED tuningVars
BY DEF Next, vars

\* Every behaviour of the program keeps the invariant of each of its files.
THEOREM SavedAlways == Spec => []SavedInv
<1>1. Init => SavedInv
    BY SavedInit
<1>2. SavedInv /\ [Next]_vars => SavedInv'
    BY SavedStep, VersionsStepInv, ShadowStepInv, TuningStepInv DEF SavedInv
<1> QED
    BY <1>1, <1>2, PTL DEF Spec

\* The versions, the shadow state, the settings and what is waiting to be written have their
\* types.
THEOREM SavedTypeOK == Spec => []TypeOK
<1>1. VersionsInv => VersionsTypeOK
    <2> SUFFICES ASSUME VersionsInv PROVE VersionsTypeOK
        OBVIOUS
    <2>1. Versions \in {1 .. n : n \in 0 .. MaxVersions}
        BY DEF VersionsInv
    <2> QED
        BY <2>1 DEF VersionsInv, VersionsTypeOK, Jobs, FileStates
<1>2. SavedInv => TypeOK
    BY <1>1 DEF SavedInv, ShadowInv, TuningInv, TypeOK
<1> QED
    BY <1>2, SavedAlways, PTL

\* However many saves and roll-backs are cut off, and wherever, the link names the newest version
\* only if it is complete.
THEOREM NewestStaysWhole == Spec => []NewestIsWhole
<1>1. SavedInv => NewestIsWhole
    BY DEF SavedInv, VersionsInv
<1> QED
    BY <1>1, SavedAlways, PTL

\* A version that should_rollback recommends has readable metrics, and those are written last.
LEMMA AdviceSound ==
    ASSUME VersionsInv, NEW live, ShouldRollback(live)
    PROVE  Prior \in Versions /\ Whole(Prior)
<1>1. Cardinality(Versions) >= 2 /\ files[Prior]["metrics"] = "whole"
    BY DEF ShouldRollback, StoredSharpe
<1>2. Prior \in Versions
    BY <1>1, PriorExists
<1> QED
    BY <1>1, <1>2 DEF VersionsInv

\* should_rollback never recommends an incomplete version.
THEOREM AdviceStaysWhole == Spec => []AdviceIsWhole
<1>1. SavedInv => AdviceIsWhole
    BY AdviceSound DEF SavedInv, AdviceIsWhole
<1> QED
    BY <1>1, SavedAlways, PTL

\* rollback() is called only when should_rollback says so, as the header of
\* brain_versioning.py describes it and no line of it enforces.
OnAdvice == BeginRollback => \E live \in Sharpes : ShouldRollback(live)

\* The current brain is complete.
CurrentIsWhole == current # NoVersion => Whole(current)

\* The current brain is complete, and so is the one that the link is about to point to.
WholeInv ==
    /\ CurrentIsWhole
    /\ job.step \in {"unlink", "link"} => Whole(job.version)

\* A version that is being written is not complete, so it is not the current one.
LEMMA WholeStep ==
    ASSUME VersionsInv, WholeInv, VersionsStep \/ VersionsCrash, OnAdvice
    PROVE  WholeInv'
<1>1. ASSUME NEW x \in Sharpes, BeginSave(x) PROVE WholeInv'
    <2> DEFINE v == Cardinality(Versions) + 1
    <2>1. /\ \A u \in Versions : u # v => files'[u] = files[u]
          /\ job'.step = "weights" /\ current' = current
        BY <1>1 DEF BeginSave
    <2>2. v \notin Versions
        <3>1. PICK n \in 0 .. MaxVersions : Versions = 1 .. n
            BY DEF VersionsInv
        <3>2. n \in Int /\ 1 \in Int /\ n >= 0
            BY <3>1, VersionsAssumption
        <3>3. Cardinality(1 .. n) = IF 1 > n THEN 0 ELSE n - 1 + 1
            BY <3>2, FS_Interval
        <3> QED
            BY <3>1, <3>2, <3>3
    <2>3. current \in Versions \cup {NoVersion}
        BY DEF VersionsInv
    <2> HIDE DEF v
    <2> QED
        BY <2>1, <2>2, <2>3 DEF WholeInv, CurrentIsWhole, Whole
<1>2. CASE BeginRollback
    <2>1. PICK live \in Sharpes : ShouldRollback(live)
        BY <1>2 DEF OnAdvice
    <2>2. Whole(Prior)
        BY <2>1, AdviceSound
    <2>3. job'.version = Prior /\ files' = files /\ current' = current
        BY <1>2 DEF BeginRollback
    <2> HIDE DEF Prior
    <2> QED
        BY <2>2, <2>3 DEF WholeInv, CurrentIsWhole, Whole
<1>3. CASE WriteFile
    <2> DEFINE v == job.version
               s == job.step
    <2>1. v \in Versions /\ s \in Parts
        BY <1>3, JobCases DEF VersionsInv, WriteFile, Steps
    <2>2. files \in [Versions -> [Parts -> FileStates]] /\ files[v] \in [Parts -> FileStates]
        BY <2>1 DEF VersionsInv
    <2>3. /\ files' = [files EXCEPT ![v] = [@ EXCEPT ![s] = "whole"]]
          /\ job'.step = After(s) /\ job'.version = v /\ current' = current
        BY <1>3 DEF WriteFile
    <2>4. /\ files[v]["metrics"] # "whole"
          /\ s = "metrics" => files[v]["weights"] = "whole" /\ files[v]["params"] = "whole"
        BY <1>3 DEF VersionsInv, WriteFile
    <2> HIDE DEF v, s
    <2>5. current # v \/ current = NoVersion
        BY <2>1, <2>4 DEF WholeInv, CurrentIsWhole, Whole, Parts
    <2>6. /\ files'[v][s] = "whole"
          /\ \A p \in Parts \ {s} : files'[v][p] = files[v][p]
          /\ \A u \in Versions \ {v} : files'[u] = files[u]
        BY <2>1, <2>2, <2>3
    <2>7. current \in Versions \cup {NoVersion}
        BY DEF VersionsInv
    <2>8. CurrentIsWhole'
        BY <2>3, <2>5, <2>6, <2>7 DEF WholeInv, CurrentIsWhole, Whole
    <2>9. After(s) \in {"unlink", "link"} => s = "metrics"
        BY <2>1 DEF After, Parts
    <2>10. s = "metrics" => \A p \in Parts : files'[v][p] = "whole"
        BY <2>4, <2>6 DEF Parts
    <2> QED
        BY <2>3, <2>8, <2>9, <2>10 DEF WholeInv, Whole
<1>4. CASE Unlink \/ Link
    BY <1>4 DEF Unlink, Link, WholeInv, CurrentIsWhole, Whole, Idle, NoVersion
<1>5. CASE VersionsCrash
    <2>1. job'.step = "idle" /\ current' = current
        BY <1>5 DEF VersionsCrash, Idle
    <2>2. CASE files' = files
        BY <2>1, <2>2 DEF WholeInv, CurrentIsWhole, Whole
    <2>3. CASE /\ job.step \in Parts
               /\ files' = [files EXCEPT ![job.version] = [@ EXCEPT ![job.step] = "torn"]]
        <3>1. job.version \in Versions
            BY <2>3, JobCases DEF VersionsInv, Steps
        <3>2. files \in [Versions -> [Parts -> FileStates]]
            BY DEF VersionsInv
        <3>3. current # job.version \/ current = NoVersion
            BY <2>3, <3>1 DEF VersionsInv, WholeInv, CurrentIsWhole, Whole, Parts
        <3>4. \A u \in Versions \ {job.version} : files'[u] = files[u]
            BY <2>3, <3>1, <3>2
        <3>5. current \in Versions \cup {NoVersion}
            BY DEF VersionsInv
        <3> QED
            BY <2>1, <3>3, <3>4, <3>5 DEF WholeInv, CurrentIsWhole, Whole
    <2> QED
        BY <1>5, <2>2, <2>3 DEF VersionsCrash
<1> QED
    BY <1>1, <1>2, <1>3, <1>4, <1>5 DEF VersionsStep

\* As long as every roll-back is made on the advice of should_rollback, the current brain is
\* complete, wherever saves and roll-backs are cut off.
THEOREM AdvisedBrainStaysWhole == Spec /\ [][OnAdvice]_vars => []CurrentIsWhole
<1>1. Init => WholeInv
    BY DEF Init, VersionsInit, WholeInv, CurrentIsWhole, Idle
<1>2. SavedInv /\ WholeInv /\ [Next]_vars /\ [OnAdvice]_vars => WholeInv'
    <2> SUFFICES ASSUME SavedInv, WholeInv, [Next]_vars, [OnAdvice]_vars PROVE WholeInv'
        OBVIOUS
    <2>1. CASE UNCHANGED versionVars
        BY <2>1 DEF versionVars, WholeInv, CurrentIsWhole, Whole
    <2>2. CASE (VersionsStep \/ VersionsCrash) /\ OnAdvice
        BY <2>2, WholeStep DEF SavedInv
    <2> QED
        BY <2>1, <2>2 DEF Next, vars, versionVars
<1>3. WholeInv => CurrentIsWhole
    BY DEF WholeInv
<1> QED
    BY <1>1, <1>2, <1>3, SavedAlways, PTL DEF Spec

\* No suggestion of the advisor and no write that was cut off keeps the server from starting.
THEOREM ServerStaysStartable == Spec => []OnlyTheOperatorStopsTheServer
<1>1. SavedInv => OnlyTheOperatorStopsTheServer
    BY DEF SavedInv, TuningInv
<1> QED
    BY <1>1, SavedAlways, PTL

\* Outside paper mode, a version is deployed only after a window of its own and on a ratio of
\* its own, across every restart.
THEOREM PromotionIsEarned == Spec => PromotedOnItsOwnRecord
<1>1. SavedInv /\ [Next]_vars => [OnItsRecord]_shadowVars
    BY SavedStep, DeployOnRecord DEF SavedInv
<1>2. OnItsRecord =>
        \A v \in deployed' \ deployed :
          ~paper => /\ \E d \in 0 .. today - ShadowDays : <<v, d>> \in windows
                    /\ <<v, state.shadow.sharpe>> \in reports
    BY DEF OnItsRecord
<1> HIDE DEF OnItsRecord
<1> QED
    BY <1>1, <1>2, SavedAlways, PTL DEF Spec, PromotedOnItsOwnRecord
=============================================================================

---- MODULE BrainVersions ----
(***************************************************************************)
(* The versioned snapshots of ai_layer/brain_versioning.py: one directory  *)
(* per version with three files, and the link `current`.                   *)
(*                                                                         *)
(* A save and a roll-back are sequences of file operations, one action     *)
(* each, because the process may end between any two of them; a file whose *)
(* writing was cut off is "torn".  Weights and parameters are abstract,    *)
(* metrics are the Sharpe ratio that the roll-back rule reads.             *)
(***************************************************************************)
EXTENDS Integers, FiniteSets, FiniteSetsExt

CONSTANTS
    MaxVersions,    \* bound: the saves that are begun
    Sharpes         \* the Sharpe ratios of versions and of live trading

ASSUME VersionsAssumption ==
    /\ MaxVersions \in Nat
    /\ Sharpes \subseteq Int

VARIABLES
    files,          \* version -> the state of each of its files
    sharpe,         \* version -> the ratio in its metrics
    current,        \* the version the link points to, or NoVersion
    job             \* the save or roll-back in progress

versionVars == <<files, sharpe, current, job>>

NoVersion == 0
Parts == {"weights", "params", "metrics"}
Steps == Parts \cup {"unlink", "link"}
Idle == [step |-> "idle", version |-> NoVersion]

Versions == DOMAIN files
Whole(v) == \A p \in Parts : files[v][p] = "whole"

\* A fault: the last version is taken for the one before it.
Prior_Newest == Max(Versions)

\* list_versions()[-2]; names are dates, so the order of names is the order of the saves.
Prior == Max(Versions \ {Max(Versions)})

\* What _load makes of the metrics: a missing or unreadable file has no ratio.  (It reads the
\* weights first; torn ones raise, and then the metrics are not there either.)
StoredSharpe(v) == IF files[v]["metrics"] = "whole" THEN sharpe[v] ELSE 0

\* A fault: the ratio of a version is taken from what was to be saved.
ShouldRollback_Intended(live) ==
    /\ Cardinality(Versions) >= 2
    /\ sharpe[Prior] > 0
    /\ 100 * (sharpe[Prior] - live) > 5 * sharpe[Prior]

ShouldRollback(live) ==
    /\ Cardinality(Versions) >= 2
    /\ StoredSharpe(Prior) > 0
    /\ 100 * (StoredSharpe(Prior) - live) > 5 * StoredSharpe(Prior)

----------------------------------------------------------------------------
\* A fault: the directory of the version is not made.
BeginSave_NoDirectory(x) ==
    /\ job = Idle
    /\ LET v == Cardinality(Versions) + 1 IN
        /\ v <= MaxVersions
        /\ sharpe' = [u \in Versions \cup {v} |-> IF u = v THEN x ELSE sharpe[u]]
        /\ job' = [step |-> "weights", version |-> v]
    /\ UNCHANGED <<files, current>>

\* save_version up to its mkdir.
BeginSave(x) ==
    /\ job = Idle
    /\ LET v == Cardinality(Versions) + 1 IN
        /\ v <= MaxVersions
        /\ files' = [u \in Versions \cup {v} |->
                        IF u = v THEN [p \in Parts |-> "none"] ELSE files[u]]
        /\ sharpe' = [u \in Versions \cup {v} |-> IF u = v THEN x ELSE sharpe[u]]
        /\ job' = [step |-> "weights", version |-> v]
    /\ UNCHANGED current

After(step) == CASE step = "weights" -> "params"
                 [] step = "params" -> "metrics"
                 [] step = "metrics" -> "unlink"

WriteFile ==
    /\ job.step \in Parts
    /\ files' = [files EXCEPT ![job.version] = [@ EXCEPT ![job.step] = "whole"]]
    /\ job' = [step |-> After(job.step), version |-> job.version]
    /\ UNCHANGED <<sharpe, current>>

\* rollback() asks nobody: it goes to the version before the last, whatever its files are.
BeginRollback ==
    /\ job = Idle /\ Cardinality(Versions) >= 2
    /\ job' = [step |-> "unlink", version |-> Prior]
    /\ UNCHANGED <<files, sharpe, current>>

\* _point_current: the link is removed, then made again.
Unlink ==
    /\ job.step = "unlink"
    /\ current' = NoVersion
    /\ job' = [step |-> "link", version |-> job.version]
    /\ UNCHANGED <<files, sharpe>>

Link ==
    /\ job.step = "link"
    /\ current' = job.version
    /\ job' = Idle
    /\ UNCHANGED <<files, sharpe>>

\* The process ends: the file being written may be left torn.
VersionsCrash ==
    /\ job' = Idle
    /\ files' \in IF job.step \in Parts
                  THEN {files, [files EXCEPT ![job.version] = [@ EXCEPT ![job.step] = "torn"]]}
                  ELSE {files}
    /\ UNCHANGED <<sharpe, current>>

VersionsStep ==
    \/ \E x \in Sharpes : BeginSave(x)
    \/ BeginRollback \/ WriteFile \/ Unlink \/ Link

VersionsInit ==
    /\ files = <<>> /\ sharpe = <<>>
    /\ current = NoVersion /\ job = Idle

VersionsTypeOK ==
    /\ Versions \in {1 .. n : n \in 0 .. MaxVersions}
    /\ files \in [Versions -> [Parts -> {"none", "torn", "whole"}]]
    /\ sharpe \in [Versions -> Sharpes]
    /\ current \in Versions \cup {NoVersion}
    /\ job \in [step : Steps, version : Versions] \cup {Idle}

----------------------------------------------------------------------------
\* Whatever saves and roll-backs were cut off, and wherever, the link names the newest version
\* only if all its files are complete (brain_versioning.py:51-64): an incomplete save is never
\* what load_current returns, until a later save has made it the version before the last.
NewestIsWhole ==
    current # NoVersion /\ current = Max(Versions) => Whole(current)

\* When should_rollback says so, the version that rollback would go to is complete, although
\* it reads nothing but a ratio and earlier saves may have been cut off anywhere
\* (brain_versioning.py:92-102, 104-110).
AdviceIsWhole ==
    \A live \in Sharpes : ShouldRollback(live) => Whole(Prior)
============================================================================

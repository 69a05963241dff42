----------------------------- MODULE RemoteJob ------------------------------
(***************************************************************************)
(* A job for the remote worker as the compile, multi-broker and            *)
(* walk-forward runners do it (run_broker_job, run_oos_window): submit,    *)
(* poll until the worker is done or the time is up, download the artifacts *)
(* into a staging directory, verify them there and commit them: file by    *)
(* file the old one is moved to a backup and the new one moved in.  When a *)
(* step raises, what was done is undone.  The temporary directory with     *)
(* stage and backup goes away however the block is left, unless the        *)
(* process is killed.                                                      *)
(***************************************************************************)
EXTENDS Naturals

CONSTANT NFiles         \* artifacts of the job

ASSUME NFilesAssumption == NFiles \in Nat

VARIABLES
    jobAt,              \* where the runner is
    file,               \* the artifact it works on
    stage, backup, dest,\* what the three directories hold of each artifact
    before,             \* what the destination held when the job began
    records,            \* artifacts in the commit's list of records
    installed,          \* those of them that are flagged installed
    wrecked,            \* undoing failed, or the process was interrupted
    jobReport           \* what the runner reports

jobVars == <<jobAt, file, stage, backup, dest, before, records, installed, wrecked,
             jobReport>>
dirVars == <<stage, backup, dest>>
listVars == <<records, installed>>

Files == 1..NFiles

JobTypeOK ==
    /\ jobAt \in {"submit", "poll", "download", "save", "install",
                  "undo", "cleanup", "end"}
    /\ file \in 0..NFiles + 1
    /\ stage \in [Files -> {"none", "new", "bad"}]
    /\ backup \in [Files -> {"none", "old"}]
    /\ dest \in [Files -> {"none", "old", "new", "bad"}]
    /\ before \in [Files -> {"none", "old"}]
    /\ records \subseteq Files
    /\ installed \subseteq records
    /\ wrecked \in BOOLEAN
    /\ jobReport \in {"none", "ok", "failed", "killed"}

JobInit ==
    /\ jobAt = "submit"
    /\ file = 0
    /\ stage = [f \in Files |-> "none"]
    /\ backup = [f \in Files |-> "none"]
    /\ dest \in [Files -> {"none", "old"}]
    /\ before = dest
    /\ records = {}
    /\ installed = {}
    /\ wrecked = FALSE
    /\ jobReport = "none"

Turn(place) == jobAt' = place
Reports(r) == jobReport' = r

\* submit and poll: the worker's answer may never come, or say failed or cancelled; a
\* status that is not final is asked for again until the deadline.
Submit ==
    /\ jobAt = "submit"
    /\ \/ Turn("poll") /\ UNCHANGED jobReport
       \/ Turn("end") /\ Reports("failed")
    /\ UNCHANGED <<file, dirVars, before, listVars, wrecked>>

Poll ==
    /\ jobAt = "poll"
    /\ \/ Turn("download") /\ file' = 1 /\ UNCHANGED jobReport
       \/ Turn("end") /\ Reports("failed") /\ UNCHANGED file
    /\ UNCHANGED <<dirVars, before, listVars, wrecked>>

\* The temporary directory is left with an exception; from a commit this undoes first.
Raise == Turn("cleanup") /\ Reports("failed")

\* download_artifacts: the transport may fail and may bring the wrong bytes.
Download ==
    /\ jobAt = "download"
    /\ file \in Files
    /\ \/ /\ \E b \in {"new", "bad"} : stage' = [stage EXCEPT ![file] = b]
          /\ file' = file + 1
          /\ UNCHANGED <<jobAt, jobReport>>
       \/ Raise /\ UNCHANGED <<file, stage>>
    /\ UNCHANGED <<backup, dest, before, listVars, wrecked>>

Matches(dir) == \A f \in Files : dir[f] = "new"

VerifyStage ==
    /\ jobAt = "download"
    /\ file = NFiles + 1
    /\ \/ Matches(stage) /\ Turn("save") /\ file' = 1 /\ UNCHANGED jobReport
       \/ ~Matches(stage) /\ Raise /\ UNCHANGED file
    /\ UNCHANGED <<dirVars, before, listVars, wrecked>>

\* An exception inside _commit_staged: the records are walked backwards.
Undoing == Turn("undo") /\ file' = NFiles

\* Mutant: an existing file is overwritten and not saved.
SaveNothing ==
    /\ jobAt = "save"
    /\ file \in Files
    /\ \/ /\ dest' = [dest EXCEPT ![file] = "none"]
          /\ records' = records \union {file}
          /\ Turn("install")
          /\ UNCHANGED <<file, backup>>
       \/ Undoing /\ UNCHANGED <<backup, dest, records>>
    /\ UNCHANGED <<stage, before, installed, wrecked, jobReport>>

\* _commit_staged, first half: an existing file is moved to the backup and the
\* artifact recorded.
SaveOld ==
    /\ jobAt = "save"
    /\ file \in Files
    /\ \/ /\ backup' = [backup EXCEPT ![file] = IF dest[file] = "none" THEN @ ELSE "old"]
          /\ dest' = [dest EXCEPT ![file] = "none"]
          /\ records' = records \union {file}
          /\ Turn("install")
          /\ UNCHANGED file
       \/ Undoing /\ UNCHANGED <<backup, dest, records>>
    /\ UNCHANGED <<stage, before, installed, wrecked, jobReport>>

\* Second half: the staged file is moved in and the record flagged.
Install ==
    /\ jobAt = "install"
    /\ \/ /\ dest' = [dest EXCEPT ![file] = stage[file]]
          /\ stage' = [stage EXCEPT ![file] = "none"]
          /\ installed' = installed \union {file}
          /\ Turn("save")
          /\ file' = file + 1
       \/ Undoing /\ UNCHANGED <<stage, dest, installed>>
    /\ UNCHANGED <<backup, before, records, wrecked, jobReport>>

\* The destination is verified once more.
VerifyCommitted ==
    /\ jobAt = "save"
    /\ file = NFiles + 1
    /\ \/ Matches(dest) /\ Turn("cleanup") /\ Reports("ok") /\ UNCHANGED file
       \/ ~Matches(dest) /\ Undoing /\ UNCHANGED jobReport
    /\ UNCHANGED <<dirVars, before, listVars, wrecked>>

\* A file system fault, or another program, spoils a file that was installed.
Spoil(f) ==
    /\ jobAt \in {"save", "install"}
    /\ f \in installed
    /\ dest' = [dest EXCEPT ![f] = "bad"]
    /\ UNCHANGED <<jobAt, file, stage, backup, before, listVars, wrecked, jobReport>>

\* What an artifact of the records becomes: an installed file is removed, a saved one
\* moved back.
Unlinked == IF file \in installed THEN "none" ELSE dest[file]
\* Mutant: nothing is moved back.
RestoredNothing == Unlinked

Restored == IF backup[file] = "old" THEN "old" ELSE Unlinked

UndoOne ==
    /\ jobAt = "undo"
    /\ file \in Files
    /\ \/ /\ file \in records
          /\ dest' = [dest EXCEPT ![file] = Restored]
          /\ backup' = [backup EXCEPT ![file] = "none"]
          /\ file' = file - 1
          /\ UNCHANGED <<jobAt, wrecked, jobReport>>
       \/ /\ file \notin records
          /\ file' = file - 1
          /\ UNCHANGED <<jobAt, dest, backup, wrecked, jobReport>>
       \/ /\ file \in records           \* undoing raises, before or after the unlink
          /\ dest' \in {dest, [dest EXCEPT ![file] = Unlinked]}
          /\ Raise
          /\ wrecked' = TRUE
          /\ UNCHANGED <<file, backup>>
    /\ UNCHANGED <<stage, before, listVars>>

UndoEnd ==
    /\ jobAt = "undo"
    /\ file = 0
    /\ Raise
    /\ UNCHANGED <<file, dirVars, before, listVars, wrecked>>

\* Ctrl-C is no Exception: the temporary directory goes away and nothing is undone.
Interrupt ==
    /\ jobAt \in {"download", "save", "install", "undo"}
    /\ Turn("cleanup")
    /\ Reports("killed")
    /\ wrecked' = TRUE
    /\ UNCHANGED <<file, dirVars, before, listVars>>

\* The directory goes; the runner still writes the list of checks, which may fail.
Cleanup ==
    /\ jobAt = "cleanup"
    /\ stage' = [f \in Files |-> "none"]
    /\ backup' = [f \in Files |-> "none"]
    /\ Turn("end")
    /\ \/ UNCHANGED jobReport
       \/ jobReport = "ok" /\ Reports("failed")
    /\ UNCHANGED <<file, dest, before, listVars, wrecked>>

Killed ==
    /\ jobAt # "end"
    /\ Turn("end")
    /\ Reports("killed")
    /\ UNCHANGED <<file, dirVars, before, listVars, wrecked>>

JobNext ==
    \/ Submit \/ Poll \/ Download \/ VerifyStage
    \/ SaveOld \/ Install \/ VerifyCommitted
    \/ \E f \in Files : Spoil(f)
    \/ UndoOne \/ UndoEnd \/ Interrupt \/ Cleanup \/ Killed

JobSpec == JobInit /\ [][JobNext]_jobVars

-----------------------------------------------------------------------------
\* A runner that reports success leaves every artifact verified in the destination, and
\* one that reports a failure leaves the destination as the job found it, or all new: never
\* a mix of two jobs.  Exempt are a failure of undoing itself and Ctrl-C.
AllOrNothing ==
    jobAt = "end" =>
        /\ jobReport = "ok" => Matches(dest)
        /\ jobReport = "failed" /\ ~wrecked => dest = before \/ Matches(dest)

\* Until all artifacts are in place every file that the job found is in the destination
\* or in a backup on disk: killing the runner anywhere loses none.
NothingLost ==
    ~wrecked =>
        \/ Matches(dest)
        \/ \A f \in Files : before[f] = "old" => "old" \in {dest[f], backup[f]}

=============================================================================

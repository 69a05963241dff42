------------------------- MODULE RemoteBuildProofs --------------------------
(***************************************************************************)
(* Theorems about what comes back from a build elsewhere: RemoteJob, for   *)
(* any number of artifacts, and GithubCompile, for any clients, commits,   *)
(* files, runs, attempts and size of the page.                             *)
(***************************************************************************)
EXTENDS RemoteJob, GithubCompile, SequenceTheorems, TLAPS

(* Remote jobs                                                               *)

\* An artifact the commit has not reached, saved, or installed.
Reached(f) ==
    /\ f \notin records => dest[f] = before[f] /\ backup[f] = "none"
    /\ f \in records => backup[f] = before[f]
    /\ f \in records \ installed => dest[f] = "none"

\* What the three directories and the list of records hold at each place.
Progress ==
    /\ jobAt \in {"submit", "poll", "download"} => records = {} /\ installed = {}
    /\ jobAt = "save" =>
         /\ \A f \in Files : f >= file => stage[f] = "new"
         /\ \A f \in Files : f \in records <=> f < file
         /\ installed = records
    /\ jobAt = "install" =>
         /\ file \in Files
         /\ \A f \in Files : f >= file => stage[f] = "new"
         /\ \A f \in Files : f \in records <=> f <= file
         /\ installed = records \ {file}
    /\ jobAt \in {"submit", "poll", "download", "save", "install"} =>
         /\ ~wrecked
         /\ \A f \in Files : Reached(f)
    /\ jobAt = "undo" =>
         /\ ~wrecked
         /\ file \in 0..NFiles
         /\ \A f \in Files : IF f <= file THEN Reached(f)
                             ELSE dest[f] = before[f] /\ backup[f] = "none"
    /\ jobAt = "cleanup" =>
         /\ jobReport \in {"ok", "failed", "killed"}
         /\ jobReport = "ok" => Matches(dest)
         /\ jobReport = "failed" /\ ~wrecked => dest = before
         /\ jobReport = "killed" => wrecked
    /\ jobAt \notin {"cleanup", "end"} => jobReport = "none"

JobInv == JobTypeOK /\ Progress /\ AllOrNothing /\ NothingLost

-----------------------------------------------------------------------------
(* Steps. *)

\* The variables keep their types.
LEMMA JobTyping == JobTypeOK /\ Progress /\ [JobNext]_jobVars => JobTypeOK'
<1> SUFFICES ASSUME JobTypeOK, Progress, [JobNext]_jobVars PROVE JobTypeOK'
  OBVIOUS
<1> USE NFilesAssumption DEF JobTypeOK, Files, Turn, Reports, Raise, Undoing, dirVars, listVars
<1>1. CASE Submit BY <1>1 DEF Submit
<1>2. CASE Poll BY <1>2 DEF Poll
<1>3. CASE Download BY <1>3 DEF Download
<1>4. CASE VerifyStage BY <1>4 DEF VerifyStage
<1>5. CASE SaveOld
  <2>1. /\ backup' \in [Files -> {"none", "old"}]
        /\ dest' \in [Files -> {"none", "old", "new", "bad"}]
        /\ stage' \in [Files -> {"none", "new", "bad"}] /\ before' \in [Files -> {"none", "old"}]
    BY <1>5 DEF SaveOld
  <2>2. records' \subseteq Files /\ installed' \subseteq records'
    BY <1>5 DEF SaveOld
  <2>3. file' \in 0..NFiles + 1 /\ jobAt' \in {"install", "undo"}
    BY <1>5 DEF SaveOld
  <2> QED BY <1>5, <2>1, <2>2, <2>3 DEF SaveOld
<1>6. CASE Install
  <2>1. PICK b \in {"none", "old", "new", "bad"} : b = stage[file] \/ file \notin Files
    OBVIOUS
  <2>2. /\ dest' \in [Files -> {"none", "old", "new", "bad"}]
        /\ stage' \in [Files -> {"none", "new", "bad"}]
    BY <1>6, <2>1 DEF Install
  <2>3. installed' \subseteq records'
    BY <1>6 DEF Install, Progress
  <2> QED BY <1>6, <2>2, <2>3 DEF Install
<1>7. CASE VerifyCommitted BY <1>7 DEF VerifyCommitted
<1>8. ASSUME NEW f \in Files, Spoil(f) PROVE JobTypeOK' BY <1>8 DEF Spoil
<1>9. CASE UndoOne
  <2>1. file \in Files => Restored \in {"none", "old", "new", "bad"}
                        /\ Unlinked \in {"none", "old", "new", "bad"}
    BY DEF Restored, Unlinked
  <2>2. dest' \in [Files -> {"none", "old", "new", "bad"}]
    BY <1>9, <2>1 DEF UndoOne
  <2>3. backup' \in [Files -> {"none", "old"}] /\ file' \in 0..NFiles + 1
    BY <1>9 DEF UndoOne
  <2> QED BY <1>9, <2>2, <2>3 DEF UndoOne
<1>10. CASE UndoEnd BY <1>10 DEF UndoEnd
<1>11. CASE Interrupt BY <1>11 DEF Interrupt
<1>12. CASE Cleanup BY <1>12 DEF Cleanup
<1>13. CASE Killed BY <1>13 DEF Killed
<1>14. CASE UNCHANGED jobVars BY <1>14 DEF jobVars
<1> QED BY <1>1, <1>2, <1>3, <1>4, <1>5, <1>6, <1>7, <1>8, <1>9, <1>10, <1>11, <1>12,
           <1>13, <1>14 DEF JobNext

\* The directories and the list of records keep in step.
LEMMA JobProgress == JobTypeOK /\ Progress /\ [JobNext]_jobVars => Progress'
<1> SUFFICES ASSUME JobTypeOK, Progress, [JobNext]_jobVars PROVE Progress'
  OBVIOUS
<1> USE NFilesAssumption DEF JobTypeOK, Files, Turn, Reports, Raise, Undoing, dirVars, listVars
<1>1. CASE Submit BY <1>1 DEF Submit, Progress, Reached
<1>2. CASE Poll BY <1>2 DEF Poll, Progress, Reached
<1>3. CASE Download
  <2>1. jobAt' = "download" \/ (jobAt' = "cleanup" /\ jobReport' = "failed")
    BY <1>3 DEF Download
  <2>2. UNCHANGED <<backup, dest, before, records, installed, wrecked>>
    BY <1>3 DEF Download
  <2>3. jobAt' = "download" => jobReport' = "none"
    BY <1>3 DEF Download, Progress
  <2>4. dest = before
    BY <1>3 DEF Download, Progress, Reached
  <2> QED BY <1>3, <2>1, <2>2, <2>3, <2>4 DEF Download, Progress, Reached
<1>4. CASE VerifyStage
  <2>1. dest = before
    BY <1>4 DEF VerifyStage, Progress, Reached
  <2>2. CASE Matches(stage)
    <3>1. records' = {} /\ installed' = {} /\ ~wrecked' /\ jobReport' = "none" /\ jobAt' = "save"
          /\ file' = 1
      BY <1>4, <2>2 DEF VerifyStage, Progress
    <3>2. \A f \in Files : Reached(f)' /\ stage'[f] = "new"
      BY <1>4, <2>2 DEF VerifyStage, Progress, Reached, Matches
    <3> QED BY <3>1, <3>2 DEF Progress
  <2>3. CASE ~Matches(stage)
    BY <1>4, <2>1, <2>3 DEF VerifyStage, Progress
  <2> QED BY <2>2, <2>3
<1>5. CASE SaveOld BY <1>5 DEF SaveOld, Progress, Reached
<1>6. CASE Install
  <2>0. file \in Files /\ stage[file] = "new" /\ ~wrecked /\ jobReport = "none"
        /\ \A f \in Files : Reached(f)
    BY <1>6 DEF Install, Progress
  <2>1. CASE jobAt' = "undo"
    BY <1>6, <2>0, <2>1 DEF Install, Progress, Reached
  <2>2. CASE jobAt' = "save"
    <3>0. /\ jobAt = "install" /\ file' = file + 1 /\ records' = records
          /\ stage' = [stage EXCEPT ![file] = "none"]
          /\ installed' = installed \union {file}
      BY <1>6, <2>2 DEF Install
    <3>4. /\ installed = records \ {file}
          /\ \A f \in Files : (f \in records <=> f <= file) /\ (f >= file => stage[f] = "new")
      BY <3>0 DEF Progress
    <3>1. \A f \in Files : (f \in records' <=> f < file') /\ (f >= file' => stage'[f] = "new")
      BY <2>0, <3>0, <3>4
    <3>2. installed' = records'
      BY <2>0, <3>0, <3>4
    <3>3. \A f \in Files : Reached(f)'
      <4>1. UNCHANGED <<backup, before, records>> /\ \A f \in Files \ {file} : dest'[f] = dest[f]
        BY <1>6, <2>2 DEF Install
      <4>2. file \in records
        BY <2>0, <3>4
      <4>3. ASSUME NEW f \in Files PROVE Reached(f)'
        <5>1. CASE f = file
          BY <2>0, <3>0, <4>1, <4>2, <5>1 DEF Reached
        <5>2. CASE f # file
          BY <2>0, <3>0, <4>1, <5>2 DEF Reached
        <5> QED BY <5>1, <5>2
      <4> QED BY <4>3
    <3> QED BY <1>6, <2>0, <2>2, <3>1, <3>2, <3>3 DEF Install, Progress
  <2> QED BY <1>6, <2>1, <2>2 DEF Install
<1>7. CASE VerifyCommitted BY <1>7 DEF VerifyCommitted, Progress, Reached, Matches
<1>8. ASSUME NEW f \in Files, Spoil(f) PROVE Progress'
  BY <1>8 DEF Spoil, Progress, Reached
<1>9. CASE UndoOne BY <1>9 DEF UndoOne, Unlinked, Restored, Progress, Reached
<1>10. CASE UndoEnd
  <2>1. dest = before
    BY <1>10 DEF UndoEnd, Progress
  <2> QED BY <1>10, <2>1 DEF UndoEnd, Progress
<1>11. CASE Interrupt BY <1>11 DEF Interrupt, Progress
<1>12. CASE Cleanup BY <1>12 DEF Cleanup, Progress
<1>13. CASE Killed BY <1>13 DEF Killed, Progress
<1>14. CASE UNCHANGED jobVars BY <1>14 DEF jobVars, Progress, Reached, Matches
<1> QED BY <1>1, <1>2, <1>3, <1>4, <1>5, <1>6, <1>7, <1>8, <1>9, <1>10, <1>11, <1>12,
           <1>13, <1>14 DEF JobNext

\* As long as the job runs, the records say where every old file is.
LEMMA RunningLosesNothing == JobTypeOK /\ Progress /\ jobAt # "end" => NothingLost
<1> SUFFICES ASSUME JobTypeOK, Progress, jobAt # "end", ~wrecked,
                    NEW f \in Files, before[f] = "old", ~Matches(dest)
             PROVE  "old" \in {dest[f], backup[f]}
  BY DEF NothingLost
<1>1. CASE jobAt = "cleanup" BY <1>1 DEF Progress
<1>2. CASE jobAt = "undo" BY <1>2 DEF Progress, Reached, JobTypeOK, Files
<1> QED BY <1>1, <1>2 DEF JobTypeOK, Progress, Reached

\* The end of a job keeps its promise.
LEMMA JobEnds ==
    JobTypeOK /\ Progress /\ AllOrNothing /\ NothingLost /\ [JobNext]_jobVars /\ jobAt' = "end"
        => AllOrNothing' /\ NothingLost'
<1> SUFFICES ASSUME JobTypeOK, Progress, AllOrNothing, NothingLost, [JobNext]_jobVars,
                    jobAt' = "end"
             PROVE  AllOrNothing' /\ NothingLost'
  OBVIOUS
<1> USE NFilesAssumption DEF Turn, Reports, Raise, Undoing, dirVars, listVars
<1>1. CASE Submit \/ Poll
  <2>1. dest = before
    BY <1>1 DEF Submit, Poll, Progress, Reached, JobTypeOK
  <2>2. UNCHANGED <<dest, backup, before, wrecked>> /\ jobReport' = "failed"
    BY <1>1 DEF Submit, Poll
  <2> QED BY <2>1, <2>2 DEF AllOrNothing, NothingLost, Matches
<1>2. CASE Cleanup
  <2>1. UNCHANGED <<dest, before, wrecked>> /\ jobAt = "cleanup"
    BY <1>2 DEF Cleanup
  <2>2. ~wrecked => dest = before \/ Matches(dest)
    BY <2>1 DEF Progress
  <2>3. jobReport' = "ok" => Matches(dest)
    BY <1>2, <2>1 DEF Cleanup, Progress
  <2> QED BY <2>1, <2>2, <2>3 DEF AllOrNothing, NothingLost, Matches
<1>3. CASE Killed BY <1>3 DEF Killed, AllOrNothing, NothingLost, Matches
<1>4. CASE UNCHANGED jobVars
  BY <1>4 DEF jobVars, AllOrNothing, NothingLost, Matches
<1> QED BY <1>1, <1>2, <1>3, <1>4 DEF JobNext, Download, VerifyStage, SaveOld, Install,
           VerifyCommitted, Spoil, UndoOne, UndoEnd, Interrupt, Progress

-----------------------------------------------------------------------------
LEMMA JobInductive == JobSpec => []JobInv
<1>1. JobInit => JobInv
  <2> SUFFICES ASSUME JobInit PROVE JobInv
    OBVIOUS
  <2>1. JobTypeOK
    <3>1. dest \in [Files -> {"none", "old", "new", "bad"}] /\ before \in [Files -> {"none", "old"}]
      BY DEF JobInit
    <3>2. stage \in [Files -> {"none", "new", "bad"}] /\ backup \in [Files -> {"none", "old"}]
      BY DEF JobInit
    <3>3. file \in 0..NFiles + 1
      BY NFilesAssumption DEF JobInit
    <3> QED BY <3>1, <3>2, <3>3 DEF JobInit, JobTypeOK
  <2>2. Progress
    BY <2>1 DEF JobInit, Progress, Reached
  <2>3. jobAt = "submit"
    BY DEF JobInit
  <2>4. NothingLost /\ AllOrNothing
    BY <2>1, <2>2, <2>3, RunningLosesNothing DEF AllOrNothing
  <2> QED BY <2>1, <2>2, <2>4 DEF JobInv
<1>2. JobInv /\ [JobNext]_jobVars => JobInv'
  <2> SUFFICES ASSUME JobInv, [JobNext]_jobVars PROVE JobInv'
    OBVIOUS
  <2>1. JobTypeOK' /\ Progress'
    BY JobTyping, JobProgress DEF JobInv
  <2>2. (jobAt # "end")' => NothingLost'
    BY <2>1, RunningLosesNothing, PTL
  <2>3. jobAt' # "end" => AllOrNothing'
    BY DEF AllOrNothing
  <2> QED BY <2>1, <2>2, <2>3, JobEnds DEF JobInv
<1> QED BY <1>1, <1>2, PTL DEF JobSpec

\* The variables of a job are of their types.
THEOREM JobTypes == JobSpec => []JobTypeOK
BY JobInductive, PTL DEF JobInv

\* A runner never leaves a mix of two jobs in the destination, whatever fails in the
\* commit (_commit_staged and its undoing).
THEOREM JobCommitsAllOrNothing == JobSpec => []AllOrNothing
BY JobInductive, PTL DEF JobInv

\* No file that a job found in the destination is lost before the job has replaced all.
THEOREM JobLosesNothing == JobSpec => []NothingLost
BY JobInductive, PTL DEF JobInv

-----------------------------------------------------------------------------
(* The GitHub compile backend                                                *)

\* Phases in which a client knows its run, has an artifact of it, has verified that, and
\* has made the evidence directory.
Knows == {"wait", "artifact", "place", "verify", "copytree", "copy", "ok"}
Holding == {"place", "verify", "copytree", "copy", "ok"}
Checked == {"copytree", "copy", "ok"}
Owning == {"copy", "ok"}

Tied ==
    /\ \A u \in uploads : u.run \in DOMAIN runs
    /\ \A c \in Clients :
         /\ phase[c] \in Knows => /\ found[c] \in DOMAIN runs
                                  /\ runs[found[c]].of = c
                                  /\ runs[found[c]].commit = Wanted[c]
         /\ phase[c] \in Holding => bundle[c] \in uploads /\ bundle[c].run = found[c]
         /\ phase[c] \in Checked => bundle[c].valid

\* Who made the directory holds an answer, and every file there is of it.
Made ==
    /\ \A c \in Clients : phase[c] \in Owning => maker = c
    /\ maker # Nobody => phase[maker] \in Owning \union {"failed"} /\ Answers(bundle[maker], maker)
    /\ \A f \in EvidenceFiles : evidence[f] \notin {Missing, Torn} =>
         maker # Nobody /\ evidence[f] = bundle[maker]
    /\ \A c \in Clients : phase[c] = "copy" /\ c \notin spoilt =>
         \A f \in EvidenceFiles \ left[c] : evidence[f] = bundle[c]
    /\ \A c \in Clients : phase[c] = "ok" =>
         \A f \in EvidenceFiles : evidence[f] = bundle[c]

CompileInv == CompileTypeOK /\ Tied /\ Made

-----------------------------------------------------------------------------
(* GitHub only adds runs and artifacts and changes neither commit nor request of a run. *)

LEMMA GithubKeeps ==
  ASSUME CompileTypeOK, Tied, Github
  PROVE  /\ runs' \in Seq(Runs) /\ Len(runs') <= MaxRuns
         /\ uploads \subseteq uploads' /\ uploads' \subseteq Uploads
         /\ DOMAIN runs \subseteq DOMAIN runs'
         /\ \A r \in DOMAIN runs : runs'[r].of = runs[r].of /\ runs'[r].commit = runs[r].commit
         /\ \A u \in uploads' : u.run \in DOMAIN runs
         /\ dispatched' \subseteq Clients
<1> USE GithubAssumption DEF CompileTypeOK
<1>0. /\ runs \in Seq(Runs) /\ Len(runs) \in Nat /\ DOMAIN runs = 1..Len(runs)
      /\ \A r \in DOMAIN runs : runs[r] \in Runs /\ r \in 1..MaxRuns
      /\ \A u \in uploads : u.run \in DOMAIN runs
  BY LenProperties, ElementOfSeq DEF Tied
<1>2. ASSUME NEW c \in Clients \union {Nobody}, MakeRun(c)
      PROVE  /\ runs' \in Seq(Runs) /\ Len(runs') <= MaxRuns
             /\ uploads' = uploads
             /\ DOMAIN runs \subseteq DOMAIN runs'
             /\ \A r \in DOMAIN runs : runs'[r] = runs[r]
             /\ dispatched' \subseteq Clients
  <2>0. PICK h \in Commits :
          runs' = Append(runs, [of |-> c, commit |-> h, attempt |-> 1, at |-> "running"])
    BY <1>2 DEF MakeRun
  <2> DEFINE new == [of |-> c, commit |-> h, attempt |-> 1, at |-> "running"]
  <2>1. new \in Runs
    BY DEF Runs
  <2>2. runs' = Append(runs, new)
    BY <2>0
  <2> HIDE DEF new
  <2>3. /\ runs' \in Seq(Runs) /\ Len(runs') = Len(runs) + 1
        /\ \A r \in 1..Len(runs) : runs'[r] = runs[r]
    BY <1>0, <2>1, <2>2, AppendProperties
  <2>4. DOMAIN runs' = 1..Len(runs')
    BY <2>3, LenProperties
  <2> QED BY <1>0, <1>2, <2>3, <2>4 DEF MakeRun
<1>3. ASSUME NEW r \in DOMAIN runs, Upload(r)
      PROVE  /\ runs' = runs /\ uploads \subseteq uploads' /\ uploads' \subseteq Uploads
             /\ \A u \in uploads' : u.run \in DOMAIN runs
             /\ dispatched' \subseteq Clients
  <2>1. runs[r].attempt \in 1..MaxAttempts
    BY <1>0 DEF Runs
  <2>2. PICK v \in BOOLEAN :
          uploads' = uploads \union {[run |-> r, attempt |-> runs[r].attempt, valid |-> v]}
    BY <1>3 DEF Upload
  <2> QED BY <1>0, <1>3, <2>1, <2>2 DEF Upload, Uploads
<1>4. ASSUME NEW r \in DOMAIN runs, NEW new \in Runs, runs' = [runs EXCEPT ![r] = new],
             new.of = runs[r].of, new.commit = runs[r].commit,
             UNCHANGED <<dispatched, uploads>>
      PROVE  /\ runs' \in Seq(Runs) /\ Len(runs') <= MaxRuns
             /\ DOMAIN runs \subseteq DOMAIN runs'
             /\ \A q \in DOMAIN runs : runs'[q].of = runs[q].of /\ runs'[q].commit = runs[q].commit
  <2>1. /\ runs' \in Seq(Runs) /\ Len(runs') = Len(runs)
        /\ \A j \in 1..Len(runs) : runs'[j] = IF j = r THEN new ELSE runs[j]
    BY <1>0, <1>4, ExceptSeq
  <2>2. DOMAIN runs' = 1..Len(runs')
    BY <2>1, LenProperties
  <2> QED BY <1>0, <1>4, <2>1, <2>2
<1>5. ASSUME NEW r \in DOMAIN runs, Conclude(r) \/ Rerun(r)
      PROVE  \E new \in Runs : /\ runs' = [runs EXCEPT ![r] = new]
                               /\ new.of = runs[r].of /\ new.commit = runs[r].commit
                               /\ UNCHANGED <<dispatched, uploads>>
  <2>0. runs[r] \in Runs
    BY <1>0
  <2>1. CASE Conclude(r)
    <3>1. PICK end \in {"success", "failure"} : runs' = [runs EXCEPT ![r].at = end]
      BY <2>1 DEF Conclude
    <3> DEFINE new == [runs[r] EXCEPT !.at = end]
    <3>2. new \in Runs /\ new.of = runs[r].of /\ new.commit = runs[r].commit
      BY <2>0 DEF Runs
    <3>3. runs' = [runs EXCEPT ![r] = new]
      BY <3>1
    <3> QED BY <2>1, <3>2, <3>3 DEF Conclude
  <2>2. CASE Rerun(r)
    <3> DEFINE new == [runs[r] EXCEPT !.attempt = @ + 1, !.at = "running"]
    <3>0. runs[r].attempt + 1 \in 1..MaxAttempts
      BY <2>0, <2>2 DEF Runs, Rerun
    <3>1. new \in Runs /\ new.of = runs[r].of /\ new.commit = runs[r].commit
      BY <2>0, <3>0 DEF Runs
    <3>2. runs' = [runs EXCEPT ![r] = new]
      BY <2>2 DEF Rerun
    <3> QED BY <2>2, <3>1, <3>2 DEF Rerun
  <2> QED BY <1>5, <2>1, <2>2
<1>6. ASSUME NEW r \in DOMAIN runs, Conclude(r) \/ Rerun(r)
      PROVE  /\ runs' \in Seq(Runs) /\ Len(runs') <= MaxRuns
             /\ DOMAIN runs \subseteq DOMAIN runs'
             /\ \A q \in DOMAIN runs : runs'[q].of = runs[q].of /\ runs'[q].commit = runs[q].commit
             /\ UNCHANGED <<dispatched, uploads>>
  BY <1>4, <1>5, <1>6
<1> QED BY <1>0, <1>2, <1>3, <1>6 DEF Github

-----------------------------------------------------------------------------
(* Steps. *)

LEMMA GithubStep ==
  ASSUME CompileInv, Github
  PROVE  CompileInv'
<1> USE DEF CompileInv
<1>1. UNCHANGED <<phase, found, bundle, left, spoilt, maker, evidence>>
  BY DEF Github, searchVars, copyVars
<1>2. CompileTypeOK'
  BY <1>1, GithubKeeps DEF CompileTypeOK
<1>3. Tied'
  <2>1. \A u \in uploads' : u.run \in DOMAIN runs'
    BY GithubKeeps
  <2>2. ASSUME NEW c \in Clients
        PROVE  /\ phase'[c] \in Knows => /\ found'[c] \in DOMAIN runs'
                                         /\ runs'[found'[c]].of = c
                                         /\ runs'[found'[c]].commit = Wanted[c]
               /\ phase'[c] \in Holding => bundle'[c] \in uploads' /\ bundle'[c].run = found'[c]
               /\ phase'[c] \in Checked => bundle'[c].valid
    BY <1>1, GithubKeeps DEF Tied
  <2> QED BY <2>1, <2>2 DEF Tied
<1>4. Made'
  <2>1. ASSUME maker # Nobody PROVE Answers(bundle[maker], maker)'
    <3>1. /\ Answers(bundle[maker], maker)
          /\ bundle[maker] \in uploads /\ bundle[maker].run \in DOMAIN runs
      BY <2>1 DEF Made, Answers, Tied
    <3> QED BY <1>1, <3>1, GithubKeeps DEF Answers
  <2> QED BY <1>1, <2>1 DEF Made, Answers
<1> QED BY <1>2, <1>3, <1>4

\* Until the copying a client changes only where it is and what it found.
LEMMA SearchStep ==
  ASSUME CompileInv, NEW c \in Clients,
         \/ Dispatch(c) \/ FindRun(c) \/ WaitForRun(c) \/ TakeArtifact(c)
         \/ CheckDestination(c) \/ VerifyBundle(c) \/ Fails(c)
  PROVE  CompileInv'
<1> USE GithubAssumption DEF CompileInv, CompileTypeOK, Proceeds, githubVars, searchVars, copyVars,
        Knows, Holding, Checked, Owning
<1>0. DOMAIN runs = 1..Len(runs) /\ Len(runs) \in Nat
  BY LenProperties
<1>1. UNCHANGED <<runs, uploads, left, spoilt, maker, evidence>>
      /\ dispatched' \subseteq Clients
  BY DEF Dispatch, FindRun, WaitForRun, TakeArtifact, CheckDestination, VerifyBundle, Fails
<1>2. /\ phase' \in [Clients -> Phases] /\ \A d \in Clients \ {c} : phase'[d] = phase[d]
      /\ phase[c] \notin {"copy", "ok", "failed"} \/ (phase[c] = "copy" /\ phase'[c] = "failed")
      /\ phase'[c] \notin Owning
  BY DEF Dispatch, FindRun, WaitForRun, TakeArtifact, CheckDestination, VerifyBundle, Fails,
         Phases
<1>3. /\ found' \in [Clients -> 0..MaxRuns] /\ \A d \in Clients \ {c} : found'[d] = found[d]
      /\ phase[c] = "find" \/ found'[c] = found[c]
  <2>1. CASE FindRun(c)
    <3>1. PICK r \in DOMAIN runs : found' = [found EXCEPT ![c] = r]
      BY <2>1 DEF FindRun, Correlated, Newest
    <3> QED BY <1>0, <2>1, <3>1 DEF FindRun
  <2>2. CASE ~FindRun(c)
    BY <2>2 DEF Dispatch, WaitForRun, TakeArtifact, CheckDestination, VerifyBundle, Fails
  <2> QED BY <2>1, <2>2
<1>4. /\ bundle' \in [Clients -> Uploads \union {Missing}]
      /\ \A d \in Clients \ {c} : bundle'[d] = bundle[d]
      /\ phase[c] = "artifact" \/ bundle'[c] = bundle[c]
  <2>1. CASE TakeArtifact(c)
    <3>1. PICK u \in uploads : bundle' = [bundle EXCEPT ![c] = u]
      BY <2>1 DEF TakeArtifact, UploadsOf
    <3> QED BY <2>1, <3>1 DEF TakeArtifact
  <2>2. CASE ~TakeArtifact(c)
    BY <2>2 DEF Dispatch, FindRun, WaitForRun, CheckDestination, VerifyBundle, Fails
  <2> QED BY <2>1, <2>2
<1>5. CompileTypeOK'
  BY <1>1, <1>2, <1>3, <1>4
<1>6. Tied'
  <2>1. /\ phase'[c] \in Knows => /\ found'[c] \in DOMAIN runs
                                  /\ runs[found'[c]].of = c
                                  /\ runs[found'[c]].commit = Wanted[c]
        /\ phase'[c] \in Holding => bundle'[c] \in uploads /\ bundle'[c].run = found'[c]
        /\ phase'[c] \in Checked => bundle'[c].valid
    <3>1. CASE Dispatch(c) BY <3>1 DEF Dispatch
    <3>2. CASE FindRun(c) BY <3>2 DEF FindRun, Correlated, Newest
    <3>3. CASE WaitForRun(c) BY <3>3 DEF WaitForRun, Tied
    <3>4. CASE TakeArtifact(c) BY <3>4 DEF TakeArtifact, UploadsOf, Tied
    <3>5. CASE CheckDestination(c) BY <3>5 DEF CheckDestination, Tied
    <3>6. CASE VerifyBundle(c) BY <3>6 DEF VerifyBundle, Tied
    <3>7. CASE Fails(c) BY <3>7 DEF Fails
    <3> QED BY <3>1, <3>2, <3>3, <3>4, <3>5, <3>6, <3>7
  <2>2. ASSUME NEW d \in Clients \ {c}
        PROVE  UNCHANGED <<phase[d], found[d], bundle[d]>>
    BY <1>2, <1>3, <1>4
  <2>3. ASSUME NEW d \in Clients
        PROVE  /\ phase'[d] \in Knows => /\ found'[d] \in DOMAIN runs
                                         /\ runs[found'[d]].of = d
                                         /\ runs[found'[d]].commit = Wanted[d]
               /\ phase'[d] \in Holding => bundle'[d] \in uploads /\ bundle'[d].run = found'[d]
               /\ phase'[d] \in Checked => bundle'[d].valid
    <3>1. CASE d = c BY <2>1, <3>1
    <3>2. CASE d # c BY <2>2, <3>2 DEF Tied
    <3> QED BY <3>1, <3>2
  <2> QED BY <1>1, <2>3 DEF Tied
<1>7. Made'
  <2>1. maker # Nobody => /\ phase'[maker] \in Owning \union {"failed"}
                          /\ bundle'[maker] = bundle[maker]
    BY <1>1, <1>2, <1>4 DEF Made
  <2>2. ASSUME NEW d \in Clients, phase'[d] \in Owning
        PROVE  phase'[d] = phase[d] /\ bundle'[d] = bundle[d]
    BY <1>2, <1>4, <2>2
  <2>3. ASSUME NEW d \in Clients, phase'[d] \in Owning
        PROVE  /\ maker = d
               /\ phase'[d] = "copy" /\ d \notin spoilt =>
                    \A f \in EvidenceFiles \ left[d] : evidence[f] = bundle'[d]
               /\ phase'[d] = "ok" => \A f \in EvidenceFiles : evidence[f] = bundle'[d]
    BY <2>2, <2>3 DEF Made
  <2>4. /\ maker # Nobody => Answers(bundle'[maker], maker)
        /\ \A f \in EvidenceFiles : evidence[f] \notin {Missing, Torn} =>
             maker # Nobody /\ evidence[f] = bundle'[maker]
    BY <2>1 DEF Made
  <2> QED BY <1>1, <2>1, <2>3, <2>4 DEF Made, Answers
<1> QED BY <1>5, <1>6, <1>7

\* A client that copies has made the directory, and nobody else copies.
LEMMA CopyStep ==
  ASSUME CompileInv, NEW c \in Clients,
         CopyTree(c) \/ (\E f \in EvidenceFiles : Copy(c, f)) \/ Finish(c)
  PROVE  CompileInv'
<1> USE GithubAssumption DEF CompileInv, Proceeds, githubVars, searchVars, copyVars,
        Knows, Holding, Checked, Owning
<1>1. UNCHANGED <<dispatched, runs, uploads, found, bundle>>
  BY DEF CopyTree, Copy, Finish
<1>2. /\ phase' \in [Clients -> Phases] /\ \A d \in Clients \ {c} : phase'[d] = phase[d]
      /\ phase[c] \in Checked /\ phase'[c] \in Owning
  BY DEF CopyTree, Copy, Finish, CompileTypeOK, Phases
<1>3. Tied'
  BY <1>1, <1>2 DEF Tied
<1>4. Answers(bundle[c], c) /\ Answers(bundle[c], c)'
  BY <1>1, <1>2 DEF Tied, Answers
<1>5. bundle[c] \in Uploads /\ bundle[c] \notin {Missing, Torn}
  BY <1>4 DEF Answers, CompileTypeOK
<1>6. CASE CopyTree(c)
  <2>1. CompileTypeOK'
    BY <1>1, <1>2, <1>6 DEF CompileTypeOK, CopyTree
  <2>2. /\ maker = Nobody /\ maker' = c /\ phase'[c] = "copy" /\ left'[c] = EvidenceFiles
        /\ UNCHANGED <<spoilt, evidence>>
    BY <1>6 DEF CompileTypeOK, CopyTree
  <2>3. \A f \in EvidenceFiles : evidence[f] \in {Missing, Torn}
    BY <2>2 DEF Made
  <2>4. \A d \in Clients \ {c} : phase'[d] \notin Owning
    BY <1>2, <2>2 DEF Made
  <2>5. Made'
    BY <1>1, <1>2, <1>4, <2>2, <2>3, <2>4 DEF Made
  <2> QED BY <1>3, <2>1, <2>5
<1>7. ASSUME NEW f \in EvidenceFiles, Copy(c, f) PROVE CompileInv'
  <2>1. /\ maker = c /\ maker' = maker /\ phase' = phase /\ phase[c] = "copy"
        /\ left' = [left EXCEPT ![c] = left[c] \ {f}]
    BY <1>7 DEF Copy, Made
  <2>2. \E e \in {bundle[c], evidence[f], Torn} :
          /\ evidence' = [evidence EXCEPT ![f] = e]
          /\ (e = bundle[c] /\ spoilt' = spoilt) \/ spoilt' = spoilt \union {c}
    <3>1. CASE evidence' = [evidence EXCEPT ![f] = bundle[c]] /\ spoilt' = spoilt
      BY <3>1
    <3>2. CASE evidence' = evidence /\ spoilt' = spoilt \union {c}
      <4>1. evidence = [evidence EXCEPT ![f] = evidence[f]]
        BY DEF CompileTypeOK
      <4> QED BY <3>2, <4>1
    <3>3. CASE evidence' = [evidence EXCEPT ![f] = Torn] /\ spoilt' = spoilt \union {c}
      BY <3>3
    <3> QED BY <1>7, <3>1, <3>2, <3>3 DEF Copy
  <2>3. PICK e \in {bundle[c], evidence[f], Torn} :
          /\ evidence' = [evidence EXCEPT ![f] = e]
          /\ (e = bundle[c] /\ spoilt' = spoilt) \/ spoilt' = spoilt \union {c}
    BY <2>2
  <2>4. evidence[f] \in Uploads \union {Missing, Torn}
    BY DEF CompileTypeOK
  <2>5. CompileTypeOK'
    BY <1>1, <1>2, <1>5, <2>1, <2>3, <2>4 DEF CompileTypeOK
  <2>6. \A d \in Clients : phase[d] \in Owning => d = c
    BY <2>1 DEF Made
  <2>7. \A g \in EvidenceFiles : evidence'[g] = IF g = f THEN e ELSE evidence[g]
    BY <2>3 DEF CompileTypeOK
  <2>8. \A g \in EvidenceFiles : evidence'[g] \notin {Missing, Torn} => evidence'[g] = bundle[c]
    BY <2>1, <2>3, <2>7 DEF Made
  <2>9. c \notin spoilt' => \A g \in EvidenceFiles \ left'[c] : evidence'[g] = bundle[c]
    <3>1. left'[c] = left[c] \ {f}
      BY <2>1 DEF CompileTypeOK
    <3> QED BY <2>1, <2>3, <2>7, <3>1 DEF Made
  <2>10. maker # Nobody
    BY <2>1
  <2>11. Made'
    BY <1>1, <1>4, <2>1, <2>6, <2>8, <2>9, <2>10 DEF Made
  <2> QED BY <1>3, <2>5, <2>11
<1>8. CASE Finish(c)
  <2>1. /\ phase[c] = "copy" /\ phase'[c] = "ok" /\ left[c] = {} /\ c \notin spoilt
        /\ UNCHANGED <<left, spoilt, maker, evidence>>
    BY <1>8 DEF Finish, CompileTypeOK
  <2>2. CompileTypeOK'
    BY <1>1, <1>2, <2>1 DEF CompileTypeOK
  <2>3. maker = c /\ \A f \in EvidenceFiles : evidence[f] = bundle[c]
    BY <2>1 DEF Made
  <2>4. \A d \in Clients \ {c} : phase'[d] \notin Owning
    BY <1>2, <2>3 DEF Made
  <2>5. Made'
    BY <1>1, <1>2, <1>4, <2>1, <2>3, <2>4 DEF Made
  <2> QED BY <1>3, <2>2, <2>5
<1> QED BY <1>6, <1>7, <1>8

-----------------------------------------------------------------------------
LEMMA CompileInductive == CompileSpec => []CompileInv
<1>1. CompileInit => CompileInv
  <2> SUFFICES ASSUME CompileInit PROVE CompileInv
    OBVIOUS
  <2>1. CompileTypeOK
    <3>1. runs \in Seq(Runs) /\ Len(runs) <= MaxRuns
      BY GithubAssumption, EmptySeq DEF CompileInit
    <3>2. found \in [Clients -> 0..MaxRuns]
      BY GithubAssumption DEF CompileInit
    <3> QED BY <3>1, <3>2 DEF CompileInit, CompileTypeOK, Phases
  <2>2. Tied /\ Made
    BY DEF CompileInit, Tied, Made, Knows, Holding, Checked, Owning
  <2> QED BY <2>1, <2>2 DEF CompileInv
<1>2. CompileInv /\ [CompileNext]_compileVars => CompileInv'
  <2> SUFFICES ASSUME CompileInv, [CompileNext]_compileVars PROVE CompileInv'
    OBVIOUS
  <2>1. CASE Github
    BY <2>1, GithubStep
  <2>2. ASSUME NEW c \in Clients, Client(c) PROVE CompileInv'
    BY <2>2, SearchStep, CopyStep DEF Client
  <2>3. CASE UNCHANGED compileVars
    BY <2>3 DEF compileVars, githubVars, searchVars, copyVars, CompileInv, CompileTypeOK,
       Tied, Made, Answers
  <2> QED BY <2>1, <2>2, <2>3 DEF CompileNext
<1> QED BY <1>1, <1>2, PTL DEF CompileSpec

\* The variables of the compile backend are of their types.
THEOREM CompileTypes == CompileSpec => []CompileTypeOK
BY CompileInductive, PTL DEF CompileInv

\* A client of the compile backend that reports success has installed all of one artifact
\* of its own request at its commit, and no client ever installs anything else.
THEOREM CompileInstallsAsAsked == CompileSpec => []InstalledAsAsked
<1>1. CompileInv => InstalledAsAsked
  <2> SUFFICES ASSUME CompileInv PROVE InstalledAsAsked
    OBVIOUS
  <2>1. ASSUME NEW c \in Clients, phase[c] = "ok"
        PROVE  \E u \in uploads : Answers(u, c) /\ \A f \in EvidenceFiles : evidence[f] = u
    <3>1. maker = c /\ Answers(bundle[c], c) /\ \A f \in EvidenceFiles : evidence[f] = bundle[c]
      BY <2>1, GithubAssumption DEF CompileInv, Made, Owning
    <3> QED BY <3>1 DEF Answers
  <2>2. ASSUME NEW f \in EvidenceFiles, evidence[f] \notin {Missing, Torn}
        PROVE  /\ maker # Nobody /\ Answers(evidence[f], maker)
               /\ \A g \in EvidenceFiles : evidence[g] \in {Missing, Torn, evidence[f]}
    BY <2>2 DEF CompileInv, Made
  <2> QED BY <2>1, <2>2 DEF InstalledAsAsked
<1> QED BY <1>1, CompileInductive, PTL

=============================================================================

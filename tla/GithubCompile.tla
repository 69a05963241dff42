--------------------------- MODULE GithubCompile ----------------------------
(***************************************************************************)
(* The GitHub Actions compile backend (github_compile_backend.py,          *)
(* github_actions_client.py): a client dispatches the native compile       *)
(* workflow with a request id of its own, looks for the run among the      *)
(* newest ones, waits until it is completed, takes the artifact of its     *)
(* commit, verifies it in a temporary directory and copies it to the       *)
(* evidence directory, which must not be there.                            *)
(*                                                                         *)
(* Several clients and other dispatchers work on one repository; the ref   *)
(* moves on, runs are created late and re-run, answers get lost.  All      *)
(* clients install into one directory.                                     *)
(***************************************************************************)
EXTENDS Naturals, Sequences

CONSTANTS
    Clients, Nobody,
    Commits, Wanted,        \* the commit each client expects
    EvidenceFiles,          \* the files of an artifact
    Missing, Torn,          \* instead of a file: none, or what a failed copy left
    PerPage,                \* runs that find_run looks at
    MaxRuns, MaxAttempts    \* bounds: runs, attempts of a run

\* An artifact of a run: a run in its second attempt keeps those of the first.  valid: its
\* record says PASS and its files have the sizes and hashes of the record.
Uploads == [run : 1..MaxRuns, attempt : 1..MaxAttempts, valid : BOOLEAN]

ASSUME GithubAssumption ==
    /\ Nobody \notin Clients
    /\ Wanted \in [Clients -> Commits]
    /\ PerPage \in Nat /\ MaxRuns \in Nat /\ MaxAttempts \in Nat \ {0}
    /\ Missing \notin Uploads /\ Torn \notin Uploads /\ Missing # Torn

VARIABLES
    dispatched,             \* requests GitHub has yet to make a run for
    runs,                   \* the runs of the workflow, oldest first
    uploads,                \* their artifacts
    phase,                  \* where each client is
    found,                  \* the run it found
    bundle,                 \* the artifact it took
    left, spoilt,           \* files it has yet to copy, and whether a copy failed
    maker,                  \* who made the evidence directory
    evidence                \* the artifact each file in it comes from

githubVars == <<dispatched, runs, uploads>>
searchVars == <<found, bundle>>
copyVars == <<left, spoilt, maker, evidence>>
compileVars == <<githubVars, phase, searchVars, copyVars>>

\* A run bears the request id of a client, or none, in its title.
Runs == [of : Clients \union {Nobody}, commit : Commits, attempt : 1..MaxAttempts,
         at : {"running", "success", "failure"}]
Phases == {"dispatch", "find", "wait", "artifact", "place", "verify", "copytree", "copy",
           "ok", "failed"}

CompileTypeOK ==
    /\ dispatched \subseteq Clients
    /\ runs \in Seq(Runs) /\ Len(runs) <= MaxRuns
    /\ uploads \subseteq Uploads
    /\ phase \in [Clients -> Phases]
    /\ found \in [Clients -> 0..MaxRuns]
    /\ bundle \in [Clients -> Uploads \union {Missing}]
    /\ left \in [Clients -> SUBSET EvidenceFiles]
    /\ spoilt \subseteq Clients
    /\ maker \in Clients \union {Nobody}
    /\ evidence \in [EvidenceFiles -> Uploads \union {Missing, Torn}]

CompileInit ==
    /\ dispatched = {}
    /\ runs = <<>>
    /\ uploads = {}
    /\ phase = [c \in Clients |-> "dispatch"]
    /\ found = [c \in Clients |-> 0]
    /\ bundle = [c \in Clients |-> Missing]
    /\ left = [c \in Clients |-> {}]
    /\ spoilt = {}
    /\ maker = Nobody
    /\ evidence = [f \in EvidenceFiles |-> Missing]

-----------------------------------------------------------------------------
(* GitHub. *)

\* The run is of the commit that the ref names by then, and its run-name carries the
\* request id.
MakeRun(c) ==
    /\ c \in dispatched \union {Nobody}
    /\ Len(runs) < MaxRuns
    /\ \E h \in Commits :
         runs' = Append(runs, [of |-> c, commit |-> h, attempt |-> 1, at |-> "running"])
    /\ dispatched' = dispatched \ {c}
    /\ UNCHANGED uploads

UploadsOf(r) == {u \in uploads : u.run = r}

\* always(): the evidence is uploaded, whatever it says, once in an attempt.
Upload(r) ==
    /\ runs[r].at = "running"
    /\ \A u \in UploadsOf(r) : u.attempt # runs[r].attempt
    /\ \E v \in BOOLEAN :
         uploads' = uploads \union {[run |-> r, attempt |-> runs[r].attempt, valid |-> v]}
    /\ UNCHANGED <<dispatched, runs>>

\* A run succeeds when its evidence has been validated; one that somebody else dispatched
\* may do without the native stage.
Conclude(r) ==
    /\ runs[r].at = "running"
    /\ \E end \in {"success", "failure"} :
         /\ end = "success" =>
              \/ runs[r].of = Nobody
              \/ \E u \in UploadsOf(r) : u.attempt = runs[r].attempt /\ u.valid
         /\ runs' = [runs EXCEPT ![r].at = end]
    /\ UNCHANGED <<dispatched, uploads>>

Rerun(r) ==
    /\ runs[r].at # "running"
    /\ runs[r].attempt < MaxAttempts
    /\ runs' = [runs EXCEPT ![r].attempt = @ + 1, ![r].at = "running"]
    /\ UNCHANGED <<dispatched, uploads>>

Github ==
    /\ \/ \E c \in Clients \union {Nobody} : MakeRun(c)
       \/ \E r \in DOMAIN runs : Upload(r) \/ Conclude(r) \/ Rerun(r)
    /\ UNCHANGED <<phase, searchVars, copyVars>>

-----------------------------------------------------------------------------
(* A client. *)

Proceeds(c, p) == phase' = [phase EXCEPT ![c] = p]

\* Every refusal below, an exception of the transport or the file system, a deadline and a
\* kill end in a failure: the temporary directory is of no more use then, the evidence
\* directory stays as it is.  A request whose answer is lost has been dispatched before.
Fails(c) ==
    /\ phase[c] \notin {"ok", "failed"}
    /\ Proceeds(c, "failed")
    /\ UNCHANGED <<githubVars, searchVars, copyVars>>

Dispatch(c) ==
    /\ phase[c] = "dispatch"
    /\ dispatched' = dispatched \union {c}
    /\ Proceeds(c, "find")
    /\ UNCHANGED <<runs, uploads, searchVars, copyVars>>

Newest == {r \in DOMAIN runs : r + PerPage > Len(runs)}

\* Mutant: the run is looked for by its commit alone.
CorrelatedByCommit(c) == {r \in Newest : runs[r].commit = Wanted[c]}

\* The runs of the page that have the commit and bear the request id.
Correlated(c) == {r \in Newest : runs[r].commit = Wanted[c] /\ runs[r].of = c}

\* find_run, asked again until it finds one: the newest.
FindRun(c) ==
    /\ phase[c] = "find"
    /\ \E r \in Correlated(c) :
         /\ \A q \in Correlated(c) : q <= r
         /\ found' = [found EXCEPT ![c] = r]
    /\ Proceeds(c, "wait")
    /\ UNCHANGED <<githubVars, bundle, copyVars>>

\* wait_for_run: the run is completed; its commit and conclusion are looked at.
WaitForRun(c) ==
    /\ phase[c] = "wait"
    /\ runs[found[c]].at = "success"
    /\ runs[found[c]].commit = Wanted[c]
    /\ Proceeds(c, "artifact")
    /\ UNCHANGED <<githubVars, searchVars, copyVars>>

\* artifact_by_name: the name is that of the commit, so that of any attempt will do.
TakeArtifact(c) ==
    /\ phase[c] = "artifact"
    /\ \E u \in UploadsOf(found[c]) : bundle' = [bundle EXCEPT ![c] = u]
    /\ Proceeds(c, "place")
    /\ UNCHANGED <<githubVars, found, copyVars>>

\* An evidence directory that is there is not overwritten.
CheckDestination(c) ==
    /\ phase[c] = "place"
    /\ maker = Nobody
    /\ Proceeds(c, "verify")
    /\ UNCHANGED <<githubVars, searchVars, copyVars>>

\* The downloaded record is valid, of the commit and from the run found; its job is one of
\* those that GitHub names for the run now, the latest attempt's.
VerifyBundle(c) ==
    /\ phase[c] = "verify"
    /\ bundle[c].valid
    /\ bundle[c].run = found[c]
    /\ runs[bundle[c].run].commit = Wanted[c]
    /\ bundle[c].attempt = runs[found[c]].attempt
    /\ Proceeds(c, "copytree")
    /\ UNCHANGED <<githubVars, searchVars, copyVars>>

\* copytree makes the directory, and raises if somebody has made it meanwhile.
CopyTree(c) ==
    /\ phase[c] = "copytree"
    /\ maker = Nobody
    /\ maker' = c
    /\ left' = [left EXCEPT ![c] = EvidenceFiles]
    /\ Proceeds(c, "copy")
    /\ UNCHANGED <<githubVars, searchVars, spoilt, evidence>>

\* It goes on with the other files after one that could not be copied.
Copy(c, f) ==
    /\ phase[c] = "copy"
    /\ f \in left[c]
    /\ left' = [left EXCEPT ![c] = @ \ {f}]
    /\ \/ evidence' = [evidence EXCEPT ![f] = bundle[c]] /\ UNCHANGED spoilt
       \/ /\ evidence' \in {evidence, [evidence EXCEPT ![f] = Torn]}
          /\ spoilt' = spoilt \union {c}
    /\ UNCHANGED <<githubVars, phase, searchVars, maker>>

\* copytree raises in the end what it has collected.
Finish(c) ==
    /\ phase[c] = "copy"
    /\ left[c] = {}
    /\ c \notin spoilt
    /\ Proceeds(c, "ok")
    /\ UNCHANGED <<githubVars, searchVars, copyVars>>

Client(c) ==
    \/ Dispatch(c) \/ FindRun(c) \/ WaitForRun(c) \/ TakeArtifact(c)
    \/ CheckDestination(c) \/ VerifyBundle(c) \/ CopyTree(c)
    \/ \E f \in EvidenceFiles : Copy(c, f)
    \/ Finish(c) \/ Fails(c)

CompileNext == Github \/ \E c \in Clients : Client(c)

CompileSpec == CompileInit /\ [][CompileNext]_compileVars

-----------------------------------------------------------------------------
\* Validated evidence of the run that answers the client's request at its commit.
Answers(u, c) ==
    /\ u \in uploads /\ u.valid
    /\ runs[u.run].of = c /\ runs[u.run].commit = Wanted[c]

\* From the moment run_github_actions_compile reports success the evidence directory holds
\* all files of one artifact that answers this client's own request, whatever runs, re-runs
\* and clients come between its steps; and what any client has put there, reported or not,
\* is its own answer and never a mix of two.
InstalledAsAsked ==
    /\ \A c \in Clients : phase[c] = "ok" =>
         \E u \in uploads : Answers(u, c) /\ \A f \in EvidenceFiles : evidence[f] = u
    /\ \A f \in EvidenceFiles : evidence[f] \notin {Missing, Torn} =>
         /\ maker # Nobody /\ Answers(evidence[f], maker)
         /\ \A g \in EvidenceFiles : evidence[g] \in {Missing, Torn, evidence[f]}

=============================================================================

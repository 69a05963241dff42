------------------------------ MODULE TipState ------------------------------
(***************************************************************************)
(* The task plan of a project: TIPs and their life cycle (tip_state.py),   *)
(* the completion reports that move them (completion_report_parser.py) and *)
(* the commands that take them in (agent_cli.py).  TIP-STATE.json is read  *)
(* as a whole, changed in memory and written back as a whole by commands   *)
(* that know nothing of each other.                                        *)
(***************************************************************************)
EXTENDS Naturals, Sequences

CONSTANTS
    Tips,
    DependsOn,      \* the TIPs a TIP waits for
    Procs,          \* commands and API callers at work on one project
    Free, Broken,   \* no command under way; a file that is no JSON
    MaxTrail        \* bound: entries in the history of a TIP

ASSUME TipAssumption ==
    /\ DependsOn \in [Tips -> SUBSET Tips]
    /\ Free # Broken /\ MaxTrail \in Nat

VARIABLES
    saved,          \* TIP-STATE.json: [Tips -> Tip], or Broken
    held            \* by process: what it is about to write, or Free

tipVars == <<saved, held>>

States == {"planned", "assigned", "reported", "verified", "failed", "repair_required",
           "accepted", "blocked"}
Entries == [from : States, to : States]
Tip == [state : States, history : Seq(Entries)]
Plans == [Tips -> Tip]

\* state_from_task_graph
Planned == [t \in Tips |-> [state |-> "planned", history |-> <<>>]]

TipTypeOK ==
    /\ saved \in Plans \union {Broken}
    /\ held \in [Procs -> Plans \union {Free}]

TipInit ==
    /\ saved = Planned
    /\ held = [p \in Procs |-> Free]

-----------------------------------------------------------------------------

\* TipState._record
Recorded(tip, from, to) ==
    [state |-> to, history |-> Append(tip.history, [from |-> from, to |-> to])]

DepsSatisfied(plan, t) == \A d \in DependsOn[t] : plan[d].state = "accepted"

\* A command has loaded the file and will write it back with t changed.
Holds(p, t, tip) ==
    /\ held' = [held EXCEPT ![p] = [saved EXCEPT ![t] = tip]]
    /\ UNCHANGED saved

\* load_tip_state raises on a file that is no JSON.
Loads(p, t) ==
    /\ held[p] = Free
    /\ saved # Broken
    /\ Len(saved[t].history) < MaxTrail - 1

\* TipState.assign
Assign(p, t) ==
    /\ Loads(p, t)
    /\ DepsSatisfied(saved, t)
    /\ saved[t].state \in {"planned", "repair_required"}
    /\ Holds(p, t, Recorded(saved[t], saved[t].state, "assigned"))

\* validate_completion_report: DONE without test evidence is refused.
Accepted(status, evidence) == status = "DONE" => evidence

\* Mutant: the report's status becomes the TIP's state.
MovesAsReported(status) == status

Moves(status) == CASE status = "DONE" -> "reported"
                   [] status = "PARTIAL" -> "repair_required"
                   [] status = "BLOCKED" -> "blocked"

\* _cmd_ingest_report, update_tip_from_report: from whatever state the TIP is in.
IngestReport(p, t, status, evidence) ==
    /\ Loads(p, t)
    /\ Accepted(status, evidence)
    /\ Holds(p, t, Recorded(saved[t], saved[t].state, Moves(status)))

\* Mutant: what was not reported can be verified.
VerifyUnreported(p, t, passed) ==
    /\ Loads(p, t)
    /\ Holds(p, t,
             IF passed
             THEN Recorded(Recorded(saved[t], "reported", "verified"), "verified", "accepted")
             ELSE Recorded(Recorded(saved[t], "reported", "failed"), "failed", "repair_required"))

\* TipState.verify_tip records both of its steps before anything is saved.
Verify(p, t, passed) ==
    /\ Loads(p, t)
    /\ saved[t].state = "reported"
    /\ Holds(p, t,
             IF passed
             THEN Recorded(Recorded(saved[t], "reported", "verified"), "verified", "accepted")
             ELSE Recorded(Recorded(saved[t], "reported", "failed"), "failed", "repair_required"))

\* save_tip_state
Save(p) ==
    /\ held[p] # Free
    /\ saved' = held[p]
    /\ held' = [held EXCEPT ![p] = Free]

\* A process dies: before write_text, or with the file cut short.
Die(p) ==
    /\ held[p] # Free
    /\ saved' \in {saved, Broken}
    /\ held' = [held EXCEPT ![p] = Free]

\* mql5-tip-state --init-from, over whatever is there.
InitFrom(p) ==
    /\ held[p] = Free
    /\ held' = [held EXCEPT ![p] = Planned]
    /\ UNCHANGED saved

Statuses == {"DONE", "PARTIAL", "BLOCKED"}

TipNext ==
    \E p \in Procs :
        \/ \E t \in Tips :
               \/ Assign(p, t)
               \/ \E s \in Statuses, e \in BOOLEAN : IngestReport(p, t, s, e)
               \/ \E passed \in BOOLEAN : Verify(p, t, passed)
        \/ Save(p) \/ Die(p) \/ InitFrom(p)

TipSpec == TipInit /\ [][TipNext]_tipVars

-----------------------------------------------------------------------------
(* Properties. *)

\* The history accounts for the state: it is one chain from "planned" to it, and every
\* acceptance in it is a passed verification of a report that came just before.
Accounted(tip) ==
    LET h == tip.history IN
    /\ tip.state = IF h = <<>> THEN "planned" ELSE h[Len(h)].to
    /\ \A i \in 1..Len(h) :
           /\ h[i].from = IF i = 1 THEN "planned" ELSE h[i - 1].to
           /\ h[i].to = "accepted" =>
                  i > 2 /\ h[i - 1].to = "verified" /\ h[i - 2].to = "reported"

\* Commands overwrite each other's work, die in between and take reports out of turn,
\* but no file they leave tells of an acceptance that skipped report and verification.
HistoryAccounts == saved # Broken => \A t \in Tips : Accounted(saved[t])

=============================================================================

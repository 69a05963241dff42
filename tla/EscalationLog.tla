---------------------------- MODULE EscalationLog ----------------------------
(***************************************************************************)
(* The escalation log of a project (rri/escalation.py): raise_escalation   *)
(* reads the log, takes the lowest free number of the day and appends a    *)
(* line; resolve_escalation reads the log and writes all of it back with   *)
(* one record changed.  Commands of several processes know nothing of each *)
(* other.  Actors, levels, reasons and times are left out, and all records *)
(* are of one day.                                                         *)
(***************************************************************************)
EXTENDS Naturals, Sequences

CONSTANTS
    Writers,        \* processes that run commands
    Idle, Garbage,  \* no command; a log with a line that is no JSON
    MaxRaised       \* bound: records, and commands of each kind that succeed

ASSUME EscalationAssumption == Idle # Garbage /\ MaxRaised \in Nat

VARIABLES
    log,            \* escalations.jsonl
    doing,          \* by process: the command between its read and its write
    promised,       \* what was reported to a caller: ids raised, ids resolved
    overlapped      \* a command began while another was under way, or died writing

escVars == <<log, doing, promised, overlapped>>

Ids == 1..MaxRaised
Records == [id : Ids, open : BOOLEAN]

EscTypeOK ==
    /\ log \in Seq(Records) \union {Garbage}
    /\ doing \in [Writers -> [cmd : {"raise", "resolve"}, id : Ids, text : Seq(Records)]
                             \union {Idle}]
    /\ promised \in [raised : Seq(Ids), resolved : Seq(Ids)]
    /\ overlapped \in BOOLEAN

EscInit ==
    /\ log = <<>>
    /\ doing = [w \in Writers |-> Idle]
    /\ promised = [raised |-> <<>>, resolved |-> <<>>]
    /\ overlapped = FALSE

-----------------------------------------------------------------------------

Used(text) == {text[i].id : i \in 1..Len(text)}

\* _next_id: the lowest number of the day that no record has.
NextId(text) == CHOOSE n \in 1..Len(text) + 1 :
                    n \notin Used(text) /\ \A k \in 1..n - 1 : k \in Used(text)

\* load_log raises on a line that is no JSON.
Begins(w, cmd, id, text) ==
    /\ doing[w] = Idle
    /\ log # Garbage
    /\ doing' = [doing EXCEPT ![w] = [cmd |-> cmd, id |-> id, text |-> text]]
    /\ overlapped' = (overlapped \/ \E v \in Writers : doing[v] # Idle)
    /\ UNCHANGED <<log, promised>>

RaiseEscalation(w) ==
    /\ log # Garbage
    /\ Len(log) < MaxRaised /\ Len(promised.raised) < MaxRaised
    /\ Begins(w, "raise", NextId(log), <<>>)

\* Mutant: an escalation can be resolved again.
ResolvableAgain(id) == id \in Used(log)

\* An id that is unknown, or resolved in any of its records, is refused.
Resolvable(id) ==
    /\ id \in Used(log)
    /\ \A i \in 1..Len(log) : log[i].id = id => log[i].open

Rewritten(id) == [i \in 1..Len(log) |->
                     IF log[i].id = id THEN [log[i] EXCEPT !.open = FALSE] ELSE log[i]]

ResolveEscalation(w, id) ==
    /\ log # Garbage
    /\ Resolvable(id) /\ Len(promised.resolved) < MaxRaised
    /\ Begins(w, "resolve", id, Rewritten(id))

\* The command writes and reports.  Between its read and this the log may have become
\* longer, shorter or garbage.
FinishWrite(w) ==
    /\ doing[w] # Idle
    /\ doing' = [doing EXCEPT ![w] = Idle]
    /\ IF doing[w].cmd = "raise"
       THEN /\ log' = IF log = Garbage THEN Garbage
                      ELSE Append(log, [id |-> doing[w].id, open |-> TRUE])
            /\ promised' = [promised EXCEPT !.raised = Append(@, doing[w].id)]
       ELSE /\ log' = doing[w].text
            /\ promised' = [promised EXCEPT !.resolved = Append(@, doing[w].id)]
    /\ UNCHANGED overlapped

\* The process dies before it writes, in the middle of a line, or between two lines of
\* the log it writes back.
Perish(w) ==
    /\ doing[w] # Idle
    /\ doing' = [doing EXCEPT ![w] = Idle]
    /\ \/ UNCHANGED <<log, overlapped>>
       \/ log' = Garbage /\ UNCHANGED overlapped
       \/ /\ doing[w].cmd = "resolve"
          /\ \E n \in 0..Len(doing[w].text) - 1 : log' = SubSeq(doing[w].text, 1, n)
          /\ overlapped' = TRUE
    /\ UNCHANGED promised

EscNext ==
    \E w \in Writers : \/ RaiseEscalation(w)
                       \/ \E id \in Ids : ResolveEscalation(w, id)
                       \/ FinishWrite(w) \/ Perish(w)

EscSpec == EscInit /\ [][EscNext]_escVars

-----------------------------------------------------------------------------
(* Properties. *)

\* As long as commands do not overlap and none dies while it writes the log back, the
\* log is what the callers were told: the ids that were raised, in that order and each
\* once, closed exactly where a resolution was reported, and that at most once.
LogAsPromised ==
    ~overlapped /\ log # Garbage =>
        /\ [i \in 1..Len(log) |-> log[i].id] = promised.raised
        /\ \A i, j \in 1..Len(log) : log[i].id = log[j].id => i = j
        /\ \A i \in 1..Len(log) :
               log[i].open <=> \A k \in 1..Len(promised.resolved) :
                                   promised.resolved[k] # log[i].id
        /\ \A k, l \in 1..Len(promised.resolved) :
               promised.resolved[k] = promised.resolved[l] => k = l

=============================================================================

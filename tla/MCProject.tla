----------------------------- MODULE MCProject ------------------------------
(* Small instances of the tools that work on a project's files, for TLC.  They share no *)
(* state: each behaviour is one of exactly one of them.                                 *)
EXTENDS RemoteJob, ReleaseGate, TipState, EscalationLog, GithubCompile, TLC

CONSTANTS k1, t1, t2, a, b, p1, p2, w1, w2, c1, c2, x, y, f1, f2

VARIABLE part           \* the tool whose behaviour this is

MCTree == [n \in Builds |-> IF n = 1 THEN t1 ELSE t2]
MCDependsOn == [t \in Tips |-> IF t = b THEN {a} ELSE {}]

Parts == {"job", "gate", "tips", "log", "github"}
projectVars == <<part, jobVars, gateVars, tipVars, escVars, compileVars>>

MCFlawed == {<<"ex5", 2>>}
MCWanted == [c \in Clients |-> x]

Symmetry == Permutations(Procs) \union Permutations(Writers)
            \union Permutations(Clients)

\* The first build lies in the project; the parts that stand still do so in one state.
OneStart == /\ files = [f \in Artifacts |-> 1] /\ target = "live"
            /\ part # "job" => dest = [f \in Files |-> "none"]
            /\ part # "gate" => pins = None

Init == part \in Parts /\ JobInit /\ GateInit /\ TipInit /\ EscInit /\ CompileInit /\ OneStart

Next ==
    \/ part = "job" /\ JobNext /\ UNCHANGED <<part, gateVars, tipVars, escVars, compileVars>>
    \/ part = "gate" /\ GateNext /\ UNCHANGED <<part, jobVars, tipVars, escVars, compileVars>>
    \/ part = "tips" /\ TipNext /\ UNCHANGED <<part, jobVars, gateVars, escVars, compileVars>>
    \/ part = "log" /\ EscNext /\ UNCHANGED <<part, jobVars, gateVars, tipVars, compileVars>>
    \/ part = "github" /\ CompileNext /\ UNCHANGED <<part, jobVars, gateVars, tipVars, escVars>>

Spec == Init /\ [][Next]_projectVars

\* Every variable of the five tools has the type its declaration says.
TypeOK == part \in Parts /\ JobTypeOK /\ GateTypeOK /\ TipTypeOK /\ EscTypeOK
          /\ CompileTypeOK

=============================================================================

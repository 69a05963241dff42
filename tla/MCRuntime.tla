----------------------------- MODULE MCRuntime ------------------------------
(* Small instances of the main loop of an EA and of the helper classes that EAs are      *)
(* built from, for TLC.  They share no state: each behaviour is one of exactly one.      *)
EXTENDS AsyncTradeManager, MagicRegistry, SafeTradeManager, MainLoop

CONSTANTS x, y, z

VARIABLE part           \* the part whose behaviour this is

MCEAs == {x, y, z}
MCMagicOf == [e \in EAs |-> IF e = z THEN 2 ELSE 1]

MCMaxPositions == [d \in Sides |-> 1]

Parts == {"async", "magic", "safe", "loop"}
runtimeVars == <<part, asyncVars, magicVars, safeVars, mainVars>>

\* The parts that stand still do so in one state.
Init == /\ part \in Parts
        /\ AsyncInit /\ MagicInit /\ SafeInit /\ MainInit
        /\ part # "loop" => exclusive

Async(A) == part = "async" /\ A /\ UNCHANGED <<part, magicVars, safeVars, mainVars>>

Next ==
    \/ Async(AsyncNext)
    \/ part = "magic" /\ MagicNext /\ UNCHANGED <<part, asyncVars, safeVars, mainVars>>
    \/ part = "safe" /\ SafeNext /\ UNCHANGED <<part, asyncVars, magicVars, mainVars>>
    \/ part = "loop" /\ MainNext /\ UNCHANGED <<part, asyncVars, magicVars, safeVars>>

Spec == Init /\ [][Next]_runtimeVars
             /\ WF_runtimeVars(Async(OnTick)) /\ WF_runtimeVars(Async(Pass))

\* Every variable of the four parts has the type its declaration says.
TypeOK == part \in Parts /\ AsyncTypeOK /\ MagicTypeOK /\ SafeTypeOK /\ MainTypeOK

=============================================================================

----------------------------- MODULE IntentSeal -----------------------------
(***************************************************************************)
(* What the trade-intent ledger promises the strategy, with nothing of how *)
(* it keeps the promise.  A slot (an exposure source and a direction) is   *)
(* sealed by the attempts to open exposure that it holds.  An attempt      *)
(* leaves a slot only once it is accounted for, and a new one enters only  *)
(* a slot that holds nothing else.  Time plays no part: there is no        *)
(* timeout here, so a ledger whose retry is authorised by one is not an    *)
(* implementation.                                                         *)
(***************************************************************************)

CONSTANTS
    Slots,     \* the slots of one Expert Advisor
    Attempts   \* the attempts to open exposure, each made at most once

VARIABLES
    held,      \* the attempts that seal each slot
    spent,     \* the attempts made so far
    accounted  \* the attempts whose outcome is known

vars == <<held, spent, accounted>>

Held == UNION {held[s] : s \in Slots}

\* An EA upgraded from an earlier release may start with sealed slots.
Init ==
    /\ held \in [Slots -> SUBSET Attempts]
    /\ \A s, t \in Slots : s # t => held[s] \intersect held[t] = {}
    /\ spent = Held
    /\ accounted = {}

Leaves(s) == held[s] \ held'[s]
Enters(s) == held'[s] \ held[s]

\* Outcomes become known, and are not forgotten; any slot may change hands.
Next ==
    /\ accounted \subseteq accounted' /\ accounted' \subseteq Attempts
    /\ held' \in [Slots -> SUBSET Attempts]
    /\ spent' = spent \union Held'
    /\ \A s \in Slots :
        /\ Leaves(s) \subseteq accounted'
        /\ Enters(s) \intersect spent = {}
        /\ \A a \in Enters(s) : held'[s] = {a}

Spec == Init /\ [][Next]_vars

=============================================================================

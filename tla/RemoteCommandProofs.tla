------------------------ MODULE RemoteCommandProofs -------------------------
(***************************************************************************)
(* Theorems about RemoteCommand for one instance of the EA, with any       *)
(* commands and any number of crashes.  Two of them need that orders are   *)
(* deleted synchronously.                                                  *)
(***************************************************************************)
EXTENDS RemoteCommand, TLAPS

Done == {o \in Orders : applied[o] > 0}

(* The inductive invariant.  What is applied, saved or acknowledged was      *)
(* applied; and if deletion is synchronous, an order is deleted before its   *)
(* command is applied, and applied once.                                     *)
MarketOk ==
    /\ closed \subseteq Done /\ gv.store.flags \subseteq Done
    /\ acked \intersect Flags \subseteq gv.store.flags
    /\ ~AsyncDelete => /\ \A o \in Orders : applied[o] \in 0..1
                       /\ book \intersect deleted = {} /\ Done \subseteq deleted
                       /\ removal = {}

\* What the ledger says of its command, in any state it may be left in.  It holds the
\* order of which the deletion is done or asked for, until the command is applied.
LedgerOk(i) ==
    /\ disk = IF pc[i] = "save" THEN [gv EXCEPT !.state = "IDLE"] ELSE gv
    /\ pc[i] = "save" => gv.state = "CLAIMED"
    /\ pc[i] # "save" /\ gv.state # "IDLE" => gv.ticket \in Orders
    /\ gv.state = "APPLIED" => gv.ticket \in Done
    /\ \A o \in (deleted \union removal) \ Done :
            pc[i] # "save" /\ gv.state # "IDLE" /\ gv.ticket = o
    /\ ~AsyncDelete =>
        /\ pc[i] # "save" /\ gv.state \in {"CLAIMED", "DELETED"} => gv.ticket \notin Done
        /\ gv.state \in {"DELETED", "APPLYING"} => gv.ticket \in deleted

\* What instance i knows when it gets to each label.
LocalOk(i) ==
    /\ mem[i].flags \subseteq Done
    /\ pc[i] # "down" => gv.store.flags \subseteq mem[i].flags
    /\ pc[i] \in {"claim", "save"} => loc[i].ticket \in Orders
    /\ pc[i] = "ticket" => loc[i].state = gv.state /\ gv.state # "IDLE"
    /\ pc[i] = "act" => /\ loc[i].state = gv.state /\ loc[i].ticket = gv.ticket
                        /\ gv.state \in {"CLAIMED", "APPLIED", "BLOCKED"}
    /\ pc[i] = "clear" => gv.state = "APPLIED"
    /\ pc[i] \in {"mark", "marking"} => gv.state = "CLAIMED" /\ loc[i].ticket = gv.ticket
    /\ pc[i] \in {"begin", "beginning"} =>
        gv.state = "DELETED" /\ loc[i].ticket = gv.ticket
    /\ pc[i] \in {"apply", "check", "ack", "acking"} =>
        gv.state = "APPLYING" /\ loc[i].ticket = gv.ticket
    /\ pc[i] \in {"ack", "acking"} =>
        loc[i].ticket \in Done /\ {loc[i].ticket} \intersect Flags \subseteq gv.store.flags
    /\ ~AsyncDelete =>
        /\ pc[i] \in {"claim", "save", "apply"} => loc[i].ticket \notin Done
        /\ pc[i] \in {"mark", "marking"} => gv.ticket \in deleted

IInv == TypeOK /\ MarketOk /\ \A i \in Instances : LedgerOk(i) /\ LocalOk(i)

-----------------------------------------------------------------------------

\* The variables keep their types: this holds of any number of instances.
LEMMA Typing == TypeOK /\ [Next]_vars => TypeOK'
<1> SUFFICES ASSUME TypeOK, [Next]_vars PROVE TypeOK'
  OBVIOUS
<1> USE DEF TypeOK, Globals, Saved, States, Tickets, Goto, Write, Persist, market, history
<1>1. ASSUME NEW i \in Instances, Scan(i) PROVE TypeOK'
  <2>1. pc' \in [Instances -> {pc[j] : j \in Instances} \union {"look", "claim"}]
    BY <1>1 DEF Scan
  <2>2. loc' \in [Instances -> [state : States, ticket : Tickets]]
    BY <1>1 DEF Scan
  <2> QED BY <1>1, <2>1, <2>2 DEF Scan
<1>2. ASSUME NEW i \in Instances, ClaimState(i) PROVE TypeOK'
  BY <1>2 DEF ClaimState
<1>3. ASSUME NEW i \in Instances, ClaimTicket(i) PROVE TypeOK'
  BY <1>3 DEF ClaimTicket
<1>4. ASSUME NEW i \in Instances, Look(i) PROVE TypeOK'
  BY <1>4 DEF Look
<1>5. ASSUME NEW i \in Instances, LookTicket(i) PROVE TypeOK'
  BY <1>5 DEF LookTicket
<1>6. ASSUME NEW i \in Instances, FinalizeApplied(i) PROVE TypeOK'
  BY <1>6 DEF FinalizeApplied
<1>7. ASSUME NEW i \in Instances, Clear(i) PROVE TypeOK'
  BY <1>7 DEF Clear
<1>8. ASSUME NEW i \in Instances, Blocked(i) PROVE TypeOK'
  BY <1>8 DEF Blocked
<1>9. ASSUME NEW i \in Instances, Block(i) PROVE TypeOK'
  BY <1>9 DEF Block
<1>10. ASSUME NEW i \in Instances, DeleteOrder(i) PROVE TypeOK'
  BY <1>10 DEF DeleteOrder
<1>11. ASSUME NEW i \in Instances, MarkDeletedTest(i) PROVE TypeOK'
  BY <1>11 DEF MarkDeletedTest
<1>12. ASSUME NEW i \in Instances, MarkDeleted(i) PROVE TypeOK'
  BY <1>12 DEF MarkDeleted
<1>13. ASSUME NEW i \in Instances, BeginApply(i) PROVE TypeOK'
  BY <1>13 DEF BeginApply
<1>14. ASSUME NEW i \in Instances, BeginApplyState(i) PROVE TypeOK'
  BY <1>14 DEF BeginApplyState
<1>15. ASSUME NEW i \in Instances, ApplyRemoteCommandOnce(i) PROVE TypeOK'
  <2>1. mem' \in [Instances -> Saved]
    BY <1>15 DEF ApplyRemoteCommandOnce
  <2>2. applied' \in [Orders -> 0..2]
    <3>1. \A n \in 0..2 : (IF n = 2 THEN 2 ELSE n + 1) \in 0..2
      OBVIOUS
    <3> QED BY <1>15, <3>1 DEF ApplyRemoteCommandOnce
  <2>3. closed' \subseteq Closing /\ pc'[i] = "check"
    BY <1>15 DEF ApplyRemoteCommandOnce
  <2> QED BY <1>15, <2>1, <2>2, <2>3 DEF ApplyRemoteCommandOnce
<1>16. ASSUME NEW i \in Instances, EffectSatisfied(i) PROVE TypeOK'
  BY <1>16 DEF EffectSatisfied
<1>17. ASSUME NEW i \in Instances, EffectMissing(i) PROVE TypeOK'
  BY <1>17 DEF EffectMissing
<1>18. ASSUME NEW i \in Instances, MarkAppliedTest(i) PROVE TypeOK'
  BY <1>18 DEF MarkAppliedTest
<1>19. ASSUME NEW i \in Instances, MarkApplied(i) PROVE TypeOK'
  BY <1>19 DEF MarkApplied
<1>20. ASSUME NEW i \in Instances, Start(i) PROVE TypeOK'
  <2>1. gv.store \in Saved
    OBVIOUS
  <2>2. mem' \in [Instances -> Saved]
    BY <1>20, <2>1 DEF Start
  <2> QED BY <1>20, <2>2 DEF Start
<1>21. ASSUME NEW i \in Instances, DeleteFails(i) PROVE TypeOK'
  BY <1>21 DEF DeleteFails
<1>22. ASSUME NEW i \in Instances, Deinit(i) PROVE TypeOK'
  BY <1>22, CrashAssumption DEF Deinit
<1>23. ASSUME NEW o \in Orders, Place(o) PROVE TypeOK'
  BY <1>23 DEF Place
<1>24. ASSUME NEW o \in Orders, Withdraw(o) PROVE TypeOK'
  BY <1>24 DEF Withdraw
<1>25. ASSUME NEW o \in Orders, Remove(o) PROVE TypeOK'
  BY <1>25 DEF Remove
<1>26. ASSUME NEW o \in Orders, CloseLate(o) PROVE TypeOK'
  BY <1>26 DEF CloseLate
<1>27. CASE Crash
  BY <1>27, CrashAssumption DEF Crash
<1>28. CASE UNCHANGED vars
  BY <1>28 DEF vars
<1> QED BY <1>1, <1>2, <1>3, <1>4, <1>5, <1>6, <1>7, <1>8, <1>9, <1>10, <1>11, <1>12, <1>13, <1>14, <1>15, <1>16, <1>17, <1>18, <1>19, <1>20, <1>21, <1>22, <1>23, <1>24, <1>25, <1>26, <1>27, <1>28 DEF Next, Step

-----------------------------------------------------------------------------

Ok(e) == MarketOk /\ LedgerOk(e) /\ LocalOk(e)

\* The steps of the only instance preserve the invariant.
LEMMA StepInv ==
    ASSUME NEW e, Instances = {e}, IInv, TypeOK',
           Step(e) \/ DeleteFails(e) \/ Deinit(e)
    PROVE  Ok(e)'
<1> USE DEF IInv, TypeOK, Globals, Saved, Tickets, Goto, Write, Persist, market, history,
            MarketOk, Done, LedgerOk, LocalOk
\* an idle ledger owes no command, and an order in the book is not deleted
<1>1. CASE Scan(e)
  BY <1>1 DEF Ok, Scan
<1>2. CASE ClaimState(e)
  BY <1>2 DEF Ok, ClaimState
<1>3. CASE ClaimTicket(e)
  BY <1>3 DEF Ok, ClaimTicket
<1>4. CASE Look(e)
  BY <1>4 DEF Ok, Look
<1>5. CASE LookTicket(e)
  BY <1>5 DEF Ok, LookTicket, States
<1>6. CASE FinalizeApplied(e)
  BY <1>6 DEF Ok, FinalizeApplied
\* the command that is forgotten was applied
<1>7. CASE Clear(e)
  BY <1>7 DEF Ok, Clear
<1>8. CASE Blocked(e)
  BY <1>8 DEF Ok, Blocked
<1>9. CASE Block(e)
  BY <1>9 DEF Ok, Block
\* the order leaves the book while the ledger on disk holds its ticket
<1>10. CASE DeleteOrder(e)
  BY <1>10 DEF Ok, DeleteOrder
<1>11. CASE DeleteFails(e)
  BY <1>11 DEF Ok, DeleteFails
<1>12. CASE MarkDeletedTest(e)
  BY <1>12 DEF Ok, MarkDeletedTest
\* a deleted order can only be the one the ledger holds
<1>13. CASE MarkDeleted(e)
  BY <1>13 DEF Ok, MarkDeleted
<1>14. CASE BeginApply(e)
  BY <1>14 DEF Ok, BeginApply
<1>15. CASE BeginApplyState(e)
  BY <1>15 DEF Ok, BeginApplyState
\* the ledger on disk says APPLYING, from which nothing is applied again
<1>16. CASE ApplyRemoteCommandOnce(e)
  BY <1>16 DEF Ok, ApplyRemoteCommandOnce
\* what has an effect was applied, and is saved before it is acknowledged
<1>17. CASE EffectSatisfied(e)
  <2>1. MarketOk'
    BY <1>17 DEF EffectSatisfied, States, Flags, RemoteCommandEffectSatisfied
  <2>2. LedgerOk(e)'
    BY <1>17 DEF EffectSatisfied, States, Flags, RemoteCommandEffectSatisfied
  <2>3. LocalOk(e)'
    BY <1>17 DEF EffectSatisfied, States, Flags, RemoteCommandEffectSatisfied
  <2> QED BY <2>1, <2>2, <2>3 DEF Ok
<1>18. CASE EffectMissing(e)
  BY <1>18 DEF Ok, EffectMissing
<1>19. CASE MarkAppliedTest(e)
  BY <1>19 DEF Ok, MarkAppliedTest
<1>20. CASE MarkApplied(e)
  BY <1>20 DEF Ok, MarkApplied
\* the flags on disk are those of commands that were applied
<1>21. CASE Start(e)
  BY <1>21 DEF Ok, Start
<1>22. CASE Deinit(e)
  BY <1>22 DEF Ok, Deinit
<1> QED BY <1>1, <1>2, <1>3, <1>4, <1>5, <1>6, <1>7, <1>8, <1>9, <1>10, <1>11, <1>12, <1>13, <1>14, <1>15, <1>16, <1>17, <1>18, <1>19, <1>20, <1>21, <1>22 DEF Step

\* So do the market, the owner of the account and a crash.
LEMMA EnvironmentInv ==
    ASSUME NEW e, Instances = {e}, IInv, TypeOK',
           \/ \E o \in Orders : Place(o) \/ Withdraw(o) \/ Remove(o) \/ CloseLate(o)
           \/ Crash
    PROVE  Ok(e)'
<1> USE DEF IInv, TypeOK, Globals, Saved, Tickets, market, history,
            MarketOk, Done, LedgerOk, LocalOk
<1>1. ASSUME NEW o \in Orders, Place(o) PROVE Ok(e)'
  BY <1>1 DEF Ok, Place
<1>2. ASSUME NEW o \in Orders, Withdraw(o) PROVE Ok(e)'
  BY <1>2 DEF Ok, Withdraw
<1>3. ASSUME NEW o \in Orders, Remove(o) PROVE Ok(e)'
  BY <1>3 DEF Ok, Remove
<1>4. ASSUME NEW o \in Orders, CloseLate(o) PROVE Ok(e)'
  BY <1>4 DEF Ok, CloseLate
<1>5. CASE Crash
  BY <1>5 DEF Ok, Crash
<1> QED BY <1>1, <1>2, <1>3, <1>4, <1>5

-----------------------------------------------------------------------------
(* What holds of one instance *)

\* The invariant holds of an empty ledger.
LEMMA InitInv ==
    ASSUME NEW e, Instances = {e}, Init PROVE IInv
<1>1. TypeOK
  BY CrashAssumption DEF Init, Fresh, TypeOK, Globals, Saved, States, Tickets
<1>2. MarketOk
  BY DEF Init, Fresh, MarketOk, Done
<1>3. LedgerOk(e) /\ LocalOk(e)
  BY DEF Init, Fresh, LedgerOk, LocalOk
<1> QED BY <1>1, <1>2, <1>3 DEF IInv

\* The invariant holds in every state.
LEMMA Inductive ==
    ASSUME NEW e, Instances = {e} PROVE Spec => []IInv
<1>1. ASSUME IInv, [Next]_vars PROVE IInv'
  <2>1. TypeOK'
    BY <1>1, Typing DEF IInv
  <2>2. CASE Next
    <3>1. Ok(e)'
      BY <1>1, <2>1, <2>2, StepInv, EnvironmentInv DEF Next
    <3> QED BY <2>1, <3>1 DEF IInv, Ok
  <2>3. CASE UNCHANGED vars
    BY <1>1, <2>3 DEF IInv, TypeOK, MarketOk, Done, LedgerOk, LocalOk, vars, market, history
  <2> QED BY <1>1, <2>2, <2>3
<1> QED BY InitInv, <1>1, PTL DEF Spec

\* Ledger, store and program counters keep their types, for any number of instances and
\* with deletion of either kind.
THEOREM TypeCorrect == Spec => []TypeOK
<1>1. Init => TypeOK
  BY CrashAssumption DEF Init, Fresh, TypeOK, Globals, Saved, States, Tickets
<1> QED BY <1>1, Typing, PTL DEF Spec

\* No command is executed twice, however often the terminal dies in between, if orders
\* are deleted synchronously.
THEOREM NoReplay ==
    ASSUME NEW e, Instances = {e}, ~AsyncDelete PROVE Spec => []AtMostOnce
<1>1. IInv => AtMostOnce
  BY DEF IInv, MarketOk, AtMostOnce
<1> QED BY <1>1, Inductive, PTL

\* No command takes effect while its order is in the book, if orders are deleted
\* synchronously.
THEOREM DeletedFirst ==
    ASSUME NEW e, Instances = {e}, ~AsyncDelete PROVE Spec => []AppliedAfterDelete
<1>1. IInv => AppliedAfterDelete
  BY DEF IInv, MarketOk, Done, AppliedAfterDelete
<1> QED BY <1>1, Inductive, PTL

\* No command is lost between the deletion of its order, of either kind, and its effect.
THEOREM DeletedIsHeld ==
    ASSUME NEW e, Instances = {e} PROVE Spec => []NothingLost
<1>1. IInv => NothingLost
  BY DEF IInv, TypeOK, MarketOk, LedgerOk, Done, NothingLost
<1> QED BY <1>1, Inductive, PTL

\* What has been acknowledged is on disk, with deletion of either kind.
THEOREM AcknowledgedIsSaved ==
    ASSUME NEW e, Instances = {e} PROVE Spec => []AckedIsDurable
<1>1. IInv => AckedIsDurable
  BY DEF IInv, TypeOK, Globals, MarketOk, LedgerOk, AckedIsDurable
<1> QED BY <1>1, Inductive, PTL

=============================================================================

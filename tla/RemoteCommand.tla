--------------------------- MODULE RemoteCommand ----------------------------
(***************************************************************************)
(* Remote commands of a generated Expert Advisor: a pending order with an  *)
(* agreed type, price and comment is a command.  ProcessRemoteCommands,    *)
(* the first thing a tick does, claims it in a ledger of global variables, *)
(* deletes the order, applies the command and acknowledges it.             *)
(*                                                                         *)
(* The ledger is shared by every instance of the EA with the same magic    *)
(* and symbol, each of which runs in a thread of its own: a test of the    *)
(* ledger and the write it guards are two actions, unless the code uses    *)
(* GlobalVariableSetOnCondition.                                           *)
(***************************************************************************)
EXTENDS Naturals

CONSTANTS
    Instances,    \* running copies of the EA
    Orders,       \* the command orders that may be placed
    Closing,      \* ... whose command closes positions; the others set a flag
    None,         \* the zero ticket
    AsyncDelete,  \* CTrade is asynchronous: a deletion is accepted with PLACED
    MaxCrashes    \* bound: how often the terminal dies or the EA is removed

ASSUME NoneAssumption == None \notin Orders
ASSUME ClosingAssumption == Closing \subseteq Orders
ASSUME AsyncAssumption == AsyncDelete \in BOOLEAN
ASSUME CrashAssumption == MaxCrashes \in Nat

VARIABLES
    gv,       \* the terminal's global variables: the ledger and the state store
    disk,     \* ... as GlobalVariablesFlush last wrote them
    mem,      \* the globals of each instance: its flags, and whether it may trade
    pc,       \* where each instance is in ProcessRemoteCommands
    loc,      \* its local variables: the state and the ticket it read or claimed
    book,     \* the command orders in the order book
    removal,  \* asynchronous deletions the server has yet to carry out
    closed,   \* the closing commands whose scope is empty
    \* history
    deleted,  \* the orders the EA has deleted
    applied,  \* how often the command of each order was applied; 2 is twice or more
    acked,    \* the orders whose command was acknowledged
    crashes

market  == <<book, removal, closed>>
history == <<deleted, applied, acked>>
vars == <<gv, disk, mem, pc, loc, market, history, crashes>>

States == {"IDLE", "CLAIMED", "DELETED", "APPLYING", "APPLIED", "BLOCKED"}
Tickets == Orders \union {None}
Flags == Orders \ Closing
Saved == [enabled : BOOLEAN, flags : SUBSET Flags]
Globals == [state : States, ticket : Tickets, store : Saved]

TypeOK ==
    /\ gv \in Globals /\ disk \in Globals
    /\ mem \in [Instances -> Saved]
    /\ pc \in [Instances -> {"down", "rest", "claim", "save", "look", "ticket", "act",
                             "clear", "mark", "marking", "begin", "beginning", "apply",
                             "check", "ack", "acking"}]
    /\ loc \in [Instances -> [state : States, ticket : Tickets]]
    /\ book \subseteq Orders /\ removal \subseteq Orders /\ closed \subseteq Closing
    /\ deleted \subseteq Orders /\ acked \subseteq Tickets
    /\ applied \in [Orders -> 0..2]
    /\ crashes \in 0..MaxCrashes

Fresh == [state |-> "IDLE", ticket |-> None, store |-> [enabled |-> TRUE, flags |-> {}]]

Init ==
    /\ gv = Fresh /\ disk = Fresh
    /\ mem = [i \in Instances |-> Fresh.store]
    /\ pc = [i \in Instances |-> "rest"]
    /\ loc = [i \in Instances |-> [state |-> "IDLE", ticket |-> None]]
    /\ book = {} /\ removal = {} /\ closed = {}
    /\ deleted = {} /\ applied = [o \in Orders |-> 0] /\ acked = {}
    /\ crashes = 0

-----------------------------------------------------------------------------
(* Steps of instance i *)

Goto(i, label) == pc' = [pc EXCEPT ![i] = label]

\* A ledger call that writes ends with a flush, which writes every variable.
Write(g) == gv' = g /\ disk' = g

\* PersistStateCritical saves what this instance has in memory.
Persist(m, i) ==
    /\ mem' = [mem EXCEPT ![i] = m]
    /\ Write([gv EXCEPT !.store = m])

\* ProcessRemoteCommands: an idle ledger may claim a matching order.
Scan(i) ==
    /\ pc[i] = "rest"
    /\ IF gv.state # "IDLE" THEN Goto(i, "look") /\ loc' = loc
       ELSE \E o \in book : /\ loc' = [loc EXCEPT ![i].ticket = o]
                            /\ Goto(i, "claim")
    /\ UNCHANGED <<gv, disk, mem, market, history, crashes>>

\* Claim: GlobalVariableSetOnCondition, and only then the ticket and a flush.
ClaimState(i) ==
    /\ pc[i] = "claim"
    /\ IF gv.state = "IDLE"
       THEN gv' = [gv EXCEPT !.state = "CLAIMED"] /\ Goto(i, "save")
       ELSE gv' = gv /\ Goto(i, "rest")
    /\ UNCHANGED <<disk, mem, loc, market, history, crashes>>

ClaimTicket(i) ==
    /\ pc[i] = "save"
    /\ Write([gv EXCEPT !.ticket = loc[i].ticket])
    /\ Goto(i, "look")
    /\ UNCHANGED <<mem, loc, market, history, crashes>>

\* ContinueRemoteCommand reads the state, then the ticket and the command.
Look(i) ==
    /\ pc[i] = "look"
    /\ loc' = [loc EXCEPT ![i].state = gv.state]
    /\ Goto(i, IF gv.state = "IDLE" THEN "rest" ELSE "ticket")
    /\ UNCHANGED <<gv, disk, mem, market, history, crashes>>

LookTicket(i) ==
    /\ pc[i] = "ticket"
    /\ loc' = [loc EXCEPT ![i].ticket = gv.ticket]
    /\ Goto(i, CASE loc[i].state = "DELETED"  -> "begin"
                 [] loc[i].state = "APPLYING" -> "check"
                 [] OTHER                     -> "act")
    /\ UNCHANGED <<gv, disk, mem, market, history, crashes>>

\* An acknowledged command: the ledger is cleared.
FinalizeApplied(i) ==
    /\ pc[i] = "act" /\ loc[i].state = "APPLIED"
    /\ Goto(i, IF gv.state = "APPLIED" THEN "clear" ELSE "rest")
    /\ UNCHANGED <<gv, disk, mem, loc, market, history, crashes>>

Clear(i) ==
    /\ pc[i] = "clear"
    /\ Write([gv EXCEPT !.state = "IDLE", !.ticket = None])
    /\ Goto(i, "rest")
    /\ UNCHANGED <<mem, loc, market, history, crashes>>

\* The owner of the terminal has to step in.
Blocked(i) ==
    /\ pc[i] = "act" /\ loc[i].state = "BLOCKED"
    /\ Persist([mem[i] EXCEPT !.enabled = FALSE], i)
    /\ Goto(i, "rest")
    /\ UNCHANGED <<loc, market, history, crashes>>

\* Mutant: a claim whose order is gone is dropped.
BlockClears(i) ==
    /\ pc[i] = "act" /\ loc[i].state = "CLAIMED"
    /\ loc[i].ticket \notin book
    /\ Write([gv EXCEPT !.state = "IDLE", !.ticket = None])
    /\ Goto(i, "rest")
    /\ UNCHANGED <<mem, loc, market, history, crashes>>

\* The claimed ticket is not, or no longer, a command order.
Block(i) ==
    /\ pc[i] = "act" /\ loc[i].state = "CLAIMED"
    /\ loc[i].ticket \notin book
    /\ Write([gv EXCEPT !.state = "BLOCKED"])
    /\ Goto(i, "rest")
    /\ UNCHANGED <<mem, loc, market, history, crashes>>

\* Mutant: the result of the deletion is not looked at.
DeleteFailsUnseen(i) ==
    /\ pc[i] = "act" /\ loc[i].state = "CLAIMED"
    /\ Goto(i, "mark")
    /\ UNCHANGED <<gv, disk, mem, loc, market, history, crashes>>

\* DeleteOrder: refused or lost, done, or (asynchronous) only accepted.  The book
\* may have lost the order since it was looked at: then the deletion fails.
DeleteFails(i) ==
    /\ pc[i] = "act" /\ loc[i].state = "CLAIMED"
    /\ Goto(i, "rest")
    /\ UNCHANGED <<gv, disk, mem, loc, market, history, crashes>>

DeleteOrder(i) ==
    /\ pc[i] = "act" /\ loc[i].state = "CLAIMED"
    /\ loc[i].ticket \in book
    /\ IF AsyncDelete
       THEN removal' = removal \union {loc[i].ticket} /\ UNCHANGED <<book, deleted>>
       ELSE /\ book' = book \ {loc[i].ticket}
            /\ deleted' = deleted \union {loc[i].ticket}
            /\ removal' = removal
    /\ Goto(i, "mark")
    /\ UNCHANGED <<gv, disk, mem, loc, closed, applied, acked, crashes>>

\* MarkDeleted tests the state and sets it in two steps.
MarkDeletedTest(i) ==
    /\ pc[i] = "mark"
    /\ Goto(i, IF gv.state = "CLAIMED" /\ gv.ticket = loc[i].ticket THEN "marking" ELSE "rest")
    /\ UNCHANGED <<gv, disk, mem, loc, market, history, crashes>>

MarkDeleted(i) ==
    /\ pc[i] = "marking"
    /\ Write([gv EXCEPT !.state = "DELETED"])
    /\ Goto(i, "begin")
    /\ UNCHANGED <<mem, loc, market, history, crashes>>

\* BeginApply: the ticket is tested, then GlobalVariableSetOnCondition and a flush.
BeginApply(i) ==
    /\ pc[i] = "begin"
    /\ Goto(i, IF gv.ticket = loc[i].ticket THEN "beginning" ELSE "rest")
    /\ UNCHANGED <<gv, disk, mem, loc, market, history, crashes>>

BeginApplyState(i) ==
    /\ pc[i] = "beginning"
    /\ IF gv.state = "DELETED"
       THEN Write([gv EXCEPT !.state = "APPLYING"]) /\ Goto(i, "apply")
       ELSE UNCHANGED <<gv, disk>> /\ Goto(i, "rest")
    /\ UNCHANGED <<mem, loc, market, history, crashes>>

\* Mutant: the branches of the command table are swapped.
ApplyRemoteCommandSwapped(i) ==
    LET o == loc[i].ticket IN
    /\ pc[i] = "apply"
    /\ applied' = [applied EXCEPT ![o] = IF @ = 2 THEN 2 ELSE @ + 1]
    /\ mem' = [mem EXCEPT ![i].flags = @ \union {o}]
    /\ Goto(i, "check")
    /\ UNCHANGED <<gv, disk, loc, market, deleted, acked, crashes>>

\* A flag is set in memory; positions may be closed at once, later or never.
ApplyRemoteCommandOnce(i) ==
    LET o == loc[i].ticket IN
    /\ pc[i] = "apply"
    /\ applied' = [applied EXCEPT ![o] = IF @ = 2 THEN 2 ELSE @ + 1]
    /\ closed' \in {closed, closed \union ({o} \intersect Closing)}
    /\ mem' = [mem EXCEPT ![i].flags = @ \union ({o} \intersect Flags)]
    /\ Goto(i, "check")
    /\ UNCHANGED <<gv, disk, loc, book, removal, deleted, acked, crashes>>

RemoteCommandEffectSatisfied(i, o) == o \in closed \/ o \in mem[i].flags

\* Mutant: the effect is acknowledged before it is saved.
EffectSatisfiedUnsaved(i) ==
    /\ pc[i] = "check"
    /\ RemoteCommandEffectSatisfied(i, loc[i].ticket)
    /\ Goto(i, "ack")
    /\ UNCHANGED <<gv, disk, mem, loc, market, history, crashes>>

\* The effect is there: it is saved, and acknowledged in a step of its own.
EffectSatisfied(i) ==
    /\ pc[i] = "check"
    /\ RemoteCommandEffectSatisfied(i, loc[i].ticket)
    /\ Persist(mem[i], i)
    /\ Goto(i, "ack")
    /\ UNCHANGED <<loc, market, history, crashes>>

\* Mutant: a command without effect is applied again.
EffectMissingReplays(i) ==
    /\ pc[i] = "check"
    /\ ~RemoteCommandEffectSatisfied(i, loc[i].ticket)
    /\ Goto(i, "apply")
    /\ UNCHANGED <<gv, disk, mem, loc, market, history, crashes>>

\* Mutant: a command without effect is waited for, the EA goes on trading.
EffectMissingSilent(i) ==
    /\ pc[i] = "check"
    /\ ~RemoteCommandEffectSatisfied(i, loc[i].ticket)
    /\ Goto(i, "rest")
    /\ UNCHANGED <<gv, disk, mem, loc, market, history, crashes>>

\* The effect is not there: nothing is applied again, and the EA stops trading.
EffectMissing(i) ==
    /\ pc[i] = "check"
    /\ ~RemoteCommandEffectSatisfied(i, loc[i].ticket)
    /\ Persist([mem[i] EXCEPT !.enabled = FALSE], i)
    /\ Goto(i, "rest")
    /\ UNCHANGED <<loc, market, history, crashes>>

MarkAppliedTest(i) ==
    /\ pc[i] = "ack"
    /\ Goto(i, IF gv.state = "APPLYING" /\ gv.ticket = loc[i].ticket THEN "acking" ELSE "rest")
    /\ UNCHANGED <<gv, disk, mem, loc, market, history, crashes>>

MarkApplied(i) ==
    /\ pc[i] = "acking"
    /\ Write([gv EXCEPT !.state = "APPLIED"])
    /\ acked' = acked \union {loc[i].ticket}
    /\ Goto(i, "rest")
    /\ UNCHANGED <<mem, loc, market, deleted, applied, crashes>>

\* OnDeinit saves the state store, OnInit loads it.
Deinit(i) ==
    /\ pc[i] = "rest"
    /\ crashes < MaxCrashes /\ crashes' = crashes + 1
    /\ Persist(mem[i], i)
    /\ Goto(i, "down")
    /\ UNCHANGED <<loc, market, history>>

Start(i) ==
    /\ pc[i] = "down"
    /\ mem' = [mem EXCEPT ![i] = gv.store]
    /\ Goto(i, "rest")
    /\ UNCHANGED <<gv, disk, loc, market, history, crashes>>

-----------------------------------------------------------------------------
(* The terminal, the account's owner and the trade server *)

\* The terminal dies: memory and what was not flushed are lost.
Crash ==
    /\ crashes < MaxCrashes /\ crashes' = crashes + 1
    /\ gv' = disk
    /\ pc' = [i \in Instances |-> "down"]
    /\ UNCHANGED <<disk, mem, loc, market, history>>

\* Tickets are never used again.
Place(o) ==
    /\ o \notin book /\ applied[o] = 0 /\ o \notin deleted
    /\ \A i \in Instances : loc[i].ticket # o
    /\ o \notin {gv.ticket, disk.ticket}
    /\ book' = book \union {o}
    /\ UNCHANGED <<gv, disk, mem, pc, loc, removal, closed, history, crashes>>

\* The owner takes an order back, or it is triggered.
Withdraw(o) ==
    /\ o \in book
    /\ book' = book \ {o} /\ removal' = removal \ {o}
    /\ UNCHANGED <<gv, disk, mem, pc, loc, closed, history, crashes>>

\* The server carries a deletion out, or refuses it.
Remove(o) ==
    /\ o \in removal
    /\ removal' = removal \ {o}
    /\ \/ book' = book \ {o} /\ deleted' = deleted \union {o}
       \/ UNCHANGED <<book, deleted>>
    /\ UNCHANGED <<gv, disk, mem, pc, loc, closed, applied, acked, crashes>>

CloseLate(o) ==
    /\ applied[o] > 0 /\ o \in Closing \ closed
    /\ closed' = closed \union {o}
    /\ UNCHANGED <<gv, disk, mem, pc, loc, book, removal, history, crashes>>

Step(i) ==
    \/ Scan(i) \/ ClaimState(i) \/ ClaimTicket(i) \/ Look(i) \/ LookTicket(i)
    \/ FinalizeApplied(i) \/ Clear(i) \/ Blocked(i) \/ Block(i)
    \/ DeleteOrder(i) \/ MarkDeletedTest(i) \/ MarkDeleted(i)
    \/ BeginApply(i) \/ BeginApplyState(i) \/ ApplyRemoteCommandOnce(i)
    \/ EffectSatisfied(i) \/ EffectMissing(i) \/ MarkAppliedTest(i) \/ MarkApplied(i)
    \/ Start(i)

Next ==
    \/ \E i \in Instances : Step(i) \/ DeleteFails(i) \/ Deinit(i)
    \/ \E o \in Orders : Place(o) \/ Withdraw(o) \/ Remove(o) \/ CloseLate(o)
    \/ Crash

Spec == Init /\ [][Next]_vars

\* Ticks keep coming, and a deletion that is asked for again and again is not
\* refused for ever.
Fairness == \A i \in Instances : WF_vars(Step(i)) /\ SF_vars(DeleteOrder(i) \/ Block(i))

FairSpec == Spec /\ Fairness

-----------------------------------------------------------------------------
(* Properties *)

\* No command is executed twice, whatever the instances, crashes and refusals.
AtMostOnce == \A o \in Orders : applied[o] <= 1

\* A command takes effect only when its order is gone from the book for good.
AppliedAfterDelete == \A o \in Orders : applied[o] > 0 => o \in deleted /\ o \notin book

\* A command whose order the EA has deleted is not lost without a trace: it has been
\* applied, or the ledger holds it, in the global variables and on disk.
NothingLost ==
    \A o \in deleted : \/ applied[o] > 0
                       \/ /\ gv.state # "IDLE" /\ gv.ticket = o
                          /\ disk.state # "IDLE" /\ disk.ticket = o

\* What has been acknowledged survives: the flag of an acknowledged command is in
\* the state store on disk.
AckedIsDurable == acked \intersect Flags \subseteq disk.store.flags

\* No claimed command hangs: the ledger gets back to idle, asks for the owner, or
\* stops the EA from trading.
NoSilentStall ==
    gv.state # "IDLE" ~>
    gv.state \in {"IDLE", "BLOCKED"} \/ \A i \in Instances : ~mem[i].enabled

=============================================================================

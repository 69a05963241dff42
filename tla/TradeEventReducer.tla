------------------------- MODULE TradeEventReducer --------------------------
(***************************************************************************)
(* The event reducer of a generated Expert Advisor (CTradeEventReducer)    *)
(* with the handlers that use it.  OnTradeTransaction puts the deal of     *)
(* every event in a queue; both it and OnTick then go through the queue,   *)
(* mark each deal that the history has as processed and, when the deal     *)
(* left its position closed for good, apply what a closed position does to *)
(* the strategy: the lottery factor and the cooldown.                      *)
(*                                                                         *)
(* Queue and marks are global variables, the strategy's state is memory    *)
(* that PersistStateCritical copies there.  The terminal may die between   *)
(* any two steps, and whatever flushes meanwhile (another handler, another *)
(* EA) decides what a restart finds.  Events come late and again.          *)
(***************************************************************************)
EXTENDS Naturals

CONSTANTS
    Deals,       \* the deals of the account
    Positions,
    None,        \* the zero id
    PositionOf,  \* the position a deal closes or helps to close; None: it opens one
    Size,        \* m_slots, of the queue and of the rings of marks
    MaxCrashes   \* bound: how often the terminal dies

ASSUME NoneAssumption == None \notin Deals \union Positions
ASSUME PositionAssumption == PositionOf \in [Deals -> Positions \union {None}]
ASSUME SizeAssumption == Size \in Nat \ {0}
ASSUME CrashAssumption == MaxCrashes \in Nat

VARIABLES
    gv,        \* the global variables: queue, marks and the state store
    disk,      \* ... as last flushed
    mem,       \* the strategy's state
    pc,        \* where the running handler is
    run,       \* its locals: is it OnTick, the slot it is at, the deal, critical
    executed,  \* the deals that happened
    known,     \* ... and that the terminal's history has
    heard,     \* history: the deals OnTradeTransaction saw since the last crash
    done,      \* ... and those marked as processed
    crashes

vars == <<gv, disk, mem, pc, run, executed, known, heard, done, crashes>>
world == <<executed, known, heard, done, crashes>>

Slot == 0 .. Size - 1
Rings(S) == [Slot -> S \union {None}]
Saved == [enabled : BOOLEAN, closed : [Positions -> 0..2]]
Globals == [pending : Rings(Deals), deals : Rings(Deals), dcur : Slot,
            positions : Rings(Positions), pcur : Slot, overflow : BOOLEAN, store : Saved]

\* closed counts the effects of a closed position: 2 is twice or more.
TypeOK ==
    /\ gv \in Globals /\ disk \in Globals
    /\ mem \in Saved
    /\ pc \in {"down", "rest", "process", "scan", "clear", "close", "save", "gate"}
    /\ run \in [tick : BOOLEAN, slot : 0..Size, deal : Deals \union {None}, critical : BOOLEAN]
    /\ pc \in {"clear", "close"} => run.deal \in Deals /\ run.slot < Size
    /\ executed \subseteq Deals /\ known \subseteq executed
    /\ heard \subseteq executed /\ done \subseteq known
    /\ crashes \in 0..MaxCrashes

Ring == [n \in Slot |-> None]
Fresh == [pending |-> Ring, deals |-> Ring, dcur |-> 0, positions |-> Ring, pcur |-> 0,
          overflow |-> FALSE,
          store |-> [enabled |-> TRUE, closed |-> [p \in Positions |-> 0]]]

Init ==
    /\ gv = Fresh /\ disk = Fresh /\ mem = Fresh.store
    /\ pc = "rest"
    /\ run = [tick |-> FALSE, slot |-> 0, deal |-> None, critical |-> FALSE]
    /\ executed = {} /\ known = {} /\ heard = {} /\ done = {}
    /\ crashes = 0

Seen(ring, x) == \E n \in Slot : ring[n] = x

\* A managed position is there until its last deal.
PositionExists(p) == \E d \in Deals \ executed : PositionOf[d] = p

-----------------------------------------------------------------------------
(* The handlers *)

\* The deal is queued in the first free slot.
Queued(d) ==
    \E n \in Slot :
        /\ gv.pending[n] = None /\ \A m \in 0 .. n - 1 : gv.pending[m] # None
        /\ gv' = [gv EXCEPT !.pending[n] = d]

\* Mutant: a full queue drops the deal.
EnqueueDealDropping(d) ==
    IF Seen(gv.deals, d) \/ Seen(gv.pending, d) \/ ~Seen(gv.pending, None)
    THEN UNCHANGED <<gv, mem>> /\ run' = [run EXCEPT !.tick = FALSE, !.critical = FALSE]
    ELSE Queued(d) /\ mem' = mem /\ run' = [run EXCEPT !.tick = FALSE, !.critical = FALSE]

\* EnqueueDeal, and the EA stops when the queue is full.
EnqueueDeal(d) ==
    IF Seen(gv.deals, d) \/ Seen(gv.pending, d)
    THEN UNCHANGED <<gv, mem>> /\ run' = [run EXCEPT !.tick = FALSE, !.critical = FALSE]
    ELSE \/ Queued(d) /\ mem' = mem /\ run' = [run EXCEPT !.tick = FALSE, !.critical = FALSE]
         \/ /\ ~Seen(gv.pending, None)
            /\ gv' = [gv EXCEPT !.overflow = TRUE]
            /\ mem' = [mem EXCEPT !.enabled = FALSE]
            /\ run' = [run EXCEPT !.tick = FALSE, !.critical = TRUE]

OnTradeTransaction(d) ==
    /\ pc = "rest"
    /\ d \in executed
    /\ EnqueueDeal(d)
    /\ heard' = heard \union {d}
    /\ pc' = "process"
    /\ UNCHANGED <<disk, executed, known, done, crashes>>

OnTick ==
    /\ pc = "rest"
    /\ run' = [run EXCEPT !.tick = TRUE, !.critical = FALSE]
    /\ pc' = "process"
    /\ UNCHANGED <<gv, disk, mem, world>>

\* Mutant: the overflow of an earlier run is not looked at.
ProcessRegardless ==
    /\ pc = "process"
    /\ run' = [run EXCEPT !.slot = 0]
    /\ pc' = "scan"
    /\ UNCHANGED <<gv, disk, mem, world>>

\* Mutant: the loop starts one place too late.
ProcessFromSecond ==
    /\ pc = "process"
    /\ IF gv.overflow
       THEN /\ mem' = [mem EXCEPT !.enabled = FALSE]
            /\ run' = [run EXCEPT !.critical = TRUE]
            /\ pc' = "save"
       ELSE /\ mem' = mem
            /\ run' = [run EXCEPT !.slot = 1]
            /\ pc' = "scan"
    /\ UNCHANGED <<gv, disk, world>>

\* ProcessPendingTradeEvents: after an overflow nothing is processed any more.
ProcessPendingTradeEvents ==
    /\ pc = "process"
    /\ IF gv.overflow
       THEN /\ mem' = [mem EXCEPT !.enabled = FALSE]
            /\ run' = [run EXCEPT !.critical = TRUE]
            /\ pc' = "save"
       ELSE /\ mem' = mem
            /\ run' = [run EXCEPT !.slot = 0]
            /\ pc' = "scan"
    /\ UNCHANGED <<gv, disk, world>>

\* The loop leaves alone what the history does not have and what is marked already.
Skip ==
    /\ pc = "scan" /\ run.slot < Size
    /\ LET d == gv.pending[run.slot] IN d = None \/ d \notin known \/ Seen(gv.deals, d)
    /\ run' = [run EXCEPT !.slot = @ + 1]
    /\ UNCHANGED <<gv, disk, mem, pc, world>>

\* Mutant: the cursor of the ring is not wrapped.
AcceptDealUnwrapped ==
    /\ pc = "scan" /\ run.slot < Size
    /\ LET d == gv.pending[run.slot] IN
        /\ d \in known /\ ~Seen(gv.deals, d)
        /\ gv' = [gv EXCEPT !.deals[gv.dcur] = d, !.dcur = @ + 1]
        /\ run' = [run EXCEPT !.deal = d]
        /\ done' = done \union {d}
    /\ pc' = "clear"
    /\ UNCHANGED <<disk, mem, executed, known, heard, crashes>>

\* MarkDealProcessed: the mark goes over the oldest one, ...
AcceptDeal ==
    /\ pc = "scan" /\ run.slot < Size
    /\ LET d == gv.pending[run.slot] IN
        /\ d \in known /\ ~Seen(gv.deals, d)
        /\ gv' = [gv EXCEPT !.deals[gv.dcur] = d, !.dcur = (@ + 1) % Size]
        /\ run' = [run EXCEPT !.deal = d]
        /\ done' = done \union {d}
    /\ pc' = "clear"
    /\ UNCHANGED <<disk, mem, executed, known, heard, crashes>>

\* ... and the deal leaves the queue.
ClearPending ==
    /\ pc = "clear"
    /\ gv' = [gv EXCEPT !.pending = [n \in Slot |-> IF @[n] = run.deal THEN None ELSE @[n]]]
    /\ pc' = "close"
    /\ UNCHANGED <<disk, mem, run, world>>

\* Mutant: every deal of a position that is closed applies the effect.
ApplyTradeDealAgain ==
    /\ pc = "close"
    /\ LET p == PositionOf[run.deal] IN
        IF p # None /\ ~PositionExists(p)
        THEN /\ gv' = gv
             /\ mem' = [mem EXCEPT !.closed[p] = IF @ = 2 THEN 2 ELSE @ + 1]
             /\ run' = [run EXCEPT !.critical = TRUE, !.slot = @ + 1]
        ELSE UNCHANGED <<gv, mem>> /\ run' = [run EXCEPT !.slot = @ + 1]
    /\ pc' = "scan"
    /\ UNCHANGED <<disk, world>>

\* The rest of ApplyTradeDeal: is the position closed now, and for the first time?
ApplyTradeDeal ==
    /\ pc = "close"
    /\ LET p == PositionOf[run.deal] IN
        IF p # None /\ ~PositionExists(p) /\ ~Seen(gv.positions, p)
        THEN /\ gv' = [gv EXCEPT !.positions[gv.pcur] = p, !.pcur = (@ + 1) % Size]
             /\ mem' = [mem EXCEPT !.closed[p] = IF @ = 2 THEN 2 ELSE @ + 1]
             /\ run' = [run EXCEPT !.critical = TRUE, !.slot = @ + 1]
        ELSE UNCHANGED <<gv, mem>> /\ run' = [run EXCEPT !.slot = @ + 1]
    /\ pc' = "scan"
    /\ UNCHANGED <<disk, world>>

LoopEnds ==
    /\ pc = "scan" /\ run.slot = Size
    /\ pc' = "save"
    /\ UNCHANGED <<gv, disk, mem, run, world>>

\* PersistStateCritical, when something critical happened.
PersistState ==
    /\ pc = "save"
    /\ IF run.critical
       THEN gv' = [gv EXCEPT !.store = mem] /\ disk' = gv'
       ELSE UNCHANGED <<gv, disk>>
    /\ pc' = IF run.tick THEN "gate" ELSE "rest"
    /\ UNCHANGED <<mem, run, world>>

\* TickAdmissionGate first looks for a remote command, which may set the flag that
\* enables the EA; the tick ends there.
SetEnabled ==
    /\ pc = "gate"
    /\ \E b \in BOOLEAN : mem' = [mem EXCEPT !.enabled = b]
    /\ gv' = [gv EXCEPT !.store = mem'] /\ disk' = gv'
    /\ pc' = "rest"
    /\ UNCHANGED <<run, world>>

\* The rest of the gate, and what the strategy does behind it.
Trade ==
    /\ pc = "gate"
    /\ pc' = "rest"
    /\ UNCHANGED <<gv, disk, mem, run, world>>

\* OnInit.
Start ==
    /\ pc = "down"
    /\ mem' = gv.store
    /\ pc' = "rest"
    /\ UNCHANGED <<gv, disk, run, world>>

\* OnDeinit.
Stop ==
    /\ pc = "rest"
    /\ crashes < MaxCrashes /\ crashes' = crashes + 1
    /\ gv' = [gv EXCEPT !.store = mem] /\ disk' = gv'
    /\ pc' = "down"
    /\ UNCHANGED <<mem, run, executed, known, heard, done>>

-----------------------------------------------------------------------------
(* The terminal and the broker *)

Flush ==
    /\ disk' = gv
    /\ UNCHANGED <<gv, mem, pc, run, world>>

Crash ==
    /\ crashes < MaxCrashes /\ crashes' = crashes + 1
    /\ gv' = disk
    /\ pc' = "down"
    /\ heard' = {}
    /\ UNCHANGED <<disk, mem, run, executed, known, done>>

Execute(d) ==
    /\ d \notin executed
    /\ executed' = executed \union {d}
    /\ UNCHANGED <<gv, disk, mem, pc, run, known, heard, done, crashes>>

AddToHistory(d) ==
    /\ d \in executed \ known
    /\ known' = known \union {d}
    /\ UNCHANGED <<gv, disk, mem, pc, run, executed, heard, done, crashes>>

Step ==
    \/ ProcessPendingTradeEvents \/ Skip \/ AcceptDeal \/ ClearPending \/ ApplyTradeDeal
    \/ LoopEnds \/ PersistState \/ Trade \/ Start

Next ==
    \/ OnTick \/ Step \/ SetEnabled \/ Stop \/ Flush \/ Crash
    \/ \E d \in Deals : OnTradeTransaction(d) \/ Execute(d) \/ AddToHistory(d)

Spec == Init /\ [][Next]_vars

\* Handlers run to their end, ticks keep coming, and the history catches up.
Fairness ==
    /\ WF_vars(Step) /\ SF_vars(OnTick)
    /\ \A d \in Deals : WF_vars(AddToHistory(d))

FairSpec == Spec /\ Fairness

-----------------------------------------------------------------------------
(* Properties *)

\* A closed position changes the strategy's state at most once, whatever events come
\* again, whatever order its deals come in and whatever a crash leaves behind.
EffectOnce == \A p \in Positions : mem.closed[p] <= 1

\* A deal that was heard of is queued until it is processed, or the EA knows that its
\* queue has overflowed.
HeardNotLost ==
    \A d \in heard : Seen(gv.pending, d) \/ d \in done \/ gv.overflow

\* After an overflow, also one of an earlier run, no tick gets past the gate.
OverflowStopsTrading == pc = "gate" /\ gv.overflow => ~mem.enabled

\* Of a position whose deals have all been heard of, the effect comes, unless the queue
\* overflows or the terminal dies.
EffectComes ==
    \A p \in Positions :
        {d \in Deals : PositionOf[d] = p} \subseteq heard
        ~> mem.closed[p] > 0 \/ gv.overflow \/ crashes > 0

=============================================================================

-------------------------- MODULE TradeIntentLedger -------------------------
(***************************************************************************)
(* The persistent ledger of trade intents of a generated Expert Advisor    *)
(* (class CTradeIntentLedger) and the part of CAsyncTradeExecutor::Open    *)
(* that drives it, with the broker and the terminal as environment.        *)
(*                                                                         *)
(* A slot is an exposure source and a direction.  Open seals the slot with *)
(* an intent before it sends the request, and nothing may be opened from   *)
(* the slot until the intent is finished.  The EA's handlers run one at a  *)
(* time, but the broker moves while they run, its transaction events come  *)
(* late, out of order or never, the answer to a request may be lost, and   *)
(* the terminal may die at any moment: global variables then fall back to  *)
(* what GlobalVariablesFlush last wrote.                                   *)
(*                                                                         *)
(* Request ids, tickets and position ids of an attempt are represented by  *)
(* the attempt itself: the terminal and the broker hand out fresh ones.    *)
(***************************************************************************)
EXTENDS FiniteSets

CONSTANTS
    Slots,        \* <<source, direction>> pairs
    Attempts,     \* bound: the requests to open that a behaviour may make
    None,         \* the zero id
    LegacySlots,  \* slots that may start with an intent of the v1 ledger
    MixedSlots,   \* ... and with an older one of the v2 ledger beside it
    Policies      \* input sets: records [async, block, tagged]

ASSUME NoneAssumption == None \notin Attempts \union Slots
ASSUME SlotsAssumption == MixedSlots \subseteq LegacySlots /\ LegacySlots \subseteq Slots

(***************************************************************************)
(* async  : InpAsyncExecution, the send returns before the broker answers. *)
(* block  : VCK_BLOCK_UNKNOWN_OUTCOME.                                     *)
(* tagged : the broker keeps the comment of a v1 order (migration only).   *)
(***************************************************************************)
ASSUME PoliciesAssumption ==
    Policies \subseteq [async : BOOLEAN, block : BOOLEAN, tagged : BOOLEAN]

VARIABLES
    policy,   \* the inputs, fixed for a behaviour
    up,       \* the EA is loaded and its handlers may run
    todo,     \* slots the running Reconcile() has still to visit
    call,     \* the Open() in progress: [slot, att, at], or NoCall
    gv,       \* the slots as the terminal's global variables hold them
    disk,     \* the slots as last flushed
    slotOf,   \* the slot each attempt was made for (None: not made yet)
    expired,  \* TimeCurrent()-created >= m_timeout, of each attempt
    term,     \* the durable audit record of each attempt: terminal_state
    opclr,    \* ... and operator_clear_code
    order,    \* the broker's state of each attempt's order
    cord      \* the order that closes the attempt's position

broker == <<order, cord>>
audit  == <<term, opclr>>
vars == <<policy, up, todo, call, gv, disk, slotOf, expired, audit, broker>>

-----------------------------------------------------------------------------
(* Values *)

States == {"NONE", "PREPARED", "SUBMITTED", "ACKNOWLEDGED", "PARTIAL",
           "FILLED", "UNKNOWN", "REJECTED", "OPERATOR_REQUIRED"}
Final == {"FILLED", "REJECTED"}

\* A ticket names the order that opens an attempt's position or closes it.
NoTicket == <<None, "none">>
Tickets  == (Attempts \X {"open", "close"}) \union {NoTicket}
Ids == Attempts \union {None}

\* A deal handle always comes with the handle of its order, which ReconcileSlot
\* looks at first: it is left out.
Slot == [id : Ids, st : States, req : Ids, ord : Tickets, pos : Ids,
         mig : BOOLEAN, legacy : Ids]

Empty(legacy) ==
    [id |-> None, st |-> "NONE", req |-> None, ord |-> NoTicket, pos |-> None,
     mig |-> FALSE, legacy |-> legacy]

\* A handler that finishes an intent flushes three times: the state, the
\* audit record, the cleared slot.  It may die after any of them.
Stops == {"state", "audit", "done"}

NoCall == [slot |-> None, att |-> None, at |-> "idle"]
Calls  == [slot : Slots, att : Attempts, at : {"prepared", "sent"}]

\* "closed" is cancelled, expired or rejected with nothing traded, "cut" the same
\* after a partial fill.
OrderStates == {"none", "sent", "refused", "live", "partial", "filled", "closed", "cut"}
Accepted == {"PLACED", "DONE", "DONE_PARTIAL"}

TypeOK ==
    /\ policy \in Policies
    /\ up \in BOOLEAN
    /\ todo \subseteq Slots
    /\ call \in Calls \union {NoCall}
    /\ gv \in [Slots -> Slot] /\ disk \in [Slots -> Slot]
    /\ slotOf \in [Attempts -> Slots \union {None}]
    /\ expired \in [Attempts -> BOOLEAN]
    /\ term \in [Attempts -> Final \union {"none"}]
    /\ opclr \in [Attempts -> BOOLEAN]
    /\ order \in [Attempts -> OrderStates]
    /\ cord \in [Attempts -> {"none", "live", "filled", "closed"}]

-----------------------------------------------------------------------------
(* What the terminal's trade functions tell the ledger *)

Traded(a) == order[a] \in {"partial", "filled", "cut"}

OrderState(t) ==
    IF t = NoTicket THEN "none"
    ELSE IF t[2] = "open" THEN order[t[1]] ELSE cord[t[1]]

HistoryDealForOrder(t) ==
    /\ t # NoTicket
    /\ IF t[2] = "open" THEN Traded(t[1]) ELSE cord[t[1]] = "filled"

LivePositionIdentity(p) == p # None /\ Traded(p) /\ cord[p] # "filled"

-----------------------------------------------------------------------------
(* ReconcileSlot and MigrateLegacySlot.  Each returns the slot after the    *)
(* call and how it got there: "kept" (nothing flushed), "set" (a state was  *)
(* set, and with it everything flushed) or the final state to finish with.  *)
(* h: HistorySelect succeeded.                                              *)

Kept(r) == [rec |-> r, how |-> "kept"]
SetTo(r, st) == [rec |-> [r EXCEPT !.st = st], how |-> "set"]
FinishAs(r, st) == [rec |-> r, how |-> st]

\* Mutant: the timeout authorises a retry.
EscalateByReleasing(r) ==
    IF r.st \in {"UNKNOWN", "PREPARED", "SUBMITTED"} /\ expired[r.id]
    THEN FinishAs(r, "REJECTED") ELSE Kept(r)

\* Mutant: a submitted intent is not among those that expire.
EscalateNotSubmitted(r) ==
    IF r.st \in {"UNKNOWN", "PREPARED"} /\ expired[r.id]
    THEN SetTo(r, "OPERATOR_REQUIRED") ELSE Kept(r)

EscalateExpiredIntent(r) ==
    IF r.st \in {"UNKNOWN", "PREPARED", "SUBMITTED"} /\ expired[r.id]
    THEN SetTo(r, "OPERATOR_REQUIRED") ELSE Kept(r)

HasObservedIdentity(r) ==
    HistoryDealForOrder(r.ord) \/ LivePositionIdentity(r.pos)

\* Mutant: a cancelled order is taken to have traded nothing.
ReconcileSlotIgnoringDeals(r, h) ==
    LET x == OrderState(r.ord) IN
    IF x \in {"closed", "cut"} /\ h THEN FinishAs(r, "REJECTED")
    ELSE IF x = "filled" /\ h THEN FinishAs(r, "FILLED")
    ELSE Kept(r)

ReconcileSlot(r, h) ==
    LET x == OrderState(r.ord) IN
    IF x = "partial" THEN SetTo(r, "PARTIAL")
    ELSE IF x = "live" THEN SetTo(r, "ACKNOWLEDGED")
    ELSE IF ~h THEN Kept(r)
    ELSE IF x \in {"filled", "cut"} THEN FinishAs(r, "FILLED")
    ELSE IF x = "closed" THEN FinishAs(r, "REJECTED")
    ELSE IF HasObservedIdentity(r) THEN SetTo(r, "PARTIAL")
    ELSE EscalateExpiredIntent(r)

\* Mutant: the two handles are swapped.
CapturedSwapped(r, ticket, pos) == [r EXCEPT !.ord = pos, !.pos = ticket]

Captured(r, ticket, pos) == [r EXCEPT !.ord = ticket, !.pos = pos]

\* Mutant: a v1 intent nothing is found of is taken to have failed.
CaptureOrReject(r, h) == FinishAs(r, "REJECTED")

\* The orders, positions and deals whose comment carries the v1 id.
CaptureLegacyIdentity(r, h) ==
    LET a == r.legacy
        x == IF policy.tagged THEN order[a] ELSE "none"
        alive  == x \in {"live", "partial"}
        posn   == x # "none" /\ LivePositionIdentity(a)
        ended  == h /\ x \in {"filled", "closed", "cut"}
        dealt  == h /\ x # "none" /\ Traded(a)
        found  == Captured(r, IF alive \/ ended \/ dealt THEN <<a, "open">> ELSE r.ord,
                              IF posn THEN a ELSE r.pos)
    IN  IF ended THEN FinishAs(found, IF Traded(a) THEN "FILLED" ELSE "REJECTED")
        ELSE IF posn \/ dealt \/ x = "partial" THEN SetTo(found, "PARTIAL")
        ELSE IF alive THEN SetTo(found, "ACKNOWLEDGED")
        ELSE Kept(r)

MigrateLegacySlot(r, h) ==
    IF r.legacy = None THEN Kept(r)
    ELSE IF r.id \notin {None, r.legacy} THEN SetTo(r, "OPERATOR_REQUIRED")
    ELSE LET claimed == IF r.id = None
                        THEN [r EXCEPT !.id = r.legacy, !.mig = TRUE, !.st = "UNKNOWN"]
                        ELSE [r EXCEPT !.mig = TRUE]
             found == CaptureLegacyIdentity(claimed, h)
         IN  IF found.how = "kept" /\ r.id = None
             THEN SetTo(claimed, "UNKNOWN") ELSE found

\* Mutant: the v1 slot is not looked at.
SettleV2Only(r, h) == IF r.id = None THEN Kept(r) ELSE ReconcileSlot(r, h)

\* What Prepare and Reconcile both do before they look at the slot's id.
Settle(r, h) ==
    LET m == MigrateLegacySlot(r, h) IN
    IF m.how \in Final \/ m.rec.id = None THEN m
    ELSE LET q == ReconcileSlot(m.rec, h) IN
         IF q.how = "kept" THEN m ELSE q

-----------------------------------------------------------------------------
(* SetState, RecordTerminal, Clear *)

Clear(r) == Empty(IF r.mig THEN None ELSE r.legacy)

\* The slot when a handler with outcome o stops at k.
Landed(o, k) ==
    IF o.how \notin Final THEN o.rec
    ELSE IF k = "done" THEN Clear(o.rec) ELSE [o.rec EXCEPT !.st = o.how]

\* Mutant: the slot is cleared without a record.
RecordNothing(o, k) == term

RecordTerminal(o, k) ==
    IF o.how \in Final /\ k \in {"audit", "done"}
    THEN [term EXCEPT ![o.rec.id] = o.how] ELSE term

\* Slot s gets outcome o; a handler that stops early takes the EA with it.
Settled(s, o, k) ==
    /\ k = "done" \/ o.how \in Final
    /\ gv' = [gv EXCEPT ![s] = Landed(o, k)]
    /\ disk' = IF o.how = "kept" THEN disk ELSE gv'
    /\ term' = RecordTerminal(o, k)
    /\ up' = (k = "done")
    /\ todo' = IF k = "done" THEN todo \ {s} ELSE {}

Idle == up /\ todo = {} /\ call = NoCall

-----------------------------------------------------------------------------
(* Open: Prepare, the send, and what is made of its result *)

\* The slot is sealed, or the handler dies while finishing what sealed it.
PrepareBlocked(s, h, k) ==
    /\ Idle
    /\ LET o == Settle(gv[s], h)
           late == /\ o.how \notin Final
                   /\ ~policy.block /\ expired[o.rec.id]
       IN  /\ o.rec.id # None /\ (o.how \in Final => k # "done")
           /\ Settled(s, IF late THEN SetTo(o.rec, "OPERATOR_REQUIRED") ELSE o, k)
    /\ UNCHANGED <<policy, call, slotOf, expired, opclr, broker>>

\* The slot is free, or what sealed it is finished now: a new intent.
Prepare(s, h, a) ==
    /\ Idle
    /\ slotOf[a] = None
    /\ LET o == Settle(gv[s], h)
           r == Landed(o, "done")
       IN  /\ r.id = None
           /\ gv' = [gv EXCEPT ![s] = [r EXCEPT !.id = a, !.st = "PREPARED"]]
           /\ term' = RecordTerminal(o, "done")
    /\ disk' = gv'
    /\ slotOf' = [slotOf EXCEPT ![a] = s]
    /\ call' = [slot |-> s, att |-> a, at |-> "prepared"]
    /\ UNCHANGED <<policy, up, todo, expired, opclr, broker>>

\* CTrade::Buy or CTrade::Sell hands the request to the terminal.
Send ==
    /\ up /\ call.at = "prepared"
    /\ order' = [order EXCEPT ![call.att] = "sent"]
    /\ call' = [call EXCEPT !.at = "sent"]
    /\ UNCHANGED <<policy, up, todo, gv, disk, slotOf, expired, audit, cord>>

Returned(o, k) ==
    /\ Settled(call.slot, o, k)
    /\ call' = NoCall
    /\ UNCHANGED <<policy, slotOf, expired, opclr, broker>>

\* The retcodes the broker may answer a request with, given where its order has got
\* to: it need not have waited for the order, nor a refusal have a definite retcode.
AnswersTo(a) ==
    CASE order[a] = "refused"            -> {"REJECT", "OTHER"}
      [] order[a] \in {"live", "closed"} -> {"PLACED"}
      [] order[a] \in {"partial", "cut"} -> {"PLACED", "DONE_PARTIAL"}
      [] order[a] = "filled"             -> {"PLACED", "DONE_PARTIAL", "DONE"}
      [] OTHER                           -> {}

\* An asynchronous send is accepted with PLACED and no ticket; a synchronous
\* one returns the broker's answer.
MarkSubmitted(code, k) ==
    LET a == call.att
        r == [gv[call.slot] EXCEPT !.req = a,
                                   !.ord = IF policy.async THEN NoTicket ELSE <<a, "open">>]
    IN  Returned(IF code = "DONE" THEN FinishAs(r, "FILLED")
                 ELSE SetTo(r, IF code = "PLACED" THEN "SUBMITTED" ELSE "PARTIAL"), k)

MarkUnknown(req) ==
    Returned(SetTo([gv[call.slot] EXCEPT !.req = req, !.ord = NoTicket], "UNKNOWN"), "done")

MarkRejected(k) == Returned(FinishAs(gv[call.slot], "REJECTED"), k)

Return ==
    /\ up /\ call.at = "sent"
    /\ \/ \E code \in IF policy.async THEN {"PLACED"} ELSE AnswersTo(call.att) \intersect Accepted,
             k \in Stops : MarkSubmitted(code, k)
       \* a definite retcode and no submission: nothing reached the market
       \/ /\ order[call.att] = "refused"
          /\ \E k \in Stops : MarkRejected(k)
       \* a timeout, a lost connection, or a retcode that settles nothing
       \/ \E req \in {call.att, None} : MarkUnknown(req)

-----------------------------------------------------------------------------
(* OnTransaction.  Every event that has been raised may arrive, at any later *)
(* time and more than once; one that never arrives is lost.                  *)

Event(kind, req, ticket, pos, code) ==
    [kind |-> kind, req |-> req, ticket |-> ticket, pos |-> pos, code |-> code]

RequestEvents(a) ==
    {Event("request", a, IF c \in Accepted THEN <<a, "open">> ELSE NoTicket, None, c) :
        c \in AnswersTo(a)}

\* The states the opening order is in or may have gone through.
Passed(a) ==
    (IF order[a] \in {"live", "partial", "filled", "closed", "cut"} THEN {"live"} ELSE {})
    \union (IF Traded(a) THEN {"partial"} ELSE {})
    \union ({order[a]} \intersect {"filled", "closed", "cut"})

OrderEvents(a) ==
    {Event("order", None, <<a, "open">>, IF Traded(a) THEN a ELSE None, x) : x \in Passed(a)}

\* An order that closes a position carries the position's id.
CloseEvents(a) ==
    IF cord[a] = "none" THEN {}
    ELSE {Event("order", None, <<a, "close">>, a, x) : x \in {"live", cord[a]}}

DealEvents(a) ==
    (IF Traded(a) THEN {Event("deal", None, <<a, "open">>, a, "add")} ELSE {})
    \union (IF cord[a] = "filled" THEN {Event("deal", None, <<a, "close">>, a, "add")} ELSE {})

Raised ==
    UNION {RequestEvents(a) \union OrderEvents(a) \union CloseEvents(a) \union DealEvents(a) :
           a \in Attempts}

\* Mutant: the zero position matches.
FindByAnyPosition(e) == {s \in Slots : gv[s].pos = e.pos}

FindByRequest(e)  == {s \in Slots : e.req # None /\ gv[s].req = e.req}
FindByOrder(e)    == {s \in Slots : e.ticket # NoTicket /\ gv[s].ord = e.ticket}
FindByPosition(e) == {s \in Slots : e.pos # None /\ gv[s].pos = e.pos}

Matched(e) ==
    IF FindByRequest(e) # {} THEN FindByRequest(e)
    ELSE IF FindByOrder(e) # {} THEN FindByOrder(e)
    ELSE FindByPosition(e)

CaptureTransactionIdentity(r, e) ==
    Captured(r, IF e.ticket # NoTicket THEN e.ticket ELSE r.ord,
                IF e.pos # None THEN e.pos ELSE r.pos)

\* Mutant: a deal completes the intent.
ApplyDealAsFinal(r, e) ==
    IF e.kind = "deal" THEN FinishAs(r, "FILLED") ELSE Kept(r)

ApplyTransactionOutcome(r, e) ==
    IF e.code = "REJECT" THEN FinishAs(r, "REJECTED")
    ELSE IF e.code \in {"DONE_PARTIAL", "partial"} THEN SetTo(r, "PARTIAL")
    ELSE IF e.code \in {"DONE", "filled"} THEN FinishAs(r, "FILLED")
    ELSE IF e.kind = "deal" THEN SetTo(r, "PARTIAL")
    ELSE IF e.code = "PLACED" THEN SetTo(r, "ACKNOWLEDGED")
    ELSE Kept(r)

OnTransaction ==
    /\ Idle
    /\ \E e \in Raised : \E s \in Matched(e), k \in Stops :
          Settled(s, ApplyTransactionOutcome(CaptureTransactionIdentity(gv[s], e), e), k)
    /\ UNCHANGED <<policy, call, slotOf, expired, opclr, broker>>

-----------------------------------------------------------------------------
(* Reconcile, the operator, crash and restart *)

\* OnTick gets as far as Trade.Reconcile().
Tick ==
    /\ Idle
    /\ todo' = Slots
    /\ UNCHANGED <<policy, up, call, gv, disk, slotOf, expired, audit, broker>>

\* The loop's body: it visits a slot, and skips one without an id.
Reconcile(s, h, k) ==
    /\ up /\ s \in todo
    /\ Settled(s, Settle(gv[s], h), k)
    /\ UNCHANGED <<policy, call, slotOf, expired, opclr, broker>>

\* A finished v1 intent leaves the slot empty, and the flag that it had been
\* migrated goes with it: the v1 keys are deleted too.
OperatorClear(s, k) ==
    /\ Idle
    /\ gv[s].id # None
    /\ gv' = [gv EXCEPT ![s] = IF k = "done" THEN Clear(@)
                               ELSE [@ EXCEPT !.st = "OPERATOR_REQUIRED"]]
    /\ disk' = gv'
    /\ opclr' = [opclr EXCEPT ![gv[s].id] = @ \/ k # "state"]
    /\ up' = (k = "done")
    /\ UNCHANGED <<policy, todo, call, slotOf, expired, term, broker>>

\* The EA is unloaded, or the terminal dies with it: then the global variables
\* are those of the last flush.
Crash ==
    /\ up
    /\ up' = FALSE
    /\ gv' \in {gv, disk}
    /\ todo' = {}
    /\ call' = NoCall
    /\ UNCHANGED <<policy, disk, slotOf, expired, audit, broker>>

\* OnInit: Configure migrates the v1 slots, then Reconcile visits every slot.
Restart ==
    /\ ~up
    /\ up' = TRUE
    /\ todo' = Slots
    /\ UNCHANGED <<policy, call, gv, disk, slotOf, expired, audit, broker>>

-----------------------------------------------------------------------------
(* The broker and the clock *)

BrokerReceive(a) ==
    /\ order[a] = "sent"
    /\ \E x \in {"live", "refused"} : order' = [order EXCEPT ![a] = x]
    /\ UNCHANGED cord

BrokerFill(a) ==
    /\ \/ order[a] = "live" /\ order' = [order EXCEPT ![a] = "partial"]
       \/ order[a] \in {"live", "partial"} /\ order' = [order EXCEPT ![a] = "filled"]
    /\ UNCHANGED cord

\* Cancelled, expired, or rejected after it was accepted.
BrokerEnd(a) ==
    /\ \/ order[a] = "live" /\ order' = [order EXCEPT ![a] = "closed"]
       \/ order[a] = "partial" /\ order' = [order EXCEPT ![a] = "cut"]
    /\ UNCHANGED cord

\* A stop, a target or the EA's own exit closes the position.
ClosePosition(a) ==
    /\ \/ cord[a] = "none" /\ Traded(a) /\ cord' = [cord EXCEPT ![a] = "live"]
       \/ cord[a] = "live" /\ \E x \in {"filled", "closed"} : cord' = [cord EXCEPT ![a] = x]
    /\ UNCHANGED order

Broker(a) ==
    /\ BrokerReceive(a) \/ BrokerFill(a) \/ BrokerEnd(a) \/ ClosePosition(a)
    /\ UNCHANGED <<policy, up, todo, call, gv, disk, slotOf, expired, audit>>

\* Only the age of an intent that seals its slot is ever read.
Elapse(s) ==
    /\ gv[s].id # None /\ ~expired[gv[s].id]
    /\ expired' = [expired EXCEPT ![gv[s].id] = TRUE]
    /\ UNCHANGED <<policy, up, todo, call, gv, disk, slotOf, audit, broker>>

-----------------------------------------------------------------------------

\* The EA was upgraded while the request of a v1 intent was under way; in a mixed
\* slot it had run v2 before, and was put back to v1 with a v2 intent unresolved.
Older(id) == [Empty(None) EXCEPT !.id = id, !.st = IF id = None THEN @ ELSE "UNKNOWN",
                                 !.req = id]

Init ==
    /\ policy \in Policies
    /\ up = FALSE /\ todo = {} /\ call = NoCall
    /\ \E v1 \in [LegacySlots -> Ids], v2 \in [MixedSlots -> Ids] :
        /\ gv = [s \in Slots |->
                    [Older(IF s \in MixedSlots THEN v2[s] ELSE None) EXCEPT
                        !.legacy = IF s \in LegacySlots THEN v1[s] ELSE None]]
        /\ slotOf \in [Attempts -> Slots \union {None}]
        /\ \A a \in Attempts, s \in Slots : slotOf[a] = s <=> a \in {gv[s].id, gv[s].legacy}
        /\ \A s \in Slots : gv[s].id = gv[s].legacy => gv[s].id = None
    /\ order = [a \in Attempts |-> IF slotOf[a] = None THEN "none" ELSE "sent"]
    /\ disk = gv
    /\ expired = [a \in Attempts |-> FALSE]
    /\ term = [a \in Attempts |-> "none"]
    /\ opclr = [a \in Attempts |-> FALSE]
    /\ cord = [a \in Attempts |-> "none"]

Next ==
    \/ Tick \/ Send \/ Return \/ OnTransaction \/ Crash \/ Restart
    \/ \E s \in Slots, h \in BOOLEAN :
        \/ \E k \in Stops : PrepareBlocked(s, h, k) \/ Reconcile(s, h, k)
        \/ \E a \in Attempts : Prepare(s, h, a)
    \/ \E s \in Slots, k \in Stops : OperatorClear(s, k)
    \/ \E a \in Attempts : Broker(a)
    \/ \E s \in Slots : Elapse(s)

Spec == Init /\ [][Next]_vars

\* OnTick keeps reaching Trade.Reconcile, OnInit follows a crash, Open returns,
\* the clock runs, and of the calls of HistorySelect not all fail for ever.
Fairness ==
    /\ WF_vars(Tick) /\ WF_vars(Restart) /\ WF_vars(Send) /\ WF_vars(Return)
    /\ \A s \in Slots : /\ WF_vars(\E h \in BOOLEAN : Reconcile(s, h, "done"))
                        /\ SF_vars(Reconcile(s, TRUE, "done"))
                        /\ WF_vars(Elapse(s))

FairSpec == Spec /\ Fairness

-----------------------------------------------------------------------------
(* Properties *)

Ended == {"refused", "filled", "closed", "cut"}

\* What the ledger takes for the end of an attempt: the request was refused, the
\* opening order ended, the operator cleared the intent, or the order that closes
\* the position ended.
Evidence(a) ==
    \/ order[a] \in Ended
    \/ opclr[a]
    \/ cord[a] \in {"filled", "closed"}

\* Sealed in the global variables and in what a restart of the terminal would find.
Sealed(a) ==
    \E s \in Slots : a \in {gv[s].id, gv[s].legacy} /\ a \in {disk[s].id, disk[s].legacy}

Made(a) == slotOf[a] # None

\* A slot is given up, by whatever handler and across any crash, only for an attempt
\* with evidence: no timeout, lost answer or late event lets the strategy open twice.
SealedUntilAccounted ==
    \A a \in Attempts : Made(a) => Sealed(a) \/ Evidence(a)

\* A slot is given up only after the audit record that says why is on disk.
AuditedRelease ==
    \A a \in Attempts : Made(a) => Sealed(a) \/ term[a] # "none" \/ opclr[a]

\* The audit record is true of the market: FILLED says the order traded, REJECTED that
\* it did not (unless the order it followed was the one closing the position).
TruthfulAudit ==
    \A a \in Attempts :
        /\ term[a] = "FILLED" => Traded(a)
        /\ term[a] = "REJECTED" => ~Traded(a) \/ cord[a] = "closed"

\* Correlation: whatever events arrive, the handles a slot has captured are those of
\* the attempt it is sealed by, so that no event can finish another slot's intent.
HandlesAreOwn ==
    \A s \in Slots :
        LET r == gv[s] IN
        /\ r.req \in {None, r.id} /\ r.pos \in {None, r.id}
        /\ r.ord[1] \in {None, r.id}

\* Nobody waits for ever: an intent without an outcome is in the end resolved or handed
\* to the operator.
SealedIntentEscalates ==
    \A s \in Slots :
        gv[s].st \in {"PREPARED", "SUBMITTED", "UNKNOWN"} ~>
        gv[s].st \notin {"PREPARED", "SUBMITTED", "UNKNOWN"}

\* The ledger implements the seal.
Holds(s) == {gv[s].id, gv[s].legacy} \ {None}

Seal == INSTANCE IntentSeal WITH
    held      <- [s \in Slots |-> Holds(s)],
    spent     <- {a \in Attempts : Made(a)},
    accounted <- {a \in Attempts : Evidence(a)}

SealSpec == Seal!Spec

\* Contradicted: the slot is kept until the opening order itself has ended.
SealedUntilOrderEnds ==
    \A a \in Attempts :
        Made(a) => \/ Sealed(a) \/ opclr[a]
                   \/ order[a] \in Ended

\* Contradicted: nothing is opened from a slot that a v1 intent still seals.
NoIntentOverLegacy ==
    [][\A s \in Slots : gv'[s].id \notin {None, gv[s].id, gv[s].legacy} => gv'[s].legacy = None]_vars

=============================================================================

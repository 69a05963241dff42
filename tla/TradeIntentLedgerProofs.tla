----------------------- MODULE TradeIntentLedgerProofs ----------------------
(***************************************************************************)
(* Theorems about TradeIntentLedger, for all slots, attempts and policies. *)
(***************************************************************************)
EXTENDS TradeIntentLedger, TLAPS

(* The inductive invariant.  What a slot says, in the global variables and   *)
(* on disk, is about the attempt it is sealed by, which was made for it.     *)
SlotOk(s, r) ==
    /\ r.req \in {None, r.id} /\ r.pos \in {None, r.id} /\ r.ord[1] \in {None, r.id}
    /\ r.id # None => slotOf[r.id] = s
    /\ r.legacy # None => slotOf[r.legacy] = s
    /\ r.mig => r.id = r.legacy /\ r.id # None

\* What a flush writes holds the same attempts as what it replaces: a handler
\* changes who seals a slot, and flushes, in one go.
SameSeal(s) == gv[s].id = disk[s].id /\ gv[s].legacy = disk[s].legacy

\* Open runs to its end with the slot it prepared.
CallOk ==
    call # NoCall =>
        /\ up /\ todo = {} /\ gv[call.slot].id = call.att
        /\ call.at = "prepared" => order[call.att] = "none"

\* Only what has traded can be closed, and a true record stays true.
MarketOk ==
    \A a \in Attempts :
        /\ ~Made(a) => order[a] = "none"
        /\ cord[a] # "none" => Traded(a)
        /\ term[a] = "FILLED" => Traded(a)
        /\ term[a] = "REJECTED" => order[a] \in {"refused", "closed"} \/ cord[a] = "closed"

Released(a) == Made(a) /\ \A s \in Slots : a \notin Holds(s)

ReleaseOk == \A a \in Attempts : Released(a) => Evidence(a) /\ (term[a] # "none" \/ opclr[a])

IInv ==
    /\ TypeOK
    /\ \A s \in Slots : SlotOk(s, gv[s]) /\ SlotOk(s, disk[s]) /\ SameSeal(s)
    /\ CallOk /\ MarketOk /\ ReleaseOk

-----------------------------------------------------------------------------
(* What the ledger's functions return *)

Hows == {"kept", "set", "FILLED", "REJECTED"}

\* An outcome that a handler may land slot s with, the slot now being r.
OutcomeOk(s, r, o) ==
    /\ o \in [rec : Slot, how : Hows]
    /\ SlotOk(s, o.rec) /\ o.rec.legacy = r.legacy
    /\ o.rec.id = r.id \/ (r.id = None /\ o.rec.id = r.legacy /\ o.how # "kept")
    /\ o.how \in Final => o.rec.id # None /\ Evidence(o.rec.id)
    /\ o.how = "FILLED" => Traded(o.rec.id)
    /\ o.how = "REJECTED" => \/ order[o.rec.id] \in {"refused", "closed"}
                             \/ cord[o.rec.id] = "closed"

\* ReconcileSlot finishes an intent only when an order of its own has ended.
LEMMA ReconcileSlotOk ==
    ASSUME IInv, NEW s \in Slots, NEW r \in Slot, SlotOk(s, r), r.id # None, NEW h \in BOOLEAN
    PROVE  OutcomeOk(s, r, ReconcileSlot(r, h))
<1> DEFINE x == OrderState(r.ord)
<1>1. /\ \A st \in States : [r EXCEPT !.st = st] \in Slot
      /\ \A st \in States : SlotOk(s, [r EXCEPT !.st = st])
  BY DEF Slot, SlotOk
<1>2. \A st \in States : OutcomeOk(s, r, SetTo(r, st))
  BY <1>1 DEF OutcomeOk, SetTo, Hows, Final, Slot
<1>3. OutcomeOk(s, r, Kept(r))
  BY DEF OutcomeOk, Kept, Hows, Final, Slot
<1>4. r.id \in Attempts
  BY DEF Slot, Ids
<1>5. x # "none" => r.ord[1] = r.id /\ x = (IF r.ord[2] = "open" THEN order[r.id] ELSE cord[r.id])
  BY NoneAssumption DEF OrderState, SlotOk, Slot, Tickets, NoTicket
<1>6. CASE x \in {"filled", "cut"}
  <2>1. Evidence(r.id) /\ Traded(r.id)
    BY <1>4, <1>5, <1>6 DEF Evidence, Ended, Traded, IInv, MarketOk, TypeOK
  <2>2. OutcomeOk(s, r, FinishAs(r, "FILLED"))
    BY <2>1 DEF OutcomeOk, FinishAs, Hows, Final, Slot
  <2> QED BY <1>3, <1>6, <2>2 DEF ReconcileSlot
<1>7. CASE x = "closed"
  <2>1. Evidence(r.id) /\ (order[r.id] = "closed" \/ cord[r.id] = "closed")
    BY <1>5, <1>7 DEF Evidence, Ended
  <2>2. OutcomeOk(s, r, FinishAs(r, "REJECTED"))
    BY <2>1 DEF OutcomeOk, FinishAs, Hows, Final, Slot
  <2> QED BY <1>3, <1>7, <2>2 DEF ReconcileSlot
<1>8. CASE x \notin {"filled", "cut", "closed"}
  BY <1>2, <1>3, <1>8 DEF ReconcileSlot, EscalateExpiredIntent, States
<1> QED BY <1>6, <1>7, <1>8

\* Capturing an identity of the slot's own attempt leaves the slot well formed.
LEMMA CapturedOk ==
    ASSUME NEW s \in Slots, NEW r \in Slot, SlotOk(s, r),
           NEW t \in Tickets, t[1] \in {None, r.id}, NEW p \in Ids, p \in {None, r.id}
    PROVE  /\ Captured(r, t, p) \in Slot /\ SlotOk(s, Captured(r, t, p))
           /\ Captured(r, t, p).id = r.id /\ Captured(r, t, p).legacy = r.legacy
  BY DEF Captured, Slot, SlotOk

\* A migrated v1 intent is finished only when the order with its comment has ended.
LEMMA CaptureLegacyIdentityOk ==
    ASSUME IInv, NEW s \in Slots, NEW r \in Slot, SlotOk(s, r),
           r.id # None, r.mig, NEW h \in BOOLEAN
    PROVE  OutcomeOk(s, r, CaptureLegacyIdentity(r, h))
<1> DEFINE a == r.legacy
<1>1. a = r.id /\ a \in Attempts
  BY DEF SlotOk, Slot, Ids
<1>2. ASSUME NEW t \in {r.ord, <<a, "open">>}, NEW p \in {r.pos, a}
      PROVE  Captured(r, t, p) \in Slot /\ SlotOk(s, Captured(r, t, p)) /\ Captured(r, t, p).id = a
             /\ Captured(r, t, p).legacy = a
  <2>1. t \in Tickets /\ t[1] \in {None, r.id}
    BY <1>1 DEF Tickets, Slot, SlotOk
  <2>2. p \in Ids /\ p \in {None, r.id}
    BY <1>1 DEF Ids, Slot, SlotOk
  <2> QED BY <1>1, <2>1, <2>2, CapturedOk
<1>3. ASSUME NEW t \in {r.ord, <<a, "open">>}, NEW p \in {r.pos, a}, NEW st \in States
      PROVE  OutcomeOk(s, r, SetTo(Captured(r, t, p), st))
  BY <1>1, <1>2 DEF OutcomeOk, SetTo, Hows, Final, Slot, SlotOk
<1>4. ASSUME NEW t \in {r.ord, <<a, "open">>}, NEW p \in {r.pos, a},
             order[a] \in {"filled", "closed", "cut"}
      PROVE  OutcomeOk(s, r, FinishAs(Captured(r, t, p), IF Traded(a) THEN "FILLED" ELSE "REJECTED"))
  <2>1. Evidence(a) /\ (~Traded(a) => order[a] = "closed")
    BY <1>4 DEF Evidence, Ended, Traded
  <2> QED BY <1>1, <1>2, <2>1 DEF OutcomeOk, FinishAs, Hows, Final
<1>5. OutcomeOk(s, r, Kept(r))
  BY DEF OutcomeOk, Kept, Hows, Final, Slot
<1> QED BY <1>3, <1>4, <1>5 DEF CaptureLegacyIdentity, States

\* Migration hands a v1 intent to the v2 slot, or reports the conflict: it never frees
\* the slot of an attempt that is not accounted for.
LEMMA MigrateLegacySlotOk ==
    ASSUME IInv, NEW s \in Slots, NEW r \in Slot, SlotOk(s, r), NEW h \in BOOLEAN
    PROVE  OutcomeOk(s, r, MigrateLegacySlot(r, h))
<1>1. CASE r.legacy = None \/ r.id \notin {None, r.legacy}
  <2>1. OutcomeOk(s, r, Kept(r))
    BY DEF OutcomeOk, Kept, Hows, Final, Slot
  <2>2. OutcomeOk(s, r, SetTo(r, "OPERATOR_REQUIRED"))
    BY DEF OutcomeOk, SetTo, Hows, Final, Slot, SlotOk, States
  <2> QED BY <1>1, <2>1, <2>2 DEF MigrateLegacySlot
<1>2. CASE r.legacy # None /\ r.id \in {None, r.legacy}
  <2> DEFINE claimed == IF r.id = None
                        THEN [r EXCEPT !.id = r.legacy, !.mig = TRUE, !.st = "UNKNOWN"]
                        ELSE [r EXCEPT !.mig = TRUE]
             found == CaptureLegacyIdentity(claimed, h)
  <2>1. /\ claimed \in Slot /\ SlotOk(s, claimed)
        /\ claimed.id # None /\ claimed.mig
        /\ claimed.legacy = r.legacy /\ claimed.id = r.legacy
    BY <1>2 DEF Slot, SlotOk, States
  <2>2. OutcomeOk(s, claimed, found)
    BY <2>1, CaptureLegacyIdentityOk
  <2>3. OutcomeOk(s, claimed, SetTo(claimed, "UNKNOWN"))
    BY <2>1 DEF OutcomeOk, SetTo, Hows, Final, Slot, SlotOk, States
  <2>4. MigrateLegacySlot(r, h) =
          IF found.how = "kept" /\ r.id = None THEN SetTo(claimed, "UNKNOWN") ELSE found
    BY <1>2 DEF MigrateLegacySlot
  <2>5. \A o : OutcomeOk(s, claimed, o) /\ (o.how = "kept" => r.id # None) => OutcomeOk(s, r, o)
    BY <1>2, <2>1 DEF OutcomeOk
  <2> QED BY <2>2, <2>3, <2>4, <2>5 DEF SetTo
<1> QED BY <1>1, <1>2

\* Hence whatever Prepare and Reconcile finish, they may finish.
LEMMA SettleOk ==
    ASSUME IInv, NEW s \in Slots, NEW h \in BOOLEAN
    PROVE  OutcomeOk(s, gv[s], Settle(gv[s], h))
<1> DEFINE m == MigrateLegacySlot(gv[s], h)
           q == ReconcileSlot(m.rec, h)
<1>1. gv[s] \in Slot /\ SlotOk(s, gv[s])
  BY DEF IInv, TypeOK
<1>2. OutcomeOk(s, gv[s], m)
  BY <1>1, MigrateLegacySlotOk
<1>3. m.rec \in Slot /\ SlotOk(s, m.rec)
  BY <1>2 DEF OutcomeOk
<1>4. m.rec.id # None => OutcomeOk(s, m.rec, q)
  BY <1>3, ReconcileSlotOk
<1>5. m.rec.id # None /\ q.how # "kept" => OutcomeOk(s, gv[s], q)
  BY <1>2, <1>4 DEF OutcomeOk
<1> QED BY <1>2, <1>5 DEF Settle

\* An event is about one attempt, and the slot it is correlated with is that one's.
LEMMA MatchedOwn ==
    ASSUME IInv, NEW a \in Attempts,
           NEW e \in RequestEvents(a) \union OrderEvents(a) \union CloseEvents(a) \union DealEvents(a),
           NEW s \in Matched(e)
    PROVE  s \in Slots /\ gv[s].id = a
<1>1. s \in Slots /\ SlotOk(s, gv[s])
  BY DEF Matched, FindByRequest, FindByOrder, FindByPosition, IInv
<1>2. e.req \in {None, a} /\ e.pos \in {None, a} /\ e.ticket \in {NoTicket, <<a, "open">>, <<a, "close">>}
  BY DEF RequestEvents, OrderEvents, CloseEvents, DealEvents, Event
<1>3. \/ e.req # None /\ gv[s].req = e.req
      \/ e.ticket # NoTicket /\ gv[s].ord = e.ticket
      \/ e.pos # None /\ gv[s].pos = e.pos
  BY DEF Matched, FindByRequest, FindByOrder, FindByPosition
<1> QED BY <1>1, <1>2, <1>3, NoneAssumption DEF SlotOk, NoTicket

\* What an event makes of the slot it is correlated with, that slot may become.
LEMMA OnTransactionOk ==
    ASSUME IInv, NEW e \in Raised, NEW s \in Matched(e)
    PROVE  /\ s \in Slots
           /\ OutcomeOk(s, gv[s],
                 ApplyTransactionOutcome(CaptureTransactionIdentity(gv[s], e), e))
<1>1. PICK a \in Attempts :
        e \in RequestEvents(a) \union OrderEvents(a) \union CloseEvents(a) \union DealEvents(a)
  BY DEF Raised
<1>2. s \in Slots /\ gv[s].id = a
  BY <1>1, MatchedOwn
<1> DEFINE r == CaptureTransactionIdentity(gv[s], e)
<1>3. gv[s] \in Slot /\ SlotOk(s, gv[s]) /\ a # None
  BY <1>2, NoneAssumption DEF IInv, TypeOK
<1>4. e.pos \in {None, a} /\ e.ticket \in {NoTicket, <<a, "open">>, <<a, "close">>}
  BY <1>1 DEF RequestEvents, OrderEvents, CloseEvents, DealEvents, Event
<1>5. r \in Slot /\ SlotOk(s, r) /\ r.id = a /\ r.legacy = gv[s].legacy
  <2> DEFINE t == IF e.ticket # NoTicket THEN e.ticket ELSE gv[s].ord
             p == IF e.pos # None THEN e.pos ELSE gv[s].pos
  <2>1. r = Captured(gv[s], t, p)
    BY DEF CaptureTransactionIdentity
  <2>2. t \in Tickets /\ t[1] \in {None, a}
    BY <1>2, <1>3, <1>4 DEF Tickets, Slot, SlotOk
  <2>3. p \in Ids /\ p \in {None, a}
    BY <1>2, <1>3, <1>4 DEF Ids, Slot, SlotOk
  <2> HIDE DEF t, p
  <2> QED BY <1>2, <1>3, <2>1, <2>2, <2>3, CapturedOk
<1>6. OutcomeOk(s, gv[s], Kept(r))
  BY <1>2, <1>3, <1>5 DEF OutcomeOk, Kept, Hows, Final
<1>7. \A st \in States : OutcomeOk(s, gv[s], SetTo(r, st))
  BY <1>2, <1>3, <1>5 DEF OutcomeOk, SetTo, Hows, Final, Slot, SlotOk
<1>8. e.code = "REJECT" => OutcomeOk(s, gv[s], FinishAs(r, "REJECTED"))
  <2>1. e.code = "REJECT" => order[a] = "refused"
    BY <1>1 DEF RequestEvents, OrderEvents, CloseEvents, DealEvents, Event, AnswersTo, Passed, IInv, TypeOK
  <2> QED BY <1>2, <1>3, <1>5, <2>1 DEF OutcomeOk, FinishAs, Hows, Final, Evidence, Ended
<1>9. e.code \in {"DONE", "filled"} => OutcomeOk(s, gv[s], FinishAs(r, "FILLED"))
  <2>1. e.code = "DONE" => order[a] = "filled"
    BY <1>1 DEF RequestEvents, OrderEvents, CloseEvents, DealEvents, Event, AnswersTo, Passed, IInv, TypeOK
  <2>2. e.code = "filled" => order[a] = "filled" \/ cord[a] = "filled"
    BY <1>1 DEF RequestEvents, OrderEvents, CloseEvents, DealEvents, Event, AnswersTo, Passed, IInv, TypeOK
  <2>3. order[a] = "filled" \/ cord[a] = "filled" => Evidence(a) /\ Traded(a)
    BY DEF Evidence, Ended, Traded, IInv, MarketOk
  <2> QED BY <1>2, <1>3, <1>5, <2>1, <2>2, <2>3 DEF OutcomeOk, FinishAs, Hows, Final
<1> QED BY <1>2, <1>6, <1>7, <1>8, <1>9 DEF ApplyTransactionOutcome, States

-----------------------------------------------------------------------------
(* The invariant is inductive *)

\* A slot that gets a permitted outcome is well formed, however far the handler gets.
LEMMA LandedOk ==
    ASSUME NEW s \in Slots, NEW r \in Slot, NEW o, OutcomeOk(s, r, o), NEW k \in Stops
    PROVE  Landed(o, k) \in Slot /\ SlotOk(s, Landed(o, k))
<1>1. Clear(o.rec) \in Slot /\ SlotOk(s, Clear(o.rec))
  BY DEF OutcomeOk, Clear, Empty, Slot, SlotOk, States, Ids, Tickets, NoTicket
<1>2. \A st \in Final : [o.rec EXCEPT !.st = st] \in Slot /\ SlotOk(s, [o.rec EXCEPT !.st = st])
  BY DEF OutcomeOk, Slot, SlotOk, States, Final
<1> QED BY <1>1, <1>2 DEF OutcomeOk, Landed

\* Landing an outcome gives up no attempt but the one it finishes.
LEMMA LandedHolds ==
    ASSUME NEW s \in Slots, NEW r \in Slot, NEW o, OutcomeOk(s, r, o), NEW k \in Stops,
           NEW a, a # None, a = r.id \/ a = r.legacy,
           a # Landed(o, k).id, a # Landed(o, k).legacy
    PROVE  o.how \in Final /\ k = "done" /\ a = o.rec.id
<1>1. a \in {o.rec.id, o.rec.legacy}
  BY DEF OutcomeOk
<1>2. o.how \in Final /\ k = "done"
  BY <1>1 DEF Landed, OutcomeOk, Slot
<1>3. Landed(o, k).legacy = IF o.rec.mig THEN None ELSE o.rec.legacy
  BY <1>2 DEF Landed, Clear, Empty
<1> QED BY <1>1, <1>2, <1>3 DEF OutcomeOk, SlotOk

\* Giving a slot a permitted outcome preserves the invariant, wherever the handler dies
\* between the flushes of the state, of the audit record and of the cleared slot.
LEMMA SettledInv ==
    ASSUME IInv, NEW s \in Slots, NEW o, OutcomeOk(s, gv[s], o), NEW k \in Stops,
           Settled(s, o, k), call' = NoCall,
           UNCHANGED <<policy, slotOf, expired, opclr, broker>>
    PROVE  IInv'
<1> DEFINE r == Landed(o, k)
<1>1. gv[s] \in Slot /\ r \in Slot /\ SlotOk(s, r)
  BY LandedOk DEF IInv, TypeOK
<1>2. gv' = [gv EXCEPT ![s] = r] /\ disk' = (IF o.how = "kept" THEN disk ELSE gv')
  BY DEF Settled
<1>3. o.how \in Final => o.rec.id \in Attempts
  BY DEF OutcomeOk, Slot, Ids
<1>4. /\ term' = RecordTerminal(o, k) /\ term' \in [Attempts -> Final \union {"none"}]
      /\ \A a \in Attempts : \/ term'[a] = term[a]
                             \/ a = o.rec.id /\ o.how \in Final /\ term'[a] = o.how
  BY <1>3 DEF Settled, RecordTerminal, IInv, TypeOK
<1>5. TypeOK'
  BY <1>1, <1>2, <1>4 DEF Settled, IInv, TypeOK, broker
<1>6. \A t \in Slots : SlotOk(t, gv[t])' /\ SlotOk(t, disk[t])'
  BY <1>1, <1>2 DEF IInv, TypeOK, SlotOk
<1>7. \A t \in Slots : SameSeal(t)'
  <2>1. o.how = "kept" => r.id = gv[s].id /\ r.legacy = gv[s].legacy
    BY DEF OutcomeOk, Landed, Final
  <2> QED BY <1>1, <1>2, <2>1 DEF SameSeal, IInv, TypeOK
<1>8. CallOk'
  BY DEF CallOk
<1>9. MarketOk'
  BY <1>3, <1>4 DEF MarketOk, Made, Traded, OutcomeOk, Final, IInv, broker
<1>10. ReleaseOk'
  <2> SUFFICES ASSUME NEW a \in Attempts, Released(a)'
               PROVE  (Evidence(a) /\ (term[a] # "none" \/ opclr[a]))'
    BY DEF ReleaseOk
  <2>1. Evidence(a)' <=> Evidence(a)
    BY DEF Evidence, broker
  <2>2. CASE Released(a)
    BY <1>4, <2>1, <2>2 DEF IInv, ReleaseOk, Final, TypeOK
  <2>3. CASE ~Released(a)
    <3>1. PICK t \in Slots : a \in Holds(t)
      BY <2>3 DEF Released, Made
    <3>2. a \notin Holds(t)' /\ a \notin Holds(s)' /\ a # None
      BY NoneAssumption DEF Released
    <3>3. t = s /\ a \notin {r.id, r.legacy}
      BY <1>1, <1>2, <3>1, <3>2 DEF Holds, IInv, TypeOK
    <3>4. o.how \in Final /\ k = "done" /\ a = o.rec.id
      <4> DEFINE g == gv[s]
      <4>1. g \in Slot /\ OutcomeOk(s, g, o)
        BY <1>1
      <4>2. a # None /\ (a = g.id \/ a = g.legacy)
        BY <3>1, <3>3 DEF Holds
      <4>3. a # Landed(o, k).id /\ a # Landed(o, k).legacy
        BY <3>3
      <4> HIDE DEF r, g
      <4> QED BY <4>1, <4>2, <4>3, LandedHolds
    <3>5. term'[a] = o.how
      BY <3>4 DEF Settled, RecordTerminal, IInv, TypeOK
    <3> QED BY <2>1, <3>4, <3>5 DEF OutcomeOk, Final
  <2> QED BY <2>2, <2>3
<1> QED BY <1>5, <1>6, <1>7, <1>8, <1>9, <1>10 DEF IInv

\* Prepare seals a free slot with a fresh attempt, in the global variables and on disk.
LEMMA PrepareInv ==
    ASSUME IInv, NEW s \in Slots, NEW h \in BOOLEAN, NEW a \in Attempts, Prepare(s, h, a)
    PROVE  IInv'
<1> DEFINE o == Settle(gv[s], h)
           r == Landed(o, "done")
           n == [r EXCEPT !.id = a, !.st = "PREPARED"]
<1>1. OutcomeOk(s, gv[s], o) /\ gv[s] \in Slot
  BY SettleOk DEF IInv, TypeOK
<1>2. r \in Slot /\ SlotOk(s, r) /\ r.id = None
  BY <1>1, LandedOk DEF Stops, Prepare
<1>3. /\ gv' = [gv EXCEPT ![s] = n] /\ disk' = gv'
      /\ slotOf[a] = None /\ slotOf' = [slotOf EXCEPT ![a] = s]
      /\ call' = [slot |-> s, att |-> a, at |-> "prepared"] /\ todo = {}
      /\ up /\ UNCHANGED <<policy, up, todo, expired, opclr, order, cord>>
  BY DEF Prepare, Idle, broker
<1>4. n \in Slot /\ n.id = a /\ n.legacy = r.legacy /\ a # None
  BY <1>2, NoneAssumption DEF Slot, States, Ids
<1>5. /\ term' \in [Attempts -> Final \union {"none"}]
      /\ o.how \in Final => o.rec.id \in Attempts /\ term'[o.rec.id] = o.how
      /\ \A b \in Attempts : \/ term'[b] = term[b]
                             \/ b = o.rec.id /\ o.how \in Final /\ term'[b] = o.how
  <2>1. o.how \in Final => o.rec.id \in Attempts
    BY <1>1 DEF OutcomeOk, Slot, Ids
  <2>2. term' = RecordTerminal(o, "done")
    BY DEF Prepare
  <2> QED BY <2>1, <2>2 DEF RecordTerminal, IInv, TypeOK
<1>6. TypeOK'
  BY <1>3, <1>4, <1>5 DEF IInv, TypeOK, Calls
<1>7. SlotOk(s, gv[s])'
  <2>1. r.req = None /\ r.pos = None /\ r.ord[1] = None /\ ~r.mig
    BY <1>2 DEF SlotOk
  <2>2. r.legacy # None => r.legacy # a /\ r.legacy \in Attempts /\ slotOf'[r.legacy] = s
    BY <1>2, <1>3, NoneAssumption DEF SlotOk, Slot, Ids, IInv, TypeOK
  <2>3. n.req = None /\ n.pos = None /\ n.ord[1] = None /\ n.mig = FALSE
    BY <1>2, <2>1 DEF Slot
  <2>4. slotOf'[a] = s
    BY <1>3 DEF IInv, TypeOK
  <2>5. gv'[s] = n
    BY <1>3 DEF IInv, TypeOK
  <2> HIDE DEF n, r
  <2> QED BY <1>4, <2>2, <2>3, <2>4, <2>5 DEF SlotOk
<1>8. \A t \in Slots \ {s} : SlotOk(t, gv[t])'
  <2> SUFFICES ASSUME NEW t \in Slots \ {s} PROVE SlotOk(t, gv[t])'
    OBVIOUS
  <2>1. gv'[t] = gv[t] /\ gv[t] \in Slot /\ SlotOk(t, gv[t])
    BY <1>3 DEF IInv, TypeOK
  <2>2. \A b \in Attempts : slotOf[b] = t => b # a /\ slotOf'[b] = t
    BY <1>3, NoneAssumption DEF IInv, TypeOK
  <2> QED BY <2>1, <2>2 DEF SlotOk, Slot, Ids
<1>9. \A t \in Slots : (SlotOk(t, gv[t]) /\ SlotOk(t, disk[t]) /\ SameSeal(t))'
  BY <1>3, <1>7, <1>8 DEF SameSeal, IInv, TypeOK
<1>10. CallOk'
  <2>1. order[a] = "none"
    BY <1>3, NoneAssumption DEF MarketOk, Made, IInv
  <2>2. gv'[s].id = a
    BY <1>3, <1>4 DEF IInv, TypeOK
  <2> QED BY <1>3, <2>1, <2>2 DEF CallOk
<1>11. MarketOk'
  <2>1. \A b \in Attempts : ~Made(b)' => ~Made(b)
    BY <1>3, <1>4, NoneAssumption DEF Made, IInv, TypeOK
  <2> QED BY <1>1, <1>3, <1>5, <2>1 DEF MarketOk, Traded, OutcomeOk, Final, IInv
<1>12. ReleaseOk'
  <2> SUFFICES ASSUME NEW b \in Attempts, Released(b)'
               PROVE  (Evidence(b) /\ (term[b] # "none" \/ opclr[b]))'
    BY DEF ReleaseOk
  <2>1. Evidence(b)' <=> Evidence(b)
    BY <1>3 DEF Evidence
  <2>2. b \notin Holds(s)' /\ gv'[s] = n
    BY <1>3 DEF Released, IInv, TypeOK
  <2>3. b # a /\ Made(b) /\ b # None
    BY <1>3, <1>4, <2>2, NoneAssumption DEF Holds, Released, Made, IInv, TypeOK
  <2>4. CASE Released(b)
    BY <1>3, <1>5, <2>1, <2>4 DEF IInv, ReleaseOk, Final, TypeOK
  <2>5. CASE ~Released(b)
    <3>1. PICK t \in Slots : b \in Holds(t)
      BY <2>3, <2>5 DEF Released
    <3>2. t = s
      BY <1>3, <3>1 DEF Holds, Released, IInv, TypeOK
    <3> DEFINE g == gv[s]
    <3>3. g \in Slot /\ OutcomeOk(s, g, o) /\ (b = g.id \/ b = g.legacy)
      BY <1>1, <3>1, <3>2 DEF Holds
    <3>4. b # Landed(o, "done").id /\ b # Landed(o, "done").legacy /\ "done" \in Stops
      BY <1>2, <1>4, <2>2, <2>3 DEF Holds, Stops
    <3> HIDE DEF g, o, r, n
    <3>5. o.how \in Final /\ b = o.rec.id
      BY <2>3, <3>3, <3>4, LandedHolds
    <3> QED BY <1>1, <1>5, <2>1, <3>5 DEF OutcomeOk, Final
  <2> QED BY <2>4, <2>5
<1> QED BY <1>6, <1>9, <1>10, <1>11, <1>12 DEF IInv

\* The operator's clear preserves the invariant, wherever it dies.
LEMMA OperatorClearInv ==
    ASSUME IInv, NEW s \in Slots, NEW k \in Stops, OperatorClear(s, k)
    PROVE  IInv'
<1> DEFINE r == gv[s]
           n == IF k = "done" THEN Clear(r) ELSE [r EXCEPT !.st = "OPERATOR_REQUIRED"]
<1>1. r \in Slot /\ SlotOk(s, r) /\ r.id \in Attempts
  BY DEF IInv, TypeOK, OperatorClear, Slot, Ids
<1>2. /\ gv' = [gv EXCEPT ![s] = n] /\ disk' = gv'
      /\ opclr' = [opclr EXCEPT ![r.id] = opclr[r.id] \/ k # "state"]
      /\ call = NoCall /\ todo = {} /\ up' = (k = "done")
      /\ UNCHANGED <<policy, todo, call, slotOf, expired, term, order, cord>>
  BY DEF OperatorClear, Idle, broker
<1>3. n \in Slot /\ SlotOk(s, n)
  BY <1>1 DEF Clear, Empty, Slot, SlotOk, States, Ids, Tickets, NoTicket
<1>4. TypeOK'
  BY <1>1, <1>2, <1>3 DEF IInv, TypeOK
<1>5. \A t \in Slots : (SlotOk(t, gv[t]) /\ SlotOk(t, disk[t]) /\ SameSeal(t))'
  BY <1>2, <1>3 DEF SameSeal, SlotOk, IInv, TypeOK
<1>6. CallOk' /\ MarketOk'
  BY <1>2 DEF CallOk, MarketOk, Made, Traded, IInv
<1>7. ReleaseOk'
  <2> SUFFICES ASSUME NEW b \in Attempts, Released(b)'
               PROVE  (Evidence(b) /\ (term[b] # "none" \/ opclr[b]))'
    BY DEF ReleaseOk
  <2>1. (Evidence(b) => Evidence(b)') /\ (opclr[b] => opclr'[b])
    BY <1>1, <1>2 DEF Evidence, IInv, TypeOK
  <2>2. CASE Released(b)
    BY <1>2, <2>1, <2>2 DEF IInv, ReleaseOk
  <2>3. CASE ~Released(b)
    <3>1. PICK t \in Slots : b \in Holds(t)
      BY <1>2, <2>3 DEF Released, Made
    <3>2. b \notin Holds(t)' /\ b # None
      BY NoneAssumption DEF Released
    <3>3. t = s
      BY <1>2, <3>1, <3>2 DEF Holds, IInv, TypeOK
    <3>4. gv'[s] = n /\ b \in {r.id, r.legacy} /\ b \notin {n.id, n.legacy}
      BY <1>2, <3>1, <3>2, <3>3 DEF Holds, IInv, TypeOK
    <3>5. k = "done" /\ b = r.id
      BY <1>1, <3>4 DEF Clear, Empty, SlotOk, Slot
    <3>6. opclr'[b]
      BY <1>1, <1>2, <3>5 DEF IInv, TypeOK
    <3> QED BY <3>6 DEF Evidence
  <2> QED BY <2>2, <2>3
<1> QED BY <1>4, <1>5, <1>6, <1>7 DEF IInv

\* Open lands its slot with what CTrade returned, which the slot may become.
LEMMA ReturnLands ==
    ASSUME IInv, Return
    PROVE  \E o : \E k \in Stops : OutcomeOk(call.slot, gv[call.slot], o) /\ Returned(o, k)
<1> DEFINE a == call.att
           s == call.slot
           g == gv[s]
           Lands == \E o : \E k \in Stops : OutcomeOk(s, g, o) /\ Returned(o, k)
<1>1. call # NoCall
  BY DEF Return, NoCall
<1>2. s \in Slots /\ a \in Attempts /\ g \in Slot /\ SlotOk(s, g) /\ g.id = a /\ a # None
  BY <1>1, NoneAssumption DEF IInv, CallOk, TypeOK, Calls
<1>3. ASSUME NEW code, NEW k \in Stops, MarkSubmitted(code, k),
             code = "DONE" => order[a] = "filled"
      PROVE  Lands
  <2> DEFINE t == IF policy.async THEN NoTicket ELSE <<a, "open">>
             r == [gv[call.slot] EXCEPT !.req = a, !.ord = t]
             o == IF code = "DONE" THEN FinishAs(r, "FILLED")
                  ELSE SetTo(r, IF code = "PLACED" THEN "SUBMITTED" ELSE "PARTIAL")
  <2>1. t \in Tickets /\ t[1] \in {None, a}
    BY <1>2 DEF Tickets, NoTicket
  <2>2. Returned(o, k)
    BY <1>3 DEF MarkSubmitted
  <2> HIDE DEF t
  <2>3. r \in Slot /\ SlotOk(s, r) /\ r.id = a /\ r.legacy = g.legacy
    BY <1>2, <2>1 DEF Slot, SlotOk, Ids
  <2> HIDE DEF r
  <2>4. \A st \in States : OutcomeOk(s, g, SetTo(r, st))
    BY <1>2, <2>3 DEF OutcomeOk, SetTo, Hows, Final, Slot, SlotOk
  <2>5. order[a] = "filled" => OutcomeOk(s, g, FinishAs(r, "FILLED"))
    BY <1>2, <2>3 DEF OutcomeOk, FinishAs, Hows, Final, Evidence, Ended, Traded
  <2>6. OutcomeOk(s, g, o)
    BY <1>3, <2>4, <2>5 DEF States
  <2> HIDE DEF o
  <2> QED BY <2>2, <2>6
<1>4. ASSUME NEW k \in Stops, MarkRejected(k), order[a] = "refused"
      PROVE  Lands
  <2>1. OutcomeOk(s, g, FinishAs(g, "REJECTED"))
    BY <1>2, <1>4 DEF OutcomeOk, FinishAs, Hows, Final, Evidence, Ended
  <2> QED BY <1>4, <2>1 DEF MarkRejected
<1>5. ASSUME NEW req \in {a, None}, MarkUnknown(req)
      PROVE  Lands
  <2> DEFINE r == [gv[call.slot] EXCEPT !.req = req, !.ord = NoTicket]
             o == SetTo(r, "UNKNOWN")
  <2>1. r \in Slot /\ SlotOk(s, r) /\ r.id = a /\ r.legacy = g.legacy
    BY <1>2 DEF Slot, SlotOk, Ids, Tickets, NoTicket
  <2>2. Returned(o, "done") /\ "done" \in Stops
    BY <1>5 DEF MarkUnknown, Stops
  <2> HIDE DEF r
  <2>3. OutcomeOk(s, g, o)
    BY <1>2, <2>1 DEF OutcomeOk, SetTo, Hows, Final, Slot, SlotOk, States
  <2> HIDE DEF o
  <2> QED BY <2>2, <2>3
<1>6. \A code : code \in (IF policy.async THEN {"PLACED"} ELSE AnswersTo(a) \intersect Accepted)
                /\ code = "DONE" => order[a] = "filled"
  BY <1>2 DEF AnswersTo, Accepted, IInv, TypeOK
<1> QED BY <1>3, <1>4, <1>5, <1>6 DEF Return

LEMMA ReturnInv ==
    ASSUME IInv, Return
    PROVE  IInv'
<1>1. PICK o : \E k \in Stops : OutcomeOk(call.slot, gv[call.slot], o) /\ Returned(o, k)
  BY ReturnLands
<1>2. PICK k \in Stops : OutcomeOk(call.slot, gv[call.slot], o) /\ Returned(o, k)
  BY <1>1
<1>3. call.slot \in Slots
  BY DEF Return, NoCall, IInv, TypeOK, Calls
<1> QED BY <1>2, <1>3, SettledInv DEF Returned

\* The market only adds to the evidence: no order that ended comes back to life.
LEMMA BrokerInv ==
    ASSUME IInv, NEW a \in Attempts, Broker(a)
    PROVE  IInv'
<1>1. /\ order' \in [Attempts -> OrderStates]
      /\ cord' \in [Attempts -> {"none", "live", "filled", "closed"}]
  BY DEF Broker, BrokerReceive, BrokerFill, BrokerEnd, ClosePosition, IInv, TypeOK, OrderStates
<1>2. UNCHANGED <<policy, up, todo, call, gv, disk, slotOf, expired, audit>>
  BY DEF Broker
<1>3. \A b \in Attempts : /\ Traded(b) => Traded(b)'
                          /\ Evidence(b) => Evidence(b)'
                          /\ order[b] \in {"none", "refused", "closed"} => order'[b] = order[b]
                          /\ cord[b] = "closed" => cord'[b] = "closed"
                          /\ cord'[b] # "none" => cord[b] # "none" \/ Traded(b)
  BY <1>2 DEF Broker, BrokerReceive, BrokerFill, BrokerEnd, ClosePosition, IInv, TypeOK,
              Traded, Evidence, Ended, audit
<1>4. TypeOK'
  BY <1>1, <1>2 DEF IInv, TypeOK, audit
<1>5. \A s \in Slots : (SlotOk(s, gv[s]) /\ SlotOk(s, disk[s]) /\ SameSeal(s))'
  BY <1>2 DEF IInv, SlotOk, SameSeal
<1>6. CallOk'
  BY <1>2, <1>3 DEF IInv, TypeOK, Calls, CallOk
<1>8. MarketOk'
  BY <1>2, <1>3 DEF IInv, MarketOk, Made, audit
<1>7. ReleaseOk'
  BY <1>2, <1>3 DEF IInv, ReleaseOk, Released, Made, Holds, audit
<1> QED BY <1>4, <1>5, <1>6, <1>7, <1>8 DEF IInv

\* The attempts a slot holds are on disk: a crash gives none of them up.
LEMMA CrashInv ==
    ASSUME IInv, Crash
    PROVE  IInv'
<1>1. gv' \in {gv, disk} /\ todo' = {} /\ call' = NoCall /\ up' = FALSE
      /\ UNCHANGED <<policy, disk, slotOf, expired, term, opclr, order, cord>>
  BY DEF Crash, audit, broker
<1>2. TypeOK'
  BY <1>1 DEF IInv, TypeOK
<1>3. \A s \in Slots : (SlotOk(s, gv[s]) /\ SlotOk(s, disk[s]) /\ SameSeal(s))'
  BY <1>1 DEF IInv, SlotOk, SameSeal
<1>4. CallOk' /\ MarketOk'
  BY <1>1 DEF IInv, CallOk, MarketOk, Made, Traded
<1>5. \A s \in Slots : Holds(s)' = Holds(s)
  BY <1>1 DEF IInv, SameSeal, Holds
<1>6. ReleaseOk'
  BY <1>1, <1>5 DEF IInv, ReleaseOk, Released, Made, Evidence
<1> QED BY <1>2, <1>3, <1>4, <1>6 DEF IInv

\* The steps that leave the slots and the market alone.
LEMMA QuietInv ==
    ASSUME IInv, UNCHANGED <<policy, gv, disk, slotOf, audit, cord>>,
           TypeOK', CallOk',
           \A a \in Attempts : order[a] # "none" \/ ~Made(a) => order'[a] = order[a]
    PROVE  IInv'
<1>1. UNCHANGED <<term, opclr, gv, disk, slotOf, cord>>
  BY DEF audit
<1>2. \A s \in Slots : (SlotOk(s, gv[s]) /\ SlotOk(s, disk[s]) /\ SameSeal(s))'
  BY <1>1 DEF IInv, SlotOk, SameSeal
<1>3. MarketOk' /\ ReleaseOk'
  BY <1>1 DEF IInv, MarketOk, ReleaseOk, Released, Made, Holds, Evidence, Ended, Traded
<1> QED BY <1>2, <1>3 DEF IInv

\* The invariant holds when the EA is installed, also over slots of an earlier release.
THEOREM InitInv == Init => IInv
<1> SUFFICES ASSUME Init PROVE IInv
  OBVIOUS
<1>1. PICK v1 \in [LegacySlots -> Ids], v2 \in [MixedSlots -> Ids] :
        /\ gv = [s \in Slots |->
                    [Older(IF s \in MixedSlots THEN v2[s] ELSE None) EXCEPT
                        !.legacy = IF s \in LegacySlots THEN v1[s] ELSE None]]
        /\ slotOf \in [Attempts -> Slots \union {None}]
        /\ \A a \in Attempts, s \in Slots : slotOf[a] = s <=> a \in {gv[s].id, gv[s].legacy}
  BY DEF Init
<1>2. /\ policy \in Policies /\ up = FALSE /\ todo = {} /\ call = NoCall /\ disk = gv
      /\ order = [a \in Attempts |-> IF slotOf[a] = None THEN "none" ELSE "sent"]
      /\ expired = [a \in Attempts |-> FALSE] /\ term = [a \in Attempts |-> "none"]
      /\ opclr = [a \in Attempts |-> FALSE] /\ cord = [a \in Attempts |-> "none"]
  BY DEF Init
<1>3. \A s \in Slots : /\ gv[s] \in Slot
                       /\ gv[s].req = gv[s].id /\ gv[s].pos = None /\ gv[s].ord[1] = None
                       /\ ~gv[s].mig
  BY <1>1 DEF Older, Empty, Slot, States, Ids, Tickets, NoTicket
<1>4. TypeOK
  BY <1>1, <1>2, <1>3 DEF TypeOK, OrderStates
<1>5. \A s \in Slots : SlotOk(s, gv[s]) /\ SlotOk(s, disk[s]) /\ SameSeal(s)
  BY <1>1, <1>2, <1>3 DEF SlotOk, SameSeal, Slot, Ids
<1>6. CallOk /\ MarketOk
  BY <1>2 DEF CallOk, MarketOk, Made, Traded
<1>7. ReleaseOk
  BY <1>1, NoneAssumption DEF ReleaseOk, Released, Made, Holds
<1> QED BY <1>4, <1>5, <1>6, <1>7 DEF IInv

\* Every step preserves the invariant: one case per action.
THEOREM NextInv == IInv /\ [Next]_vars => IInv'
<1> SUFFICES ASSUME IInv, [Next]_vars PROVE IInv'
  OBVIOUS
<1>1. CASE Tick
  BY <1>1, QuietInv DEF Tick, Idle, broker, IInv, TypeOK, CallOk, audit
<1>2. CASE Send
  <2>1. call # NoCall /\ call \in Calls
    BY <1>2 DEF Send, NoCall, IInv, TypeOK
  <2>2. TypeOK' /\ CallOk'
    BY <1>2, <2>1 DEF Send, IInv, TypeOK, CallOk, Calls, OrderStates, NoCall, audit
  <2>3. order[call.att] = "none" /\ order' = [order EXCEPT ![call.att] = "sent"]
    BY <1>2, <2>1 DEF Send, IInv, CallOk
  <2>4. Made(call.att)
    BY <2>1, NoneAssumption DEF IInv, CallOk, SlotOk, Made, Calls
  <2>5. \A a \in Attempts : order[a] # "none" \/ ~Made(a) => order'[a] = order[a]
    BY <2>1, <2>3, <2>4 DEF IInv, TypeOK, Calls
  <2> QED BY <1>2, <2>2, <2>5, QuietInv DEF Send
<1>3. CASE Return
  BY <1>3, ReturnInv
<1>4. CASE Crash
  BY <1>4, CrashInv
<1>5. CASE Restart
  BY <1>5, QuietInv DEF Restart, broker, IInv, TypeOK, CallOk, audit
<1>6. ASSUME NEW s \in Slots, NEW h \in BOOLEAN, NEW k \in Stops, PrepareBlocked(s, h, k)
      PROVE  IInv'
  <2> DEFINE o == Settle(gv[s], h)
             n == SetTo(o.rec, "OPERATOR_REQUIRED")
  <2>1. OutcomeOk(s, gv[s], o)
    BY SettleOk
  <2>2. OutcomeOk(s, gv[s], n)
    BY <2>1 DEF OutcomeOk, SetTo, Hows, Final, Slot, SlotOk, States
  <2>3. /\ Settled(s, o, k) \/ Settled(s, n, k)
        /\ call' = NoCall /\ UNCHANGED <<policy, slotOf, expired, opclr, broker>>
    BY <1>6 DEF PrepareBlocked, Idle
  <2> HIDE DEF o, n
  <2> QED BY <2>1, <2>2, <2>3, SettledInv
<1>7. ASSUME NEW s \in Slots, NEW h \in BOOLEAN, NEW k \in Stops, Reconcile(s, h, k)
      PROVE  IInv'
  <2>1. OutcomeOk(s, gv[s], Settle(gv[s], h))
    BY SettleOk
  <2>2. call = NoCall
    BY <1>7 DEF Reconcile, IInv, CallOk
  <2> QED BY <1>7, <2>1, <2>2, SettledInv DEF Reconcile
<1>8. ASSUME NEW s \in Slots, NEW h \in BOOLEAN, NEW a \in Attempts, Prepare(s, h, a)
      PROVE  IInv'
  BY <1>8, PrepareInv
<1>9. ASSUME NEW s \in Slots, NEW k \in Stops, OperatorClear(s, k)
      PROVE  IInv'
  BY <1>9, OperatorClearInv
<1>10. CASE OnTransaction
  <2>1. PICK e \in Raised :
          \E s \in Matched(e), k \in Stops :
             Settled(s, ApplyTransactionOutcome(CaptureTransactionIdentity(gv[s], e), e), k)
    BY <1>10 DEF OnTransaction
  <2>2. PICK s \in Matched(e), k \in Stops :
          Settled(s, ApplyTransactionOutcome(CaptureTransactionIdentity(gv[s], e), e), k)
    BY <2>1
  <2> DEFINE o == ApplyTransactionOutcome(CaptureTransactionIdentity(gv[s], e), e)
  <2>3. s \in Slots /\ OutcomeOk(s, gv[s], o)
    BY OnTransactionOk
  <2>4. Settled(s, o, k) /\ call' = NoCall /\ UNCHANGED <<policy, slotOf, expired, opclr, broker>>
    BY <1>10, <2>2 DEF OnTransaction, Idle
  <2> HIDE DEF o
  <2> QED BY <2>3, <2>4, SettledInv
<1>11. ASSUME NEW a \in Attempts, Broker(a)
       PROVE  IInv'
  BY <1>11, BrokerInv
<1>12. ASSUME NEW s \in Slots, Elapse(s)
       PROVE  IInv'
  BY <1>12, QuietInv DEF Elapse, broker, IInv, TypeOK, CallOk, audit
<1>13. CASE UNCHANGED vars
  BY <1>13, QuietInv DEF vars, broker, IInv, TypeOK, CallOk, audit
<1> QED
  BY <1>1, <1>2, <1>3, <1>4, <1>5, <1>6, <1>7, <1>8, <1>9, <1>10, <1>11, <1>12, <1>13 DEF Next

-----------------------------------------------------------------------------
(* What holds of the ledger *)

\* The invariant holds in every state the ledger can be in.
THEOREM Inductive == Spec => []IInv
  BY InitInv, NextInv, PTL DEF Spec

\* The variables keep their types.
THEOREM TypeCorrect == Spec => []TypeOK
<1>1. IInv => TypeOK
  BY DEF IInv
<1> QED BY <1>1, Inductive, PTL

\* The handles a slot captures from events that come late, twice and in any order are
\* those of the attempt that seals it.
THEOREM Correlation == Spec => []HandlesAreOwn
<1>1. IInv => HandlesAreOwn
  BY DEF IInv, SlotOk, HandlesAreOwn
<1> QED BY <1>1, Inductive, PTL

\* An attempt that its slot holds is sealed, in the global variables and on disk.
LEMMA HeldIsSealed ==
    ASSUME IInv, NEW a \in Attempts, Made(a), ~Sealed(a)
    PROVE  Released(a)
  BY DEF IInv, SameSeal, Sealed, Released, Holds

\* No slot is given up for an attempt that is not accounted for, however the handlers,
\* the events, the market, the clock and the crashes interleave.
THEOREM NoDuplicateExposure == Spec => []SealedUntilAccounted
<1>1. IInv => SealedUntilAccounted
  BY HeldIsSealed DEF IInv, ReleaseOk, SealedUntilAccounted
<1> QED BY <1>1, Inductive, PTL

\* No slot is given up without the audit record that says why.
THEOREM ReleaseIsAudited == Spec => []AuditedRelease
<1>1. IInv => AuditedRelease
  BY HeldIsSealed DEF IInv, ReleaseOk, AuditedRelease
<1> QED BY <1>1, Inductive, PTL

\* The audit record does not lie about what traded.
THEOREM AuditIsTruthful == Spec => []TruthfulAudit
<1>1. IInv => TruthfulAudit
  BY DEF IInv, MarketOk, TruthfulAudit, Traded
<1> QED BY <1>1, Inductive, PTL

-----------------------------------------------------------------------------
(* The ledger implements the seal                                            *)

(* What the refinement needs beyond IInv.  A mixed slot holds the intent of  *)
(* a v1 ledger beside another one of the v2 ledger, and when the latter is   *)
(* finished a new one is prepared while the former still seals the slot (the *)
(* run intent_mixed shows it).  Where a deployment has no such slot, a slot  *)
(* never holds two attempts.                                                 *)
Unmixed(r) == r.legacy # None => r.id \in {None, r.legacy}

UnmixedOk == \A s \in Slots : Unmixed(gv[s]) /\ Unmixed(disk[s])

\* Whatever a handler lands a slot with, it mixes no two attempts in it.
LEMMA LandedUnmixed ==
    ASSUME NEW s \in Slots, NEW r \in Slot, Unmixed(r), NEW o, OutcomeOk(s, r, o),
           NEW k \in Stops
    PROVE  Unmixed(Landed(o, k))
<1>1. Unmixed(o.rec)
  BY DEF OutcomeOk, Unmixed
<1>2. Clear(o.rec).id = None
  BY DEF Clear, Empty
<1>3. \A st \in Final : Unmixed([o.rec EXCEPT !.st = st])
  BY <1>1 DEF OutcomeOk, Unmixed, Slot
<1> QED BY <1>1, <1>2, <1>3 DEF Landed, Unmixed

\* ReconcileSlot leaves the note that the v1 intent has been taken over.
LEMMA ReconcileSlotKeeps ==
    ASSUME NEW r \in Slot, NEW h \in BOOLEAN
    PROVE  ReconcileSlot(r, h).rec.mig = r.mig /\ ReconcileSlot(r, h).rec.legacy = r.legacy
<1>1. \A st \in States : [r EXCEPT !.st = st].mig = r.mig /\ [r EXCEPT !.st = st].legacy = r.legacy
  BY DEF Slot
<1> QED BY <1>1 DEF ReconcileSlot, EscalateExpiredIntent, SetTo, Kept, FinishAs, States

\* CaptureLegacyIdentity leaves it too.
LEMMA CaptureLegacyIdentityKeeps ==
    ASSUME NEW r \in Slot, NEW h \in BOOLEAN
    PROVE  CaptureLegacyIdentity(r, h).rec.mig = r.mig
<1>1. \A t, p : Captured(r, t, p).mig = r.mig
  BY DEF Captured, Slot
<1>2. \A t, p, st : [Captured(r, t, p) EXCEPT !.st = st].mig = r.mig
  BY DEF Captured, Slot
<1> QED BY <1>1, <1>2 DEF CaptureLegacyIdentity, SetTo, Kept, FinishAs

\* Of an unmixed slot, what Prepare finds free holds no v1 intent either: the note says
\* that the intent which is finished is the v1 one.
LEMMA SettledFree ==
    ASSUME IInv, NEW s \in Slots, NEW h \in BOOLEAN, Unmixed(gv[s]),
           Landed(Settle(gv[s], h), "done").id = None
    PROVE  Landed(Settle(gv[s], h), "done").legacy = None
<1> DEFINE g == gv[s]
           m == MigrateLegacySlot(g, h)
           q == ReconcileSlot(m.rec, h)
           o == Settle(g, h)
<1>1. g \in Slot /\ SlotOk(s, g) /\ OutcomeOk(s, g, m) /\ OutcomeOk(s, g, o)
  BY MigrateLegacySlotOk, SettleOk DEF IInv, TypeOK
<1>2. CASE g.legacy = None
  BY <1>1, <1>2 DEF OutcomeOk, Landed, Clear, Empty
<1>3. CASE g.legacy # None
  <2> DEFINE claimed == IF g.id = None
                        THEN [g EXCEPT !.id = g.legacy, !.mig = TRUE, !.st = "UNKNOWN"]
                        ELSE [g EXCEPT !.mig = TRUE]
             found == CaptureLegacyIdentity(claimed, h)
  <2>1. g.id \in {None, g.legacy}
    BY <1>3 DEF Unmixed
  <2>2. claimed \in Slot /\ claimed.mig
    BY <1>1 DEF Slot, States
  <2>3. m = IF found.how = "kept" /\ g.id = None THEN SetTo(claimed, "UNKNOWN") ELSE found
    BY <1>3, <2>1 DEF MigrateLegacySlot
  <2>4. SetTo(claimed, "UNKNOWN").rec.mig
    BY <2>2 DEF SetTo, Slot
  <2>5. found.rec.mig
    BY <2>2, CaptureLegacyIdentityKeeps
  <2> HIDE DEF claimed, found
  <2>6. m.rec.mig /\ m.rec \in Slot
    BY <1>1, <2>3, <2>4, <2>5 DEF OutcomeOk
  <2>7. q.rec.mig
    BY <2>6, ReconcileSlotKeeps
  <2> HIDE DEF m, q
  <2>8. o = m \/ o = q
    BY DEF Settle, m, q
  <2>9. o.rec.mig /\ SlotOk(s, o.rec)
    BY <1>1, <2>6, <2>7, <2>8 DEF OutcomeOk
  <2>10. o.rec.id # None
    BY <2>9 DEF SlotOk
  <2> HIDE DEF o, g
  <2>11. o.how \in Final
    BY <2>10 DEF Landed, o, g
  <2> QED BY <2>9, <2>11 DEF Landed, Clear, Empty, o, g
<1> QED BY <1>2, <1>3

\* A handler that lands a slot keeps the slots unmixed, and what it leaves in the slot
\* was in it before.
LEMMA SettledSeal ==
    ASSUME IInv, NEW s \in Slots, NEW o, OutcomeOk(s, gv[s], o), NEW k \in Stops,
           Settled(s, o, k), UNCHANGED <<slotOf, opclr, broker>>
    PROVE  /\ UnmixedOk => UnmixedOk'
           /\ \A t \in Slots : Holds(t)' \subseteq Holds(t)
           /\ \A a \in Attempts : Evidence(a) => Evidence(a)'
<1> DEFINE g == gv[s]
           r == Landed(o, k)
<1>1. g \in Slot /\ gv' = [gv EXCEPT ![s] = r] /\ disk' = (IF o.how = "kept" THEN disk ELSE gv')
  BY DEF IInv, TypeOK, Settled
<1>2. /\ \A t \in Slots : gv'[t] = IF t = s THEN r ELSE gv[t]
      /\ \A t \in Slots : disk'[t] = disk[t] \/ disk'[t] = gv'[t]
  BY <1>1 DEF IInv, TypeOK
<1>3. Unmixed(g) => Unmixed(r)
  BY <1>1, LandedUnmixed
<1>4. {r.id, r.legacy} \subseteq {g.id, g.legacy, None}
  BY <1>1 DEF Landed, Clear, Empty, OutcomeOk, Slot
<1> HIDE DEF g, r
<1>5. UnmixedOk => UnmixedOk'
  BY <1>2, <1>3 DEF UnmixedOk, Unmixed, g
<1>6. \A t \in Slots : Holds(t)' \subseteq Holds(t)
  BY <1>2, <1>4 DEF Holds, g
<1>7. \A a \in Attempts : Evidence(a) => Evidence(a)'
  BY DEF Evidence, broker
<1> QED BY <1>5, <1>6, <1>7

\* A step of the ledger other than Prepare makes no attempt, forgets no evidence, puts
\* nothing into a slot, and mixes no slot.
QuietSeal ==
    /\ UNCHANGED slotOf
    /\ UnmixedOk => UnmixedOk'
    /\ \A t \in Slots : Holds(t)' \subseteq Holds(t)
    /\ \A a \in Attempts : Evidence(a) => Evidence(a)'

LEMMA SameSlotsQuiet ==
    ASSUME UNCHANGED <<gv, disk, slotOf>>, \A a \in Attempts : Evidence(a) => Evidence(a)'
    PROVE  QuietSeal
  BY DEF QuietSeal, UnmixedOk, Holds

LEMMA OperatorClearQuiet ==
    ASSUME IInv, NEW s \in Slots, NEW k \in Stops, OperatorClear(s, k)
    PROVE  QuietSeal
<1> DEFINE g == gv[s]
           n == IF k = "done" THEN Clear(g) ELSE [g EXCEPT !.st = "OPERATOR_REQUIRED"]
<1>1. g \in Slot /\ g.id \in Attempts
  BY DEF IInv, TypeOK, OperatorClear, Slot, Ids
<1>2. /\ gv' = [gv EXCEPT ![s] = n] /\ disk' = gv' /\ UNCHANGED <<slotOf, order, cord>>
      /\ opclr' = [opclr EXCEPT ![g.id] = opclr[g.id] \/ k # "state"]
  BY DEF OperatorClear, broker
<1>3. \A t \in Slots : gv'[t] = IF t = s THEN n ELSE gv[t]
  BY <1>2 DEF IInv, TypeOK
<1>4. {n.id, n.legacy} \subseteq {g.id, g.legacy, None} /\ (Unmixed(g) => Unmixed(n))
  BY <1>1 DEF Clear, Empty, Slot, Unmixed
<1> HIDE DEF g, n
<1>5. UnmixedOk => UnmixedOk'
  BY <1>2, <1>3, <1>4 DEF UnmixedOk, Unmixed, g
<1>6. \A t \in Slots : Holds(t)' \subseteq Holds(t)
  BY <1>3, <1>4 DEF Holds, g
<1>7. \A a \in Attempts : Evidence(a) => Evidence(a)'
  BY <1>1, <1>2 DEF Evidence, IInv, TypeOK
<1> QED BY <1>2, <1>5, <1>6, <1>7 DEF QuietSeal

\* Every step but Prepare is quiet.
LEMMA NextQuiet ==
    ASSUME IInv, [Next]_vars
    PROVE  \/ QuietSeal
           \/ \E s \in Slots, h \in BOOLEAN, a \in Attempts : Prepare(s, h, a)
<1>1. CASE Tick \/ Restart \/ (\E s \in Slots : Elapse(s)) \/ UNCHANGED vars
  <2>1. UNCHANGED <<gv, disk, slotOf, opclr, order, cord>>
    BY <1>1 DEF Tick, Restart, Elapse, vars, audit, broker
  <2> QED BY <2>1, SameSlotsQuiet DEF Evidence
<1>2. CASE Send
  <2>1. call # NoCall /\ call \in Calls
    BY <1>2 DEF Send, NoCall, IInv, TypeOK
  <2>2. order[call.att] = "none" /\ order' = [order EXCEPT ![call.att] = "sent"]
        /\ UNCHANGED <<gv, disk, slotOf, opclr, cord>>
    BY <1>2, <2>1 DEF Send, IInv, CallOk, audit
  <2>3. \A a \in Attempts : Evidence(a) => Evidence(a)'
    BY <2>2 DEF Evidence, Ended, IInv, TypeOK
  <2> QED BY <2>2, <2>3, SameSlotsQuiet
<1>3. CASE Return
  <2> DEFINE s == call.slot
  <2>1. s \in Slots
    BY <1>3 DEF Return, NoCall, IInv, TypeOK, Calls
  <2>2. PICK o : \E k \in Stops : OutcomeOk(s, gv[s], o) /\ Returned(o, k)
    BY <1>3, ReturnLands
  <2>3. PICK k \in Stops : OutcomeOk(s, gv[s], o) /\ Returned(o, k)
    BY <2>2
  <2> QED BY <2>1, <2>3, SettledSeal DEF Returned, QuietSeal
<1>4. CASE Crash
  <2>1. gv' \in {gv, disk} /\ UNCHANGED <<disk, slotOf, opclr, order, cord>>
    BY <1>4 DEF Crash, audit, broker
  <2>2. \A s \in Slots : Holds(s)' \subseteq Holds(s)
    BY <2>1 DEF IInv, SameSeal, Holds
  <2> QED BY <2>1, <2>2 DEF QuietSeal, UnmixedOk, Evidence
<1>5. ASSUME NEW s \in Slots, NEW h \in BOOLEAN, NEW k \in Stops, PrepareBlocked(s, h, k)
      PROVE  QuietSeal
  <2> DEFINE o == Settle(gv[s], h)
             n == SetTo(o.rec, "OPERATOR_REQUIRED")
  <2>1. OutcomeOk(s, gv[s], o)
    BY SettleOk
  <2>2. OutcomeOk(s, gv[s], n)
    BY <2>1 DEF OutcomeOk, SetTo, Hows, Final, Slot, SlotOk, States
  <2>3. /\ Settled(s, o, k) \/ Settled(s, n, k)
        /\ UNCHANGED <<slotOf, opclr, broker>>
    BY <1>5 DEF PrepareBlocked
  <2> HIDE DEF o, n
  <2> QED BY <2>1, <2>2, <2>3, SettledSeal DEF QuietSeal
<1>6. ASSUME NEW s \in Slots, NEW h \in BOOLEAN, NEW k \in Stops, Reconcile(s, h, k)
      PROVE  QuietSeal
  BY <1>6, SettleOk, SettledSeal DEF Reconcile, QuietSeal
<1>7. CASE OnTransaction
  <2>1. PICK e \in Raised :
          \E s \in Matched(e), k \in Stops :
             Settled(s, ApplyTransactionOutcome(CaptureTransactionIdentity(gv[s], e), e), k)
    BY <1>7 DEF OnTransaction
  <2>2. PICK s \in Matched(e), k \in Stops :
          Settled(s, ApplyTransactionOutcome(CaptureTransactionIdentity(gv[s], e), e), k)
    BY <2>1
  <2> DEFINE o == ApplyTransactionOutcome(CaptureTransactionIdentity(gv[s], e), e)
  <2>3. s \in Slots /\ OutcomeOk(s, gv[s], o)
    BY OnTransactionOk
  <2>4. Settled(s, o, k) /\ UNCHANGED <<slotOf, opclr, broker>>
    BY <1>7, <2>2 DEF OnTransaction
  <2> HIDE DEF o
  <2> QED BY <2>3, <2>4, SettledSeal DEF QuietSeal
<1>8. ASSUME NEW a \in Attempts, Broker(a)
      PROVE  QuietSeal
  <2>1. UNCHANGED <<gv, disk, slotOf, opclr>>
    BY <1>8 DEF Broker, audit
  <2>2. \A b \in Attempts : Evidence(b) => Evidence(b)'
    BY <1>8, <2>1 DEF Broker, BrokerReceive, BrokerFill, BrokerEnd, ClosePosition, IInv, TypeOK,
                      Evidence, Ended
  <2> QED BY <2>1, <2>2, SameSlotsQuiet
<1> QED BY <1>1, <1>2, <1>3, <1>4, <1>5, <1>6, <1>7, <1>8, OperatorClearQuiet DEF Next

\* Prepare puts a fresh attempt into a slot that holds nothing else, and everything it
\* takes out of the slot is accounted for.
LEMMA PrepareSeal ==
    ASSUME IInv, UnmixedOk, NEW s \in Slots, NEW h \in BOOLEAN, NEW a \in Attempts,
           Prepare(s, h, a)
    PROVE  /\ UnmixedOk'
           /\ ~Made(a) /\ Holds(s)' = {a} /\ gv'[s].legacy = None
           /\ slotOf' = [slotOf EXCEPT ![a] = s]
           /\ \A t \in Slots \ {s} : Holds(t)' = Holds(t)
           /\ \A b \in Attempts : Evidence(b)' = Evidence(b)
<1> DEFINE r == Landed(Settle(gv[s], h), "done")
           n == [r EXCEPT !.id = a, !.st = "PREPARED"]
<1>1. r \in Slot /\ r.id = None
  BY SettleOk, LandedOk DEF Prepare, Stops, IInv, TypeOK
<1>2. r.legacy = None
  BY <1>1, SettledFree DEF UnmixedOk
<1>3. /\ gv' = [gv EXCEPT ![s] = n] /\ disk' = gv'
      /\ slotOf[a] = None /\ slotOf' = [slotOf EXCEPT ![a] = s]
      /\ UNCHANGED <<opclr, order, cord>>
  BY DEF Prepare, broker
<1>4. n.id = a /\ n.legacy = None /\ a # None
  BY <1>1, <1>2, NoneAssumption DEF Slot
<1>5. \A t \in Slots : gv'[t] = IF t = s THEN n ELSE gv[t]
  BY <1>3 DEF IInv, TypeOK
<1> HIDE DEF r, n
<1>6. UnmixedOk'
  BY <1>3, <1>4, <1>5 DEF UnmixedOk, Unmixed
<1>7. /\ Holds(s)' = {a} /\ gv'[s].legacy = None
      /\ \A t \in Slots \ {s} : Holds(t)' = Holds(t)
  BY <1>4, <1>5 DEF Holds
<1> QED BY <1>3, <1>6, <1>7 DEF Made, Evidence

\* The slots stay unmixed.
LEMMA UnmixedNext == ASSUME IInv, UnmixedOk, [Next]_vars PROVE UnmixedOk'
  BY NextQuiet, PrepareSeal DEF QuietSeal

LEMMA UnmixedInit == ASSUME MixedSlots = {}, Init PROVE UnmixedOk
<1>1. PICK v1 \in [LegacySlots -> Ids], v2 \in [MixedSlots -> Ids] :
        gv = [s \in Slots |->
                    [Older(IF s \in MixedSlots THEN v2[s] ELSE None) EXCEPT
                        !.legacy = IF s \in LegacySlots THEN v1[s] ELSE None]]
  BY DEF Init
<1>2. \A s \in Slots : gv[s].id = None
  BY <1>1 DEF Older, Empty
<1> QED BY <1>2 DEF UnmixedOk, Unmixed, Init

\* An attempt is held by one slot at most, by the one it was made for.
LEMMA HeldOnce ==
    ASSUME IInv, NEW s \in Slots
    PROVE  /\ Holds(s) \subseteq Attempts
           /\ \A a \in Holds(s) : Made(a) /\ slotOf[a] = s
<1>1. gv[s] \in Slot /\ SlotOk(s, gv[s])
  BY DEF IInv, TypeOK
<1> QED BY <1>1, NoneAssumption DEF Holds, SlotOk, Slot, Ids, Made

-----------------------------------------------------------------------------
(* The step of the seal, read in the ledger's own terms *)

SealStep ==
    /\ \A a \in Attempts : Evidence(a) => Evidence(a)'
    /\ \A a \in Attempts : Made(a)' <=> (Made(a) \/ \E s \in Slots : a \in Holds(s)')
    /\ \A s \in Slots :
        /\ Holds(s)' \subseteq Attempts
        /\ \A a \in Holds(s) \ Holds(s)' : a \in Attempts /\ Evidence(a)'
        /\ \A a \in Holds(s)' \ Holds(s) : ~Made(a) /\ Holds(s)' = {a}

LEMMA LedgerTakesSealStep ==
    ASSUME IInv, UnmixedOk, [Next]_vars
    PROVE  SealStep
<1>1. IInv'
  BY NextInv
<1>2. \A s \in Slots : /\ Holds(s)' \subseteq Attempts
                       /\ \A a \in Holds(s)' : Made(a)' /\ slotOf'[a] = s
  <2> SUFFICES ASSUME NEW s \in Slots
               PROVE  /\ Holds(s)' \subseteq Attempts
                      /\ \A a \in Holds(s)' : Made(a)' /\ slotOf'[a] = s
    OBVIOUS
  <2>1. (gv[s] \in Slot /\ SlotOk(s, gv[s]))'
    BY <1>1 DEF IInv, TypeOK
  <2> QED BY <2>1, NoneAssumption DEF Holds, SlotOk, Slot, Ids, Made
<1>3. \A s \in Slots : /\ Holds(s) \subseteq Attempts
                       /\ \A a \in Holds(s) : Made(a) /\ slotOf[a] = s
  BY HeldOnce
\* What left its slot is in no slot, so it is accounted for.
<1>4. ASSUME \A a \in Attempts : Made(a) => Made(a)' /\ slotOf'[a] = slotOf[a]
      PROVE  \A s \in Slots : \A a \in Holds(s) \ Holds(s)' : a \in Attempts /\ Evidence(a)'
  <2> SUFFICES ASSUME NEW s \in Slots, NEW a \in Holds(s) \ Holds(s)'
               PROVE  a \in Attempts /\ Evidence(a)'
    OBVIOUS
  <2>1. a \in Attempts /\ Made(a)' /\ slotOf'[a] = s
    BY <1>3, <1>4
  <2>2. \A t \in Slots : a \notin Holds(t)'
    BY <1>2, <2>1
  <2>3. Released(a)'
    BY <2>1, <2>2 DEF Released
  <2> QED BY <1>1, <2>1, <2>3 DEF IInv, ReleaseOk
<1>5. CASE QuietSeal
  <2>1. \A a \in Attempts : Made(a)' <=> Made(a)
    BY <1>5 DEF QuietSeal, Made
  <2>2. \A s \in Slots : \A a \in Holds(s) \ Holds(s)' : a \in Attempts /\ Evidence(a)'
    BY <1>4, <1>5, <2>1 DEF QuietSeal
  <2> QED BY <1>2, <1>3, <1>5, <2>1, <2>2 DEF QuietSeal, SealStep
<1>6. ASSUME NEW s \in Slots, NEW h \in BOOLEAN, NEW a \in Attempts, Prepare(s, h, a)
      PROVE  SealStep
  <2>1. /\ ~Made(a) /\ Holds(s)' = {a}
        /\ slotOf' = [slotOf EXCEPT ![a] = s]
        /\ \A t \in Slots \ {s} : Holds(t)' = Holds(t)
        /\ \A b \in Attempts : Evidence(b)' = Evidence(b)
    BY <1>6, PrepareSeal
  <2>2. /\ \A b \in Attempts : Made(b)' <=> (Made(b) \/ b = a)
        /\ \A b \in Attempts : Made(b) => slotOf'[b] = slotOf[b]
    BY <2>1, NoneAssumption DEF Made, IInv, TypeOK
  <2>3. \A t \in Slots : \A b \in Holds(t) \ Holds(t)' : b \in Attempts /\ Evidence(b)'
    BY <1>4, <2>2
  <2>4. \A b \in Attempts : Made(b)' <=> (Made(b) \/ \E t \in Slots : b \in Holds(t)')
    BY <1>3, <2>1, <2>2
  <2> QED BY <1>2, <2>1, <2>3, <2>4 DEF SealStep
<1> QED BY <1>5, <1>6, NextQuiet

LEMMA SealStepImplements ==
    ASSUME SealStep
    PROVE  Seal!Next
<1> DEFINE held == [s \in Slots |-> Holds(s)]
           spent == {a \in Attempts : Made(a)}
           accounted == {a \in Attempts : Evidence(a)}
<1>1. accounted \subseteq accounted' /\ accounted' \subseteq Attempts
  BY DEF SealStep
<1>2. held' = [s \in Slots |-> Holds(s)'] /\ held' \in [Slots -> SUBSET Attempts]
  BY DEF SealStep
<1>3. spent' = spent \union UNION {held'[s] : s \in Slots}
  <2>1. spent' = {a \in Attempts : Made(a)'}
    OBVIOUS
  <2>2. UNION {held'[s] : s \in Slots} = UNION {Holds(s)' : s \in Slots}
    BY <1>2
  <2>3. UNION {Holds(s)' : s \in Slots} \subseteq Attempts
    BY DEF SealStep
  <2>4. \A a \in Attempts : Made(a)' <=> (Made(a) \/ a \in UNION {Holds(s)' : s \in Slots})
    BY DEF SealStep
  <2> QED BY <2>1, <2>2, <2>3, <2>4
<1>4. ASSUME NEW s \in Slots
      PROVE  /\ held[s] \ held'[s] \subseteq accounted'
             /\ (held'[s] \ held[s]) \intersect spent = {}
             /\ \A a \in held'[s] \ held[s] : held'[s] = {a}
  <2>1. held[s] = Holds(s) /\ held'[s] = Holds(s)'
    BY <1>2
  <2>2. accounted' = {a \in Attempts : Evidence(a)'}
    OBVIOUS
  <2> QED BY <2>1, <2>2 DEF SealStep
<1> QED BY <1>1, <1>2, <1>3, <1>4 DEF Seal!Next, Seal!Leaves, Seal!Enters, Seal!Held

LEMMA LedgerStartsSealed == ASSUME Init PROVE Seal!Init
<1>1. IInv
  BY InitInv
<1>2. [s \in Slots |-> Holds(s)] \in [Slots -> SUBSET Attempts]
  BY <1>1, HeldOnce
<1>3. \A s, t \in Slots : s # t => Holds(s) \intersect Holds(t) = {}
  BY <1>1, HeldOnce
<1>4. {a \in Attempts : Made(a)} = UNION {[s \in Slots |-> Holds(s)][t] : t \in Slots}
  <2>1. \A a \in Attempts : Made(a) <=> \E s \in Slots : a \in Holds(s)
    <3>1. /\ slotOf \in [Attempts -> Slots \union {None}]
          /\ \A a \in Attempts, s \in Slots : slotOf[a] = s <=> a \in {gv[s].id, gv[s].legacy}
      BY DEF Init
    <3>2. \A a \in Attempts : a # None
      BY NoneAssumption
    <3>3. ASSUME NEW a \in Attempts, Made(a)
          PROVE  a \in Holds(slotOf[a]) /\ slotOf[a] \in Slots
      BY <3>1, <3>2, <3>3 DEF Made, Holds
    <3> QED BY <1>1, <3>3, HeldOnce
  <2> QED BY <1>1, <2>1, HeldOnce
<1>5. {a \in Attempts : Evidence(a)} = {}
  BY DEF Init, Evidence, Ended
<1> QED BY <1>2, <1>3, <1>4, <1>5 DEF Seal!Init, Seal!Held

\* The ledger implements the seal, for all slots, attempts and policies, also over the
\* slots of a v1 ledger: an attempt leaves its slot only when it is accounted for, each
\* attempt is made once, and it enters a slot that holds nothing else.  Mixed slots are
\* excluded: of them the last part is false.
THEOREM LedgerImplementsSeal ==
    ASSUME MixedSlots = {}
    PROVE  Spec => SealSpec
<1>1. Init => IInv /\ UnmixedOk /\ Seal!Init
  BY InitInv, UnmixedInit, LedgerStartsSealed
<1>2. IInv /\ UnmixedOk /\ [Next]_vars => IInv' /\ UnmixedOk' /\ Seal!Next
  BY NextInv, UnmixedNext, LedgerTakesSealStep, SealStepImplements
<1> QED BY <1>1, <1>2, PTL DEF Spec, SealSpec, Seal!Spec

\* Where no slot is mixed, a slot that gets a new intent has no v1 intent any more.
THEOREM NewIntentFindsNoLegacy ==
    ASSUME MixedSlots = {}
    PROVE  Spec => NoIntentOverLegacy
<1>1. Init => IInv /\ UnmixedOk
  BY InitInv, UnmixedInit
<1>2. IInv /\ UnmixedOk /\ [Next]_vars => IInv' /\ UnmixedOk'
  BY NextInv, UnmixedNext
<1>3. IInv /\ UnmixedOk /\ [Next]_vars =>
        [\A s \in Slots : gv'[s].id \notin {None, gv[s].id, gv[s].legacy} => gv'[s].legacy = None]_vars
  <2> SUFFICES ASSUME IInv, UnmixedOk, [Next]_vars, NEW s \in Slots,
                      gv'[s].id \notin {None, gv[s].id, gv[s].legacy}
               PROVE  gv'[s].legacy = None
    OBVIOUS
  <2>1. gv'[s].id \in Holds(s)' /\ gv'[s].id \notin Holds(s)
    BY DEF Holds
  <2> QED BY <2>1, NextQuiet, PrepareSeal DEF QuietSeal
<1> QED BY <1>1, <1>2, <1>3, PTL DEF Spec, NoIntentOverLegacy

=============================================================================

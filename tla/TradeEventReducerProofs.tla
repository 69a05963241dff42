---------------------- MODULE TradeEventReducerProofs -----------------------
(***************************************************************************)
(* Theorems about TradeEventReducer, for any deals, queue and crashes.     *)
(***************************************************************************)
EXTENDS TradeEventReducer, FiniteSetTheorems, TLAPS

Run == [tick : BOOLEAN, slot : 0..Size, deal : Deals \union {None}, critical : BOOLEAN]

\* A global variable that a handler writes keeps its type.
LEMMA WriteRing ==
    ASSUME NEW S, NEW ring \in Rings(S), NEW n \in Slot, NEW x \in S \union {None}
    PROVE  [ring EXCEPT ![n] = x] \in Rings(S)
BY DEF Rings

\* Taking the next place of a ring stays inside it.
LEMMA NextSlot ==
    ASSUME NEW n \in Slot
    PROVE  (n + 1) % Size \in Slot
BY SizeAssumption DEF Slot

\* Counting an effect, up to two, keeps the type of the strategy's state.
LEMMA CountEffect ==
    ASSUME NEW m \in Saved, NEW p \in Positions
    PROVE  [m EXCEPT !.closed[p] = IF @ = 2 THEN 2 ELSE @ + 1] \in Saved
<1> DEFINE c == [m.closed EXCEPT ![p] = IF @ = 2 THEN 2 ELSE @ + 1]
<1>1. m.closed \in [Positions -> 0..2] /\ m.enabled \in BOOLEAN
  BY DEF Saved
<1>2. c \in [Positions -> 0..2]
  BY <1>1
<1>3. [m EXCEPT !.closed[p] = IF @ = 2 THEN 2 ELSE @ + 1] = [enabled |-> m.enabled, closed |-> c]
  BY DEF Saved
<1> QED BY <1>1, <1>2, <1>3 DEF Saved

\* The queue and the rings of marks keep their types when one place is written.
LEMMA WriteGlobals ==
    ASSUME NEW g \in Globals, NEW n \in Slot, NEW k \in Slot
    PROVE  /\ \A d \in Deals : [g EXCEPT !.pending[n] = d] \in Globals
           /\ \A d \in Deals : [g EXCEPT !.deals[n] = d, !.dcur = k] \in Globals
           /\ \A p \in Positions : [g EXCEPT !.positions[n] = p, !.pcur = k] \in Globals
<1>1. /\ \A d \in Deals : [g.pending EXCEPT ![n] = d] \in Rings(Deals)
      /\ \A d \in Deals : [g.deals EXCEPT ![n] = d] \in Rings(Deals)
      /\ \A p \in Positions : [g.positions EXCEPT ![n] = p] \in Rings(Positions)
  BY WriteRing DEF Globals
<1> QED BY <1>1 DEF Globals

\* The variables keep their types.
LEMMA Typing == TypeOK /\ [Next]_vars => TypeOK'
<1> SUFFICES ASSUME TypeOK, [Next]_vars PROVE TypeOK'
  OBVIOUS
<1> USE SizeAssumption, CrashAssumption, PositionAssumption
<1>0. /\ gv \in Globals /\ disk \in Globals /\ mem \in Saved /\ run \in Run
      /\ gv.store \in Saved /\ gv.dcur \in Slot /\ gv.pcur \in Slot
      /\ \A m \in Saved : [gv EXCEPT !.store = m] \in Globals
      /\ \A b \in BOOLEAN : [mem EXCEPT !.enabled = b] \in Saved
      /\ [gv EXCEPT !.overflow = TRUE] \in Globals
      /\ [mem EXCEPT !.enabled = FALSE] \in Saved
  BY DEF TypeOK, Run, Globals, Saved
<1>1. ASSUME NEW d \in Deals, OnTradeTransaction(d) PROVE TypeOK'
  <2>1. gv' \in Globals
    <3>1. \/ gv' = gv
          \/ \E n \in Slot : gv' = [gv EXCEPT !.pending[n] = d]
          \/ gv' = [gv EXCEPT !.overflow = TRUE]
      BY <1>1 DEF OnTradeTransaction, EnqueueDeal, Queued
    <3>2. \A n \in Slot : [gv EXCEPT !.pending[n] = d] \in Globals
      BY <1>0, WriteGlobals
    <3> QED BY <1>0, <3>1, <3>2
  <2>2. mem' \in Saved /\ run' \in Run
    <3>1. \E b \in BOOLEAN : run' = [run EXCEPT !.tick = FALSE, !.critical = b]
      BY <1>1 DEF OnTradeTransaction, EnqueueDeal
    <3>2. run' \in Run
      BY <1>0, <3>1 DEF Run
    <3> QED BY <1>0, <1>1, <3>2 DEF OnTradeTransaction, EnqueueDeal
  <2> QED BY <1>1, <2>1, <2>2 DEF OnTradeTransaction, TypeOK, Run
<1>2. CASE OnTick
  BY <1>0, <1>2 DEF OnTick, TypeOK, Run, world
<1>3. CASE ProcessPendingTradeEvents
  <2>1. mem' \in Saved /\ run' \in Run
    <3>1. 0 \in 0..Size
      OBVIOUS
    <3>2. [run EXCEPT !.critical = TRUE] \in Run /\ [run EXCEPT !.slot = 0] \in Run
      BY <1>0, <3>1 DEF Run
    <3> QED BY <1>0, <1>3, <3>2 DEF ProcessPendingTradeEvents
  <2> QED BY <1>3, <2>1 DEF ProcessPendingTradeEvents, TypeOK, Run, world
<1>4. CASE Skip
  <2>1. run' \in Run
    BY <1>0, <1>4 DEF Skip, Run
  <2> QED BY <1>4, <2>1 DEF Skip, TypeOK, Run, world
<1>5. CASE AcceptDeal
  <2> DEFINE d == gv.pending[run.slot]
  <2>1. d \in Deals
    BY <1>5 DEF AcceptDeal, TypeOK
  <2>2. gv' \in Globals
    <3>1. gv' = [gv EXCEPT !.deals[gv.dcur] = d, !.dcur = (gv.dcur + 1) % Size]
      BY <1>0, <1>5 DEF AcceptDeal, Globals
    <3>2. (gv.dcur + 1) % Size \in Slot
      BY <1>0, NextSlot
    <3> QED BY <1>0, <2>1, <3>1, <3>2, WriteGlobals
  <2>3. run' \in Run
    BY <1>0, <1>5, <2>1 DEF AcceptDeal, Run
  <2> QED BY <1>5, <2>2, <2>3 DEF AcceptDeal, TypeOK, Run
<1>6. CASE ClearPending
  <2> DEFINE q == [n \in Slot |-> IF gv.pending[n] = run.deal THEN None ELSE gv.pending[n]]
  <2>1. q \in Rings(Deals)
    BY <1>0 DEF Globals, Rings
  <2>2. gv' = [gv EXCEPT !.pending = q]
    BY <1>0, <1>6 DEF ClearPending, Globals
  <2>3. gv' \in Globals
    BY <1>0, <2>1, <2>2 DEF Globals
  <2> QED BY <1>6, <2>3 DEF ClearPending, TypeOK, world
<1>7. CASE ApplyTradeDeal
  <2>1. gv' \in Globals /\ mem' \in Saved
    <3> DEFINE p == PositionOf[run.deal]
    <3>1. CASE p # None /\ ~PositionExists(p) /\ ~Seen(gv.positions, p)
      <4>1. run.deal \in Deals /\ p \in Positions
        BY <3>1, <1>7 DEF ApplyTradeDeal, TypeOK
      <4>2. gv' = [gv EXCEPT !.positions[gv.pcur] = p, !.pcur = (gv.pcur + 1) % Size]
        BY <1>0, <1>7, <3>1 DEF ApplyTradeDeal, Globals
      <4>3. gv' \in Globals
        <5>1. (gv.pcur + 1) % Size \in Slot
          BY <1>0, NextSlot
        <5> QED BY <1>0, <4>1, <4>2, <5>1, WriteGlobals
      <4>4. mem' \in Saved
        <5>1. mem' = [mem EXCEPT !.closed[p] = IF @ = 2 THEN 2 ELSE @ + 1]
          BY <1>7, <3>1 DEF ApplyTradeDeal
        <5>2. mem \in Saved
          BY <1>0
        <5> QED BY <4>1, <5>1, <5>2, CountEffect
      <4> QED BY <4>3, <4>4
    <3> QED BY <1>0, <1>7, <3>1 DEF ApplyTradeDeal
  <2>2. run' \in Run
    <3>1. run.slot < Size /\ run.slot + 1 \in 0..Size
      BY <1>0, <1>7 DEF ApplyTradeDeal, TypeOK, Run
    <3>2. /\ [run EXCEPT !.slot = run.slot + 1] \in Run
          /\ [run EXCEPT !.critical = TRUE, !.slot = run.slot + 1] \in Run
      BY <1>0, <3>1 DEF Run
    <3> QED BY <1>0, <1>7, <3>2 DEF ApplyTradeDeal
  <2> QED BY <1>7, <2>1, <2>2 DEF ApplyTradeDeal, TypeOK, Run, world
<1>8. CASE LoopEnds
  BY <1>8 DEF LoopEnds, TypeOK, world
<1>9. CASE PersistState
  BY <1>0, <1>9 DEF PersistState, TypeOK, world
<1>10. CASE Trade \/ Start \/ Stop
  BY <1>0, <1>10 DEF Trade, Start, Stop, TypeOK, world
<1>14. CASE SetEnabled
  BY <1>0, <1>14 DEF SetEnabled, TypeOK, world
<1>11. CASE Flush \/ Crash
  BY <1>11 DEF Flush, Crash, TypeOK, world
<1>12. ASSUME NEW d \in Deals, Execute(d) \/ AddToHistory(d) PROVE TypeOK'
  BY <1>12 DEF Execute, AddToHistory, TypeOK
<1>13. CASE UNCHANGED vars
  BY <1>13 DEF vars, TypeOK
<1> QED BY <1>1, <1>2, <1>3, <1>4, <1>5, <1>6, <1>7, <1>8, <1>9, <1>10, <1>11, <1>12, <1>13, <1>14
           DEF Next, Step

-----------------------------------------------------------------------------
(* What the invariants rest on *)

\* Whatever is marked, in the global variables or on the disk, was processed.
Marked ==
    /\ \A d \in Deals : Seen(gv.deals, d) \/ Seen(disk.deals, d) => d \in done
    /\ pc = "clear" => run.deal \in done

\* A handler that goes on after an overflow has stopped the strategy.
Noticed ==
    /\ pc \in {"scan", "clear", "close"} => ~gv.overflow
    /\ pc \in {"save", "gate"} /\ gv.overflow => ~mem.enabled

IInv == TypeOK /\ Marked /\ HeardNotLost /\ Noticed

LEMMA InitInv == Init => IInv
<1> SUFFICES ASSUME Init PROVE IInv
  OBVIOUS
<1>1. Ring \in Rings(Deals) /\ Ring \in Rings(Positions) /\ 0 \in Slot /\ 0 \in 0..Size
  BY SizeAssumption DEF Ring, Rings, Slot
<1>2. Fresh \in Globals /\ Fresh.store \in Saved
  BY <1>1 DEF Fresh, Globals, Saved
<1>3. TypeOK
  BY <1>1, <1>2, CrashAssumption DEF Init, TypeOK
<1>4. \A d \in Deals : ~Seen(Fresh.deals, d)
  BY NoneAssumption DEF Seen, Fresh, Ring
<1> QED BY <1>3, <1>4 DEF Init, IInv, Marked, HeardNotLost, Noticed

\* Once written, a place of the queue or of a ring is seen.
LEMMA SeenAfterWrite ==
    ASSUME NEW S, NEW ring \in Rings(S), NEW n \in Slot, NEW x
    PROVE  /\ Seen([ring EXCEPT ![n] = x], x)
           /\ \A y : Seen([ring EXCEPT ![n] = x], y) => y = x \/ Seen(ring, y)
           /\ ring[n] = None => \A y \in S : None # y /\ Seen(ring, y) => Seen([ring EXCEPT ![n] = x], y)
BY DEF Seen, Rings

\* Marks are only made of deals that are processed.
LEMMA MarkedNext == IInv /\ [Next]_vars => Marked'
<1> SUFFICES ASSUME IInv, [Next]_vars PROVE Marked'
  OBVIOUS
<1> USE DEF IInv, Marked, world
<1>0. gv \in Globals /\ disk \in Globals /\ gv.deals \in Rings(Deals) /\ gv.dcur \in Slot
  BY DEF TypeOK, Globals
<1>1. ASSUME NEW d \in Deals, OnTradeTransaction(d) PROVE Marked'
  <2>1. gv'.deals = gv.deals
    BY <1>0, <1>1 DEF OnTradeTransaction, EnqueueDeal, Queued, Globals
  <2> QED BY <1>1, <2>1 DEF OnTradeTransaction
<1>5. CASE AcceptDeal
  <2> DEFINE d == gv.pending[run.slot]
  <2>1. gv'.deals = [gv.deals EXCEPT ![gv.dcur] = d] /\ done' = done \union {d} /\ run'.deal = d
    BY <1>0, <1>5 DEF AcceptDeal, Globals, TypeOK
  <2>2. \A y : Seen(gv'.deals, y) => y = d \/ Seen(gv.deals, y)
    <3> HIDE DEF d
    <3> QED BY <1>0, <2>1 DEF Seen, Rings
  <2>3. disk' = disk /\ pc' = "clear"
    BY <1>5 DEF AcceptDeal
  <2>4. \A y \in Deals : Seen(gv'.deals, y) \/ Seen(disk'.deals, y) => y \in done'
    BY <2>1, <2>2, <2>3
  <2> QED BY <2>1, <2>3, <2>4
<1>6. CASE ClearPending \/ ApplyTradeDeal
  <2>1. gv'.deals = gv.deals
    BY <1>0, <1>6 DEF ClearPending, ApplyTradeDeal, Globals
  <2> QED BY <1>6, <2>1 DEF ClearPending, ApplyTradeDeal
<1>9. CASE PersistState \/ SetEnabled \/ Stop
  <2>1. gv'.deals = gv.deals
    BY <1>0, <1>9 DEF PersistState, SetEnabled, Stop, Globals
  <2>2. disk'.deals = gv'.deals \/ disk' = disk
    BY <1>9 DEF PersistState, SetEnabled, Stop
  <2>3. pc' # "clear" /\ done' = done
    BY <1>9 DEF PersistState, SetEnabled, Stop
  <2> QED BY <2>1, <2>2, <2>3
<1>10. CASE OnTick \/ ProcessPendingTradeEvents \/ Skip \/ LoopEnds \/ Trade \/ Start
  BY <1>10 DEF OnTick, ProcessPendingTradeEvents, Skip, LoopEnds, Trade, Start
<1>11. CASE Flush \/ Crash
  BY <1>11 DEF Flush, Crash
<1>12. ASSUME NEW d \in Deals, Execute(d) \/ AddToHistory(d) PROVE Marked'
  BY <1>12 DEF Execute, AddToHistory
<1>13. CASE UNCHANGED vars
  BY <1>13 DEF vars
<1> QED BY <1>1, <1>5, <1>6, <1>9, <1>10, <1>11, <1>12, <1>13 DEF Next, Step

\* Nothing that was heard of leaves the queue before it is processed.
LEMMA HeardNext == IInv /\ [Next]_vars => HeardNotLost'
<1> SUFFICES ASSUME IInv, [Next]_vars PROVE HeardNotLost'
  OBVIOUS
<1> USE DEF IInv, HeardNotLost, world
<1>0. gv \in Globals /\ gv.pending \in Rings(Deals) /\ heard \subseteq Deals
  BY DEF TypeOK, Globals
<1>1. ASSUME NEW d \in Deals, OnTradeTransaction(d) PROVE HeardNotLost'
  <2>0. heard' = heard \union {d} /\ done' = done
    BY <1>1 DEF OnTradeTransaction
  <2>1. CASE Seen(gv.deals, d) \/ Seen(gv.pending, d)
    <3>1. gv' = gv
      BY <1>1, <2>1 DEF OnTradeTransaction, EnqueueDeal
    <3> QED BY <2>0, <2>1, <3>1 DEF Marked
  <2>2. CASE Queued(d)
    <3>1. PICK n \in Slot : gv.pending[n] = None /\ gv' = [gv EXCEPT !.pending[n] = d]
      BY <2>2 DEF Queued
    <3>2. gv'.pending = [gv.pending EXCEPT ![n] = d] /\ gv'.overflow = gv.overflow
      BY <1>0, <3>1 DEF Globals
    <3>3. \A y \in Deals : Seen(gv.pending, y) => Seen(gv'.pending, y)
      BY <1>0, <3>1, <3>2, SeenAfterWrite, NoneAssumption
    <3>4. Seen(gv'.pending, d)
      BY <1>0, <3>2, SeenAfterWrite
    <3> QED BY <1>0, <2>0, <3>2, <3>3, <3>4
  <2>3. CASE gv' = [gv EXCEPT !.overflow = TRUE]
    <3>1. gv'.overflow
      BY <1>0, <2>3 DEF Globals
    <3> QED BY <3>1
  <2> QED BY <1>1, <2>1, <2>2, <2>3 DEF OnTradeTransaction, EnqueueDeal
<1>5. CASE AcceptDeal
  <2>1. gv'.pending = gv.pending /\ gv'.overflow = gv.overflow
    BY <1>0, <1>5 DEF AcceptDeal, Globals
  <2> QED BY <1>5, <2>1 DEF AcceptDeal
<1>6. CASE ClearPending
  <2> DEFINE q == [n \in Slot |-> IF gv.pending[n] = run.deal THEN None ELSE gv.pending[n]]
  <2>1. gv'.pending = q /\ gv'.overflow = gv.overflow
    BY <1>0, <1>6 DEF ClearPending, Globals
  <2>2. \A y \in Deals : Seen(gv.pending, y) => y = run.deal \/ Seen(q, y)
    BY DEF Seen
  <2>3. run.deal \in done
    BY <1>6 DEF ClearPending, Marked
  <2> QED BY <1>0, <1>6, <2>1, <2>2, <2>3 DEF ClearPending
<1>7. CASE ApplyTradeDeal \/ PersistState \/ SetEnabled \/ Stop
  <2>1. gv'.pending = gv.pending /\ gv'.overflow = gv.overflow
    BY <1>0, <1>7 DEF ApplyTradeDeal, PersistState, SetEnabled, Stop, Globals
  <2> QED BY <1>7, <2>1 DEF ApplyTradeDeal, PersistState, SetEnabled, Stop
<1>10. CASE OnTick \/ ProcessPendingTradeEvents \/ Skip \/ LoopEnds \/ Trade \/ Start \/ Flush \/ Crash
  BY <1>10 DEF OnTick, ProcessPendingTradeEvents, Skip, LoopEnds, Trade, Start, Flush, Crash
<1>12. ASSUME NEW d \in Deals, Execute(d) \/ AddToHistory(d) PROVE HeardNotLost'
  BY <1>12 DEF Execute, AddToHistory
<1>13. CASE UNCHANGED vars
  BY <1>13 DEF vars
<1> QED BY <1>1, <1>5, <1>6, <1>7, <1>10, <1>12, <1>13 DEF Next, Step

\* No handler carries an overflow past its loop without stopping the strategy.
LEMMA NoticedNext == IInv /\ [Next]_vars => Noticed'
<1> SUFFICES ASSUME IInv, [Next]_vars PROVE Noticed'
  OBVIOUS
<1> USE DEF IInv, Noticed, world
<1>0. gv \in Globals /\ mem \in Saved
  BY DEF TypeOK
<1>1. ASSUME NEW d \in Deals, OnTradeTransaction(d) PROVE Noticed'
  BY <1>1 DEF OnTradeTransaction
<1>3. CASE ProcessPendingTradeEvents
  <2>1. gv.overflow => ~mem'.enabled
    BY <1>0, <1>3 DEF ProcessPendingTradeEvents, Saved
  <2> QED BY <1>3, <2>1 DEF ProcessPendingTradeEvents
<1>5. CASE AcceptDeal
  <2>1. gv'.overflow = gv.overflow
    BY <1>0, <1>5 DEF AcceptDeal, Globals
  <2> QED BY <1>5, <2>1 DEF AcceptDeal
<1>6. CASE ClearPending \/ ApplyTradeDeal
  <2>1. gv'.overflow = gv.overflow
    BY <1>0, <1>6 DEF ClearPending, ApplyTradeDeal, Globals
  <2> QED BY <1>6, <2>1 DEF ClearPending, ApplyTradeDeal
<1>9. CASE PersistState
  <2>1. gv'.overflow = gv.overflow
    BY <1>0, <1>9 DEF PersistState, Globals
  <2> QED BY <1>9, <2>1 DEF PersistState
<1>10. CASE OnTick \/ Skip \/ LoopEnds \/ Trade \/ SetEnabled \/ Start \/ Stop \/ Flush \/ Crash
  BY <1>10 DEF OnTick, Skip, LoopEnds, Trade, SetEnabled, Start, Stop, Flush, Crash
<1>12. ASSUME NEW d \in Deals, Execute(d) \/ AddToHistory(d) PROVE Noticed'
  BY <1>12 DEF Execute, AddToHistory
<1>13. CASE UNCHANGED vars
  BY <1>13 DEF vars
<1> QED BY <1>1, <1>3, <1>5, <1>6, <1>9, <1>10, <1>12, <1>13 DEF Next, Step

LEMMA Inductive == Spec => []IInv
<1>1. IInv /\ [Next]_vars => IInv'
  BY Typing, MarkedNext, HeardNext, NoticedNext DEF IInv
<1> QED BY InitInv, <1>1, PTL DEF Spec

-----------------------------------------------------------------------------
(* A closed position acts once, if the ring has a place for every position *)

Distinct(g) ==
    \A m, n \in Slot : g.positions[m] # None /\ g.positions[m] = g.positions[n] => m = n

Full(g) == \A n \in Slot : g.positions[n] # None

\* The ring is filled from its start to the cursor, until it is full.
Filled(g) == Full(g) \/ \A n \in Slot : g.positions[n] = None <=> g.pcur <= n

\* What was counted is marked.
Backed(m, g) ==
    \A p \in Positions : m.closed[p] = 0 \/ (m.closed[p] = 1 /\ Seen(g.positions, p))

Tidy(g) == Distinct(g) /\ Filled(g) /\ Backed(g.store, g)

\* The memory of a running EA is backed by the marks, and so is each state store by
\* the marks that are saved with it: a restart cannot count what it has not marked.
Once ==
    /\ Tidy(gv) /\ Tidy(disk)
    /\ pc # "down" => Backed(mem, gv)
    /\ EffectOnce

Fits == IsFiniteSet(Positions) /\ Cardinality(Positions) <= Size

\* A position that has no mark finds a free place under the cursor: otherwise the ring
\* would hold Size others.
LEMMA FreePlace ==
    ASSUME Fits, NEW g \in Globals, Tidy(g), NEW p \in Positions, ~Seen(g.positions, p)
    PROVE  ~Full(g) /\ g.positions[g.pcur] = None
<1>0. g.positions \in [Slot -> Positions \union {None}] /\ g.pcur \in Slot
  BY DEF Globals, Rings
<1>1. ~Full(g)
  <2> SUFFICES ASSUME Full(g) PROVE FALSE
    OBVIOUS
  <2>1. g.positions \in [Slot -> Positions \ {p}]
    BY <1>0 DEF Full, Seen
  <2>2. IsFiniteSet(Positions \ {p}) /\ Cardinality(Positions \ {p}) = Cardinality(Positions) - 1
    BY FS_RemoveElement DEF Fits
  <2>3. IsFiniteSet(Slot) /\ Cardinality(Slot) = Size
    BY SizeAssumption, FS_Interval DEF Slot
  <2>4. Cardinality(Positions) \in Nat
    BY FS_CardinalityType DEF Fits
  <2>5. Cardinality(Positions \ {p}) < Cardinality(Slot)
    BY <2>2, <2>3, <2>4, SizeAssumption DEF Fits
  <2>6. \E m, n \in Slot : m # n /\ g.positions[m] = g.positions[n]
    BY <2>1, <2>2, <2>3, <2>5, FS_PigeonHole
  <2> QED BY <2>6 DEF Tidy, Distinct, Full
<1>2. g.pcur <= g.pcur
  BY <1>0, SizeAssumption DEF Slot
<1> QED BY <1>0, <1>1, <1>2 DEF Tidy, Filled

\* Marking that position keeps every other mark.
LEMMA TakePlace ==
    ASSUME Fits, NEW g \in Globals, Tidy(g), NEW p \in Positions, ~Seen(g.positions, p),
           NEW h, h = [g EXCEPT !.positions[g.pcur] = p, !.pcur = (g.pcur + 1) % Size]
    PROVE  /\ Distinct(h) /\ Filled(h) /\ h.store = g.store /\ Seen(h.positions, p)
           /\ \A q \in Positions : Seen(g.positions, q) => Seen(h.positions, q)
<1>0. /\ g.positions \in [Slot -> Positions \union {None}] /\ g.pcur \in Slot
      /\ h.positions = [g.positions EXCEPT ![g.pcur] = p]
      /\ h.pcur = (g.pcur + 1) % Size
      /\ h.store = g.store
  BY DEF Globals, Rings
<1>1. g.positions[g.pcur] = None /\ p # None /\ \A q \in Positions : q # None
  BY FreePlace, NoneAssumption
<1>2. \A n \in Slot : h.positions[n] = IF n = g.pcur THEN p ELSE g.positions[n]
  BY <1>0
<1>3. Distinct(h)
  BY <1>0, <1>1, <1>2 DEF Distinct, Tidy, Seen
<1>4. Filled(h)
  <2>1. \A n \in Slot : g.positions[n] = None <=> g.pcur <= n
    BY FreePlace DEF Tidy, Filled
  <2>2. CASE g.pcur + 1 < Size
    <3>1. h.pcur = g.pcur + 1
      BY <1>0, <2>2, SizeAssumption DEF Slot
    <3>2. \A n \in Slot : h.positions[n] = None <=> h.pcur <= n
      BY <1>0, <1>1, <1>2, <2>1, <3>1, SizeAssumption DEF Slot
    <3> QED BY <3>2 DEF Filled
  <2>3. CASE g.pcur + 1 = Size
    <3>1. \A n \in Slot : n = g.pcur \/ ~(g.pcur <= n)
      BY <1>0, <2>3, SizeAssumption DEF Slot
    <3>2. Full(h)
      BY <1>1, <1>2, <2>1, <3>1 DEF Full
    <3> QED BY <3>2 DEF Filled
  <2> QED BY <1>0, <2>2, <2>3, SizeAssumption DEF Slot
<1>5. Seen(h.positions, p) /\ \A q \in Positions : Seen(g.positions, q) => Seen(h.positions, q)
  BY <1>0, <1>1, <1>2 DEF Seen
<1> QED BY <1>0, <1>3, <1>4, <1>5

\* Saving the memory of a running EA leaves the state store backed.
LEMMA SaveBacked ==
    ASSUME NEW g \in Globals, Tidy(g), NEW m, Backed(m, g), NEW h, h = [g EXCEPT !.store = m]
    PROVE  Tidy(h) /\ h.positions = g.positions
<1>1. h.positions = g.positions /\ h.pcur = g.pcur /\ h.store = m
  BY DEF Globals
<1> QED BY <1>1 DEF Tidy, Distinct, Filled, Full, Backed

\* Neither the queue nor the marks of deals matter.
LEMMA SamePlaces ==
    ASSUME NEW g, Tidy(g), NEW h,
           h.positions = g.positions, h.pcur = g.pcur, h.store = g.store
    PROVE  Tidy(h) /\ \A m : Backed(m, g) => Backed(m, h)
BY DEF Tidy, Distinct, Filled, Full, Backed

LEMMA OnceInit == Init => Once
<1> SUFFICES ASSUME Init PROVE Once
  OBVIOUS
<1>1. /\ Fresh.positions = Ring /\ Fresh.pcur = 0
      /\ Fresh.store.closed = [p \in Positions |-> 0]
  BY DEF Fresh
<1>2. Tidy(Fresh) /\ Backed(Fresh.store, Fresh)
  BY <1>1, SizeAssumption DEF Tidy, Distinct, Filled, Full, Backed, Ring, Slot
<1> QED BY <1>1, <1>2 DEF Init, Once, EffectOnce

LEMMA OnceNext == ASSUME Fits PROVE TypeOK /\ Once /\ [Next]_vars => Once'
<1> SUFFICES ASSUME TypeOK, Once, [Next]_vars PROVE Once'
  OBVIOUS
<1>0. gv \in Globals /\ disk \in Globals /\ mem \in Saved /\ Tidy(gv) /\ Tidy(disk)
  BY DEF TypeOK, Once
<1>1. ASSUME gv'.positions = gv.positions, gv'.pcur = gv.pcur, gv'.store = gv.store,
             mem'.closed = mem.closed, disk' = disk, pc # "down"
      PROVE  Once'
  <2>1. Tidy(gv') /\ \A m : Backed(m, gv) => Backed(m, gv')
    <3> HIDE DEF Tidy
    <3> QED BY <1>0, <1>1, SamePlaces
  <2>2. Backed(mem, gv) /\ (Backed(mem, gv') => Backed(mem', gv'))
    BY <1>1 DEF Once, Backed
  <2> QED BY <1>0, <1>1, <2>1, <2>2 DEF Once, EffectOnce
<1>2. ASSUME NEW d \in Deals, OnTradeTransaction(d) PROVE Once'
  <2>1. gv'.positions = gv.positions /\ gv'.pcur = gv.pcur /\ gv'.store = gv.store
    BY <1>0, <1>2 DEF OnTradeTransaction, EnqueueDeal, Queued, Globals
  <2>2. mem'.closed = mem.closed /\ disk' = disk /\ pc # "down"
    BY <1>0, <1>2 DEF OnTradeTransaction, EnqueueDeal, Saved
  <2> QED BY <1>1, <2>1, <2>2
<1>3. CASE AcceptDeal \/ ClearPending
  <2>1. gv'.positions = gv.positions /\ gv'.pcur = gv.pcur /\ gv'.store = gv.store
    BY <1>0, <1>3 DEF AcceptDeal, ClearPending, Globals
  <2> QED BY <1>1, <1>3, <2>1 DEF AcceptDeal, ClearPending
<1>4. CASE OnTick \/ ProcessPendingTradeEvents \/ Skip \/ LoopEnds \/ Trade
  <2>1. gv' = gv /\ disk' = disk /\ pc # "down"
    BY <1>4 DEF OnTick, ProcessPendingTradeEvents, Skip, LoopEnds, Trade
  <2>2. mem'.closed = mem.closed
    BY <1>0, <1>4 DEF OnTick, ProcessPendingTradeEvents, Skip, LoopEnds, Trade, Saved
  <2> QED BY <1>1, <2>1, <2>2
<1>5. CASE ApplyTradeDeal
  <2> DEFINE p == PositionOf[run.deal]
  <2>0. disk' = disk /\ pc # "down"
    BY <1>5 DEF ApplyTradeDeal, world
  <2>1. CASE p # None /\ ~PositionExists(p) /\ ~Seen(gv.positions, p)
    <3>1. p \in Positions
      BY <1>5, <2>1, PositionAssumption DEF ApplyTradeDeal, TypeOK
    <3>2. gv' = [gv EXCEPT !.positions[gv.pcur] = p, !.pcur = (gv.pcur + 1) % Size]
      BY <1>0, <1>5, <2>1 DEF ApplyTradeDeal, Globals
    <3>3. /\ Distinct(gv') /\ Filled(gv') /\ gv'.store = gv.store /\ Seen(gv'.positions, p)
          /\ \A q \in Positions : Seen(gv.positions, q) => Seen(gv'.positions, q)
      <4> HIDE DEF p
      <4>1. gv \in Globals /\ Tidy(gv) /\ ~Seen(gv.positions, p)
        BY <1>0, <2>1
      <4> QED BY <3>1, <3>2, <4>1, TakePlace, ZenonT(30)
    <3>4. Backed(mem, gv) /\ mem.closed[p] = 0
      BY <2>0, <2>1, <3>1 DEF Once, Backed
    <3>5. mem'.closed = [mem.closed EXCEPT ![p] = 1]
      BY <1>0, <1>5, <2>1, <3>1, <3>4 DEF ApplyTradeDeal, Saved
    <3>6. Backed(mem', gv')
      <4> HIDE DEF p
      <4>1. \A q \in Positions : mem'.closed[q] = IF q = p THEN 1 ELSE mem.closed[q]
        BY <1>0, <3>1, <3>5 DEF Saved
      <4> QED BY <3>3, <3>4, <4>1 DEF Backed
    <3>7. Tidy(gv')
      BY <1>0, <3>3 DEF Tidy, Backed
    <3>8. EffectOnce'
      BY <3>6 DEF Backed, EffectOnce
    <3> QED BY <1>0, <2>0, <3>6, <3>7, <3>8 DEF Once
  <2>2. CASE ~(p # None /\ ~PositionExists(p) /\ ~Seen(gv.positions, p))
    BY <1>1, <1>5, <2>0, <2>2 DEF ApplyTradeDeal
  <2> QED BY <2>1, <2>2
<1>6. CASE PersistState \/ Stop
  <2>1. Backed(mem, gv) /\ mem' = mem
    BY <1>6 DEF PersistState, Stop, Once
  <2>2. \/ gv' = gv /\ disk' = disk
        \/ gv' = [gv EXCEPT !.store = mem] /\ disk' = gv'
    BY <1>6 DEF PersistState, Stop
  <2>3. Tidy(gv') /\ Tidy(disk') /\ gv'.positions = gv.positions
    BY <1>0, <2>1, <2>2, SaveBacked
  <2> QED BY <2>1, <2>3 DEF Once, Backed, EffectOnce
<1>7. CASE SetEnabled
  <2>1. Backed(mem, gv) /\ mem'.closed = mem.closed
    BY <1>0, <1>7 DEF SetEnabled, Once, Saved
  <2>2. Backed(mem', gv)
    BY <2>1 DEF Backed
  <2>3. gv' = [gv EXCEPT !.store = mem'] /\ disk' = gv'
    BY <1>7 DEF SetEnabled
  <2>4. Tidy(gv') /\ Tidy(disk') /\ gv'.positions = gv.positions
    BY <1>0, <2>2, <2>3, SaveBacked
  <2> QED BY <2>1, <2>2, <2>4 DEF Once, Backed, EffectOnce
<1>8. CASE Start
  <2>1. gv' = gv /\ disk' = disk /\ mem' = gv.store
    BY <1>8 DEF Start
  <2>2. Backed(gv.store, gv)
    BY <1>0 DEF Tidy
  <2>3. EffectOnce'
    BY <2>1, <2>2 DEF Backed, EffectOnce
  <2> QED BY <1>0, <2>1, <2>2, <2>3 DEF Once
<1>9. CASE Flush \/ Crash
  BY <1>0, <1>9 DEF Flush, Crash, Once, EffectOnce
<1>10. ASSUME NEW d \in Deals, Execute(d) \/ AddToHistory(d) PROVE Once'
  BY <1>10 DEF Execute, AddToHistory, Once, EffectOnce
<1>11. CASE UNCHANGED vars
  BY <1>11 DEF vars, Once, EffectOnce
<1> QED BY <1>2, <1>3, <1>4, <1>5, <1>6, <1>7, <1>8, <1>9, <1>10, <1>11 DEF Next, Step

-----------------------------------------------------------------------------
(* The theorems *)

\* The state of the queue, of the rings and of the handler stays well formed: the
\* cursor of a ring never leaves it, and a deal that is being processed is a deal.
THEOREM TypeCorrect == Spec => []TypeOK
<1>1. IInv => TypeOK
  BY DEF IInv
<1> QED BY Inductive, <1>1, PTL

\* A deal of which OnTradeTransaction heard is queued until it is processed, whatever is
\* flushed and whatever the history has, unless the queue has overflowed.
THEOREM NothingHeardIsLost == Spec => []HeardNotLost
<1>1. IInv => HeardNotLost
  BY DEF IInv
<1> QED BY Inductive, <1>1, PTL

\* No tick gets past the admission gate once the queue has overflowed, also when that
\* was in an earlier run of the EA.
THEOREM OverflowIsSticky == Spec => []OverflowStopsTrading
<1>1. IInv => OverflowStopsTrading
  BY DEF IInv, Noticed, OverflowStopsTrading
<1> QED BY Inductive, <1>1, PTL

\* A closed position acts on the strategy at most once, whatever events are repeated,
\* flushed or lost in a crash, as long as the ring has a place for every position.
THEOREM EffectHappensOnce == ASSUME Fits PROVE Spec => []EffectOnce
<1>1. TypeOK /\ Once /\ [Next]_vars => Once'
  BY OnceNext
<1>2. Once => EffectOnce
  BY DEF Once
<1> QED BY TypeCorrect, OnceInit, <1>1, <1>2, PTL DEF Spec

=============================================================================

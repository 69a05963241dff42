---------------------------- MODULE RuntimeProofs ----------------------------
(* Theorems about the registry of magic numbers, the synchronous trade manager and the   *)
(* main loop of an EA, each for every value of its constants, and about the parts of an  *)
(* EA taken together, as MCRuntime composes them.                                        *)
EXTENDS MCRuntime, AsyncTradeManagerProofs

-----------------------------------------------------------------------------
(* CMagicRegistry *)

\* Who is between the open and the close of the file holds it, so that at most one EA is;
\* what a scan found missing is still missing when the entry is appended; entries are
\* never removed; and who still tries has tries left.
MagicInv ==
    /\ MagicTypeOK
    /\ \A e \in EAs : at[e] \in {"read", "scan", "append"} => handle = e
    /\ \A e \in EAs : at[e] = "append" => ~Taken(MagicOf[e])
    /\ \A e \in EAs : at[e] \in {"check", "read", "reserve"} => tries[e] < MaxTries
    /\ ReservedOnce
    /\ RunsRegistered

\* The registry with the entry of an EA whose magic nobody has.
LEMMA EntryAdded ==
    ASSUME MagicInv, NEW e \in EAs, ~Taken(MagicOf[e]), AddEntry(e)
    PROVE  /\ ReservedOnce'
           /\ \A r \in registry' : r.by \in EAs /\ r = [magic |-> MagicOf[r.by], by |-> r.by]
           /\ \E r \in registry' : r.magic = MagicOf[e]
           /\ registry \subseteq registry'
<1> DEFINE n == [magic |-> MagicOf[e], by |-> e]
<1>1. registry' = registry \union {n}
  BY DEF AddEntry
<1>2. \A r \in registry : r.magic # n.magic
  BY DEF Taken
<1>3. n.magic = MagicOf[e] /\ n.by = e
  OBVIOUS
<1>4. \A r \in registry : r.by \in EAs /\ r = [magic |-> MagicOf[r.by], by |-> r.by]
  BY DEF MagicInv, MagicTypeOK
<1>5. ReservedOnce
  BY DEF MagicInv
<1>6. n = [magic |-> MagicOf[n.by], by |-> n.by] /\ n.by \in EAs
  BY <1>3
<1> HIDE DEF n
<1> QED BY <1>1, <1>2, <1>3, <1>4, <1>5, <1>6 DEF ReservedOnce

LEMMA MagicInvKept == MagicInv /\ [MagicNext]_magicVars => MagicInv'
<1> SUFFICES ASSUME MagicInv, [MagicNext]_magicVars PROVE MagicInv'
  OBVIOUS
<1> USE MagicAssumption
<1>1. /\ at \in [EAs -> {"off", "check", "read", "reserve", "scan", "append", "runs"}]
      /\ tries \in [EAs -> 0..MaxTries]
  BY DEF MagicInv, MagicTypeOK
<1>2. ASSUME NEW e \in EAs, OnInit(e) PROVE MagicInv'
  BY <1>1, <1>2 DEF OnInit, GoTo, MagicInv, MagicTypeOK, ReservedOnce, RunsRegistered, Taken
<1>3. ASSUME NEW e \in EAs, CheckOpen(e) PROVE MagicInv'
  BY <1>1, <1>3 DEF CheckOpen, GoTo, MagicInv, MagicTypeOK, ReservedOnce, RunsRegistered, Taken
<1>4. ASSUME NEW e \in EAs, ReadAll(e) PROVE MagicInv'
  BY <1>1, <1>4 DEF ReadAll, GoTo, MagicInv, MagicTypeOK, ReservedOnce, RunsRegistered, Taken
<1>5. ASSUME NEW e \in EAs, ReserveOpen(e) PROVE MagicInv'
  <2>1. CASE handle = Nobody
    <3>1. handle' = e /\ at' = [at EXCEPT ![e] = "scan"] /\ tries' = tries /\ registry' = registry
      BY <1>5, <2>1 DEF ReserveOpen, GoTo
    <3> QED BY <1>1, <2>1, <3>1 DEF MagicInv, MagicTypeOK, ReservedOnce, RunsRegistered, Taken
  <2>2. CASE handle # Nobody
    <3>1. /\ handle' = handle /\ registry' = registry
          /\ tries' = [tries EXCEPT ![e] = @ + 1]
          /\ at' = [at EXCEPT ![e] = IF tries[e] + 1 = MaxTries THEN "runs" ELSE "reserve"]
      BY <1>5, <2>2 DEF ReserveOpen, GoTo
    <3>2. tries[e] \in Nat /\ tries[e] < MaxTries /\ at[e] = "reserve"
      BY <1>1, <1>5 DEF ReserveOpen, MagicInv
    <3>3. tries' \in [EAs -> 0..MaxTries]
      BY <1>1, <3>1, <3>2
    <3> QED BY <1>1, <3>1, <3>2, <3>3
            DEF MagicInv, MagicTypeOK, ReservedOnce, RunsRegistered, Taken
  <2> QED BY <2>1, <2>2
<1>6. ASSUME NEW e \in EAs, Scan(e) PROVE MagicInv'
  BY <1>1, <1>6 DEF Scan, GoTo, MagicInv, MagicTypeOK, ReservedOnce, RunsRegistered, Taken
<1>7. ASSUME NEW e \in EAs, AppendEntry(e) PROVE MagicInv'
  BY <1>1, <1>7, EntryAdded
     DEF AppendEntry, GoTo, MagicInv, MagicTypeOK, RunsRegistered, Taken
<1>8. ASSUME NEW e \in EAs, Kill(e) PROVE MagicInv'
  BY <1>1, <1>8, EntryAdded DEF Kill, GoTo, MagicInv, MagicTypeOK, ReservedOnce, RunsRegistered, Taken
<1>9. CASE UNCHANGED magicVars
  BY <1>9 DEF magicVars, MagicInv, MagicTypeOK, ReservedOnce, RunsRegistered, Taken
<1> QED BY <1>2, <1>3, <1>4, <1>5, <1>6, <1>7, <1>8, <1>9 DEF MagicNext

LEMMA MagicInvHolds == MagicSpec => []MagicInv
<1>1. MagicInit => MagicInv
  BY MagicAssumption
     DEF MagicInit, MagicInv, MagicTypeOK, ReservedOnce, RunsRegistered, Taken
<1> QED BY <1>1, MagicInvKept, PTL DEF MagicSpec

\* The registry, its lock and the EAs keep their types.
THEOREM MagicTypes == MagicSpec => []MagicTypeOK
  BY MagicInvHolds, PTL DEF MagicInv

\* No two EAs, of however many, have an entry for one magic.
THEOREM MagicReservedOnce == MagicSpec => []ReservedOnce
  BY MagicInvHolds, PTL DEF MagicInv

\* An EA that runs unregistered has found the file locked in every one of its tries.
THEOREM MagicRunsRegistered == MagicSpec => []RunsRegistered
  BY MagicInvHolds, PTL DEF MagicInv

-----------------------------------------------------------------------------
(* CSafeTradeManager *)

\* While a call runs, its attempt number is one more than the answers it has had.
SafeInv ==
    /\ SafeTypeOK
    /\ opened = told + hidden
    /\ call # 0 => answered = call - 1
    /\ answered <= SendRetries + 1

\* A confirmed order was executed and an unconfirmed one only under a TIMEOUT.
LEMMA ExecutedIsTold ==
    ASSUME NEW code \in Retcodes, NEW done \in Executed(code)
    PROVE  /\ done \in BOOLEAN
           /\ (done /\ code # "TIMEOUT") <=> code \in Success
  BY DEF Executed, Success, Retcodes

LEMMA SafeInvKept == SafeInv /\ [SafeNext]_safeVars => SafeInv'
<1> SUFFICES ASSUME SafeInv, [SafeNext]_safeVars PROVE SafeInv'
  OBVIOUS
<1> USE SafeAssumption DEF SafeInv, SafeTypeOK
<1>1. ASSUME NEW valid \in BOOLEAN, Send_(valid) PROVE SafeInv'
  BY <1>1 DEF Send_
<1>2. ASSUME NEW code \in Retcodes, NEW done \in BOOLEAN, Attempt(code, done)
      PROVE  SafeInv'
  <2>1. call # 0 /\ done \in Executed(code)
    BY <1>2 DEF Attempt
  <2>2. (done /\ code # "TIMEOUT") <=> code \in Success
    BY <2>1, ExecutedIsTold
  <2>3. code = "TIMEOUT" => code \notin Success
    BY DEF Success
  <2>4. opened' = told' + hidden' /\ {opened', told', hidden'} \subseteq Nat
    BY <1>2, <2>2, <2>3 DEF Attempt
  <2>5. Next_(code) \in {0, call + 1} /\ (Next_(code) # 0 => call <= SendRetries)
    BY DEF Next_
  <2>6. /\ call' \in 0..SendRetries + 1
        /\ answered' = answered + 1
        /\ call' # 0 => call' = call + 1
    BY <1>2, <2>1, <2>5 DEF Attempt
  <2> QED BY <1>2, <2>1, <2>4, <2>6 DEF Attempt
<1>3. CASE UNCHANGED safeVars
  BY <1>3 DEF safeVars
<1> QED BY <1>1, <1>2, <1>3 DEF SafeNext

LEMMA SafeInvHolds == SafeSpec => []SafeInv
<1>1. SafeInit => SafeInv
  BY SafeAssumption DEF SafeInit, SafeInv, SafeTypeOK
<1> QED BY <1>1, SafeInvKept, PTL DEF SafeSpec

\* The counters of a call and of the broker keep their types.
THEOREM SafeTypes == SafeSpec => []SafeTypeOK
  BY SafeInvHolds, PTL DEF SafeInv

\* For every number of retries, executions are reported or hidden by a TIMEOUT, and a
\* call sends no more than its retries allow.
THEOREM SafeReports == SafeSpec => []ReportedOrHidden
<1>1. SafeInv => ReportedOrHidden
  BY DEF SafeInv, ReportedOrHidden
<1> QED BY <1>1, SafeInvHolds, PTL

-----------------------------------------------------------------------------
(* The main loop *)

\* What has been decided stands in the given flags.
Binds(f) ==
    /\ stopped => ~f.enabled
    /\ f.halt \in {0, f.bday}
    /\ haltedOn = day => f.halt = day
    /\ leaving => f.zone = "EXITING"

\* The decisions are in the store, and in memory while the EA runs; it remembers a halt
\* for the day it is in only; and the sides keep their limits.
MainInv ==
    /\ MainTypeOK
    /\ Binds(saved)
    /\ up => Binds(ea) /\ ea.halt = saved.halt
    /\ haltedOn <= day
    /\ CapsHold

\* Flags that differ in one field are flags.
LEMMA FlagsChanged ==
    ASSUME NEW f \in Flags
    PROVE  /\ \A v \in BOOLEAN : [f EXCEPT !.enabled = v] \in Flags
           /\ \A v \in BOOLEAN : [f EXCEPT !.newCycle = v] \in Flags
           /\ \A v \in SUBSET Sides : [f EXCEPT !.stop = v] \in Flags
           /\ \A v \in {"IDLE", "ACTIVE", "EXITING"} : [f EXCEPT !.zone = v] \in Flags
           /\ \A v \in {0} \union Days : [f EXCEPT !.halt = v] \in Flags
           /\ \A v, w \in {0} \union Days : [f EXCEPT !.bday = v, !.halt = w] \in Flags
  BY DEF Flags

\* A comparison with the book keeps decisions, unless the book is flat, which ends an exit.
LEMMA ReconciledFlags ==
    ASSUME NEW f \in Flags, NEW counts, NEW rebuilt
    PROVE  /\ Reconciled(f, counts, rebuilt) \in Flags
           /\ LET r == Reconciled(f, counts, rebuilt) IN
              /\ r.enabled = f.enabled /\ r.halt = f.halt /\ r.bday = f.bday
              /\ ~Flat(counts) => r = f
  BY DEF Reconciled, Flags

\* Handlers that send nothing and leave the market alone keep the limits.
LEMMA CapsStay == CapsHold /\ UNCHANGED <<live, sent>> => CapsHold'
  BY DEF CapsHold, InFlight

\* ... and it suffices that types and decisions are kept.
LEMMA Decided ==
    ASSUME MainInv, UNCHANGED <<live, sent, day>>, MainTypeOK',
           Binds(saved)', up' => Binds(ea)' /\ ea'.halt = saved'.halt,
           haltedOn' \in {haltedOn, day}
    PROVE  MainInv'
<1>1. haltedOn' <= day'
  BY DEF MainInv, MainTypeOK, Days
<1> QED BY <1>1, CapsStay DEF MainInv

LEMMA TickBeginsKeeps ==
    ASSUME MainInv, NEW critical \in BOOLEAN, NEW overflow \in BOOLEAN, NEW outside \in BOOLEAN,
           NEW spread \in BOOLEAN, NEW rebuilt \in BOOLEAN,
           TickBegins(critical, overflow, outside, spread, rebuilt)
    PROVE  MainInv'
<1> DEFINE a == IF overflow THEN [ea EXCEPT !.enabled = FALSE] ELSE ea
           b == IF ZoneCycle /\ outside THEN [a EXCEPT !.newCycle = FALSE] ELSE a
           c == Reconciled(b, live, rebuilt)
           admitted == b.enabled /\ spread
<1>1. up /\ Binds(ea) /\ Binds(saved) /\ ea.halt = saved.halt /\ ea \in Flags /\ saved \in Flags
  BY DEF MainInv, MainTypeOK, TickBegins
<1>2. a \in Flags /\ a.halt = ea.halt /\ a.bday = ea.bday /\ a.zone = ea.zone
      /\ (~ea.enabled => ~a.enabled)
  BY <1>1, FlagsChanged DEF Flags
<1>3. b \in Flags /\ b.halt = a.halt /\ b.bday = a.bday /\ b.zone = a.zone
      /\ b.enabled = a.enabled
  <2> HIDE DEF a
  <2> QED BY <1>2, FlagsChanged DEF Flags
<1>4. c \in Flags /\ c.enabled = b.enabled /\ c.halt = b.halt /\ c.bday = b.bday
      /\ (~Flat(live) => c = b)
  <2> HIDE DEF b
  <2> QED BY <1>3, ReconciledFlags
<1>5. /\ ea' = IF admitted THEN c ELSE b
      /\ saved' \in {a, c, saved} /\ (saved' = c => admitted \/ c \in {a, saved})
      /\ leaving' = (leaving /\ ~(admitted /\ Flat(live)))
      /\ UNCHANGED <<exclusive, up, live, sent, day, commands, stopped, haltedOn>>
      /\ closing' = (closing /\ b.enabled)
      /\ phase' \in {"risk", "idle"} /\ turn' = 1 /\ seen' \in {live, Nothing}
  BY DEF TickBegins, TickEnds, market
<1>6. MainTypeOK'
  <2> HIDE DEF a, b, c, admitted
  <2>1. ea' \in Flags /\ saved' \in Flags
    BY <1>1, <1>2, <1>3, <1>4, <1>5
  <2>2. closing' \in BOOLEAN /\ leaving' \in BOOLEAN
    BY <1>5
  <2>3. turn' \in 1..Len(Chain) + 1 /\ seen' \in [Sides -> Nat]
    BY <1>5 DEF Chain, Nothing, MainInv, MainTypeOK
  <2> QED BY <2>1, <2>2, <2>3, <1>5 DEF MainInv, MainTypeOK
<1>7. Binds(ea)' /\ Binds(saved)' /\ ea'.halt = saved'.halt
  <2> HIDE DEF a, b, c
  <2> QED BY <1>1, <1>2, <1>3, <1>4, <1>5 DEF Binds
<1> QED BY <1>5, <1>6, <1>7, Decided

\* Steps of a tick that change no decision: they save what is in memory, or nothing.
LEMMA StepKeeps ==
    ASSUME MainInv, up, ea' = ea, saved' \in {saved, ea}, closing' \in BOOLEAN,
           phase' \in {"idle", "risk", "exits", "exposure", "engines"},
           turn' \in 1..Len(Chain) + 1, seen' \in {seen, Nothing}, commands' = commands,
           UNCHANGED <<exclusive, up, market, ghosts>>
    PROVE  MainInv'
<1>1. MainTypeOK'
  <2>1. seen' \in [Sides -> Nat]
    BY DEF Nothing, MainInv, MainTypeOK
  <2>2. ea' \in Flags /\ saved' \in Flags
    BY DEF MainInv, MainTypeOK
  <2>3. {exclusive, up, closing, stopped, leaving}' \subseteq BOOLEAN
    BY DEF MainInv, MainTypeOK, ghosts
  <2>4. live' = live /\ sent' = sent /\ day' = day /\ haltedOn' = haltedOn
    BY DEF market, ghosts
  <2> QED BY <2>1, <2>2, <2>3, <2>4 DEF MainInv, MainTypeOK
<1>2. Binds(saved)' /\ Binds(ea)' /\ ea'.halt = saved'.halt
  BY DEF MainInv, Binds, market, ghosts
<1> QED BY <1>1, <1>2, Decided DEF market, ghosts

LEMMA HardStopKeeps == ASSUME MainInv, HardStop PROVE MainInv'
<1> DEFINE b == [ea EXCEPT !.enabled = FALSE]
<1>1. up /\ Binds(ea) /\ ea \in Flags
  BY DEF MainInv, MainTypeOK, HardStop
<1>2. b \in Flags /\ ~b.enabled /\ b.halt = ea.halt /\ b.bday = ea.bday /\ b.zone = ea.zone
  <2>1. b \in Flags
    BY <1>1, FlagsChanged
  <2> QED BY <1>1, <2>1 DEF Flags
<1>3. /\ ea' = b /\ saved' = b /\ closing' = TRUE /\ stopped' = TRUE
      /\ phase' = "idle" /\ turn' = 1 /\ seen' = Nothing
      /\ UNCHANGED <<exclusive, up, live, sent, day, commands, haltedOn, leaving>>
  BY DEF HardStop, Save, TickEnds, market
<1> HIDE DEF b
<1>4. MainTypeOK'
  <2>1. turn' \in 1..Len(Chain) + 1 /\ seen' \in [Sides -> Nat]
    BY <1>3 DEF Chain, Nothing
  <2> QED BY <1>2, <1>3, <2>1 DEF MainInv, MainTypeOK
<1>5. Binds(ea)' /\ Binds(saved)' /\ ea'.halt = saved'.halt
  BY <1>1, <1>2, <1>3 DEF Binds
<1> QED BY <1>3, <1>4, <1>5, Decided

\* A day that begins resets the halt of an earlier one, and a halt is set for today.
LEMMA DailyFlags ==
    ASSUME MainInv, up, NEW hit \in BOOLEAN, NEW delay \in BOOLEAN
    PROVE  LET r == DailyHalt(hit, delay) IN
           /\ r[1] \in Flags /\ r[2] \in {r[1], saved}
           /\ r[1].enabled = ea.enabled /\ r[1].zone = ea.zone
           /\ r[1].halt \in {0, r[1].bday}
           /\ ea.halt = day => r[1].halt = day
           /\ r[1].halt = r[2].halt
           /\ r[3] \in BOOLEAN /\ (r[3] => r[1].halt = day /\ r[2].halt = day)
<1> DEFINE rolled == ea.bday # day
           a == IF rolled THEN NewDay(ea) ELSE ea
           over == a.halt = day \/ (a.halt # 0 /\ delay)
           b == IF ~over /\ hit THEN [a EXCEPT !.halt = day] ELSE a
           w == IF rolled \/ b # a THEN b ELSE saved
<1>1. DailyHalt(hit, delay) = <<b, w, over \/ hit>>
  BY DEF DailyHalt
<1>2. ea \in Flags /\ day \in Days /\ ea.halt \in {0, ea.bday} /\ ea.halt = saved.halt
  BY DEF MainInv, MainTypeOK, Binds
<1>3. a \in Flags /\ a.bday = day /\ a.halt \in {0, day} /\ (ea.halt = day => a.halt = day)
      /\ a.enabled = ea.enabled /\ a.zone = ea.zone
  BY <1>2, FlagsChanged DEF NewDay, Flags
<1>4. b \in Flags /\ b.bday = day /\ b.halt \in {0, day} /\ (a.halt = day => b.halt = day)
      /\ b.enabled = a.enabled /\ b.zone = a.zone /\ (over \/ hit => b.halt = day)
  <2> HIDE DEF a
  <2>1. 0 \notin Days
    BY DEF Days
  <2> QED BY <1>2, <1>3, <2>1, FlagsChanged DEF Flags
<1> HIDE DEF over
<1>5. w \in {b, saved} /\ b.halt = w.halt
  BY <1>2
<1> HIDE DEF a, b, w
<1> QED BY <1>1, <1>3, <1>4, <1>5

LEMMA DailyGateKeeps ==
    ASSUME MainInv, NEW hit \in BOOLEAN, NEW delay \in BOOLEAN, NEW ready \in BOOLEAN,
           DailyGate(hit, delay, ready)
    PROVE  MainInv'
<1> DEFINE r == DailyHalt(hit, delay)
<1>1. /\ up /\ Binds(ea) /\ Binds(saved) /\ ea.halt = saved.halt
      /\ ea \in Flags /\ saved \in Flags
  BY DEF MainInv, MainTypeOK, DailyGate
<1>2. /\ r[1] \in Flags /\ r[2] \in {r[1], saved}
      /\ r[1].enabled = ea.enabled /\ r[1].zone = ea.zone
      /\ r[1].halt \in {0, r[1].bday}
      /\ ea.halt = day => r[1].halt = day
      /\ r[1].halt = r[2].halt
      /\ r[3] \in BOOLEAN /\ (r[3] => r[1].halt = day /\ r[2].halt = day)
  BY <1>1, DailyFlags
<1>3. /\ ea' = r[1] /\ saved' = r[2] /\ closing' = (closing \/ (r[3] /\ ready))
      /\ haltedOn' = IF r[3] THEN day ELSE haltedOn
      /\ phase' \in {"idle", "exits"} /\ turn' \in {turn, 1} /\ seen' \in {seen, Nothing}
      /\ UNCHANGED <<exclusive, up, live, sent, day, commands, stopped, leaving>>
  BY DEF DailyGate, TickEnds, GoOn, market
<1> HIDE DEF r
<1>4. MainTypeOK'
  <2>1. turn' \in 1..Len(Chain) + 1 /\ seen' \in [Sides -> Nat]
    BY <1>3 DEF Chain, Nothing, MainInv, MainTypeOK
  <2>2. closing' \in BOOLEAN /\ haltedOn' \in {haltedOn, day}
    BY <1>3
  <2> QED BY <1>1, <1>2, <1>3, <2>1, <2>2 DEF MainInv, MainTypeOK
<1>5. Binds(ea)' /\ Binds(saved)' /\ ea'.halt = saved'.halt
  BY <1>1, <1>2, <1>3 DEF Binds
<1> QED BY <1>3, <1>4, <1>5, Decided

LEMMA HedgeZoneKeeps ==
    ASSUME MainInv, NEW target \in BOOLEAN, NEW acted \in BOOLEAN, HedgeZone(target, acted)
    PROVE  MainInv'
<1> DEFINE begins == ea.zone = "IDLE" /\ \E d \in Sides : seen[d] >= ZoneTrigger
           a == IF begins THEN [ea EXCEPT !.zone = "ACTIVE"] ELSE ea
           exits == target /\ a.zone = "ACTIVE"
           b == IF exits THEN [a EXCEPT !.zone = "EXITING"] ELSE a
<1>1. up /\ Binds(ea) /\ Binds(saved) /\ ea.halt = saved.halt /\ ea \in Flags /\ saved \in Flags
  BY DEF MainInv, MainTypeOK, HedgeZone
<1>2. CASE "HEDGE_ZONE" \in Sources
  <2>1. a \in Flags /\ a.enabled = ea.enabled /\ a.halt = ea.halt /\ a.bday = ea.bday
        /\ (begins \/ a = ea)
    <3>1. a \in Flags
      BY <1>1, FlagsChanged
    <3> QED BY <1>1, <3>1 DEF Flags
  <2>2. b \in Flags /\ b.enabled = a.enabled /\ b.halt = a.halt /\ b.bday = a.bday
        /\ (exits => b.zone = "EXITING") /\ (exits \/ b = a)
    <3> HIDE DEF a
    <3>1. b \in Flags
      BY <2>1, FlagsChanged
    <3> QED BY <2>1, <3>1 DEF Flags
  <2>3. leaving => ~begins /\ ~exits
    BY <1>1 DEF Binds
  <2>4. /\ IF begins \/ exits THEN Save(b) ELSE Keep(ea)
        /\ closing' = IF exits THEN TRUE ELSE closing /\ ~begins
        /\ leaving' = (leaving \/ exits)
        /\ phase' \in {"idle", "engines"} /\ turn' \in {turn, 1} /\ seen' \in {seen, Nothing}
        /\ UNCHANGED <<exclusive, up, live, sent, day, commands, stopped, haltedOn>>
    BY <1>2 DEF HedgeZone, TickEnds, GoOn, market
  <2> HIDE DEF a, b, exits, begins
  <2>5. MainTypeOK'
    <3>1. turn' \in 1..Len(Chain) + 1 /\ seen' \in [Sides -> Nat]
      BY <2>4 DEF Chain, Nothing, MainInv, MainTypeOK
    <3>2. ea' \in Flags /\ saved' \in Flags
      BY <1>1, <2>2, <2>4 DEF Save, Keep
    <3>3. closing' \in BOOLEAN /\ leaving' \in BOOLEAN
      BY <2>4 DEF exits, begins, MainInv, MainTypeOK
    <3> QED BY <3>1, <3>2, <3>3, <2>4 DEF MainInv, MainTypeOK
  <2>6. Binds(ea)' /\ Binds(saved)' /\ ea'.halt = saved'.halt
    <3>1. CASE begins \/ exits
      BY <3>1, <1>1, <2>1, <2>2, <2>3, <2>4 DEF Binds, Save
    <3>2. CASE ~(begins \/ exits)
      BY <3>2, <1>1, <2>4 DEF Binds, Keep
    <3> QED BY <3>1, <3>2
  <2> QED BY <2>4, <2>5, <2>6, Decided
<1>3. CASE "HEDGE_ZONE" \notin Sources
  <2>1. /\ UNCHANGED <<ea, saved, closing, phase, turn, seen>> \/
           (UNCHANGED <<ea, saved, closing, turn, seen>> /\ phase' = "engines")
        /\ UNCHANGED <<exclusive, up, market, commands, ghosts>>
    BY <1>3 DEF HedgeZone, GoOn, market, ghosts
  <2> QED BY <1>1, <2>1, StepKeeps DEF MainInv, MainTypeOK
<1> QED BY <1>2, <1>3

\* An order is sent only by an engine that nothing decided stands against.
LEMMA OpensByTheRules ==
    ASSUME MainInv, NEW i \in 1..Len(Chain), NEW d \in Sides, NEW answer, OpenLeg(i, d, answer)
    PROVE  LET s == Chain[i][1] IN
           /\ s \in Sources /\ live[d] < MaxPositions[d]
           /\ ~stopped /\ haltedOn # day
           /\ leaving => s # "HEDGE_ZONE" /\ ~exclusive
<1> DEFINE s == Chain[i][1]
<1>1. /\ Binds(ea) /\ s \in Sources /\ Wants(s, d) /\ ExposureAllowed(s, d)
      /\ i > 1 => ~(ea.zone # "IDLE" /\ exclusive)
  BY DEF MainInv, OpenLeg
<1>2. i = 1 => s = "HEDGE_ZONE"
  BY DEF Chain
<1>3. s = "HEDGE_ZONE" => ea.zone = "ACTIVE"
  BY <1>1 DEF Wants
<1> HIDE DEF s
<1>4. ~stopped /\ haltedOn # day /\ live[d] < MaxPositions[d]
  BY <1>1 DEF Binds, ExposureAllowed, DirectionCapacityAllowed
<1>5. leaving => ea.zone = "EXITING"
  BY <1>1 DEF Binds
<1>6. leaving => s # "HEDGE_ZONE" /\ ~exclusive
  BY <1>1, <1>2, <1>3, <1>5
<1> QED BY <1>1, <1>4, <1>6 DEF s

\* An EA has finitely many engines.
LEMMA SourcesFinite == IsFiniteSet(Sources)
<1>1. IsFiniteSet(Engines)
  <2>1. IsFiniteSet({}) BY FS_EmptySet
  <2>2. IsFiniteSet({"HEDGE_ZONE"}) BY <2>1, FS_AddElement
  <2>3. IsFiniteSet({"HEDGE_ZONE"} \union {"HEDGE"}) BY <2>2, FS_AddElement
  <2>4. IsFiniteSet({"HEDGE_ZONE", "HEDGE"} \union {"REVERSE"}) BY <2>3, FS_AddElement
  <2>5. IsFiniteSet({"HEDGE_ZONE", "HEDGE", "REVERSE"} \union {"BALANCE"})
    BY <2>4, FS_AddElement
  <2>6. IsFiniteSet({"HEDGE_ZONE", "HEDGE", "REVERSE", "BALANCE"} \union {"DCA"})
    BY <2>5, FS_AddElement
  <2>7. IsFiniteSet({"HEDGE_ZONE", "HEDGE", "REVERSE", "BALANCE", "DCA"} \union {"ENTRY"})
    BY <2>6, FS_AddElement
  <2>8. Engines = {"HEDGE_ZONE", "HEDGE", "REVERSE", "BALANCE", "DCA"} \union {"ENTRY"}
    BY DEF Engines
  <2> QED BY <2>7, <2>8
<1> QED BY <1>1, MainAssumption, FS_Subset

\* The engines with an order in flight for a side are some of those of the EA.
LEMMA InFlightCount ==
    ASSUME NEW d \in Sides
    PROVE  /\ IsFiniteSet(InFlight(d)) /\ Cardinality(InFlight(d)) \in Nat
           /\ Cardinality(InFlight(d)) <= Cardinality(Sources)
           /\ Cardinality(Sources) \in Nat
<1>3. InFlight(d) \subseteq Sources
  BY DEF InFlight
<1> QED BY <1>3, SourcesFinite, FS_Subset, FS_CardinalityType

LEMMA OpenLegKeeps ==
    ASSUME MainInv, NEW i \in 1..Len(Chain), NEW d \in Sides,
           NEW answer \in {"confirmed", "lost", "rejected"}, OpenLeg(i, d, answer)
    PROVE  MainInv'
<1> DEFINE s == Chain[i][1]
<1>1. s \in Sources /\ live[d] < MaxPositions[d]
  BY OpensByTheRules
<1>2. /\ sent' \in {sent, sent \union {<<s, d>>}}
      /\ closing' \in BOOLEAN
      /\ phase' \in {phase, "idle"} /\ turn' \in {i + 1, 1} /\ seen' \in {seen, Nothing}
      /\ UNCHANGED <<exclusive, up, ea, saved, live, day, commands, stopped, haltedOn, leaving>>
  BY DEF OpenLeg, TickEnds, ghosts, MainInv, MainTypeOK
<1> HIDE DEF s
<1>3. MainTypeOK'
  <2>1. turn' \in 1..Len(Chain) + 1 /\ seen' \in [Sides -> Nat]
    BY <1>2 DEF Chain, Nothing, MainInv, MainTypeOK
  <2>2. sent' \subseteq Sources \X Sides
    BY <1>1, <1>2 DEF MainInv, MainTypeOK
  <2> QED BY <1>2, <2>1, <2>2 DEF MainInv, MainTypeOK
<1>4. CapsHold'
  <2> SUFFICES ASSUME NEW e \in Sides
               PROVE  live'[e] + Cardinality(InFlight(e)') <= MaxPositions[e] - 1 + Cardinality(Sources)
    BY DEF CapsHold, InFlight
  <2>1. CASE e = d
    <3>1. Cardinality(InFlight(e)') <= Cardinality(Sources) /\ Cardinality(InFlight(e)') \in Nat
          /\ Cardinality(Sources) \in Nat
      <4>1. InFlight(e)' \subseteq Sources
        BY DEF InFlight
      <4> QED BY <4>1, SourcesFinite, FS_Subset, FS_CardinalityType
    <3>2. live'[e] \in Nat /\ live'[e] <= MaxPositions[e] - 1 /\ MaxPositions[e] \in Nat
      BY <1>1, <1>2, <2>1, MainAssumption DEF MainInv, MainTypeOK
    <3> QED BY <3>1, <3>2
  <2>2. CASE e # d
    <3>1. InFlight(e)' = InFlight(e)
      BY <1>2, <2>2 DEF InFlight
    <3> QED BY <1>2, <3>1 DEF CapsHold, MainInv
  <2> QED BY <2>1, <2>2
<1>5. Binds(ea)' /\ Binds(saved)'
  BY <1>2 DEF MainInv, Binds, OpenLeg
<1> QED BY <1>2, <1>3, <1>4, <1>5 DEF MainInv

\* Fill, Refuse and ClosePosition: an order in flight becomes a position, or nothing.
LEMMA MarketKeeps ==
    ASSUME MainInv, NEW d \in Sides,
           \/ \E s \in Sources : Fill(s, d) \/ Refuse(s, d)
           \/ ClosePosition(d)
    PROVE  MainInv'
<1>1. UNCHANGED <<exclusive, up, ea, saved, closing, phase, turn, seen, day, commands,
                  stopped, haltedOn, leaving>>
  BY DEF Fill, Refuse, ClosePosition, memory, ghosts
<1> DEFINE Moves ==
        /\ live' \in [Sides -> Nat] /\ sent' \subseteq sent
        /\ \A e \in Sides \ {d} : live'[e] = live[e] /\ InFlight(e)' = InFlight(e)
        /\ live'[d] + Cardinality(InFlight(d)') <= live[d] + Cardinality(InFlight(d))
<1>2. Moves
  <2>1. live \in [Sides -> Nat] /\ live[d] \in Nat /\ Cardinality(InFlight(d)) \in Nat
    BY InFlightCount DEF MainInv, MainTypeOK
  <2>2. ASSUME NEW s \in Sources, sent' = sent \ {<<s, d>>}, <<s, d>> \in sent
        PROVE  /\ Cardinality(InFlight(d)') = Cardinality(InFlight(d)) - 1
               /\ \A e \in Sides \ {d} : InFlight(e)' = InFlight(e)
    <3>1. s \in InFlight(d) /\ InFlight(d)' = InFlight(d) \ {s}
      BY <2>2 DEF InFlight
    <3>2. \A e \in Sides \ {d} : InFlight(e)' = InFlight(e)
      BY <2>2 DEF InFlight
    <3> QED BY <3>1, <3>2, InFlightCount, FS_RemoveElement
  <2>3. ASSUME NEW s \in Sources, Fill(s, d) PROVE Moves
    <3>1. /\ live' = [live EXCEPT ![d] = @ + 1]
          /\ sent' = sent \ {<<s, d>>} /\ <<s, d>> \in sent
      BY <2>3 DEF Fill
    <3>2. /\ live' \in [Sides -> Nat] /\ live'[d] = live[d] + 1
          /\ \A e \in Sides \ {d} : live'[e] = live[e]
      BY <2>1, <3>1
    <3> QED BY <2>1, <2>2, <3>1, <3>2
  <2>4. ASSUME NEW s \in Sources, Refuse(s, d) PROVE Moves
    <3>1. live' = live /\ sent' = sent \ {<<s, d>>} /\ <<s, d>> \in sent
      BY <2>4 DEF Refuse
    <3> QED BY <2>1, <2>2, <3>1
  <2>5. ASSUME ClosePosition(d) PROVE Moves
    <3>1. live' = [live EXCEPT ![d] = @ - 1] /\ sent' = sent /\ live[d] > 0
      BY <2>5 DEF ClosePosition
    <3>2. /\ live' \in [Sides -> Nat] /\ live'[d] = live[d] - 1
          /\ \A e \in Sides \ {d} : live'[e] = live[e]
      BY <2>1, <3>1
    <3>3. \A e \in Sides : InFlight(e)' = InFlight(e)
      BY <3>1 DEF InFlight
    <3> QED BY <2>1, <3>1, <3>2, <3>3
  <2> QED BY <2>3, <2>4, <2>5
<1>3. MainTypeOK'
  BY <1>1, <1>2 DEF MainInv, MainTypeOK
<1>4. CapsHold'
  <2> SUFFICES ASSUME NEW e \in Sides
               PROVE  live'[e] + Cardinality(InFlight(e)') <= MaxPositions[e] - 1 + Cardinality(Sources)
    BY DEF CapsHold, InFlight
  <2>1. live[e] + Cardinality(InFlight(e)) <= MaxPositions[e] - 1 + Cardinality(Sources)
    BY DEF MainInv, CapsHold
  <2>2. CASE e # d
    BY <1>2, <2>1, <2>2
  <2>3. CASE e = d
    <3>1. /\ live'[d] \in Nat /\ live[d] \in Nat /\ MaxPositions[d] \in Nat
          /\ Cardinality(InFlight(d)) \in Nat /\ Cardinality(Sources) \in Nat
      BY <1>2, InFlightCount, MainAssumption DEF MainInv, MainTypeOK
    <3>2. Cardinality(InFlight(d)') \in Nat
      <4>1. InFlight(d)' \subseteq Sources
        BY DEF InFlight
      <4> QED BY <4>1, SourcesFinite, FS_Subset, FS_CardinalityType
    <3> QED BY <1>2, <2>1, <2>3, <3>1, <3>2
  <2> QED BY <2>2, <2>3
<1>5. up => Binds(ea)' /\ Binds(saved)'
  BY <1>1 DEF MainInv, Binds
<1>6. Binds(saved)'
  BY <1>1 DEF MainInv, Binds
<1> QED BY <1>1, <1>3, <1>4, <1>5, <1>6 DEF MainInv

\* Handlers between ticks change flags but not the day that is halted.
LEMMA HandlerKeeps ==
    ASSUME MainInv, up, up' = up,
           ea' \in Flags, saved' \in {ea', saved}, ea'.halt = ea.halt, ea'.bday = ea.bday,
           stopped' \in BOOLEAN, stopped' => stopped /\ ~ea'.enabled,
           leaving' \in BOOLEAN, leaving' => leaving /\ ea'.zone = "EXITING",
           closing' \in BOOLEAN, commands' \in 0..MaxCommands,
           UNCHANGED <<exclusive, phase, turn, seen, live, sent, day, haltedOn>>
    PROVE  MainInv'
<1>1. MainTypeOK'
  <2>1. saved' \in Flags
    BY DEF MainInv, MainTypeOK
  <2> QED BY <2>1 DEF MainInv, MainTypeOK
<1>2. (stopped' => stopped) /\ (leaving' => leaving) /\ Binds(ea) /\ Binds(saved)
  BY DEF MainInv
<1>3. Binds(ea)'
  BY <1>2 DEF Binds
<1>4. Binds(saved)'
  <2>1. CASE saved' = ea'
    BY <1>3, <2>1 DEF Binds
  <2>2. CASE saved' = saved
    BY <1>2, <2>2 DEF Binds
  <2> QED BY <2>1, <2>2
<1>5. ea'.halt = saved'.halt
  BY DEF MainInv
<1> QED BY <1>1, <1>3, <1>4, <1>5, Decided

LEMMA TradeEventKeeps ==
    ASSUME MainInv, NEW critical \in BOOLEAN, NEW overflow \in BOOLEAN, NEW rebuilt \in BOOLEAN,
           TradeEvent(critical, overflow, rebuilt)
    PROVE  MainInv'
<1> DEFINE a == IF overflow THEN [ea EXCEPT !.enabled = FALSE] ELSE ea
           b == Reconciled(a, live, rebuilt)
<1>1. up /\ Binds(ea) /\ ea \in Flags
  BY DEF MainInv, MainTypeOK, TradeEvent
<1>2. a \in Flags /\ a.halt = ea.halt /\ a.bday = ea.bday /\ a.zone = ea.zone
      /\ (~ea.enabled => ~a.enabled)
  <2>1. a \in Flags
    BY <1>1, FlagsChanged
  <2> QED BY <1>1, <2>1 DEF Flags
<1>3. /\ ea' = b /\ saved' \in {b, saved} /\ leaving' = (leaving /\ ~Flat(live))
      /\ UNCHANGED <<exclusive, up, closing, phase, turn, seen, live, sent, day, commands,
                     stopped, haltedOn>>
  BY DEF TradeEvent, Save, Keep, market
<1>4. /\ b \in Flags /\ b.enabled = a.enabled /\ b.halt = a.halt /\ b.bday = a.bday
      /\ ~Flat(live) => b = a
  <2> HIDE DEF a
  <2> QED BY <1>2, ReconciledFlags
<1> HIDE DEF a, b
<1>5. (stopped' => stopped /\ ~ea'.enabled) /\ (leaving' => leaving /\ ea'.zone = "EXITING")
  BY <1>1, <1>2, <1>3, <1>4 DEF Binds
<1>6. stopped' \in BOOLEAN /\ leaving' \in BOOLEAN /\ closing' \in BOOLEAN /\ commands' \in 0..MaxCommands
  BY <1>3 DEF MainInv, MainTypeOK
<1> QED BY <1>1, <1>2, <1>3, <1>4, <1>5, <1>6, HandlerKeeps

\* The panel and remote commands set one flag each.
LEMMA CommandKeeps ==
    ASSUME MainInv,
           \/ \E all \in BOOLEAN : ChartEvent(all)
           \/ \E overflow, all \in BOOLEAN : RemoteCommandRuns(overflow, all)
           \/ \E on \in BOOLEAN : RemoteSwitch(on)
    PROVE  MainInv'
<1>1. ea \in Flags
  BY DEF MainInv, MainTypeOK
<1>2. commands < MaxCommands => commands + 1 \in 0..MaxCommands
  BY MainAssumption DEF MainInv, MainTypeOK
<1>3. ASSUME NEW all \in BOOLEAN, ChartEvent(all) PROVE MainInv'
  <2>1. PICK f \in {ea} \union {[ea EXCEPT !.newCycle = v] : v \in BOOLEAN \ {ea.newCycle}}
              \union {[ea EXCEPT !.stop = (@ \union {d}) \ (@ \intersect {d})] : d \in Sides} : Save(f)
    BY <1>3 DEF ChartEvent
  <2>2. f \in Flags
    <3>2. \A d \in Sides : (ea.stop \union {d}) \ (ea.stop \intersect {d}) \in SUBSET Sides
      BY <1>1 DEF Flags
    <3>3. CASE f = ea
      BY <1>1, <3>3
    <3>4. CASE \E v \in BOOLEAN : f = [ea EXCEPT !.newCycle = v]
      BY <1>1, <3>4, FlagsChanged
    <3>5. CASE \E d \in Sides : f = [ea EXCEPT !.stop = (@ \union {d}) \ (@ \intersect {d})]
      BY <1>1, <3>2, <3>5, FlagsChanged
    <3> QED BY <2>1, <3>3, <3>4, <3>5
  <2>3. f.enabled = ea.enabled /\ f.halt = ea.halt /\ f.bday = ea.bday /\ f.zone = ea.zone
    BY <1>1, <2>1 DEF Flags
  <2>4. /\ up /\ up' = up /\ ea' = f /\ saved' = f
        /\ UNCHANGED <<exclusive, phase, turn, seen, live, sent, day, stopped, haltedOn, leaving>>
        /\ closing' \in BOOLEAN /\ commands' \in 0..MaxCommands
    BY <1>2, <1>3, <2>1 DEF ChartEvent, Save, market, ghosts, MainInv, MainTypeOK
  <2>5. /\ stopped \in BOOLEAN /\ leaving \in BOOLEAN
        /\ (stopped => ~ea.enabled) /\ (leaving => ea.zone = "EXITING")
    BY <2>4 DEF MainInv, MainTypeOK, Binds
  <2> QED BY <2>2, <2>3, <2>4, <2>5, HandlerKeeps
<1>4. ASSUME NEW overflow \in BOOLEAN, NEW all \in BOOLEAN, RemoteCommandRuns(overflow, all)
      PROVE  MainInv'
  <2> DEFINE a == IF overflow THEN [ea EXCEPT !.enabled = FALSE] ELSE ea
  <2>1. PICK f \in {a} \union {[a EXCEPT !.newCycle = v] : v \in BOOLEAN}
                     \union {[a EXCEPT !.stop = @ \union {d}] : d \in Sides}
                     \union {[a EXCEPT !.stop = @ \ {d}] : d \in Sides} : Save(f)
    BY <1>4 DEF RemoteCommandRuns
  <2>2. a \in Flags /\ a.halt = ea.halt /\ a.bday = ea.bday /\ a.zone = ea.zone
        /\ (~ea.enabled => ~a.enabled)
    <3>1. a \in Flags
      BY <1>1, FlagsChanged
    <3> QED BY <1>1, <3>1 DEF Flags
  <2> HIDE DEF a
  <2>3. f \in Flags
    <3>1. \A d \in Sides : a.stop \union {d} \in SUBSET Sides /\ a.stop \ {d} \in SUBSET Sides
      BY <2>2 DEF Flags
    <3> QED BY <2>1, <2>2, <3>1, FlagsChanged
  <2>4. f.enabled = a.enabled /\ f.halt = a.halt /\ f.bday = a.bday /\ f.zone = a.zone
    BY <2>1, <2>2 DEF Flags
  <2>5. /\ up /\ up' = up /\ ea' = f /\ saved' = f
        /\ UNCHANGED <<exclusive, phase, turn, seen, live, sent, day, stopped, haltedOn, leaving>>
        /\ closing' \in BOOLEAN /\ commands' \in 0..MaxCommands
    BY <1>2, <1>4, <2>1 DEF RemoteCommandRuns, Save, market, ghosts, MainInv, MainTypeOK
  <2>6. /\ stopped \in BOOLEAN /\ leaving \in BOOLEAN
        /\ (stopped => ~ea.enabled) /\ (leaving => ea.zone = "EXITING")
    BY <2>5 DEF MainInv, MainTypeOK, Binds
  <2> QED BY <2>2, <2>3, <2>4, <2>5, <2>6, HandlerKeeps
<1>5. ASSUME NEW on \in BOOLEAN, RemoteSwitch(on) PROVE MainInv'
  <2> DEFINE f == [ea EXCEPT !.enabled = on]
  <2>1. f \in Flags
    BY <1>1, FlagsChanged
  <2>2. f.enabled = on /\ f.halt = ea.halt /\ f.bday = ea.bday /\ f.zone = ea.zone
    BY <1>1, <2>1 DEF Flags
  <2>3. /\ up /\ up' = up /\ ea' = f /\ saved' = f /\ stopped' = (stopped /\ ~on)
        /\ UNCHANGED <<exclusive, phase, turn, seen, live, sent, day, haltedOn, leaving>>
        /\ closing' \in BOOLEAN /\ commands' \in 0..MaxCommands
    BY <1>2, <1>5 DEF RemoteSwitch, Save, market, MainInv, MainTypeOK
  <2> HIDE DEF f
  <2>4. leaving \in BOOLEAN /\ (leaving => ea.zone = "EXITING")
    BY <2>3 DEF MainInv, MainTypeOK, Binds
  <2>5. stopped' \in BOOLEAN /\ (stopped' => stopped /\ ~ea'.enabled)
    BY <2>2, <2>3 DEF MainInv, MainTypeOK
  <2> QED BY <2>1, <2>2, <2>3, <2>4, <2>5, HandlerKeeps
<1> QED BY <1>3, <1>4, <1>5

\* Loading takes over what was saved, compared with the book.
LEMMA LoadStateKeeps ==
    ASSUME MainInv, NEW rebuilt \in BOOLEAN, LoadState(rebuilt)
    PROVE  MainInv'
<1> DEFINE a == Reconciled(saved, live, rebuilt)
<1>1. saved \in Flags /\ Binds(saved)
  BY DEF MainInv, MainTypeOK
<1>2. /\ a \in Flags /\ a.enabled = saved.enabled /\ a.halt = saved.halt /\ a.bday = saved.bday
      /\ ~Flat(live) => a = saved
  BY <1>1, ReconciledFlags
<1>3. /\ up' = TRUE /\ ea' = a /\ saved' \in {a, saved} /\ closing' = FALSE
      /\ leaving' = (leaving /\ ~Flat(live))
      /\ UNCHANGED <<exclusive, phase, turn, seen, live, sent, day, commands, stopped, haltedOn>>
  BY DEF LoadState, market
<1> HIDE DEF a
<1>4. MainTypeOK'
  <2>1. saved' \in Flags /\ leaving' \in BOOLEAN
    BY <1>1, <1>2, <1>3
  <2> QED BY <1>2, <1>3, <2>1 DEF MainInv, MainTypeOK
<1>5. Binds(ea)' /\ Binds(saved)' /\ ea'.halt = saved'.halt
  BY <1>1, <1>2, <1>3 DEF Binds
<1> QED BY <1>3, <1>4, <1>5, Decided

LEMMA StopsKeep == ASSUME MainInv, Die \/ Deinit PROVE MainInv'
<1>1. /\ up' = FALSE /\ saved' \in {saved, ea} /\ ea' = ea /\ (saved' = ea => up \/ saved' = saved)
      /\ phase' \in {phase, "idle"} /\ turn' \in {turn, 1} /\ seen' \in {seen, Nothing}
      /\ UNCHANGED <<exclusive, closing, live, sent, day, commands, stopped, haltedOn, leaving>>
      /\ up
  BY DEF Die, Deinit, Save, TickEnds, market, ghosts
<1>2. MainTypeOK'
  <2>1. turn' \in 1..Len(Chain) + 1 /\ seen' \in [Sides -> Nat]
    BY <1>1 DEF Chain, Nothing, MainInv, MainTypeOK
  <2> QED BY <1>1, <2>1 DEF MainInv, MainTypeOK
<1>3. Binds(saved)'
  BY <1>1 DEF MainInv, Binds
<1> QED BY <1>1, <1>2, <1>3, Decided

LEMMA DayTurnsKeeps == ASSUME MainInv, DayTurns PROVE MainInv'
<1>1. /\ day' = day + 1 /\ day' \in Days /\ day' # haltedOn /\ haltedOn <= day'
      /\ UNCHANGED <<exclusive, up, ea, saved, closing, phase, turn, seen, live, sent, commands,
                     stopped, haltedOn, leaving>>
  BY MainAssumption DEF DayTurns, memory, ghosts, MainInv, MainTypeOK, Days
<1>2. MainTypeOK'
  BY <1>1 DEF MainInv, MainTypeOK
<1>3. Binds(saved)' /\ (up' => Binds(ea)' /\ ea'.halt = saved'.halt)
  BY <1>1 DEF MainInv, Binds
<1> QED BY <1>1, <1>2, <1>3, CapsStay DEF MainInv

LEMMA MainInvKept == MainInv /\ [MainNext]_mainVars => MainInv'
<1> SUFFICES ASSUME MainInv, [MainNext]_mainVars PROVE MainInv'
  OBVIOUS
<1>1. ASSUME HistoryNotReady \/ Freeze \/ FinalizeCycleState \/
             \E acted, all, lottery \in BOOLEAN : ExitGate(acted, all, lottery)
      PROVE  MainInv'
  <2>1. /\ up /\ ea' = ea /\ saved' \in {saved, ea} /\ closing' \in BOOLEAN
        /\ phase' \in {"idle", "risk", "exits", "exposure", "engines"}
        /\ turn' \in {turn, 1} /\ seen' \in {seen, Nothing} /\ commands' = commands
        /\ UNCHANGED <<exclusive, up, market, ghosts>>
    BY <1>1 DEF HistoryNotReady, Freeze, FinalizeCycleState, ExitGate, TickEnds, GoOn, Save, Keep,
                memory, MainInv, MainTypeOK
  <2>2. turn' \in 1..Len(Chain) + 1
    BY <2>1 DEF Chain, MainInv, MainTypeOK
  <2> QED BY <2>1, <2>2, StepKeeps
<1>2. CASE UNCHANGED mainVars
  BY <1>2 DEF mainVars, memory, market, ghosts, MainInv, MainTypeOK, Binds, CapsHold, InFlight
<1> QED BY <1>1, <1>2, TickBeginsKeeps, HardStopKeeps, DailyGateKeeps, HedgeZoneKeeps, OpenLegKeeps,
           MarketKeeps, TradeEventKeeps, CommandKeeps, LoadStateKeeps, StopsKeep, DayTurnsKeeps
        DEF MainNext

LEMMA MainInvHolds == MainSpec => []MainInv
<1>1. MainInit => MainInv
  <2> SUFFICES ASSUME MainInit PROVE MainInv
    OBVIOUS
  <2>1. MainTypeOK
    <3>1. Defaults \in Flags /\ Nothing \in [Sides -> Nat] /\ 1 \in Days /\ 1 \in 1..Len(Chain) + 1
      BY MainAssumption DEF Defaults, Flags, Nothing, Days, Chain
    <3>2. ea \in Flags /\ saved \in Flags /\ day \in Days
      BY <3>1 DEF MainInit
    <3>3. {exclusive, up, closing, stopped, leaving} \subseteq BOOLEAN
      BY DEF MainInit
    <3> QED BY <3>1, <3>2, <3>3, MainAssumption DEF MainInit, MainTypeOK
  <2>2. CapsHold
    <3> SUFFICES ASSUME NEW d \in Sides
                 PROVE  live[d] + Cardinality(InFlight(d)) <= MaxPositions[d] - 1 + Cardinality(Sources)
      BY DEF CapsHold
    <3>1. live[d] = 0
      BY DEF MainInit, Nothing
    <3> QED BY <3>1, InFlightCount, MainAssumption
  <2> QED BY <2>1, <2>2 DEF MainInit, MainInv, Binds, Defaults
<1> QED BY <1>1, MainInvKept, PTL DEF MainSpec

\* Flags, store, tick and market keep their types.
THEOREM MainTypes == MainSpec => []MainTypeOK
  BY MainInvHolds, PTL DEF MainInv

\* A side never exceeds its limit by more than the orders in flight allow, for any engines
\* and any limits.
THEOREM MainCaps == MainSpec => []CapsHold
  BY MainInvHolds, PTL DEF MainInv

\* The other steps send nothing.
LEMMA OnlyOpenLegSends ==
    ASSUME MainNext, sent' \ sent # {}
    PROVE  \E i \in 1..Len(Chain), d \in Sides, answer \in {"confirmed", "lost", "rejected"} :
               OpenLeg(i, d, answer)
<1>1. ~(sent' \subseteq sent)
  OBVIOUS
<1>2. ASSUME NEW s \in Sources, NEW d \in Sides, Fill(s, d) \/ Refuse(s, d) PROVE FALSE
  BY <1>1, <1>2 DEF Fill, Refuse
<1>3. ASSUME NEW d \in Sides, ClosePosition(d) PROVE FALSE
  BY <1>1, <1>3 DEF ClosePosition
<1>4. ASSUME DayTurns \/ Die \/ Deinit \/ HardStop \/ HistoryNotReady \/ Freeze \/ FinalizeCycleState
      PROVE  FALSE
  BY <1>1, <1>4 DEF DayTurns, Die, Deinit, HardStop, HistoryNotReady, Freeze, FinalizeCycleState,
                    market
<1>5. ASSUME \/ \E all \in BOOLEAN : ChartEvent(all)
             \/ \E overflow, all \in BOOLEAN : RemoteCommandRuns(overflow, all)
             \/ \E on \in BOOLEAN : RemoteSwitch(on)
             \/ \E rebuilt \in BOOLEAN : LoadState(rebuilt)
      PROVE  FALSE
  BY <1>1, <1>5 DEF ChartEvent, RemoteCommandRuns, RemoteSwitch, LoadState, market
<1>6. ASSUME \E critical, overflow, rebuilt \in BOOLEAN : TradeEvent(critical, overflow, rebuilt)
      PROVE  FALSE
  BY <1>1, <1>6 DEF TradeEvent, market
<1>7. ASSUME \E critical, overflow, outside, spread, rebuilt \in BOOLEAN :
                 TickBegins(critical, overflow, outside, spread, rebuilt)
      PROVE  FALSE
  BY <1>1, <1>7 DEF TickBegins, market
<1>8. ASSUME \E hit, delay, ready \in BOOLEAN : DailyGate(hit, delay, ready) PROVE FALSE
  BY <1>1, <1>8 DEF DailyGate, market
<1>9. ASSUME \E acted, all, lottery \in BOOLEAN : ExitGate(acted, all, lottery) PROVE FALSE
  BY <1>1, <1>9 DEF ExitGate, market
<1>10. ASSUME \E target, acted \in BOOLEAN : HedgeZone(target, acted) PROVE FALSE
  BY <1>1, <1>10 DEF HedgeZone, market
<1> QED BY <1>2, <1>3, <1>4, <1>5, <1>6, <1>7, <1>8, <1>9, <1>10 DEF MainNext

\* No order is sent against a daily halt, a drawdown stop or an exit of the zone, over any
\* crashes and restarts, for any engines, days and commands.
THEOREM MainDecisionsBind == MainSpec => DecisionsBind
<1> DEFINE Bound == \A o \in sent' \ sent :
                       /\ ~stopped
                       /\ haltedOn # day
                       /\ leaving => o[1] # "HEDGE_ZONE" /\ ~exclusive
<1>1. MainInv /\ [MainNext]_mainVars => [Bound]_mainVars
  <2> SUFFICES ASSUME MainInv, MainNext, NEW o \in sent' \ sent
               PROVE  ~stopped /\ haltedOn # day /\ (leaving => o[1] # "HEDGE_ZONE" /\ ~exclusive)
    OBVIOUS
  <2>1. PICK i \in 1..Len(Chain), d \in Sides, answer \in {"confirmed", "lost", "rejected"} :
            OpenLeg(i, d, answer)
    BY OnlyOpenLegSends
  <2>2. o = <<Chain[i][1], d>>
    BY <2>1 DEF OpenLeg
  <2> QED BY <2>1, <2>2, OpensByTheRules
<1> QED BY <1>1, MainInvHolds, PTL DEF MainSpec, DecisionsBind

-----------------------------------------------------------------------------
(* The parts together *)

\* Each part behaves in the composition as it does alone.
LEMMA PartsStepAlone ==
    [Next]_runtimeVars =>
        /\ UNCHANGED part
        /\ [AsyncNext]_asyncVars /\ [MagicNext]_magicVars
        /\ [SafeNext]_safeVars /\ [MainNext]_mainVars
<1> SUFFICES ASSUME [Next]_runtimeVars
             PROVE  /\ UNCHANGED part
                    /\ [AsyncNext]_asyncVars /\ [MagicNext]_magicVars
                    /\ [SafeNext]_safeVars /\ [MainNext]_mainVars
  OBVIOUS
<1>1. CASE Async(AsyncNext)
  BY <1>1 DEF Async
<1>2. CASE MagicNext /\ UNCHANGED <<part, asyncVars, safeVars, mainVars>>
  BY <1>2
<1>3. CASE SafeNext /\ UNCHANGED <<part, asyncVars, magicVars, mainVars>>
  BY <1>3
<1>4. CASE MainNext /\ UNCHANGED <<part, asyncVars, magicVars, safeVars>>
  BY <1>4
<1>5. CASE UNCHANGED runtimeVars
  BY <1>5 DEF runtimeVars
<1> QED BY <1>1, <1>2, <1>3, <1>4, <1>5 DEF Next

LEMMA PartsBehaveAlone ==
    Spec => [](part \in Parts) /\ AsyncSpec /\ MagicSpec /\ SafeSpec /\ MainSpec
<1>1. Init => part \in Parts /\ AsyncInit /\ MagicInit /\ SafeInit /\ MainInit
  BY DEF Init
<1>2. part \in Parts /\ UNCHANGED part => (part \in Parts)'
  OBVIOUS
<1> QED BY <1>1, <1>2, PartsStepAlone, PTL
        DEF Spec, AsyncSpec, MagicSpec, SafeSpec, MainSpec

\* None of the four parts, of which one runs, ever leaves the types of any of them.
THEOREM RuntimeTypes == Spec => []TypeOK
<1>1. (part \in Parts) /\ AsyncTypeOK /\ MagicTypeOK /\ SafeTypeOK /\ MainTypeOK => TypeOK
  BY DEF TypeOK
<1> QED BY <1>1, PartsBehaveAlone, AsyncTypes, MagicTypes, SafeTypes, MainTypes, PTL

=============================================================================

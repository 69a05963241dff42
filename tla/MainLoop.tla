------------------------------ MODULE MainLoop ------------------------------
(***************************************************************************)
(* The main loop of a generated EA: the chain of gates of OnTick, the      *)
(* flags it decides on, the hedge zone, the daily halt, and the store that *)
(* keeps them over a restart.  Positions come and go and orders are filled *)
(* between any two gates: what the tick counted at its start is stale by   *)
(* the time it opens.                                                      *)
(*                                                                         *)
(* What only restricts openings is left out: cooldowns, sessions, spread,  *)
(* margin and signals are the choice of OpenLeg not to be called or to     *)
(* return early.  Closing is asked of the broker, who may not do it;       *)
(* positions close at any time anyhow, at a stop or by hand.  The intent   *)
(* ledger is here what IntentSeal says it is: no second order from a slot  *)
(* while one is in flight.                                                 *)
(***************************************************************************)
EXTENDS Integers, Sequences, FiniteSets

CONSTANTS
    Sources,        \* the engines that the EA was generated with
    ZoneAllows,     \* VCK_HZ_ALLOW_...: the engines a cooperative zone lets open
    MaxPositions,   \* InpMaxBuyPositions and InpMaxSellPositions
    ZoneTrigger,    \* InpHedgeZoneTriggerPositions
    ZoneCycle,      \* VCK_USE_ZONE_CYCLE
    LastDay,        \* bound: trading days
    MaxCommands     \* bound: clicks on the panel and remote commands

Sides == {"buy", "sell"}
Engines == {"HEDGE_ZONE", "HEDGE", "REVERSE", "BALANCE", "DCA", "ENTRY"}

ASSUME MainAssumption ==
    /\ Sources \subseteq Engines
    /\ ZoneAllows \subseteq {"HEDGE", "REVERSE", "BALANCE"}
    /\ MaxPositions \in [Sides -> Nat \ {0}]
    /\ ZoneCycle \in BOOLEAN
    /\ LastDay \in Nat \ {0}
    /\ {ZoneTrigger, MaxCommands} \subseteq Nat

VARIABLES
    exclusive,      \* VCK_HEDGE_ZONE_EXCLUSIVE, fixed for a behaviour
    up,             \* the EA is loaded
    ea,             \* its flags in memory
    saved,          \* ... and in the state store, flushed
    closing,        \* g_state = VCK_CLOSING
    phase, turn,    \* where the tick is, and the next engine of the chain
    seen,           \* the counts that this tick collected
    live,           \* positions at the broker
    sent,           \* slots <<engine, side>> with an order in flight
    day,            \* CurrentTradingDayKey
    commands,       \* commands and clicks so far
    stopped,        \* a drawdown stop is saved, and no operator has enabled the EA since
    haltedOn,       \* the last day with a daily halt that is saved
    leaving         \* the zone decided to exit, and the book has not been flat since

memory == <<up, ea, saved, closing>>
market == <<live, sent, day>>
ghosts == <<stopped, haltedOn, leaving>>
mainVars == <<exclusive, memory, phase, turn, seen, market, commands, ghosts>>

Days == 1..LastDay
Flags == [enabled : BOOLEAN, newCycle : BOOLEAN, stop : SUBSET Sides,
          zone : {"IDLE", "ACTIVE", "EXITING"}, halt : {0} \union Days, bday : {0} \union Days]

\* The chain of ExposureMutationChain; DCA tries one side after the other.
Chain == << <<"HEDGE_ZONE", Sides>>, <<"HEDGE", Sides>>, <<"REVERSE", Sides>>,
            <<"BALANCE", Sides>>, <<"DCA", {"buy"}>>, <<"DCA", {"sell"}>>, <<"ENTRY", Sides>> >>

Nothing == [d \in Sides |-> 0]
Other(d) == IF d = "buy" THEN "sell" ELSE "buy"
Flat(counts) == counts = Nothing
InFlight(d) == {s \in Sources : <<s, d>> \in sent}

MainTypeOK ==
    /\ {exclusive, up, closing, stopped, leaving} \subseteq BOOLEAN
    /\ ea \in Flags /\ saved \in Flags
    /\ phase \in {"idle", "risk", "exits", "exposure", "engines"}
    /\ turn \in 1..Len(Chain) + 1
    /\ seen \in [Sides -> Nat] /\ live \in [Sides -> Nat]
    /\ sent \subseteq Sources \X Sides
    /\ day \in Days /\ haltedOn \in {0} \union Days
    /\ commands \in 0..MaxCommands

Defaults == [enabled |-> TRUE, newCycle |-> TRUE, stop |-> {}, zone |-> "IDLE",
             halt |-> 0, bday |-> 0]

MainInit ==
    /\ exclusive \in BOOLEAN
    /\ up = TRUE /\ ea = Defaults /\ saved = Defaults /\ closing = FALSE
    /\ phase = "idle" /\ turn = 1 /\ seen = Nothing
    /\ live = Nothing /\ sent = {} /\ day = 1
    /\ commands = 0
    /\ stopped = FALSE /\ haltedOn = 0 /\ leaving = FALSE

-----------------------------------------------------------------------------
(* Helpers of the handlers *)

\* PersistStateCritical
Save(flags) == ea' = flags /\ saved' = flags
Keep(flags) == ea' = flags /\ saved' = saved

TickEnds == phase' = "idle" /\ turn' = 1 /\ seen' = Nothing
GoOn(to) == phase' = to /\ UNCHANGED <<turn, seen>>

\* Mutant: a zone that is on its way out is rebuilt as well.
ReconciledEvenExiting(flags, counts, rebuilt) ==
    IF flags.zone # "IDLE" /\ Flat(counts) THEN [flags EXCEPT !.zone = "IDLE"]
    ELSE IF flags.zone # "IDLE" /\ rebuilt THEN [flags EXCEPT !.zone = "ACTIVE"] ELSE flags

\* ReconcileHedgeZoneState: rebuilt says that the bounds or the anchor were not valid.
Reconciled(flags, counts, rebuilt) ==
    IF flags.zone # "IDLE" /\ Flat(counts) THEN [flags EXCEPT !.zone = "IDLE"] ELSE flags

ZoneSaves(flags, counts, rebuilt) ==
    flags.zone # "IDLE" /\ (Flat(counts) \/ (flags.zone = "ACTIVE" /\ rebuilt))

\* UpdateTradingDay on the first call of a day.
NewDay(flags) == [flags EXCEPT !.bday = day, !.halt = IF @ = day THEN @ ELSE 0]

-----------------------------------------------------------------------------
(* Handlers: one runs at a time, a tick in steps *)

\* Up to the gates: the event reducer may have to stop the EA or to save, the tick may be
\* let go, and the zone is compared with the book that is counted now.
TickBegins(critical, overflow, outside, spread, rebuilt) ==
    LET a == IF overflow THEN [ea EXCEPT !.enabled = FALSE] ELSE ea
        b == IF ZoneCycle /\ outside THEN [a EXCEPT !.newCycle = FALSE] ELSE a
        c == Reconciled(b, live, rebuilt)
        first == IF critical \/ overflow THEN a ELSE saved
        admitted == b.enabled /\ spread
    IN
    /\ up /\ phase = "idle"
    /\ ea' = IF admitted THEN c ELSE b
    /\ saved' = IF admitted /\ ZoneSaves(b, live, rebuilt) THEN c ELSE first
    /\ closing' = (closing /\ b.enabled)
    /\ leaving' = (leaving /\ ~(admitted /\ Flat(live)))
    /\ IF admitted THEN phase' = "risk" /\ seen' = live /\ turn' = 1 ELSE TickEnds
    /\ UNCHANGED <<exclusive, up, market, commands, stopped, haltedOn>>

\* MAX_DD_STOP
HardStop ==
    /\ up /\ phase = "risk"
    /\ Save([ea EXCEPT !.enabled = FALSE])
    /\ closing' = TRUE
    /\ stopped' = TRUE
    /\ TickEnds
    /\ UNCHANGED <<exclusive, up, market, commands, haltedOn, leaving>>

HistoryNotReady ==
    /\ up /\ phase = "risk"
    /\ TickEnds
    /\ UNCHANGED <<exclusive, memory, market, commands, ghosts>>

\* Mutant: the halt is not saved.
DailyHaltUnsaved(hit, delay) ==
    LET rolled == ea.bday # day
        a == IF rolled THEN NewDay(ea) ELSE ea
        over == a.halt = day \/ (a.halt # 0 /\ delay)
        b == IF ~over /\ hit THEN [a EXCEPT !.halt = day] ELSE a
    IN  <<b, IF rolled THEN a ELSE saved, over \/ hit>>

\* DailyAllowed with the history at hand: the flags after it, the saved ones, and
\* whether the tick halts.
DailyHalt(hit, delay) ==
    LET rolled == ea.bday # day
        a == IF rolled THEN NewDay(ea) ELSE ea
        over == a.halt = day \/ (a.halt # 0 /\ delay)
        b == IF ~over /\ hit THEN [a EXCEPT !.halt = day] ELSE a
    IN  <<b, IF rolled \/ b # a THEN b ELSE saved, over \/ hit>>

\* ready: the history was synchronised, without which a halt closes nothing.
DailyGate(hit, delay, ready) ==
    LET r == DailyHalt(hit, delay) IN
    /\ up /\ phase = "risk"
    /\ ea' = r[1] /\ saved' = r[2]
    /\ closing' = (closing \/ (r[3] /\ ready))
    /\ haltedOn' = IF r[3] THEN day ELSE haltedOn
    /\ IF r[3] THEN TickEnds ELSE GoOn("exits")
    /\ UNCHANGED <<exclusive, up, market, commands, stopped, leaving>>

\* LOTTERY_RESET, an exit that saves nothing, or none.  all: of all positions, which
\* CloseMagicPositions remembers.
ExitGate(acted, all, lottery) ==
    /\ up /\ phase = "exits"
    /\ closing' = (closing \/ all \/ lottery)
    /\ IF lottery THEN Save(ea) ELSE Keep(ea)
    /\ IF acted \/ all \/ lottery THEN TickEnds ELSE GoOn("exposure")
    /\ UNCHANGED <<exclusive, up, market, commands, ghosts>>

\* DD_FREEZE
Freeze ==
    /\ up /\ phase = "exposure"
    /\ TickEnds
    /\ UNCHANGED <<exclusive, memory, market, commands, ghosts>>

\* The first half of ManageHedgeZone: it begins a zone, and decides to leave one (target),
\* after which the tick ends if anything could be closed.
HedgeZone(target, acted) ==
    LET begins == ea.zone = "IDLE" /\ \E d \in Sides : seen[d] >= ZoneTrigger
        a == IF begins THEN [ea EXCEPT !.zone = "ACTIVE"] ELSE ea
        exits == target /\ a.zone = "ACTIVE"
        b == IF exits THEN [a EXCEPT !.zone = "EXITING"] ELSE a
    IN
    /\ up /\ phase = "exposure"
    /\ IF "HEDGE_ZONE" \in Sources
       THEN /\ IF begins \/ exits THEN Save(b) ELSE Keep(ea)
            /\ closing' = IF exits THEN TRUE ELSE closing /\ ~begins
            /\ leaving' = (leaving \/ exits)
            /\ IF exits /\ acted THEN TickEnds ELSE GoOn("engines")
       ELSE UNCHANGED <<ea, saved, closing, leaving>> /\ GoOn("engines")
    /\ UNCHANGED <<exclusive, up, market, commands, stopped, haltedOn>>

\* What each engine asks of the counts and flags before it calls OpenLeg.  A hedge asks
\* for no position on the other side if its trigger is zero.
Wants(s, d) ==
    CASE s = "HEDGE_ZONE" -> ea.zone = "ACTIVE"
      [] s \in {"HEDGE", "REVERSE"} -> seen[d] = 0
      [] s = "BALANCE" -> seen[Other(d)] > 0
      [] s = "DCA" -> ea.zone = "IDLE" /\ seen[d] \in 1..MaxPositions[d] - 1
      [] s = "ENTRY" -> ea.newCycle /\ Flat(seen)

\* Mutant: the capacity is taken from the counts of the tick.
CapacityOfTheTick(d) == seen[d] < MaxPositions[d]

\* LiveDirectionCount, DirectionCapacityAllowed
DirectionCapacityAllowed(d) == live[d] < MaxPositions[d]

ExposureAllowed(s, d) ==
    /\ ea.enabled /\ ea.halt # day
    /\ d \notin ea.stop
    /\ ea.zone # "IDLE" => s = "HEDGE_ZONE" \/ (~exclusive /\ s \in ZoneAllows)
    /\ s = "ENTRY" => ea.newCycle
    /\ DirectionCapacityAllowed(d)

\* OpenLeg by the i-th engine of the chain, the ones before it having opened nothing.  An
\* order that is confirmed ends the tick; one whose answer is lost does not, and may still
\* be filled; one that was rejected is gone.
OpenLeg(i, d, answer) ==
    LET s == Chain[i][1] IN
    /\ up /\ phase = "engines"
    /\ i >= turn /\ d \in Chain[i][2]
    /\ s \in Sources /\ (i > 1 => ~(ea.zone # "IDLE" /\ exclusive))
    /\ Wants(s, d) /\ ExposureAllowed(s, d)
    /\ <<s, d>> \notin sent
    /\ sent' = IF answer = "rejected" THEN sent ELSE sent \union {<<s, d>>}
    /\ closing' = (closing /\ ~(answer = "confirmed" /\ s = "ENTRY"))
    /\ IF answer = "confirmed" THEN TickEnds
       ELSE turn' = i + 1 /\ UNCHANGED <<phase, seen>>
    /\ UNCHANGED <<exclusive, up, ea, saved, live, day, commands, ghosts>>

\* FinalizeCycleState, when no engine ended the tick.
FinalizeCycleState ==
    /\ up /\ phase = "engines"
    /\ IF Flat(seen) /\ closing THEN Save(ea) /\ closing' = FALSE
       ELSE UNCHANGED <<ea, saved, closing>>
    /\ TickEnds
    /\ UNCHANGED <<exclusive, up, market, commands, ghosts>>

\* OnTradeTransaction, as far as it concerns the flags.
TradeEvent(critical, overflow, rebuilt) ==
    LET a == IF overflow THEN [ea EXCEPT !.enabled = FALSE] ELSE ea
        b == Reconciled(a, live, rebuilt)
    IN
    /\ up /\ phase = "idle"
    /\ IF critical \/ overflow \/ ZoneSaves(a, live, rebuilt) THEN Save(b) ELSE Keep(b)
    /\ leaving' = (leaving /\ ~Flat(live))
    /\ UNCHANGED <<exclusive, up, closing, phase, turn, seen, market, commands, stopped,
                   haltedOn>>

\* OnChartEvent: the panel toggles flags and closes; it cannot enable the EA.
ChartEvent(all) ==
    /\ up /\ phase = "idle"
    /\ commands < MaxCommands
    /\ commands' = commands + 1
    /\ \E flags \in {ea} \union {[ea EXCEPT !.newCycle = v] : v \in BOOLEAN \ {ea.newCycle}}
                     \union {[ea EXCEPT !.stop = (@ \union {d}) \ (@ \intersect {d})] : d \in Sides} :
           Save(flags)
    /\ closing' = (closing \/ all)
    /\ UNCHANGED <<exclusive, up, phase, turn, seen, market, ghosts>>

\* A tick that runs a remote command and ends: it sets a flag or closes.  Its steps are
\* those of RemoteCommand.
RemoteCommandRuns(overflow, all) ==
    LET a == IF overflow THEN [ea EXCEPT !.enabled = FALSE] ELSE ea IN
    /\ up /\ phase = "idle"
    /\ commands < MaxCommands
    /\ commands' = commands + 1
    /\ \E flags \in {a} \union {[a EXCEPT !.newCycle = v] : v \in BOOLEAN}
                     \union {[a EXCEPT !.stop = @ \union {d}] : d \in Sides}
                     \union {[a EXCEPT !.stop = @ \ {d}] : d \in Sides} :
           Save(flags)
    /\ closing' = (closing \/ all)
    /\ UNCHANGED <<exclusive, up, phase, turn, seen, market, ghosts>>

\* ... or it switches the EA on or off; one that hangs switches it off.
RemoteSwitch(on) ==
    /\ up /\ phase = "idle"
    /\ commands < MaxCommands
    /\ commands' = commands + 1
    /\ Save([ea EXCEPT !.enabled = on])
    /\ stopped' = (stopped /\ ~on)
    /\ UNCHANGED <<exclusive, up, closing, phase, turn, seen, market, haltedOn, leaving>>

\* The terminal dies, at any step, or unloads the EA between handlers.
Die ==
    /\ up
    /\ up' = FALSE
    /\ TickEnds
    /\ UNCHANGED <<exclusive, ea, saved, closing, market, commands, ghosts>>

\* OnDeinit
Deinit ==
    /\ up /\ phase = "idle"
    /\ up' = FALSE
    /\ Save(ea)
    /\ UNCHANGED <<exclusive, closing, phase, turn, seen, market, commands, ghosts>>

\* OnInit: Load, LoadExtended and the comparison of the zone with the book.
LoadState(rebuilt) ==
    LET a == Reconciled(saved, live, rebuilt) IN
    /\ ~up
    /\ up' = TRUE
    /\ ea' = a
    /\ saved' = IF ZoneSaves(saved, live, rebuilt) THEN a ELSE saved
    /\ closing' = FALSE
    /\ leaving' = (leaving /\ ~Flat(live))
    /\ UNCHANGED <<exclusive, phase, turn, seen, market, commands, stopped, haltedOn>>

-----------------------------------------------------------------------------
(* The market: at any time, also in the middle of a tick *)

Fill(s, d) ==
    /\ <<s, d>> \in sent
    /\ sent' = sent \ {<<s, d>>}
    /\ live' = [live EXCEPT ![d] = @ + 1]
    /\ UNCHANGED <<exclusive, memory, phase, turn, seen, day, commands, ghosts>>

Refuse(s, d) ==
    /\ <<s, d>> \in sent
    /\ sent' = sent \ {<<s, d>>}
    /\ UNCHANGED <<exclusive, memory, phase, turn, seen, live, day, commands, ghosts>>

ClosePosition(d) ==
    /\ live[d] > 0
    /\ live' = [live EXCEPT ![d] = @ - 1]
    /\ UNCHANGED <<exclusive, memory, phase, turn, seen, sent, day, commands, ghosts>>

DayTurns ==
    /\ day < LastDay
    /\ day' = day + 1
    /\ UNCHANGED <<exclusive, memory, phase, turn, seen, live, sent, commands, ghosts>>

MainNext ==
    \/ \E critical, overflow, outside, spread, rebuilt \in BOOLEAN :
           TickBegins(critical, overflow, outside, spread, rebuilt)
    \/ HardStop \/ HistoryNotReady
    \/ \E hit, delay, ready \in BOOLEAN : DailyGate(hit, delay, ready)
    \/ \E acted, all, lottery \in BOOLEAN : ExitGate(acted, all, lottery)
    \/ Freeze
    \/ \E target, acted \in BOOLEAN : HedgeZone(target, acted)
    \/ \E i \in 1..Len(Chain), d \in Sides, answer \in {"confirmed", "lost", "rejected"} :
           OpenLeg(i, d, answer)
    \/ FinalizeCycleState
    \/ \E critical, overflow, rebuilt \in BOOLEAN : TradeEvent(critical, overflow, rebuilt)
    \/ \E all \in BOOLEAN : ChartEvent(all)
    \/ \E overflow, all \in BOOLEAN : RemoteCommandRuns(overflow, all)
    \/ \E on \in BOOLEAN : RemoteSwitch(on)
    \/ Die \/ Deinit
    \/ \E rebuilt \in BOOLEAN : LoadState(rebuilt)
    \/ \E s \in Sources, d \in Sides : Fill(s, d) \/ Refuse(s, d)
    \/ \E d \in Sides : ClosePosition(d)
    \/ DayTurns

MainSpec == MainInit /\ [][MainNext]_mainVars

-----------------------------------------------------------------------------
\* What the EA has decided and saved binds every order it sends later, over the end of the
\* tick, crashes and restarts: none on a day it has halted on, none after a drawdown stop
\* until an operator enables it, none by the zone that has decided to exit before the book
\* was flat, and none at all if that zone is exclusive.
DecisionsBind ==
    [][\A o \in sent' \ sent :
           /\ ~stopped
           /\ haltedOn # day
           /\ leaving => o[1] # "HEDGE_ZONE" /\ ~exclusive]_mainVars

\* The position limit of a side counts what is open; orders in flight come on top.  However
\* late they are filled, a side never holds more than its limit and one order for each engine
\* but the one that was let in last.
CapsHold ==
    \A d \in Sides :
        live[d] + Cardinality(InFlight(d)) <= MaxPositions[d] - 1 + Cardinality(Sources)

=============================================================================

# A verification development for VibecodeKit MQL5

VibecodeKit is a Python tool that generates Expert Advisors (EAs) for the
MetaTrader 5 terminal, with the linters, contracts, document tools and reports
around them. What has to be right under failure is mostly the run-time it emits: an
EA trades with real exposure, its handlers are interrupted by crashes of the
terminal, its broker answers late or never, and all it can keep is a set of global
variables that survive only if they were flushed. The rest are the tools of the host
that several commands, workers and people use on the same files. The run-time is in
`src/tool/source/scripts/vibecodekit_mql5/advanced_codegen.py`, as MQL5 text. Line
numbers below are of that file unless another is named.

## 1. Inventory

| component | state | operations | what makes it hard | correct when |
| --- | --- | --- | --- | --- |
| Trade-intent ledger, `CTradeIntentLedger` 604-788 | per slot (exposure source, direction): id, state, request, order, position, v1 id; audit keys | `Prepare`, `MarkSubmitted`, `MarkUnknown`, `MarkRejected`, `OnTransaction`, `Reconcile`, `OperatorClear`, migration of v1 | events late, again, reordered; lost answers; crash between flushes; timeouts; an upgrade with intents open | no slot is opened from twice; every release is audited first and truly; events act on their own intent; no intent waits for ever |
| Remote commands, `CRemoteCommandLedger` 831-853 and the handler 221-279 | state, ticket, command index; the flags a command sets | claim, delete, apply, acknowledge | several EAs share the ledger; crash at any step; a deletion that is only accepted | at most once; only after the order is gone; never lost; acknowledged is durable; no silent stall |
| Event reducer, `CTradeEventReducer` 790-828, `ApplyTradeDeal` 1213-1234 | queue of deals, rings of marks with cursors, overflow flag | `EnqueueDeal`, `MarkDealProcessed`, `AcceptClosedPosition`, `ProcessPendingTradeEvents` | repeated events, history lag, full queue, crash between mark and save | an effect happens once; nothing heard of is dropped; an overflow stops trading |
| Main loop 1034-1266: `OnTick`'s gates, cycle, hedge zone, daily halt | enabled, stop and cycle flags, zone phase, halt day, balance day | gate chain in a fixed order, panel clicks, remote commands, init and deinit | counts taken at the start of a tick and used at its end; decisions that a crash, a new day or a rebuilt zone could forget | a side stays within its limit but for orders in flight; halt, stop and exit bind every later order |
| State store 937-958 | the main loop's flags, as global variables | `Save`, `Load`, `SaveExtended`, `LoadExtended` | what is in memory and not saved | reloaded as decided |
| `CAsyncTradeManager.mqh` and the hft-async scaffold | pending requests, statistics | open, close all, `OnTransactionResult`, `_retry`, `CleanupStale` | late answers after the stale timeout, retry on reject, a list whose entries move while it is walked | an order is counted once; retries never ask for more than was ordered, and end; the pressure limit lifts |
| `CSafeTradeManager.mqh` | none | `Buy`, `Sell`: a bounded retry | an order that timed out may have been executed | nothing is hidden but what a time-out hid |
| `CMagicRegistry.mqh` | a shared file | `Check`, `Reserve` | two EAs at once, a locked file | a number has one owner; who trades is registered |
| Remote worker client, `remote_worker_client.py`, and its runners | stage, backup, destination | submit, poll, download, verify, commit file by file, undo | interrupted commit, failing undo | all new or all old; no file lost |
| Release gate: `provenance.py`, `runner_key.py`, `release_approval.py`, `release_policy.py`, `check_all.py`, `evidence_attestation.py` | evidence, manifest, signature, pins, approval | record, sign, pin, approve; the stages of `vkmql-check all`; the doors of attestation, ship and package | stages read the files one after the other while others change them | a door lets through what was signed; a verdict is about what was approved |
| TIP life cycle, `tip_state.py`, `agent_cli.py`, `completion_report_parser.py` | the state and history of each TIP in one file | assign, ingest a report, verify, load, save | reports in any state, commands that overwrite each other's file | every acceptance has a report and a verification in its history |
| `rri/escalation.py` | a log file | raise, resolve | two processes, no lock, a rewrite of the whole log | ids are unique, nothing that was promised is lost |
| GitHub compile backend, `github_compile_backend.py`, `github_actions_client.py` | the run found, the artifact taken, the evidence directory | dispatch, find the run, wait, take the artifact, verify, copy | runs of others and re-runs of one's own, a page of 20 runs, other clients, a copy that is not atomic | a success has all of one artifact of its own request; never a mix |
| generation, lint, document, backtest and report tools | files | batch runs | sequential | a matter of tests |

How they interact: `OnTick` first runs the reducer, then `TickAdmissionGate`, which
runs the remote commands and ends the tick if there was one, then
`Trade.Reconcile`, which is the ledger's, then the gates of the main loop, which
call `Open`. `OnTradeTransaction` first hands the event to the ledger and then to
the reducer. All of them share the terminal's global variables, and a
`GlobalVariablesFlush` of one of them, or of another EA, writes the variables of
all. One EA's handlers never run at the same time; two EAs' handlers do.

`PROJECT.json` lists every hazard at its line with the properties that would catch
it, or why none does.

## 2. Plan

1. *(done)* `IntentSeal`, `TradeIntentLedger`: the ledger and what it promises.
2. *(done)* `RemoteCommand`: the command protocol.
3. *(done)* `TradeEventReducer`: the queue, the marks, the overflow.
4. *(done)* `AsyncTradeManager`, `SafeTradeManager`, `MagicRegistry`: the helper
   classes the scaffolds include.
5. *(done)* `MainLoop`: the gate chain of `OnTick` with the cycle, hedge zone, daily
   halt and panel; of the ledger it uses only what `IntentSeal` promises.
6. *(done)* `RemoteJob`, `GithubCompile`, `ReleaseGate`, `TipState`, `EscalationLog`:
   the tools of the host with partial failure or several processes.
7. *(done)* Proofs of every safety and action property that a passing run checks, and
   that the ledger implements `IntentSeal` (section 6).  Left: what several
   instances of an EA keep of the remote-command protocol, of which only the types are
   proved.

Runs are kept small enough that each ends in a few minutes. Modules that share no
state are put into one run side by side, as parts of an `MC` module: each behaviour is
one of exactly one part.

## 3. Modules

**`IntentSeal`** is the ledger as the strategy sees it: a slot holds attempts, an
attempt leaves only when it is accounted for, and a new one enters only an otherwise
empty slot. No timeout occurs in it.

**`TradeIntentLedger`** has the slots in the global variables (`gv`) and as last
flushed (`disk`), the `Open` in progress (`call`), the slots `Reconcile` has still to
visit (`todo`) and the audit (`term`, `opclr`). The broker keeps the state of each
attempt's order (`order`) and of the order that closes its position (`cord`).
Every method is an action: `Prepare` and `PrepareBlocked` are the two ends of
`Prepare` (761-765), each with the migration and the reconciliation it calls;
`Send` and `Return` are the `CTrade` call in `Open` and what is made of its result;
`OnTransaction` delivers any event raised so far, at any time, any number of times;
`Reconcile` visits one slot. A handler that finishes an intent flushes three times
(state, audit, cleared slot: 699), so these actions take a stop `k`: the EA may die
after each. `Crash` brings back `disk`, or keeps `gv` when the EA was merely
unloaded. Ids, tickets and positions are represented by the attempt they belong to.

**`RemoteCommand`** has one program counter per EA instance, and one action for
every call another instance can interleave with. `GlobalVariableSetOnCondition` is
atomic; a test followed by a set is two actions (`MarkDeletedTest`, `MarkDeleted`).
`removal` holds asynchronous deletions the server has yet to carry out.
`mem[i].flags` are the flags a command sets (840-849, 179-199), `closed` the closing
commands whose positions are gone. The flag that enables the EA is kept apart, as
`enabled`: a command that hangs resets it.

**`TradeEventReducer`** has queue, marks and store in `gv` and `disk`, the strategy's
memory in `mem`. `ProcessPendingTradeEvents`, `Skip`, `AcceptDeal`, `ClearPending`,
`ApplyTradeDeal`, `LoopEnds` and `PersistState` are the steps of one pass over the
queue, because a crash or a foreign flush can come between them. `executed` and `known`
are the deals that happened and those the history has. `closed` counts what a
closed position did to the strategy (lottery factor, cooldown), up to two.

**`MainLoop`** has the flags of the EA twice, in memory (`ea`) and as flushed
(`saved`), and goes through `OnTick` gate by gate (`phase`, `turn` for the engines):
`TickBegins` is everything up to and with `ReconcileHedgeZoneState` (1244-1250),
then come the drawdown stop, the daily gate, the exits, the freeze, the zone and the
engines. `live` are the positions at the broker and `sent` the orders in flight; both
change between any two gates, while `seen` is what the tick collected at its start.
`OpenLeg` compares the live count (1086), not `seen`. Whether a price condition, a
signal, a session or a cooldown holds is a choice. `stopped`, `haltedOn` and `leaving`
remember what the EA decided, for the properties. One EA uses the store; positions that
the terminal lists at `OnInit` are all there are; both sides are collected at once; and
a slot holds one order at a time, as the intent ledger promises when
`VCK_RECONCILE_BEFORE_RETRY` is on.

**`AsyncTradeManager`** has the list and the statistics of `CAsyncTradeManager`, the
broker's view of each request (`req`) and the answers under way. `OnTick` is the
scaffold's: it cleans up stale entries and then may open. `CloseAllAsync` may go beyond
the limit of pending requests. Time is the age of an entry: fresh, or older than the
timeout.

**`SafeTradeManager`** is the bounded loop of `_Send` against every answer;
**`MagicRegistry`** the scaffolds' `OnInit` with `Check` and `Reserve`, at the grain of
opening, reading and closing the file, any number of EAs at once.

**`RemoteJob`** follows one job: `SaveOld`, `Install` and `VerifyCommitted` per file,
`UndoOne` and `UndoEnd` when a step raises, `Interrupt` for Ctrl-C, which is not an
`Exception`, and `Killed` at any step.

**`GithubCompile`** has GitHub's side (requests without a run yet, runs with their
attempts, artifacts) and the clients of `run_github_actions_compile`, one action for
each point at which something else can come between: a run is found (`FindRun`), seen
completed (`WaitForRun`), its artifact picked (`TakeArtifact`), the directory looked for
(`CheckDestination`), the download compared with run and jobs (`VerifyBundle`), the
directory made (`CopyTree`) and filled file by file (`Copy`). The transport and the
workflow are external; a run's request is what its title carries, and jobs are those of
the run's latest attempt. All refusals, exceptions, deadlines and kills are `Fails`.

**`ReleaseGate`** has the files of a project as the numbers of the builds they come
from. `Provenance` is the verdict of `validate_release_provenance`; `Record`, `Sign`,
`Approve`, `Pin`, `Rehash` and `Put` change the project at any time, also between the
stages (`Start`, `StageEnv`, `StageApproval`, `StageEvidence`, `ReleasePolicy`) of a
run. `MayAttest` and `MayPackage` are the doors. A manifest records, and a runner
signs, the artifacts its schema requires: 2.0 leaves the input out.

**`TipState`** has the file (`saved`) and what each process has loaded, changed and not
yet written (`held`); **`EscalationLog`** the log, and what each process is about to
append or to write back.

The `MC` modules hold the constants for TLC; `MCRuntime` and `MCProject` put several
modules side by side. Operators whose comment starts with *Mutant* are changed versions
of the operator that follows them, each with a bug that could have been made; the
properties reject all of them.

## 4. Runs

| run | bounds | shows |
| --- | --- | --- |
| `intent` | 1 slot, 2 attempts, asynchronous | seal, audit, correlation, and `IntentSeal` is implemented |
| `intent_legacy` | the same with a v1 slot, synchronous, blocking off | `IntentSeal` is implemented across the migration |
| `intent_live` | 1 slot, 1 attempt, with and without v1, both policies | no intent waits for ever |
| `intent_claim` | as `intent` | finding 1 |
| `intent_mixed` | 1 slot with a v1 and an older v2 intent, 3 attempts | finding 2 |
| `remote` | 1 instance, 2 commands (one sets a flag, one closes), 2 crashes | the protocol with synchronous deletion |
| `remote_late` | the same, asynchronous, 1 crash | what asynchronous deletion leaves true |
| `remote_async` | 1 command, asynchronous | finding 3 |
| `remote_shared` | 2 instances, 2 commands | finding 4 |
| `reducer` | 3 deals of 2 positions, 2 places, 1 crash | once, nothing dropped, overflow, the effect comes |
| `runtime` | main loop: engines `HEDGE_ZONE` and `HEDGE`, one position a side, 2 days, 1 command, both zone policies; asynchronous manager: 2 orders of volume 2, limit of 1 pending request, 1 retry, stale at once; 3 EAs, two of one magic, 2 tries; 3 calls with 2 retries | halt, stop and exit bind; positions and orders in flight keep to their bound; counting, retries, pressure; registration; nothing hidden |
| `project` | 3 artifacts; 2 builds of 2 trees, 1 key, 4 changes; 2 TIPs, one waiting for the other, 2 processes, histories of 3; 2 writers, 2 escalations; 2 clients of one commit, 2 commits, 2 runs with 2 attempts, a page of 1 run, artifacts of 2 files | commits are all or nothing, doors and verdicts are about what was signed and approved, histories account, the log is as promised, installed evidence is the request's own |

Why these bounds are enough to be interesting. In the ledger a violation needs the
first attempt's events to meet the second attempt in the same slot: two attempts
and one slot. Slots share nothing but the search for an event's slot, which
`HandlesAreOwn` settles, for any number of slots by proof. The action constraint
`Quiet` lets the market stand still for an attempt whose slot has been given up;
the events it has raised still come. In `remote` every crash point is reached with
one crash, and two let a recovery be interrupted. In `reducer` three deals overflow
two places, the ring of deal marks wraps, and one position has two closing deals, so
each may be the last to be processed. `Size` is at least 32 in the code; the proofs
are for every size.

In `runtime` two engines are enough for one order to be in flight while another engine
opens, and one position a side makes both of them meet the limit; a second day lets a
halt expire, and one command re-enables the EA. Two orders and one retry let an answer
meet an entry that has moved or was sent again; with a limit of one pending request, a
`CloseAllAsync` of two, or of one after an open, takes the list beyond it, and
`PressureLifts` is about the way back; with three EAs, two fight for one magic
while a third holds the file. In `project` three artifacts give the commit a first, a
middle and a last file; a gate run has four places where one of four changes may fall.
`MaxTrail` is long enough for one acceptance (reported, verified, accepted). Two clients
of one commit differ in nothing but their request; with a page of one run the other's
run hides one's own, and a second attempt leaves an artifact of the first behind.

`intent_legacy` checks `SealSpec` alone: the invariants are proved for all constants,
the v1 slots included, and TLC checks them in `intent`.

Deadlock is checked except in `RemoteCommand`'s runs, where the EA has nothing to do
that changes the model's state when no command order is left, and in `runtime` and
`project`, whose parts end: a job, a bounded number of changes, calls or entries.

## 5. Fairness

* Ledger: ticks reach `Trade.Reconcile`, `OnInit` follows a crash, `Open` returns,
  the clock runs (weak fairness), and `HistorySelect` does not fail for ever
  (strong fairness of a visit with history). `Trade.Reconcile` is behind
  `TickAdmissionGate`, so an EA that is disabled for ever escalates nothing; this is
  listed as a hazard.
* Remote commands: an instance that can take a step takes it; a deletion that is
  asked for again and again is answered in the end with success, or the order is
  gone (strong fairness).
* Reducer: handlers run to their end, ticks keep coming between other events
  (strong fairness of `OnTick`), and the history gets each deal in the end.

* Asynchronous manager: ticks come and time passes (weak fairness of `OnTick` and
  `Pass`); the broker need never answer.

The main loop and the tools of the host have safety properties only: nothing in the
code makes a person sign or a market fill.

No fairness is assumed of orders, operators, crashes, flushes or transaction events.

## 6. Proofs

Eight modules hold proofs that TLAPS checks for every value of the constants.

`TradeIntentLedgerProofs` proves `TypeOK`, `HandlesAreOwn`, `SealedUntilAccounted`,
`AuditedRelease` and `TruthfulAudit` for any slots, attempts and policies, also for
mixed slots. None is inductive alone: a slot may be given up because an order ended,
so the handles must be the attempt's own; a crash falls back to `disk`, so each fact
must hold of the flushed slots too, whose state may be older than what the market
has done since; the record has to agree with an outcome that a stopped handler left
behind. `IInv` conjoins these, and its preservation is proved action by action.

It also proves the refinement, `LedgerImplementsSeal`: where no slot is mixed, every
behaviour of `TradeIntentLedger` is one of `IntentSeal`. Only `Prepare`
puts an attempt into a slot, a new one, and `PrepareSeal` shows that it leaves the slot
with this one alone. No other step adds to a slot or takes back evidence (`QuietSeal`),
and what leaves a slot is in none, so by `IInv` it is accounted for. That `Prepare` finds
no v1 intent needs a slot's v1 and v2 places to hold at most one attempt between them,
before and after a migration and after a stop at any flush: `UnmixedOk`. With mixed
slots the refinement is false, as run `intent_mixed` shows; `NewIntentFindsNoLegacy` says
that they are the only reason: without them `NoIntentOverLegacy`, which that run
refutes, holds.

`RemoteCommandProofs` proves `TypeOK` for any instances; for one instance `NothingLost`
and `AckedIsDurable` with deletion of either kind; and for one instance with synchronous
deletion `AtMostOnce` and `AppliedAfterDelete`. Both assumptions are needed: without
either TLC refutes `AtMostOnce` (`remote_shared`, `remote_async`). The ledger holds the
order of which the deletion is done or asked for until its command is applied, so a
server that answers late finds nothing forgotten. The invariant relates the program
counter, the local ticket and the ledger: where a step between "apply" and "check"
stands, the flushed state is already `APPLYING`, so that a restart cannot apply again.

`TradeEventReducerProofs` proves `TypeOK`, `HeardNotLost` and `OverflowStopsTrading`
for any size, deals and crashes, and `EffectOnce` assuming that the ring has a place
for every position (`Fits`). The last one needs that the memory of a running EA, and
each saved store, count only positions marked beside them, and that an unmarked
position finds a free place, which is the pigeonhole principle applied to the ring.

`RuntimeProofs` has three parts. The registry: who is between opening and closing the
file holds it, so what a scan found missing is still missing when the entry is added.
The synchronous manager: attempts and answers are counted alike. The main loop: a stop,
a halt and an exit stand in the saved flags from the step that decides them, and in
memory whenever the EA is up, so that loading cannot forget them; the halt day in
memory equals the saved one, as it is never changed without a save; and `CapsHold`
follows by counting, because an engine that is let in has no order of its own in flight
and there are `Cardinality(Sources)` of them.

`AsyncTradeManagerProofs` proves `OrdersCounted`, `RetriesBounded`, `LeavesForCause` and
`NoOverfill` for any number of orders and retries, any volume and any limit. The
invariant (`Steady`, `Tallied`, `Told`) is about requests, not about entries: an order
has at most one entry; its request asks for what the requests before it have not taken
(`Volume - filled`), and there are `1 + retry` of them; what they took is a sum over the
requests of the order (`Total`), which the fill counted in the entry bounds; and an
answer under way tells at least what its request took. So an answer that is late, or
comes after another, meets an entry that has either moved or gone, never one that counts
too little. The list is walked by folds from its end while entries are removed and added;
`Walked` states what holds before each step, and an induction over sets of numbers, from
the least number of a set, replaces induction over data. `NoOverfill` adds with
`MapThenSumSet`, and is proved equal to `Total`.

`AsyncTickSweeps` is the safety core of `PressureLifts`: a tick leaves exactly the entries
that are not stale, and sweeps whether or not the list is beyond its limit, for lists of
any length. That the list falls below the limit in the end also needs the fairness of
ticks and of time, and is left to TLC.

`RemoteBuildProofs` proves `AllOrNothing` and `NothingLost` of `RemoteJob` for any number
of artifacts: the invariant says of each file whether the commit has reached it, saved
it or installed it. And it proves `InstalledAsAsked` of `GithubCompile`: a client that
knows its run keeps it tied to its request, whatever GitHub does meanwhile, and whoever
made the directory is the only one that copies.

`ProjectRecordsProofs` proves `HistoryAccounts` of `TipState`: the chain holds in the file
and in whatever a process is about to write over it. And it proves `LogAsPromised` of
`EscalationLog`: as long as no two commands have overlapped, at most one writer is
between its read and its write (`Alone`), and what it read is still the log (`Fresh`), so
that the next id is unused and a rewritten log has lost nothing that was told (`Told`).
That a next id exists at all is a pigeonhole argument: a log of *n* records cannot use
*n* + 1 numbers.

`ProjectProofs` proves `OnlyWhatWasSigned` of `ReleaseGate`, which is a fact of every
state once types hold, and `EligibleAsApproved`, for which a calm run must carry what
each stage has seen over to the next.

`ProjectTypes` and `RuntimeTypes` put the type invariants together for the compositions
of `MCProject` and `MCRuntime`: each part behaves in the composition as it does alone,
so what is proved of it alone holds there too.

The assumptions are the `ASSUME`s of the modules and, where named, `Fits`, no mixed
slots, one instance, synchronous deletion.

Only model-checked: the liveness properties (`SealedIntentEscalates`, `NoSilentStall`,
`EffectComes`, `PressureLifts`), because fairness and ENABLED are out of the prover's
reach; and the runs of section 7, which show that something does not hold.

## 7. Findings

1. `intent_claim`: the order that closes a position takes the place of the opening
   order in its intent (733), and its end finishes the intent while the opening
   order may still be filled; the completion report of PR-06 says otherwise.
2. `intent_mixed`: with a v1 and an older v2 intent in one slot, settling the v2
   intent lets `Prepare` open from the slot although the v1 intent is unresolved (763).
3. `remote_async`: with `InpAsyncExecution` a deletion counts as done when it is
   accepted (869), so a command can run while its order is in the book, and run again.
4. `remote_shared`: `BeginApply` tests the ticket before it swaps the state (848);
   between the two, another instance may have gone on to the next command.

Met while modelling, and in no run, because they are matters of choice, of wording or of
what is left out here:

* The delay after a clear never delays: `ManageInitialEntry` runs before
  `FinalizeCycleState` in the first flat tick (1202, 1205), and `g_last_clear` is never
  read. `InpNewDayDelayMinutes` has no effect: `UpdateTradingDay` (1096) zeroes the halt
  day before `NewDayDelayActive` (1097) is asked.
* `MAX_DD_STOP` (1146) closes once and disables the EA: a close that fails is not tried
  again. A crash between closing and saving leaves the EA enabled. A zone in `EXITING`
  does not try its closes again either (1120), and a day that is halted while the
  history is not ready closes nothing (1156). The spread is tested before the drawdown
  (1141).
* The limit of a side (1086) counts open positions: orders of other engines in flight
  come on top, as `CapsHold` says. An opening whose answer was lost returns false, so
  another engine may send in the same tick; two entry orders of opposite sides are
  possible while the first is in flight.
* `runtime_input_contracts.py:117` and `:120` say that zero disables
  `InpHedgeTriggerPositions` and `InpHedgeZoneTriggerPositions`; `buy.count>=0` (1112,
  1120) always holds, so a hedge, or a zone, begins with an empty book.
* The cooldown of a stepped target (1103) is not saved.
* `CAsyncTradeManager.mqh:315` speaks of completed orders, and any code that is not
  retried counts as reconciled; after a partial fill under RETURN the rest is ordered
  again while it still works. The scaffolds ignore what `Reserve` returns.
* Ctrl-C inside `_commit_staged` undoes nothing; `_maybe_attach_package` catches
  `OSError` while the code it calls also raises `RuntimeError`.
* `evidence_attestation.py` says that a changed file fails the verification; `check_all`
  re-chains the evidence first. `_stage_stress` grades a matrix without one valid case
  as passed. Ship and package never ask for the owner's approval, and an approval may
  name any two files. The runner's signature does not cover `release_eligible` and the
  summary. A manifest of schema 2.0 without a candidate is not compared with a tree.
* `find_run` looks at the 20 newest dispatches only (135): behind more of them a client
  waits in vain. The target in the record is never compared with the one asked for;
  the request id alone ties them. `copytree` (164) into the evidence directory is not
  atomic: after a failed copy, a kill, or an error while the temporary directory is
  removed, the directory is there, whole or not, and every later call refuses (117).
* `tip_state.py` speaks of a strict life cycle; a report is taken in any state, and
  nothing calls `assign` or `verify_tip`. The escalation log has no lock.

## 8. Not modelled

Code generation, linting, document and contract tools, backtests and reports: they
transform files one after the other, and what they compute is a matter of tests. The
helpers for risk, spread, pips, ONNX and logging: arithmetic on prices and pure I/O.

In the modelled components: wording and layout of logs; numeric encodings of tickets in
two doubles; the generation of ids and request ids, which are taken as unique; the
lookback window of the history; volumes and prices; partial writes of a global-variable
file (a flush is atomic); the failure to write a global variable. In the ledger the
sources are slots without meaning, and `Open`'s checks of spread, margin and volume
that return before `Prepare` are left out, as they change no state. In the main loop: a
flush by another EA in the middle of `PersistState`; lots, lottery factor and cooldowns.
In the compile backend: the overrides of the workflow and of the artifact's name, and
the expiry of artifacts, which is one of the ways to fail. In the gate: the stages that
read sources and reports only are one choice, hashes do not collide, and what
attestation, ship and package write after the door is open is left out.

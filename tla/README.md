# VFD Lantern: a TLA+ model

VFD Lantern is a terminal program that connects to variable-frequency drives over
Modbus RTU, monitors them and, when it is started with `--enable-writes`, changes
their parameters. What makes it hard to get right is not the wire format but who
may write, when, and what is known afterwards: one application loop, a handful of
spawned tasks, a write coordinator behind an async mutex, a bus actor and a
hash-chained journal must agree while ports disappear, tasks are aborted, audit
writes fail and the operator changes their mind.

Around that core stands the rest of a monitoring program: profiles and the trust in
them, serial adapters that come and go, a poll plan that must fit the bus, values and
charts that must not pretend to be fresh, CSV logs that must not have holes, fault
timelines, backups, and an operator who edits all of it through a terminal.

This directory models both. All paths below are relative to `src/crates/`.

## 1. Inventory

| Component | State | Operations | Talks to |
|---|---|---|---|
| Session machine (`lantern-app/src/session.rs`) | phase, session id, identity, connectivity, attempt, authorization, audit health, operation | `reduce(SessionInput)` → session, effects | owned by `ApplicationState` |
| Application reducer (`lantern-app/src/application.rs`, `application/`) | session, guard revision, staged and prepared write, restore offer, connection wizard | `reduce(ApplicationAction)` → effects | effects run in order by the runner |
| Main loop (`vfd-lantern/src/main.rs`) | none of its own | select on keys, `action_rx`, udev events, 250 ms safety tick, signals | dispatches to the application |
| Connection flow (`application/connection.rs`, `connection.rs`, `vfd-lantern/src/connection_runtime.rs`) | generation, reconnect generation, open bus, selected port, pending session id | open, identify, close, schedule and cancel a retry, path watch | spawns tasks that send to `action_rx` |
| Write fence (`vfd-lantern/src/write_runtime.rs`) | projection of the session, execution overlay (operation, disarm and audit barriers) | `sync`, `snapshot`, `begin/finish_single_write`, `begin/advance/finish/abort_restore`, `disarm`, `degrade_audit_and_disarm` | read by the coordinator, written by both sides |
| Write coordinator (`lantern-app/src/write_coordinator.rs`) | prepared plans, plan ids | `prepare_write`, `confirm_write`, `execute_once`, restore operations | bus, audit, trust, fence |
| Restore (`write_coordinator.rs`, `restore_permit.rs`, `backup_restore_flow.rs`) | permit: plan, next index, recorded steps | begin, step, finish, abort | as above |
| Durable audit (`lantern-storage/src/audit.rs`) | journal file, head file, token bindings | prepare, finalize, decision, operation start and finish, verify | called by the coordinator |
| Bus actor (`lantern-transport/src/bus_actor.rs`) | five bounded channels, pending queues, burst counter, schedule index, end of the last frame | submit, drain, select, silence, transmit, retry, reject | the only user of the serial line |
| Monitoring runtime (`vfd-lantern/src/monitoring_runtime.rs`) | bus handle, verified session, selections of Scope, browser and CSV, plan, generations | `bus_opened`, `bus_closed`, start, resume, stop, reconfigure, browser debounce, refresh, CSV control | reads through `VerifiedMonitoringBus`, drives planner, pipeline and CSV coordinator |
| Poll planner (`lantern-app/src/poll.rs`) | demands, degradations, rejections, blocks | `build_plan`; `run_executor` runs the plan | plans from the monitoring runtime, results to the pipeline |
| Telemetry pipeline (`lantern-app/src/telemetry/`) | plan versions, current values, histories and their bytes, stale timer | process a result, refresh stale, update plan, mark disconnected, clear | views, charts, CSV delivery, fault queue |
| CSV logging (`telemetry/csv_delivery.rs`, `lantern-storage/src/csv_lifecycle.rs`, `csv_writer.rs`) | delivery and pending gap, relay, guard, coordinator state, running logger, files | start, stop, publish, relay, write, flush, finalise, fail | five tasks and two bounded queues |
| Fault tracker (`lantern-app/src/faults.rs`, `fault_plan.rs`, `vfd-lantern/src/fault_runtime.rs`) | last word, active event, timeline, freeze frames | observe, capture a frame, complete, acknowledge, export | fault queue of the pipeline, bus |
| Profiles and trust (`profile_registry.rs`, `identification.rs`, `lantern-storage/src/profile_trust.rs`) | sources per tier, registry, manifest, approvals | scan, choose, identify, approve, `is_trusted` | asked by the coordinator at prepare and confirm |
| Backups and restore plans (`backup.rs`, `restore.rs`, `backup_restore_flow.rs`, `lantern-storage/src/backup.rs`) | backup files, source, capture, plan on offer | capture, load, diff, prepare, confirm | spawned tasks, restore execution |
| Serial adapters (`lantern-transport/src/discovery.rs`, `serial_open.rs`, `connection.rs`) | port list, selected port | snapshot, hot-plug events, select, open | kernel, udev, connection flow |
| Codecs and validation (`lantern-domain/src/codec.rs`, `value.rs`, `lantern-profile/src/validate/`) | none | decode, encode, scale, validate | editors, coordinator |
| Terminal (`lantern-tui/src/`) | screen, selection, form, editor | keys to actions | application view |
| Settings, observability, simulator, release tooling | see `PROJECT.json` | | not modelled |

Hard behaviours and where they bite (each is a hazard in `PROJECT.json`):

* **two locks, no atomicity**: `snapshot()` copies the projection, then reads the
  fence; `sync()` reconciles the fence, then replaces the projection;
* **late messages**: results wait in `action_rx` across disconnects and reconnects,
  udev events come through another channel, and plan, operation and token ids start
  again at 1 with every coordinator or process;
* **partial failure**: the write went out and its audit record did not, or its reply
  was lost, or the restore stopped after some of its steps;
* **crashes** between a journal line and its head;
* **time**: deadlines that pass while the line must be silent, retries, safety bursts
  that could starve the other classes, retries that are never scheduled;
* **waiting**: the bus actor's `select!`, reads that wait behind the monitoring gate, a
  log that is being stopped while its writer has failed, a pipeline that sleeps until
  the next value goes stale;
* **read, unlock, store**: the monitoring runtime computes a plan from selections that
  another task replaces meanwhile; two approve commands replace one trust store;
* **full queues**: results, samples and fault observations are dropped and must be
  counted or repaired;
* **the world changes between two looks**: adapters swap nodes during an open, files are
  edited during a scan, the session ends under an open editor.

What makes each component correct: a write is audited, confirmed by the operator and
sent once, in the session it was confirmed in; after an ambiguous outcome or an audit
failure nothing is written until the operator acts; the fence never stays blocked; a
restore's steps go out in order; the journal verifies; every bus request is answered,
none too late and none starved; a port does not outlive its session and no read is
made on a bus that was not identified. The plan polls what was selected within its
budget; a value is not shown as good past its age; a log accounts for every sample; the
fault timeline replays; a profile is trusted for its content; a restore plan gives the
drive what the file says; what the operator confirms is what would be written.

## 2. Modules

```
Session <- WriteFence <- WriteRuntime <- RestoreRuntime         BusSchedule <- BusFairness
   ^                                                                ^
   |                                                            BusActor -- implements --> BusPort
Connection                                                      CsvLogging -- implements --> CsvLog

ScopeSelection <- Monitoring   RegisterCodec <- Terminal   InOrder <- Backups, Terminal

MCConnection     = Connection | SerialPorts
MCRestoreRuntime = RestoreRuntime | Backups
MCAuditJournal   = AuditJournal | Profiles
MCTelemetry      = PollPlanner | Telemetry | Downsample | FaultTimeline
MCBusActor       = BusActor | BusFairness
```

The modules on one of the last five lines share no state: a behaviour of such a run is a
behaviour of one of them, with the others at rest.

The proofs stand in modules of their own:

```
WriteRuntime <- WriteRuntimeProofs
RestoreRuntime, WriteRuntimeProofs <- RestoreRuntimeProofs
BusFairness, Telemetry, FaultTimeline <- BusSharingProofs
AuditJournal, Profiles, Backups, Terminal <- OperatorProofs
Connection, SerialPorts <- ConnectionProofs  BusActor <- BusActorProofs
Monitoring <- MonitoringProofs               CsvLogging <- CsvLoggingProofs
```

| Module | Models | Correspondence |
|---|---|---|
| `Session` | `session.rs` | `Reduce` and `Effects` are the two halves of `SessionStateMachine::reduce`; one `CASE` arm per match arm. No variables: its users apply it to the session they own. |
| `WriteFence` | `RuntimeSessionControl` | operators on a projection (`Snapshots`) and an overlay (`Fences`), one per method. |
| `WriteRuntime` | loop, reducer, `ProductionWriteRuntime`, coordinator | one action per operator input, per message and per stretch of the coordinator between two awaits or two lock acquisitions. `co.pc` names the await at which the task that holds the mutex stands. |
| `RestoreRuntime` | restore part of the coordinator and of the application | extends `WriteRuntime` and its next-state relation; `permit` is `RestoreOperationPermit`. |
| `AuditJournal` | `audit.rs`, `atomic.rs` | `append_record` is `StartAppend`, `WriteJournal`, `WriteHead`, each of which may fail, with `Crash` in between; `Verify` is `verify_audit_session`. |
| `BusSchedule` | `select_next` | slots, burst limit, next slot; shared by the two modules below. |
| `BusFairness` | the scheduler against endless arrivals | a class is the length of its queue. |
| `BusActor` | `run_actor`, `execute_read`, `enforce_t35`, handle methods | one action per await; discrete time. |
| `BusPort` | abstract: what `ReadBusPort`/`WriteBusPort` promise | accepted, transmitted, answered; a write is transmitted at most once and an answer tells the truth about that. |
| `Connection` | connection flow, open/identify/timer/watch tasks, monitoring gate | generations are the code's counters; `Transition` and `GateEffects` execute the session's effects in the dispatch that produced them, `opens` and `idents` are the spawned tasks. |
| `ScopeSelection` | `ScopeSelection` of `monitoring.rs` | operators on the sequence of channels. |
| `Monitoring` | `MonitoringRuntime`, `application/monitoring.rs` | the state mutex is released between the read and the store of each thread: `loop` and `tasks` hold what was read. The gate and the bus are in `Connection`, the inside of a log in `CsvLogging`. |
| `CsvLogging` | `csv_delivery.rs`, `csv_lifecycle.rs`, `csv_writer.rs` | one record per task, two queues, the three files of each log; a sample is its number. |
| `CsvLog` | abstract: what a log promises | open, offered samples, an account of all of them at completion. |
| `PollPlanner` | `build_plan`, `fault_plan.rs` | each turn of the budget loop is a step; costs in the code's microseconds. |
| `Telemetry` | `run_executor`, `pipeline.rs`, `pipeline/state.rs` | executor, pipeline task and handle as three processes; a discrete clock. |
| `Downsample` | `downsample.rs` | a function of a history and a width. |
| `FaultTimeline` | `faults.rs`, `application/faults.rs`, `fault_runtime.rs` | `frames` are the tasks that read freeze frames. |
| `Profiles` | `profile_source.rs`, `profile_registry.rs`, `identification.rs`, `profile_trust.rs` | scan and index file by file, approve as read and replace, trust asked at prepare and confirm. |
| `InOrder` | filters over a sequence | what a filter keeps, in the order of the sequence. |
| `Backups` | `backup.rs`, `restore.rs`, `backup_restore_flow.rs` | `jobs` are the tasks; capture reads one parameter at a time. |
| `RegisterCodec` | `codec.rs`, `value.rs` | all encodings, of one to four registers, and all orders, over a smaller nibble. |
| `Terminal` | `lantern-tui`, parameter validation, `parameters.rs` | one action per kind of key; the view changes between keys. |
| `SerialPorts` | `discovery.rs`, `serial_open.rs`, port list of `connection.rs` | kernel, udev monitor, loop and open task. |

A reader who wants one entry point should read `WriteRuntime` from `PrepareGuard` to
`Finish`: it is `write_coordinator.rs` with every point marked where somebody else may run.

### Abstractions

* A parameter with its value is a target; fingerprint, profile and slave address are
  one device, so a plan is bound to a session id, a guard revision and a target. The
  context hash of a plan (`Challenge`) is those fields.
* Instants are replaced by the outcome of the comparison the code makes with them
  (`valid`, `due`). In `Connection` a timer message is due exactly when no later retry
  was scheduled, since the code captures `now` before it sends.
* Device reads, the trust store, audit appends (in `WriteRuntime`) and opens succeed
  or fail freely. In `AuditJournal` SHA-256 is injective: a hash is its record.
* Tasks spawned on the multi-threaded runtime are a set; the mutexes of tokio are FIFO.
* In `WriteRuntime` the accept of a bus and its attachment are one step, and the
  reconnect timer is dispatched directly; `Connection` has both in detail and leaves
  writes out. A second identical prepare that still waits is not duplicated.
* In `RestoreRuntime` manual writes are switched off (`Targets = {}`), one plan is
  prepared, its backup capture is part of the wait, and plan hashes always agree, which
  is the worst case for the checks that remain.
* In `BusActor` requests are valid, time stops past every deadline, and `Stop` covers
  both cancellation at the top of the loop and abort at an await.
* `Monitoring` follows one session: nothing reachable from the terminal starts a second
  one in a process. A plan is the set of its demands, rejected when it exceeds `Budget`.
* In `CsvLogging` a row's text is left out, a flush happens after `FlushRecords` rows or
  by the timer, and a loss of power may take any suffix of what was not synced. A flush
  is three steps, rows, sidecar and checkpoint, each of which may fail or be the last.
* In `PollPlanner` there are three cadences and real costs; `Telemetry` is given plans
  rather than building them, so that ages and blocks change between versions.
* In `RegisterCodec` a nibble has `Nibble = 3` values and a digit `Digit = 2`, so that four
  registers fit TLC's integers: every carry, sign and invalid digit of the real widths
  occurs. Floats are bit patterns of which the code asks only whether they are finite.
* In `Profiles` a profile is its content and a hash is that content; in `Backups` files
  of another drive or profile are "foreign" and one raw value is all of a value.
* In `Terminal` typing is one action and rendering is left out; `Link` stands for every
  step of the wizard from the link to the identification.
* In `SerialPorts` vendor, product and serial number are one number.
* In `Connection` the wizard is one step and `UserConnects` waits for an empty inbox:
  between two attempts the operator passes at least four screens, and the loop takes
  messages between any two key strokes. udev reports what happens to the selected node
  (`known`) unless the path that was typed is not that node itself, such as a typed link
  or a terminal udev does not know; its Changed events are left out. The profile's poll
  plan can be built. One read
  of the poll executor stands for all. An accepted bus may wait for the coordinator
  mutex for as long as it likes.

## 3. Runs

| Run | Instance | Distinct states | Shows |
|---|---|---|---|
| `manual_write` | 2 sessions, 1 plan each, 9 revisions | 1.22 M | `AuditBeforeWrite`, `OperatorConfirmed`, `WrittenOnce`, `WriteStaysInSession`, `FenceDrains` |
| `two_plans` | 1 session, 2 plans, path watch | 1.47 M | `FailsClosed`: after an audit failure or an ambiguous outcome that was not acknowledged nothing begins, but in the window of `sync_window` |
| `sync_window` | as `two_plans` | | `BarriersHoldUntilSync` does not hold: between the two locks of `sync()` a snapshot is writable (section 6) |
| `restore` | one plan of two steps, reconnects; 3 backup files, 3 keys | 1.16 M | `PlanRestoresSource`, `StepsInOrder`, `RearmAfterRestore` (but in that window), `RestoreSettles` (the fence drains, an open operation degrades the audit) |
| `audit_journal` | 4 lines, 2 tokens, 2 crashes; 3 profiles in 3 files, 2 approvers | 2.61 M | `TrustFollowsFiles`, `TwinsAreNotVerified`, `VerdictIsTrue` (a journal without faults verifies, no fault looks like a rollback, acknowledged records stay), `TokensAreSingleUse` |
| `bus` | 1 write, 2 reads, 4 ticks; endless arrivals of 5 classes, 1 of each pending; burst limit 1 | 0.18 M | `PortContract` (refinement of `BusPort`), `FramesKeepTime` (silence and deadlines), `EventuallyAnswered`, `BoundedOvertaking`, `BurstBounded`, `NoClassStarves` |
| `connection` | 2 sessions, 1 removal, 2 devices, detected and typed, reported by udev and not; 2 adapters on 2 nodes | 2.31 M | `PortFollowsSession` (no port outlives its session, the gate follows it, only an identified bus is read), `NoLostWakeup`, `RetriesUntilRefused`, `OpenedIsSelected` |
| `monitoring` | 3 parameters, 4 operator actions, budget 2 | 0.77 M | `PlanIsRequested`, `TeardownFinalizesLog`, `BrowserTakesEffect` |
| `csv_logging` | queues of 1, 2 logs of 3 and 2 samples, 3 turns | 0.23 M | `NoHoleInStream`, `FilesAreEvidence`, `ImplementsCsvLog` (refinement of `CsvLog`), `LogSettles` (a failed writer ends the delivery, a stop returns) |
| `telemetry` | 5 parameters and 7 kinds of request; 3 plan versions, 3 ticks; histories of 6 points; 3 fault words | 1.01 M | `PlanIsSound`, `BusIsShared`, `HistoryIsHonest`, `StaleTimerIsArmed`, `ChartIsHonest`, `TimelineReplays` |
| `terminal` | 10 profiles of one parameter, 1 of two on 4 screens, 1 observed value of any registers over 2 bit patterns | 0.83 M | `PromptsAreSafe`, `StagedWriteIsExact` |
| `detected_retries` | 1 session, 2 removals, otherwise as `connection` | | `KeepsRetrying` does not hold: a retry that was refused is the last (section 6) |

Type invariants are checked alone (`TypeOK`) or as a conjunct of `RestoreSettles`,
`VerdictIsTrue`, `FramesKeepTime`, `PortFollowsSession` and `NoHoleInStream`. Every property
of a passing run has a mutant of the code in `PROJECT.json` that breaks it.

Why the bounds are enough. Two sessions let messages, plans and tasks of one meet the
other, with the ids colliding as they do in the code; two plans let a second write meet
the barriers left by the first; two restore steps are the least for which order and a
failure in between mean anything. `MaxRevision` caps the session and connection actions
of a behaviour: connect, open, identify, arm, confirm arming, confirm the write and
three disturbances. Four journal lines hold a lost head, an append over it, and a
restart. In `Connection`, `MaxGeneration = 6` leaves room for a connection, a loss and its
retries in either session, `MaxUnplugs = 1` for one removal, next to any number of
failures of open ports; two removals within one session are in `detected_retries`, whose
counterexample ends long before its bounds. Three turns of `csv_logging` are a log, an end of the
process and the log of the next process, whose number is the same, or two logs of one
process; queues of one slot are full at once. Budget 2 of three parameters makes
`Monitoring` reject plans. Plan 2 of `telemetry` shortens an age and drops a
parameter, plan 3 brings it back, with two retained versions. Two of the
profiles of `audit_journal` share an id in different tiers; in `restore` the drive differs
from the backup in one parameter or in two, and a link is lost once. In `csv_logging`
the first log takes three samples, which fill a queue, its reader and the hand of the
sender, and later ones two. In `terminal` the profile of two parameters is shown on every
screen, with one value; the others have an encoding of each width and an editor of each
kind, any values, and after the wizard only the parameter list. The burst limit is 1
instead of 8; the proofs about it hold for any limit. Where a bound or a shutdown stops
the system, deadlock is not checked (`CHECK_DEADLOCK FALSE`).

Fairness. `bus` assumes the actor task is scheduled (`WF_vars(ActorNext)`, the runtime
polls a woken task), that time passes (`WF_vars(Tick)`), and of the scheduler alone that
the actor goes on selecting (`WF` of the selections): it is a loop without other waits.
`monitoring` assumes the application loop goes on with what it began and takes its
messages, and that the runtime's timers and start tasks run; `csv_logging` assumes
that writer, relay, coordinator and guard run until they wait, and that the writer takes an
item from its queue, or the command to stop, some day (`SF`): it waits for them with
`select!` and for a timer beside them, and `select!` picks among the branches that are ready
at random, so that the timer and its flushes do not win for ever. No fairness is assumed of
callers, of the device, of the status ticks or of the operator. The violation runs
`sync_window` and `detected_retries` need none: they check invariants.

## 4. Proofs

The theorems below are checked by TLAPS for every value of the constants that satisfies
the named assumptions of the modules (`SessionAssumption`, `WriteRuntimeAssumption`,
`RestoreAssumption`, `BusScheduleAssumption`, `BusActorAssumption`,
`ConnectionAssumption`, `AuditJournalAssumption`,
`MonitoringAssumption`, `ScopeAssumption`, `ProfileAssumption`, `CsvAssumption`,
`TelemetryAssumption`, `SerialAssumption`, `FaultAssumption`, `BackupAssumption`,
`CodecAssumption`, `TerminalAssumption`). They ask for little: bounds are natural numbers, a
by-id link leads to one adapter, a plan is a sequence of blocks whose periods and ages are
not zero, "no device" is no device, a request's deadline lies within the bound of the clock,
a profile has finitely many parameters, each with an axis, and a restore order that names
none twice, a complete backup that is on disk at the start has every parameter, at least one
fault event and one observation are kept, a page of the parameter list has a row, a path has
one tier. The bounds of section 3 are constants too, so the theorems hold for any number of
sessions, revisions, plans, steps, generations, removals, lines, crashes or requests.

### The manual write

* `TypeCorrect`: every variable keeps its type. `ReduceType`, `FenceTypes`, `SyncType`
  and `DispatchType` are lemmas on the operators; then one lemma for the loop, one for
  the transport tasks and one for the coordinator, with a step per action.
* `AuditedBeforeWritten`: every plan on the wire has its preparation in the journal.
  The invariant adds `co.pc = "send" => co.plan \in journal`: what the task relies on
  between the durable append and the transmission, across all that runs in between.
* `ConfirmedBeforeWritten`: every plan on the wire was confirmed by the operator with
  this target in this session. Plan ids repeat, so the id alone proves nothing: the
  invariant follows the challenge from the confirmation through the spawned task to the
  coordinator, which compares it with the plan it holds (`PastChallenge`).
* `StaysInSession`: no write goes out on the bus of another session than its plan's.
  `SyncIsCurrent` shows first that whatever the coordinator compares with was never ahead
  of the session; `StayInv` then says that while a bus is open every plan the coordinator
  holds is of the session that bus was opened for, because `attach_bus` waits for the
  mutex and a session ends together with its bus. Plans prepared from the projection an
  ended session left behind (`strayed`) are excepted, see section 6.
* `SessionsAreFresh`: the id the next session gets occurs in no plan, no waiting task
  and no recorded failure (`FreshInv`). Without it an old failure could not be told from
  one of the new session.
* `FailsClosedAlways`: after a failed audit in its session, and after an ambiguous outcome
  until the operator has armed again, a write begins in one window only. `sync()` lifts a
  barrier and publishes under two locks, so neither the fence nor the projection alone
  refuses: `DisarmedInv` and `DegradedInv` say that between the barrier, the session, the
  snapshot being synced and the projection at least one always does. It is the snapshot
  being synced in the window between the two locks, and there `begin_single_write`, which
  reads the projection and the fence, is not stopped (`Withdrawing`; run `sync_window`).
* `FenceAlwaysDrains`: with all tasks returned and all messages handled, no operation is
  left in the fence of an Active session. `DrainInv`: an operation that runs without its
  task is finished, and a message, a sync under way or the end of the session will remove it.
* `CopiesAreOvertaken` and `WrittenAtMostOnce`: a confirmation transmits its write at most
  once, although the same plan can be prepared, offered and confirmed twice. The fence
  revision is only as fresh as the last sync, so the argument is about order: copies of a
  plan stand in one line from the screen over the inbox to the replies, and of two copies
  the later one is overtaken by a revision before its turn comes (`OrderInv`); from the
  confirmation on, the second one meets a later revision in the snapshot, the projection or
  the coordinator (`OnceInv`).

### The restore

* `RestoreStepsInOrder`: a step goes out only for a confirmed plan with a durable and
  unfinished operation start, after all earlier steps were verified, and once. `WayInv`
  says that a plan is in one place on its way from the reply to the open operation, so
  no two tasks work on the same one although operation ids start again with every
  coordinator; `ConsentInv` that it was confirmed on that way; `PermitInv` that the
  transmitted and the verified steps of the open operation are exactly those before `next`.
* `ArmedAgainAfterRestore`: after a restore that got as far as its start no snapshot is
  writable until the operator arms again, but between the two locks of a `sync()` that
  is about to publish the disarmed session. This is `DisarmedInv` once more, over the
  steps of the restore.
* `RestoresSettle`: with everything at rest the fence of an Active session is empty and
  an operation of that session with a start and no finish has degraded its audit.
  `OwnInv`: between the claim and the end the operation in the fence is the task's own,
  so neither abort nor finish is refused; `SettleInv`: one that has ended is being removed;
  `OpenInv`: an operation that stays open is in the hands of a task that will report it,
  or the report is in the inbox, or the session is degraded; `RestoreFreshInv` keeps a
  later session from being taken for the one that failed.

### The bus

* `OvertakingBounded`: a waiting class is passed over by non-safety requests at most as
  often as there are slots before its next one. The inductive invariant `Distance` says
  that the count so far plus the distance from the schedule index to the next slot of
  the class stays within the gap; `SlotWithinGap` and `SlotNearer` are the facts about
  the schedule of eleven slots.
* `BurstsBounded`: the run of safety requests served while others wait never exceeds the
  limit unless a safety deadline presses; the code's counter bounds it (`BurstCounts`).
* `BusActorTypes`, `KeepsPortContract`: the actor implements `BusPort`. Every step of the
  actor is a step of the port or leaves it alone (`ActorStep`). The invariant `QueueInv`
  says that a request that still waits is in exactly one place, its channel, its pending
  queue or the actor's hands, and untransmitted while it is queued; `ServeInv` counts the
  transmissions of the one in hand. `AppendElements`, `TailElements` and `WithoutElements`
  are the facts about queues without repetition.
* `FramesInSilence`: every frame, retries included, starts in silence and before its
  deadline. `FrameInv` says which sleep the actor has still to finish at each point.

### The connection

The generation tells a task of an earlier attempt when it looks, but what it has already
sent waits in the inbox while the generation moves on, and the handlers of verdicts and
of failed opens do not compare it. So nothing below is inductive until one knows what may
still be under way; `Steps` reduces every action to one of a few outcomes (`Idles`,
`Shuts`, `Loses`, `Retries`, `Joins`, ...), and each invariant is then carried through them.

* `PortIsSafe`: a port does not outlive its session, the gate belongs to the active session
  and no read goes to an open bus on which no device was identified. `GenerationInv`: no
  task is ahead of the runtime, and a port being opened differs from every bus the gate or
  the read still knows. `ClosedInv`: a port is opened only when none is open and no verdict
  about a device is due. `VerdictInv`: no verdict of an initial attempt is under way once
  the session is connecting or active, and one at most while it is identified. `TimerInv`:
  the timer last set is the only one that can be due, and while it can the bus is closed.
  `VerdictRead`: a verdict in the inbox about a device was read on the bus that is open.
* `WakeupIsKept`: a read that waits has been woken when the gate is open for it
  (`GateHolds`, which says it at each stage of the read).
* `RetriesStopOnlyWhenRefused`: a session that lost its port has a timer, a task or a
  message under way that will try again, until a retry was refused. What consumes one
  starts the next, ends the loss or is the refusal (`RetryInv`), and a refusal is lifted
  by the retry that is opened or by the next loss (`RefusalLifted`); `RefusalInv` says that
  only a port udev reports, and no path as it was typed, is ever refused. It is safety:
  that the next attempt is made at all needs fairness.

### The serial ports

* `OpenedPortIsSelected`: a port that was opened, and is still plugged in, has the link and
  the serial number of the request. Nothing ties the checks of `open_blocking` together but
  the inode: `StreamInv` says that an adapter plugged in later at the node has another
  inode, so that whatever a look finds there while the stream's inode is in place is true
  of the adapter that was opened. That it is also the one the operator selected holds when
  every adapter has a link (`SelectionInv`): every descriptor of an adapter on the lists,
  the channels and in the replies then carries the link of that adapter, and events and
  snapshots are matched with the selection by it. Where links are missing the selection
  follows the node, see section 6. The two sorts of the port list are relations in the
  model (any order that is `Sorted`), so the proof rests on no sorting algorithm; the
  searches, `PlaceOf` and that of `SelectDetected`, need that a first match exists, which is
  the well-foundedness of `<` again (`LeastNatural`).

### The journal

* `VerdictAlwaysTrue`: a journal without faults verifies, no crash and no failed write
  looks like a rollback, and what was acknowledged stays. Journal and head lag behind each
  other between the two writes of an append and forever after a failure of one;
  `AuditInv` says how far, and that they agree on every journal whose chain is unbroken
  (`HeadInv`, `FileInv`, `CallInv`, `CleanInv`).
* `TokensUsedOnce`: nothing is finalized more often than it was prepared, across restarts
  that give out the same tokens again. `BalanceInv` counts, for every token, the lines
  written, the binding held and the append under way.

### The monitoring runtime

Three threads (the loop, timers, start and status tasks) read the selections under the
mutex, give it up, and store what they computed. The invariant `MonInv` therefore says for
every thread on its way what its reading is still good for.

* `SelectionsArePolled`: the plan polls every selection the runtime remembers and nothing
  else but a parameter being refreshed, and at rest the selections are the last ones asked
  for, up to the race recorded in `raced`. `FreshInv`: a thread that is about to store has
  read what the others have not replaced since, or has been overtaken. `AdmittedInv`: the
  selections kept fit the budget, also without their log, so that no clearing is refused.
  `ScopeInv` and `BrowserInv` follow the last Scope and the last visible rows through the
  loop, the debounce and the store; `PlanInv` the plan itself, which differs from the
  selections only while the timer of a refresh is out. That a panel shows one axis is
  `ScopeSound`, carried through add, remove and move of a channel.
* `LogEndsWithSession`: a log does not outlive its session. `LogInv` says that while a log
  runs, or a task is under way that will start it, the session is up and the view shows a
  log, or the loop is already stopping it; there is one start task at most. `CsvInv`: what
  the log takes is what the plan polls for it. The logging id each status task carries is
  what keeps the reports of two successive logs apart.

### CSV logging

Five tasks hand a sample on: publication, relay, writer, guard and coordinator. Each may
stand anywhere while a failure, a stop or the end of the session overtakes it, but as long
as the writer has not failed nobody takes anything away from the others (`HealthInv`): the
guard waits, no abort is on its way to the relay, the coordinator has not given up.

* `NoHole`: no sample is lost, repeated or out of order between its publication and the
  file. The seven pieces of its way (file, buffer, writer's queue, relay's hands, delivery
  queue, pending gap, gap of the stop) are each without a hole and begin where the one
  before ends (`StreamInv`: `Link(a, s, b)` says that `s` takes the samples from `a` to
  `b`). Every action moves one cut; `LinkAppend`, `LinkTail`, `LinkCat` and `LinkGap` say
  how, without any count of a whole sequence. The writer's steps are reduced to two
  outcomes, `Goes` (the rows stay or go to the file) and `Breaks` (it failed, and nothing
  is promised any more). `FlushInv` says where the log stands while a flush is between its
  file operations: the rows are in the file and nothing else is served.
* `LogPromise`: the module implements `CsvLog`. The counts are carried along the cuts:
  what the writer has counted is the last sample it has taken. When a stop returns with
  success the rest of the way is empty, so that this is the last sample published
  (`AnsweredCounts`); the sidecar holds these counts since it was completed. `PhasesSay`
  reads the phase of the abstract log from where the coordinator stands, and
  `CompletedInv` keeps the file of a reported log apart from the one being written. One
  lemma per action then names the abstract step, or shows that there is none.

### The poll executor and the telemetry pipeline

* `TelemetryInvHolds` is the inductive invariant of both. `BlocksShareTheBus`: after its turn a
  block waits for a later slot of its period, and an overdue block is passed by every other
  block at most once. `BusIsShared` looks at the executor between two turns only and at the
  slots; `TurnShape` says of every state that a block is due a whole number of periods after
  its first due time and after the end of its last turn, and that a block that passed it
  while it was overdue is due later than it, or is being served. `TurnBegins` uses that
  `earliest_index` really finds a least due time (`EarliestIsFirst`, for any number of
  blocks, from the well-foundedness of `<`), so the block served was not among those that
  passed; `TurnEnded` that `advance_without_burst` gives a slot after now (`AdvanceIsNext`).
* `StaleTimerStaysArmed`: `TimerInv` says that a sleeping pipeline task without a permit has
  the timer for exactly the first value to go stale. Each way a value changes either ends in
  a new wait of the task or leaves a permit (`ArmedOrWoken`); the lemmas from `RecordKeeps`
  to `InstallKeeps` keep the values what they are under recording, pruning and plan changes.

### The fault timeline

* `TimelineAlwaysReplays`: the kept events tell a history of the fault word that ends in the
  last word seen, and each freeze frame is of its own event. That a history exists is said
  with a sequence of words, one for each event (`Tells`), rather than with a fold, so that an
  event that arrives extends it and an eviction drops its first word. `EventsInv`: event
  numbers ascend, also after evictions, so a number names one event. `FramesInv`: a frame
  task works for one event, no other task does, and what it has read is what the event
  expects unless a read failed, so that a frame is complete only when it has every parameter
  and belongs to the event it is attached to, however late the task reports.

### Backups and restore plans

* `PlanAlwaysRestores`: the plan on offer, carried out on the drive as it was captured, gives
  the source's value to every restorable parameter both have and changes nothing else, once
  each and in the profile's order. The temporal part is `BackupsInv`: a capture that has not
  failed has every parameter it has come to, so that one which calls itself complete has all
  of them (`CapturedIsWhole`), and a plan, wherever it is on its way from the task to the
  screen, was built from two complete backups (`Approved`). What such a plan does is the
  lemma `ApprovedRestores` about `build_restore_plan`. Its steps stand in the order of the
  ascending numbers of their places in the restore order: `AscendingWay` says for every finite
  set of numbers that this order exists, and `CountOnce` that no step is repeated.

### The terminal

* `PromptsAlwaysSafe`: no text gets from one prompt, screen or editor into another, what has
  the keys can be left, and the selected parameter is in the window that is drawn and
  polled. `FormInv` says whose text the form has. Not every action that opens something
  empties what was open (an enum editor keeps the form, a search keeps the editor), so it
  matters that each is reached only when nothing has the keys, and that then no editor is
  open and the form is empty (`FreeIsEmpty`). `EditorInv`: an open editor is on the screen
  of the parameters and on a parameter in view, which the catalog stays in while the
  session changes, so that its keys are always mapped. `WindowHolds` is the arithmetic of
  `visible_parameter_ids`; that the filtered list has its parameters in view is
  `AscendingWay` again.
* `PreviewAlwaysWritten`: the registers shown with a staged intent are those that the
  coordinator would write (`IntentIsTarget`: whatever `prepare_parameter_intent` accepts of
  a parameter that `manual_parameter_allowed` lets through, `authoritative_target` accepts
  and encodes alike). It is one half of `StagedWriteIsExact`.

### Profiles

* `TrustFollows`: a write goes out only under a packaged profile or one whose content the
  operator confirmed. `ApprovalInv` follows a confirmation through approve commands that
  read and replace one store, `OfferInv` the profile of a write from preparation to
  confirmation. `RegistryInv` is the loop of `from_sources`: the registry reflects the
  sources taken so far (`Reflects`), and those to come are of no lower tier, so that a
  refused source is a real conflict (`RefusedUnclean`) and an entry is only replaced by one
  of a higher tier (`IndexReflects`).
* `NoTwins`: what was verified agrees with the drive probe by probe (`VerifiedInv`), so a
  second profile with the same probes is found to match as well, and the attempt ends
  ambiguous.

### What is only model-checked

Liveness and `ENABLED` are out of the prover's reach: `NoClassStarves`,
`EventuallyAnswered`, `BrowserTakesEffect`, `LogSettles`. So is what a fold or a recursive
definition computes for every input: `PlanIsSound`, `ChartIsHonest`, the half of
`StagedWriteIsExact` that decodes and encodes a value again, the counts of rows and gaps in
`FilesAreEvidence`, and the bytes of a history in `HistoryIsHonest`.

## 5. Reading a property

Properties stand at the end of their modules, each with the code it is about. History
variables (`confirmed`, `journal`, `wire`, `ambiguous`, `acked`, `faulted`, `identified`,
`raced`, `refused`, `chosen`, `strayed`)
record what happened and guard no action.

## 6. Where code and documents disagree

`detected_retries`. An adapter that is away for longer than the first retry delay
(250 ms) is never reopened: the retry cannot be built, nothing schedules another, and the
adapter's arrival triggers none. The operator must disconnect. This is so for a detected
adapter and for a path that was typed, if udev reports the path: its Removed event takes
the place of the typed selection, which is compared by canonical device
(`lantern-app/src/connection.rs:296`, 651). A typed path that udev does not report is
never refused and retried for as long as the session lasts. `RetriesUntilRefused` is what
holds of all of them, while `docs/development/tui.md` gives the session machine the reopen
after a typed path has disappeared.

`sync_window`. `sync()` lifts the barriers of the fence under one lock and replaces the
projection under another (`write_runtime.rs:485`), so a coordinator task that takes its
snapshot in between sees an armed projection and no barrier, although the operator has
disarmed, or an outcome is ambiguous. The comment on the fence and a test by its name say
that capabilities stay removed until the projection has caught up. The window is short:
for a write to begin in it, a whole second confirmation with its fresh reads would have to
end between the two locks. `FailsClosed` and `RearmAfterRestore` except the window and
nothing else.

Other things met while modelling, which the models contain and no run reports:

* A disconnect publishes no projection (`application.rs:82`), so the coordinator of the next
  session still sees the last session as writable until the first sync of its own. A
  preparation that was spawned before the disconnect and is first polled after the next bus
  was attached stores a plan of the ended session, and a confirmation that waited just as
  long accepts it: that write goes out on the new bus if the same drive answers. It takes
  two spawned tasks that are not polled across a whole reconnect, so no run reports it;
  `WriteStaysInSession` excepts such plans (`strayed`) and is proved for all others.
* `WriteFinished` is applied only while the application holds the operation
  (`session.rs:483`). If the transport was lost in between, an `AuditDegraded` outcome is
  dropped: the fence blocks writes, the operator is shown a healthy audit, while
  `docs/writes-trust-audit.md` says the degradation remains visible.
* After a journal line whose head was not written, the next append reuses the sequence
  number, returns `Ok`, and the session no longer verifies (`audit.rs:418`).
* A removal that overtakes the verdict of a reconnect leaves the session `Connected`
  without a bus: the late verdict is accepted (`session.rs:388`), `Resume` fails, the
  pending retry is ignored.
* Reconfigurations read, unlock and store (`monitoring_runtime.rs:341`): one may put back
  what another replaced. `PlanIsRequested` and `BrowserTakesEffect` hold up to that race,
  which `raced` records. A stop may likewise overtake the task that starts a log
  (`monitoring_runtime.rs:641`).
* The ambiguity check of identification only compares candidates with as many probes
  over the same blocks (`identification.rs:259`); `TwinsAreNotVerified` is stated for those.
* Without a by-id link, ports are compared by device node (`lantern-app/src/connection.rs:651`),
  so that the selection may move to another adapter on that node; `OpenedIsSelected` says
  what is kept then.
* The limits of a parameter are checked on the requested value, not on the rounded one
  that the registers hold (`parameters.rs:651`); a scale is accepted without checking
  `decimal_places` against its divisor or offset (`value.rs:81`), so a value read and
  written back is only exact where the scale allows it.
* An enum editor opened on a value that is not among the options begins at the first one
  (`parameter_keymap.rs:275`), so that Enter at once stages another value than the drive
  has, and shows it as staged.

## 7. Not modelled

Rendering, settings, reports and diagnostic bundles (files written once), statistics,
the simulator and the release tooling. Value formatting, the document structure of
profiles and the error texts. Real register widths and float arithmetic, which are out of
TLC's reach: `RegisterCodec` checks the same definitions over a smaller nibble. View
projections of the application. Of the poll executor, on-demand reads. The modules that
share a run do not interact in it; the interactions that are modelled are those inside
a module (for example loop, runtime and coordinator in `WriteRuntime`, application,
runtime and log in `Monitoring`, terminal, validation and codec in `Terminal`). See
`PROJECT.json` for each component.

## 8. Plan

Done: all modules of section 2 and the theorems of section 4.

Theorems to prove next: the part of `FilesAreEvidence` that speaks of steps, and the order and
ages of `HistoryIsHonest` without its bytes.

Models: a second monitored run in which `Monitoring` and `CsvLogging` share the
coordinator; `Backups` handing its plan to `RestoreRuntime`; `Profiles` replacing the
free answer of `is_trusted` in `WriteRuntime`.

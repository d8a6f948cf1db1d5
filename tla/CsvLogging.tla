------------------------------ MODULE CsvLogging ------------------------------
(***************************************************************************)
(* CSV logging: the delivery at the end of the telemetry pipeline          *)
(* (lantern-app/src/telemetry/csv_delivery.rs), the coordinator with its   *)
(* relay and failure guard (lantern-storage/src/csv_lifecycle.rs) and the  *)
(* writer actor with the files it leaves (csv_writer.rs,                   *)
(* session_artifacts.rs).                                                  *)
(*                                                                         *)
(* A sample is its number in the order of publication.  A record stands    *)
(* for the samples from .. to: itself, or the ones a gap reports dropped.  *)
(* The process may end between any two steps, with or without the power:   *)
(* what was flushed but not synced may then be lost.  Numbers of logs      *)
(* restart with the process, so that file names repeat.                    *)
(***************************************************************************)
EXTENDS Naturals, Sequences, SequencesExt, FiniteSets

CONSTANTS
    Capacity,       \* slots of the delivery queue, and of the writer's
    FlushRecords,   \* FLUSH_RECORDS, 4096 in the code
    MaxSamples,     \* bound: samples published per log
    MaxLogs,        \* bound: starts per process
    MaxTurns        \* bound: starts of a log and ends of the process

ASSUME CsvAssumption ==
    /\ Capacity \in Nat \ {0} /\ FlushRecords \in Nat \ {0} /\ MaxSamples \in Nat
    /\ MaxLogs \in Nat \ {0} /\ MaxTurns \in Nat

VARIABLES
    delivery,       \* CsvDeliveryState
    published,      \* samples published to the current log
    source,         \* queue from the delivery to the relay
    relay,          \* run_relay
    orders,         \* commands waiting for the relay
    sink,           \* queue from the relay to the writer
    writer,         \* run_actor and its RunningLogger
    guard,          \* spawn_failure_guard
    coord,          \* CsvLoggingCoordinator, its start and its stop
    disk,           \* the files of each log
    logs,           \* numbers of logs used by the process
    restarts,       \* ends of the process
    turns           \* starts and ends so far

queues == <<source, sink>>
vars == <<delivery, published, source, relay, orders, sink, writer, guard, coord, disk, logs, restarts, turns>>

Sample(n) == [kind |-> "sample", from |-> n, to |-> n, count |-> 0]

\* TelemetryGapCore::from_dropped_sample and extend_with_dropped_sample
DroppedGap(n) == [kind |-> "gap", from |-> n, to |-> n, count |-> 1]

Extended(gap, n) == [gap EXCEPT !.to = n, !.count = @ + 1]

NoGap == [kind |-> "none", from |-> 0, to |-> 0, count |-> 0]

Records == [kind : {"sample", "gap"}, from : 1 .. MaxSamples, to : 1 .. MaxSamples, count : 0 .. MaxSamples]

\* the file of the log being written
File == disk[writer.log]

Samples(rows) == Len(SelectSeq(rows, LAMBDA r : r.kind = "sample"))

Dropped(rows) == FoldLeft(LAMBDA n, r : n + r.count, 0, rows)

\* CsvSessionSidecarV1 and CsvRuntimeCheckpointV1
Sidecar(status, samples, dropped) == [status |-> status, samples |-> samples, dropped |-> dropped]

Checkpoint(status, rows) == [status |-> status, rows |-> rows]

NoSidecar == Sidecar("none", 0, 0)

NoCheckpoint == Checkpoint("none", 0)

NoFile == [made |-> FALSE, rows |-> <<>>, synced |-> 0, sidecar |-> NoSidecar, checkpoint |-> NoCheckpoint]

\* rows: written to csv::Writer and not flushed; flush: what persist_running_artifacts
\* has still to update; counts of the RunningLogger
NoWriter ==
    [at |-> "off", log |-> 0, state |-> "Idle", failed |-> FALSE, rows |-> <<>>, flush |-> "none",
     samples |-> 0, gaps |-> 0, dropped |-> 0]

NewCoordinator == [at |-> "idle", state |-> "Idle", active |-> FALSE, failureGap |-> NoGap, gap |-> NoGap,
                   wasFailed |-> FALSE, completed |-> 0]

NoDelivery == [on |-> FALSE, gap |-> NoGap]

NoRelay == [at |-> "off", item |-> NoGap]

NoGuard == [at |-> "off", gap |-> NoGap]

Init ==
    /\ delivery = NoDelivery /\ published = 0
    /\ source = <<>> /\ relay = NoRelay /\ orders = <<>> /\ sink = <<>>
    /\ writer = NoWriter /\ guard = NoGuard /\ coord = NewCoordinator
    /\ disk = [l \in 1 .. MaxLogs |-> NoFile]
    /\ logs = 0 /\ restarts = 0 /\ turns = 0

CsvTypeOK ==
    /\ delivery.on \in BOOLEAN /\ delivery.gap \in Records \cup {NoGap}
    /\ published \in 0 .. MaxSamples
    /\ source \in Seq(Records) /\ Len(source) <= Capacity
    /\ sink \in Seq(Records) /\ Len(sink) <= Capacity
    /\ relay.at \in {"off", "run", "send", "drain", "drain_send", "discard", "done"}
    /\ writer.at \in {"off", "create", "sidecar", "checkpoint", "ready", "stop", "finalize", "completed",
                      "unlink", "answered", "shutdown"}
    /\ writer.state \in {"Idle", "Running", "Completed", "Failed"}
    /\ writer.flush \in {"none", "sidecar", "checkpoint"}
    /\ guard.at \in {"off", "wait", "store", "done"}
    /\ coord.at \in {"idle", "starting", "enable", "check", "disable", "finalize", "stopping", "gone"}
    /\ coord.state \in {"Idle", "Starting", "Running", "Finalizing", "Failed"}
    /\ \A l \in 1 .. MaxLogs :
          disk[l].rows \in Seq(Records) /\ disk[l].synced \in 0 .. Len(disk[l].rows)
    /\ logs \in 0 .. MaxLogs /\ turns \in 0 .. MaxTurns /\ restarts \in 0 .. turns

-----------------------------------------------------------------------------
(***************************************************************************)
(* Delivery, in the pipeline's publication.                                *)
(***************************************************************************)

\* mutant: the sample that finds the queue filled by the gap is forgotten
Published_Forgets(n) ==
    LET gap == delivery.gap
        room == Capacity - Len(source)
    IN  IF gap # NoGap
        THEN IF room = 0 THEN [items |-> <<>>, gap |-> Extended(gap, n)]
             ELSE [items |-> <<gap>>, gap |-> NoGap]
        ELSE IF room = 0 THEN [items |-> <<>>, gap |-> DroppedGap(n)]
             ELSE [items |-> <<Sample(n)>>, gap |-> NoGap]

\* publish: a pending gap goes before the sample that follows it
Published(n) ==
    LET gap == delivery.gap
        room == Capacity - Len(source)
    IN  IF gap # NoGap
        THEN IF room = 0 THEN [items |-> <<>>, gap |-> Extended(gap, n)]
             ELSE IF room = 1 THEN [items |-> <<gap>>, gap |-> DroppedGap(n)]
             ELSE [items |-> <<gap, Sample(n)>>, gap |-> NoGap]
        ELSE IF room = 0 THEN [items |-> <<>>, gap |-> DroppedGap(n)]
             ELSE [items |-> <<Sample(n)>>, gap |-> NoGap]

Publish ==
    /\ delivery.on /\ published < MaxSamples
    /\ published' = published + 1
    /\ source' = source \o Published(published').items
    /\ delivery' = [delivery EXCEPT !.gap = Published(published').gap]
    /\ UNCHANGED <<relay, orders, sink, writer, guard, coord, disk, logs, restarts, turns>>

\* guard_task.abort(): nothing interrupts the guard once it acts
AbortedGuard == IF guard.at = "store" THEN guard ELSE NoGuard

\* CsvDeliveryState::stop
StopDelivery == delivery' = NoDelivery

-----------------------------------------------------------------------------
(***************************************************************************)
(* CsvLoggingCoordinator::start.                                           *)
(***************************************************************************)

\* a number is used up by every start; the coordinator takes it when idle
Start ==
    /\ coord.at = "idle" /\ logs < MaxLogs /\ turns < MaxTurns
    /\ logs' = logs + 1 /\ turns' = turns + 1
    /\ IF ~coord.active /\ ~delivery.on /\ coord.state = "Idle"
       THEN /\ coord' = [coord EXCEPT !.at = "starting", !.state = "Starting", !.failureGap = NoGap]
            /\ writer' = [NoWriter EXCEPT !.at = "create", !.log = logs']
            /\ sink' = <<>>
       ELSE UNCHANGED <<coord, writer, sink>>
    /\ UNCHANGED <<delivery, published, source, relay, orders, guard, disk, restarts>>

\* start_logger fails: the actor is shut down and the coordinator idle again
StartFails ==
    /\ writer' = NoWriter
    /\ coord' = [coord EXCEPT !.at = "idle", !.state = "Idle"]

\* mutant: an existing file is truncated
CreateFile_Truncates ==
    /\ writer.at = "create"
    /\ disk' = [disk EXCEPT ![writer.log] = [NoFile EXCEPT !.made = TRUE]]
    /\ writer' = [writer EXCEPT !.at = "sidecar"]
    /\ UNCHANGED <<delivery, published, queues, relay, orders, guard, coord, logs, restarts, turns>>

\* create_new: an existing file is never opened; a file whose header cannot
\* be synced is left behind, one whose header cannot be written is not
CreateFile ==
    /\ writer.at = "create"
    /\ \/ /\ ~File.made
          /\ disk' = [disk EXCEPT ![writer.log].made = TRUE]
          /\ writer' = [writer EXCEPT !.at = "sidecar"]
          /\ UNCHANGED coord
       \/ /\ StartFails
          /\ \/ UNCHANGED disk
             \/ ~File.made /\ disk' = [disk EXCEPT ![writer.log].made = TRUE]
    /\ UNCHANGED <<delivery, published, queues, relay, orders, guard, logs, restarts, turns>>

CreateSidecar ==
    /\ writer.at = "sidecar"
    /\ \/ /\ disk' = [disk EXCEPT ![writer.log].sidecar = Sidecar("Running", 0, 0)]
          /\ writer' = [writer EXCEPT !.at = "checkpoint"]
          /\ UNCHANGED coord
       \/ /\ StartFails
          /\ disk' = [disk EXCEPT ![writer.log].made = FALSE]
    /\ UNCHANGED <<delivery, published, queues, relay, orders, guard, logs, restarts, turns>>

\* the reply to Start; the relay and the guard are spawned
CreateCheckpoint ==
    /\ writer.at = "checkpoint"
    /\ \/ /\ disk' = [disk EXCEPT ![writer.log].checkpoint = Checkpoint("Running", 0)]
          /\ writer' = [writer EXCEPT !.at = "ready", !.state = "Running"]
          /\ coord' = [coord EXCEPT !.at = "enable"]
          /\ relay' = [at |-> "run", item |-> NoGap] /\ orders' = <<>>
          /\ guard' = [at |-> "wait", gap |-> NoGap]
       \/ /\ StartFails
          /\ disk' = [disk EXCEPT ![writer.log].made = FALSE, ![writer.log].sidecar = NoSidecar]
          /\ UNCHANGED <<relay, orders, guard>>
    /\ UNCHANGED <<delivery, published, queues, logs, restarts, turns>>

EnableDelivery ==
    /\ coord.at = "enable"
    /\ delivery' = [on |-> TRUE, gap |-> NoGap]
    /\ published' = 0
    /\ coord' = [coord EXCEPT !.at = "check", !.completed = 0]
    /\ UNCHANGED <<queues, relay, orders, writer, guard, disk, logs, restarts, turns>>

\* the writer may have failed since it answered
CheckStart ==
    /\ coord.at = "check"
    /\ IF coord.state = "Failed" \/ writer.state # "Running"
       THEN /\ coord' = [coord EXCEPT !.at = "idle", !.state = "Failed", !.failureGap = delivery.gap]
            /\ StopDelivery
            /\ relay' = [relay EXCEPT !.at = "off"] /\ guard' = AbortedGuard
            /\ writer' = [writer EXCEPT !.at = "off"]
       ELSE /\ coord' = [coord EXCEPT !.at = "idle", !.state = "Running", !.active = TRUE]
            /\ UNCHANGED <<delivery, relay, guard, writer>>
    /\ UNCHANGED <<published, queues, orders, disk, logs, restarts, turns>>

-----------------------------------------------------------------------------
(***************************************************************************)
(* CsvLoggingCoordinator::stop.                                            *)
(***************************************************************************)
Stop ==
    /\ coord.at = "idle" /\ coord.active
    /\ coord' = [coord EXCEPT !.at = "disable", !.active = FALSE,
                              !.wasFailed = (coord.state = "Failed"),
                              !.state = IF @ = "Failed" THEN @ ELSE "Finalizing"]
    /\ UNCHANGED <<delivery, published, queues, relay, orders, writer, guard, disk, logs, restarts, turns>>

\* mutant: the pending gap goes with the delivery
DisableDelivery_ForgetsGap ==
    /\ coord.at = "disable"
    /\ StopDelivery
    /\ coord' = [coord EXCEPT !.at = "finalize"]
    /\ orders' = IF relay.at = "done" THEN orders ELSE Append(orders, "Finalize")
    /\ UNCHANGED <<published, queues, relay, writer, guard, disk, logs, restarts, turns>>

\* the pending gap of the delivery, or the one the guard has put aside
DisableDelivery ==
    /\ coord.at = "disable"
    /\ StopDelivery
    /\ coord' = [coord EXCEPT !.at = "finalize",
                              !.gap = IF delivery.gap # NoGap THEN delivery.gap ELSE coord.failureGap,
                              !.failureGap = IF delivery.gap # NoGap THEN @ ELSE NoGap]
    /\ orders' = IF relay.at = "done" THEN orders ELSE Append(orders, "Finalize")
    /\ UNCHANGED <<published, queues, relay, writer, guard, disk, logs, restarts, turns>>

\* the relay has drained the source, or is gone: the writer is told to stop, which
\* it takes between two flushes
AwaitRelay ==
    /\ coord.at = "finalize" /\ relay.at = "done" /\ writer.flush = "none"
    /\ coord' = [coord EXCEPT !.at = "stopping"]
    /\ writer' = [writer EXCEPT !.at = "stop"]
    /\ UNCHANGED <<delivery, published, queues, relay, orders, guard, disk, logs, restarts, turns>>

StopReturns ==
    /\ coord.at = "stopping" /\ writer.at = "answered"
    /\ LET ok == writer.state = "Completed" /\ ~coord.wasFailed
       IN  coord' = [coord EXCEPT !.at = "idle", !.gap = NoGap,
                                  !.state = IF ok THEN "Idle" ELSE "Failed",
                                  !.completed = IF ok THEN writer.log ELSE 0]
    /\ guard' = AbortedGuard
    /\ relay' = NoRelay /\ orders' = <<>>
    /\ writer' = NoWriter /\ sink' = <<>>
    /\ UNCHANGED <<delivery, published, source, disk, logs, restarts, turns>>

\* Drop: the session ends with the log still active
DropCoordinator ==
    /\ coord.at = "idle"
    /\ StopDelivery
    /\ coord' = [NewCoordinator EXCEPT !.at = "gone"]
    /\ source' = <<>> /\ relay' = NoRelay /\ orders' = <<>> /\ sink' = <<>> /\ guard' = NoGuard
    /\ writer' = IF coord.active THEN [writer EXCEPT !.at = "shutdown"] ELSE NoWriter
    /\ UNCHANGED <<published, disk, logs, restarts, turns>>

-----------------------------------------------------------------------------
(***************************************************************************)
(* Guard and relay.                                                        *)
(***************************************************************************)
\* mutant: the guard notes the failure and leaves the delivery alone
GuardStops_OnlyNotes ==
    /\ guard.at = "wait" /\ writer.state = "Failed"
    /\ guard' = [at |-> "store", gap |-> NoGap]
    /\ UNCHANGED <<delivery, published, queues, relay, orders, writer, coord, disk, logs, restarts, turns>>

GuardStops ==
    /\ guard.at = "wait" /\ writer.state = "Failed"
    /\ StopDelivery
    /\ guard' = [at |-> "store", gap |-> delivery.gap]
    /\ UNCHANGED <<published, queues, relay, orders, writer, coord, disk, logs, restarts, turns>>

GuardStores ==
    /\ guard.at = "store"
    /\ coord' = [coord EXCEPT !.failureGap = guard.gap, !.state = "Failed"]
    /\ orders' = IF relay.at = "done" THEN orders ELSE Append(orders, "Abort")
    /\ guard' = [at |-> "done", gap |-> NoGap]
    /\ UNCHANGED <<delivery, published, queues, relay, writer, disk, logs, restarts, turns>>

\* biased select: a command first, then the source
RelayObeys ==
    /\ relay.at = "run" /\ orders # <<>>
    /\ relay' = [relay EXCEPT !.at = IF Head(orders) = "Finalize" THEN "drain" ELSE "discard"]
    /\ orders' = Tail(orders)
    /\ UNCHANGED <<delivery, published, queues, writer, guard, coord, disk, logs, restarts, turns>>

RelayTakes ==
    /\ source # <<>>
    /\ \/ relay.at = "run" /\ orders = <<>> /\ relay' = [at |-> "send", item |-> Head(source)]
       \/ relay.at = "drain" /\ relay' = [at |-> "drain_send", item |-> Head(source)]
       \/ relay.at = "discard" /\ UNCHANGED relay
    /\ source' = Tail(source)
    /\ UNCHANGED <<delivery, published, orders, sink, writer, guard, coord, disk, logs, restarts, turns>>

\* sink.send(item).await: waits for room
RelaySends ==
    /\ relay.at \in {"send", "drain_send"} /\ Len(sink) < Capacity
    /\ sink' = Append(sink, relay.item)
    /\ relay' = [at |-> IF relay.at = "send" THEN "run" ELSE "drain", item |-> NoGap]
    /\ UNCHANGED <<delivery, published, source, orders, writer, guard, coord, disk, logs, restarts, turns>>

RelayEnds ==
    /\ relay.at \in {"drain", "discard"} /\ source = <<>>
    /\ relay' = [relay EXCEPT !.at = "done"]
    /\ UNCHANGED <<delivery, published, queues, orders, writer, guard, coord, disk, logs, restarts, turns>>

-----------------------------------------------------------------------------
(***************************************************************************)
(* The writer actor.  An operation on a file may fail; what a failure      *)
(* leaves on disk is the best effort of fail_logger.                       *)
(***************************************************************************)
Written(w, r) ==
    [w EXCEPT !.rows = Append(@, r),
              !.samples = @ + IF r.kind = "sample" THEN 1 ELSE 0,
              !.gaps = @ + IF r.kind = "gap" THEN 1 ELSE 0,
              !.dropped = @ + r.count]

\* what is on disk after a flush of w
Flushed(f, w) == [f EXCEPT !.rows = @ \o w.rows]

\* fail_logger, finalize_failed_logger: flush, sidecar and checkpoint may each
\* fail too; pending is the gap the sidecar counts on top
LoggerFails(w, pending) ==
    \E flushed \in BOOLEAN,
       sidecar \in {File.sidecar, Sidecar("Failed", w.samples, w.dropped),
                   Sidecar("Failed", w.samples, w.dropped + pending.count)},
       checkpoint \in {File.checkpoint, Checkpoint("Failed", w.samples + w.gaps)} :
        /\ writer' = [w EXCEPT !.failed = TRUE, !.state = "Failed", !.rows = IF flushed THEN <<>> ELSE @]
        /\ disk' = [disk EXCEPT ![writer.log] = [IF flushed THEN Flushed(@, w) ELSE @
                                                 EXCEPT !.sidecar = sidecar, !.checkpoint = checkpoint]]

\* flush_logger, sync_logger: the rows, before persist_running_artifacts
FlushLogger(w, synced) ==
    LET f == Flushed(File, w)
    IN  /\ writer' = [w EXCEPT !.rows = <<>>, !.flush = "sidecar"]
        /\ disk' = [disk EXCEPT ![writer.log] = [f EXCEPT !.synced = IF synced THEN Len(f.rows) ELSE @]]

\* record_written
Counted(w) ==
    IF Len(w.rows) >= FlushRecords THEN FlushLogger(w, FALSE) ELSE writer' = w /\ UNCHANGED disk

\* data.recv(): a failed logger lets the items go by.  A record may already
\* be counted when the flush it causes fails.
WriteItem ==
    /\ writer.at = "ready" /\ writer.flush = "none" /\ sink # <<>>
    /\ sink' = Tail(sink)
    /\ IF writer.failed THEN UNCHANGED <<writer, disk>>
       ELSE LET w == Written(writer, Head(sink))
            IN  Counted(w) \/ LoggerFails(writer, NoGap) \/ LoggerFails(w, NoGap)
    /\ UNCHANGED <<delivery, published, source, relay, orders, guard, coord, logs, restarts, turns>>

\* maintain_logger: flush, and every ten seconds sync
Maintain ==
    /\ writer.at = "ready" /\ writer.flush = "none" /\ ~writer.failed
    /\ \/ \E synced \in BOOLEAN : FlushLogger(writer, synced)
       \/ LoggerFails(writer, NoGap)
    /\ UNCHANGED <<delivery, published, queues, relay, orders, guard, coord, logs, restarts, turns>>

\* Stop: what is queued is written, then the pending gap.  A failed logger only
\* keeps count of the gap, which is counted twice where the flush that follows
\* its own record fails.
StopWith(w) == \E v \in {writer, w} : LoggerFails([v EXCEPT !.at = "answered"], coord.gap)

StopDrains ==
    /\ writer.at = "stop" /\ writer.flush = "none" /\ ~writer.failed /\ sink # <<>>
    /\ sink' = Tail(sink)
    /\ LET w == Written(writer, Head(sink)) IN Counted(w) \/ StopWith(w)
    /\ UNCHANGED <<delivery, published, source, relay, orders, guard, coord, logs, restarts, turns>>

StopWritesGap ==
    /\ writer.at = "stop" /\ writer.flush = "none" /\ ~writer.failed /\ sink = <<>>
    /\ LET w == IF coord.gap = NoGap THEN writer ELSE Written(writer, coord.gap)
       IN  \/ coord.gap = NoGap /\ writer' = [w EXCEPT !.at = "finalize"] /\ UNCHANGED disk
           \/ coord.gap # NoGap /\ (Counted([w EXCEPT !.at = "finalize"]) \/ StopWith(w))
    /\ UNCHANGED <<delivery, published, queues, relay, orders, guard, coord, logs, restarts, turns>>

\* persist_running_artifacts: the sidecar first, then the checkpoint.  The failure of
\* a flush that Stop has caused is answered.
FlushFails ==
    LET w == [writer EXCEPT !.flush = "none"]
    IN  IF writer.at \in {"stop", "finalize"} THEN LoggerFails([w EXCEPT !.at = "answered"], coord.gap)
        ELSE LoggerFails(w, NoGap)

UpdateSidecar ==
    /\ writer.flush = "sidecar"
    /\ \/ /\ disk' = [disk EXCEPT ![writer.log].sidecar = Sidecar("Running", writer.samples, writer.dropped)]
          /\ writer' = [writer EXCEPT !.flush = "checkpoint"]
       \/ FlushFails
    /\ UNCHANGED <<delivery, published, queues, relay, orders, guard, coord, logs, restarts, turns>>

UpdateCheckpoint ==
    /\ writer.flush = "checkpoint"
    /\ \/ /\ disk' = [disk EXCEPT ![writer.log].checkpoint = Checkpoint("Running", writer.samples + writer.gaps)]
          /\ writer' = [writer EXCEPT !.flush = "none"]
       \/ FlushFails
    /\ UNCHANGED <<delivery, published, queues, relay, orders, guard, coord, logs, restarts, turns>>

StopFailed ==
    /\ writer.at = "stop" /\ writer.failed
    /\ LoggerFails([writer EXCEPT !.at = "answered"], coord.gap)
    /\ UNCHANGED <<delivery, published, queues, relay, orders, guard, coord, logs, restarts, turns>>

\* finalize_logger: flush and sync the rows, then the sidecar, then remove
\* the checkpoint
SyncRows ==
    /\ writer.at = "finalize" /\ writer.flush = "none"
    /\ \/ /\ disk' = [disk EXCEPT ![writer.log] = [Flushed(@, writer) EXCEPT !.synced = Len(File.rows) + Len(writer.rows)]]
          /\ writer' = [writer EXCEPT !.at = "completed", !.rows = <<>>]
       \/ LoggerFails([writer EXCEPT !.at = "answered"], NoGap)
    /\ UNCHANGED <<delivery, published, queues, relay, orders, guard, coord, logs, restarts, turns>>

CompleteSidecar ==
    /\ writer.at = "completed"
    /\ \/ /\ disk' = [disk EXCEPT ![writer.log].sidecar = Sidecar("Completed", writer.samples, writer.dropped)]
          /\ writer' = [writer EXCEPT !.at = "unlink"]
       \/ LoggerFails([writer EXCEPT !.at = "answered"], NoGap)
    /\ UNCHANGED <<delivery, published, queues, relay, orders, guard, coord, logs, restarts, turns>>

RemoveCheckpoint ==
    /\ writer.at = "unlink"
    /\ \/ /\ disk' = [disk EXCEPT ![writer.log].checkpoint = NoCheckpoint]
          /\ writer' = [writer EXCEPT !.at = "answered", !.state = "Completed"]
       \/ LoggerFails([writer EXCEPT !.at = "answered"], NoGap)
    /\ UNCHANGED <<delivery, published, queues, relay, orders, guard, coord, logs, restarts, turns>>

\* Shutdown, unless the task is aborted before it runs
WriterShutsDown ==
    /\ writer.at = "shutdown" /\ writer.flush = "none"
    /\ \/ LoggerFails([writer EXCEPT !.at = "off"], NoGap)
       \/ writer' = NoWriter /\ UNCHANGED disk
    /\ UNCHANGED <<delivery, published, queues, relay, orders, guard, coord, logs, restarts, turns>>

-----------------------------------------------------------------------------
\* the process ends; with the power, rows that were not synced may be lost.
\* A process that started no log leaves nothing behind; the last turn is kept for
\* a start after the end.
Restart ==
    /\ logs > 0 /\ turns + 1 < MaxTurns
    /\ restarts' = restarts + 1 /\ turns' = turns + 1
    /\ \E keep \in [1 .. MaxLogs -> 0 .. MaxSamples] :
          /\ \A l \in 1 .. MaxLogs : keep[l] \in disk[l].synced .. Len(disk[l].rows)
          /\ disk' = [l \in 1 .. MaxLogs |->
                        [disk[l] EXCEPT !.rows = SubSeq(@, 1, keep[l]), !.synced = keep[l]]]
    /\ delivery' = NoDelivery /\ published' = 0
    /\ source' = <<>> /\ relay' = NoRelay /\ orders' = <<>> /\ sink' = <<>>
    /\ writer' = NoWriter /\ guard' = NoGuard /\ coord' = NewCoordinator
    /\ logs' = 0

WriterStep ==
    \/ CreateFile \/ CreateSidecar \/ CreateCheckpoint \/ WriteItem \/ UpdateSidecar \/ UpdateCheckpoint
    \/ StopDrains \/ StopWritesGap \/ StopFailed \/ SyncRows \/ CompleteSidecar \/ RemoveCheckpoint \/ WriterShutsDown

RelayStep == RelayObeys \/ RelayTakes \/ RelaySends \/ RelayEnds

CoordinatorStep == EnableDelivery \/ CheckStart \/ DisableDelivery \/ AwaitRelay \/ StopReturns

Next ==
    \/ Publish \/ Start \/ Stop \/ DropCoordinator \/ Maintain \/ Restart
    \/ CoordinatorStep \/ GuardStops \/ GuardStores \/ RelayStep \/ WriterStep

\* Every task runs until it waits; the operator and the clock owe nothing.  select!
\* takes a ready branch at random, so that the ticks of the clock (Maintain), each with
\* its flush, do not for ever come before an item or the command to stop.
CsvFairness ==
    /\ SF_vars(WriteItem) /\ SF_vars(AwaitRelay)
    /\ WF_vars(WriterStep) /\ WF_vars(RelayStep) /\ WF_vars(CoordinatorStep)
    /\ WF_vars(GuardStops \/ GuardStores)

CsvSpec == Init /\ [][Next]_vars /\ CsvFairness

-----------------------------------------------------------------------------
(***************************************************************************)
(* Properties.                                                             *)
(***************************************************************************)

GapSeq(gap) == IF gap = NoGap THEN <<>> ELSE <<gap>>

\* everything on its way, from the file to the sample published last
Stream ==
    File.rows \o writer.rows \o sink \o GapSeq(relay.item) \o source \o GapSeq(delivery.gap) \o
    (IF writer.at \in {"ready", "stop"} THEN GapSeq(coord.gap) ELSE <<>>)

Delivering == writer.log # 0 /\ coord.at \in {"idle", "check", "disable", "finalize", "stopping"}
                  /\ (coord.active \/ coord.at # "idle") /\ ~writer.failed

\* Between the publication and the file no sample is lost, repeated or out of
\* order: the file, the buffer, both queues, the item in the relay's hands and
\* the pending gap together name every sample since Start exactly once, and a
\* gap's dropped_count is the length of its range - also while the log is
\* being stopped.
NoHoleInStream ==
    /\ CsvTypeOK
    /\ Delivering =>
        /\ \A i \in DOMAIN Stream :
              /\ Stream[i].from = IF i = 1 THEN 1 ELSE Stream[i - 1].to + 1
              /\ Stream[i].kind = "gap" => Stream[i].count = Stream[i].to - Stream[i].from + 1
        /\ published = IF Stream = <<>> THEN 0 ELSE Last(Stream).to

FilesTellTheTruth ==
    \A l \in 1 .. MaxLogs :
        LET f == disk[l]
        IN  /\ f.sidecar.status = "Completed" =>
                  /\ f.sidecar.samples = Samples(f.rows) /\ f.sidecar.dropped = Dropped(f.rows)
                  /\ f.synced = Len(f.rows)
            /\ f.checkpoint.status = "Running" /\ restarts = 0 => f.checkpoint.rows <= Len(f.rows)
            /\ f.sidecar.status = "Running" /\ restarts = 0 =>
                  f.sidecar.samples <= Samples(f.rows) /\ f.sidecar.dropped <= Dropped(f.rows)
            /\ f.sidecar.status = "Running" => f.checkpoint.status # "none" \/ writer.at = "checkpoint" \/ restarts > 0

\* The files of a log are evidence.  What they say is true wherever the process
\* ends: a Completed sidecar counts exactly the rows of its file and they survive
\* a loss of power; a Running checkpoint never claims a row that was not handed to
\* the system.  Apart from what a loss of power takes, a row that was written
\* stays, the sidecar of a log stays, and a log of a later process never opens the
\* file of an earlier one (csv_writer.rs, create_new and finalize).
FilesAreEvidence ==
    /\ []FilesTellTheTruth
    /\ [][\A l \in 1 .. MaxLogs :
             /\ restarts' = restarts => IsPrefix(disk[l].rows, disk'[l].rows)
             /\ disk[l].sidecar.status \in {"Completed", "Failed"} => disk'[l].sidecar.status # "none"
             /\ disk[l].checkpoint.status # "none" => disk'[l].sidecar.status # "none"
             /\ disk[l].rows # <<>> /\ writer.log # l => UNCHANGED disk[l].sidecar]_vars

\* A failed writer always ends delivery, and a stop always returns.
LogSettles ==
    /\ writer.state = "Failed" ~> ~delivery.on
    /\ coord.at = "disable" ~> coord.at \in {"idle", "gone"}

\* The abstract log: open from the moment samples are delivered until the
\* coordinator has reported its end.
LogPhase ==
    IF coord.at = "gone" THEN "failed"
    ELSE IF coord.at # "enable" /\ (delivery.on \/ coord.at = "check" \/ coord.state \in {"Running", "Finalizing"})
    THEN "open"
    ELSE IF coord.at # "enable" /\ coord.state = "Failed" THEN "failed"
    ELSE IF coord.completed # 0 THEN "completed" ELSE "idle"

LogAccount ==
    IF LogPhase # "completed" THEN [samples |-> 0, dropped |-> 0]
    ELSE [samples |-> disk[coord.completed].sidecar.samples,
          dropped |-> disk[coord.completed].sidecar.dropped]

Log == INSTANCE CsvLog WITH phase <- LogPhase, offered <- published, account <- LogAccount

\* The queues, the tasks and the files together implement the promise of
\* CsvLog: a log reported Completed accounts for every sample offered to it.
ImplementsCsvLog == Log!Spec
=============================================================================

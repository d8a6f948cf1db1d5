---------------------------- MODULE RestoreRuntime ----------------------------
(***************************************************************************)
(* The guarded restore: the backup_restore flow of the application, the    *)
(* task that execute_backup_restore spawns, and begin_restore,             *)
(* execute_restore_step, finish_restore and abort_restore_in_place of the  *)
(* WriteCoordinator, over the session, the loop, the fence and the bus of  *)
(* WriteRuntime.  The manual write is left out (Targets is empty), so co   *)
(* is the restore task that holds the coordinator mutex, tasks the restore *)
(* tasks that wait for it, and the histories speak of restore steps.       *)
(*                                                                         *)
(* Every plan has the same number of steps and its hash is the same, the   *)
(* worst case for restore_matches.  Trust, policy, fresh reads and the     *)
(* audit may fail whenever they are used.                                  *)
(***************************************************************************)
EXTENDS WriteRuntime

CONSTANTS
    Steps,          \* steps of an approved restore plan
    MaxRestores     \* bound: preparations in the whole run

ASSUME RestoreAssumption == Steps \in Nat \ {0} /\ MaxRestores \in Nat

VARIABLES
    offered,        \* backup_restore.prepared, the plan shown to the operator
    nextOperation,  \* WriteCoordinator.next_operation_id
    serial,         \* history: preparations so far
    opened,         \* history: plans with a durable operation start
    closed,         \* history: plans with a durable operation finish
    verified        \* history: steps whose read-back was verified and recorded

restoreVars ==
    <<vars, offered, nextOperation, serial, opened, closed, verified>>

restoreHistory == <<serial, opened, closed, verified>>

(***************************************************************************)
(* ApprovedRestorePlan.  serial tells apart plans whose operation ids      *)
(* coincide because a new coordinator counts from 1 again; no guard of the *)
(* code reads it.                                                          *)
(***************************************************************************)
RestorePlans == [serial : Nat, operation : Nat, session : Nat]

NoRestore == [serial |-> 0, operation |-> 0, session |-> 0]

RestoreTasks == [kind : {"PrepareRestore", "ExecuteRestore"}, plan : RestorePlans]

RestoreReplies == [type : {"RestorePrepared", "RestoreFinished"}, plan : RestorePlans]

RestorePcs ==
    {"prepare_before", "prepare_guard", "prepare_read", "prepare_store",
     "begin_before", "begin_guard", "begin_read", "begin_check", "audit_begin", "claim",
     "step_before", "step_match", "step_read", "again_match", "audit_prepare", "send",
     "answer", "finish_before", "finish_match", "finish", "abort", "disarm", "degrade"}

RestoreCoordinators ==
    [pc      : RestorePcs,
     plan    : RestorePlans,
     next    : 0 .. Steps,      \* permit.next_index
     seen    : Snapshots,
     before  : Snapshots,
     degrade : BOOLEAN]         \* the abort is followed by a degraded audit

Holding(pc, plan) ==
    [pc |-> pc, plan |-> plan, next |-> 0, seen |-> UnavailableSnapshot,
     before |-> UnavailableSnapshot, degrade |-> FALSE]

RestoreTypeOK ==
    /\ session \in Sessions
    /\ fence \in Fences
    /\ projection \in Snapshots
    /\ offered \in RestorePlans
    /\ nextOperation \in Nat
    /\ tasks \subseteq RestoreTasks
    /\ replies \subseteq RestoreReplies
    /\ inbox \in Seq(Inputs \cup RestoreReplies)
    /\ co \in RestoreCoordinators \cup {FreeCoordinator}
    /\ opened \subseteq RestorePlans
    /\ closed \subseteq opened
    /\ verified \subseteq wire
    /\ wire \subseteq RestorePlans \X (0 .. Steps - 1)

RestoreInit ==
    /\ Init
    /\ offered = NoRestore
    /\ nextOperation = 1
    /\ serial = 0
    /\ opened = {}
    /\ closed = {}
    /\ verified = {}

-----------------------------------------------------------------------------
(***************************************************************************)
(* The application.  clear_session drops the plan on offer when a session  *)
(* starts or ends, when the port is removed and when a reconnect finds     *)
(* another device; a transport loss or a failed reconnect keeps it.        *)
(* Connection actions that leave the session alone and the watch on a path *)
(* are left out.                                                           *)
(***************************************************************************)
ClearsRestore(in) ==
    \/ in.type = "IdentificationFinished"
    \/ in.type = "ReconnectIdentificationFinished"
          /\ Reduce(session, in).connectivity # "Connected"
    \/ in.type \notin ConnectionInputs
          /\ Reduce(session, in).phase \in {"Disconnected", "ShuttingDown"}

SessionStep ==
    /\ \/ /\ \/ UserArms \/ UserDisarms \/ SafetyTick \/ ReconnectTimer
             \/ SyncReconcile \/ SyncPublish
             \/ OpenFails \/ Identified
          /\ UNCHANGED <<offered, nextOperation>>
       \/ /\ \/ UserConnects \/ UserDisconnects \/ UserShutsDown \/ PortRemoved
          /\ offered' = NoRestore
          /\ UNCHANGED nextOperation
       \/ /\ ReceiveInput
          /\ offered' = IF ClearsRestore(Received(Head(inbox))) THEN NoRestore ELSE offered
          /\ UNCHANGED nextOperation
       \/ /\ AttachBus
          /\ nextOperation' = 1
          /\ UNCHANGED offered
    /\ UNCHANGED restoreHistory

AppFrame ==
    UNCHANGED <<session, revision, lastSession, staged, prepared, fenceVars, busVars,
                plans, nextPlan, tasks, co, replies, nextOperation, restoreHistory>>

(***************************************************************************)
(* The preparation captures a backup, under the mutex of the backup        *)
(* coordinator, before it asks for this one: the capture is part of the    *)
(* wait.                                                                   *)
(***************************************************************************)
PrepareRestore ==
    LET task == [kind |-> "PrepareRestore", plan |-> NoRestore]
    IN  /\ CanDispatch /\ IsActive(session)
        /\ task \notin tasks /\ CanSpawn
        /\ loop' = SyncThen(session, revision, task)
        /\ offered' = NoRestore
        /\ AppFrame
        /\ UNCHANGED <<inbox, history>>

ConfirmRestore ==
    /\ CanDispatch /\ IsActive(session) /\ offered # NoRestore /\ CanSpawn
    /\ loop' = SyncThen(session, revision, [kind |-> "ExecuteRestore", plan |-> offered])
    /\ offered' = NoRestore
    /\ confirmed' = confirmed \cup {offered}
    /\ AppFrame
    /\ UNCHANGED <<inbox, journal, wire, ambiguous, failedIn, strayed>>

(***************************************************************************)
(* ClearPrepared, LoadSource and a finished capture.                       *)
(***************************************************************************)
ClearPrepared ==
    /\ CanDispatch /\ offered # NoRestore
    /\ offered' = NoRestore
    /\ AppFrame
    /\ UNCHANGED <<loop, inbox, history>>

ReceiveRestoreReply ==
    /\ CanDispatch /\ inbox # <<>> /\ Head(inbox) \in RestoreReplies
    /\ inbox' = Tail(inbox)
    /\ offered' = IF Head(inbox).type = "RestoreFinished" THEN NoRestore
                  ELSE IF Head(inbox).plan # NoRestore THEN Head(inbox).plan ELSE offered
    /\ AppFrame
    /\ UNCHANGED <<loop, history>>

-----------------------------------------------------------------------------
(***************************************************************************)
(* The coordinator task.  Task keeps what no step of it touches.           *)
(***************************************************************************)
Task ==
    UNCHANGED <<session, revision, lastSession, staged, prepared, loop, projection,
                busVars, plans, nextPlan, confirmed, strayed, offered>>

Local ==
    Task /\ UNCHANGED <<inbox, fence, tasks, replies, nextOperation, restoreHistory,
                        journal, wire, ambiguous, failedIn>>

Goto(pc) == co' = [co EXCEPT !.pc = pc]

(***************************************************************************)
(* The task returns.  A result equal to one still unsent waits for it.     *)
(* ambiguous stands for any restore that ended after its operation start.  *)
(***************************************************************************)
Return(reply) ==
    /\ reply \notin replies
    /\ replies' = replies \cup {reply}
    /\ co' = FreeCoordinator
    /\ ambiguous' = (ambiguous \/ co.plan \in opened)

Finished == [type |-> "RestoreFinished", plan |-> NoRestore]

AcquireRestore ==
    /\ co.pc = "free"
    /\ \E task \in tasks :
          /\ tasks' = tasks \ {task}
          /\ \/ /\ task.kind = "PrepareRestore" /\ serial < MaxRestores
                /\ serial' = serial + 1
                /\ co' = Holding("prepare_before", [NoRestore EXCEPT !.serial = serial'])
             \/ /\ task.kind = "ExecuteRestore"
                /\ co' = Holding("begin_before", task.plan)
                /\ UNCHANGED serial
    /\ Task
    /\ UNCHANGED <<inbox, fence, replies, nextOperation, opened, closed, verified, journal,
                   wire, ambiguous, failedIn>>

(***************************************************************************)
(* The first lock of snapshot(), alone or at the end of an await that only *)
(* the task itself sees: reads over the open bus, a durable append.        *)
(***************************************************************************)
SeeAndGoto(pc) == co' = [co EXCEPT !.seen = projection, !.pc = pc]

ReadRestoreProjection ==
    /\ \/ co.pc = "prepare_before" /\ SeeAndGoto("prepare_guard")
       \/ co.pc = "begin_before" /\ SeeAndGoto("begin_guard")
       \/ co.pc = "step_before" /\ SeeAndGoto("step_match")
       \/ co.pc = "finish_before" /\ SeeAndGoto("finish_match")
    /\ Local

RestoreReads ==
    /\ bus = "open"
    /\ \/ co.pc = "prepare_read" /\ SeeAndGoto("prepare_store")
       \/ co.pc = "begin_read" /\ SeeAndGoto("begin_check")
       \/ co.pc = "step_read" /\ SeeAndGoto("again_match")
    /\ Local

(***************************************************************************)
(* prepare_restore_plan: every failure only returns an error.              *)
(***************************************************************************)
PrepareRestoreGuard ==
    /\ co.pc = "prepare_guard"
    /\ ProcessWritesEnabled /\ Writable(TakenSnapshot)
    /\ co' = [co EXCEPT !.pc = "prepare_read", !.before = TakenSnapshot,
                        !.plan.operation = nextOperation,
                        !.plan.session = TakenSnapshot.session]
    /\ nextOperation' = nextOperation + 1
    /\ Task
    /\ UNCHANGED <<inbox, fence, tasks, replies, restoreHistory, journal, wire, ambiguous,
                   failedIn>>

PrepareRestoreFails ==
    /\ co.pc \in {"prepare_guard", "prepare_read", "prepare_store"}
    /\ Return([type |-> "RestorePrepared", plan |-> NoRestore])
    /\ Task
    /\ UNCHANGED <<inbox, fence, tasks, nextOperation, restoreHistory, journal, wire,
                   failedIn>>

PrepareRestoreStore ==
    /\ co.pc = "prepare_store"
    /\ TakenSnapshot = co.before
    /\ Return([type |-> "RestorePrepared", plan |-> co.plan])
    /\ Task
    /\ UNCHANGED <<inbox, fence, tasks, nextOperation, restoreHistory, journal, wire,
                   failedIn>>

(***************************************************************************)
(* begin_restore before the operation start.  The plan may have expired, a *)
(* guard, the trust, the policy or a read may fail: all disarm, except a   *)
(* profile that is gone and an old value that cannot be read.              *)
(***************************************************************************)
MatchesSession(snap, plan) ==
    snap.connected /\ snap.armed /\ snap.healthy /\ snap.session = plan.session

BeginGuard ==
    /\ co.pc = "begin_guard"
    /\ MatchesSession(TakenSnapshot, co.plan) /\ TakenSnapshot.idle
    /\ co' = [co EXCEPT !.pc = "begin_read", !.before = TakenSnapshot]
    /\ Local

BeginCheck ==
    /\ co.pc = "begin_check"
    /\ TakenSnapshot = co.before
    /\ Goto("audit_begin")
    /\ Local

BeginRejected ==
    /\ co.pc \in {"begin_before", "begin_guard", "begin_read", "begin_check"}
    /\ \/ co.pc = "begin_read" /\ UNCHANGED <<fence, inbox>>
       \/ fence' = Disarm(fence) /\ inbox' = Append(inbox, Input("DisarmWrites"))
    /\ Return(Finished)
    /\ Task
    /\ UNCHANGED <<tasks, nextOperation, restoreHistory, journal, wire, failedIn>>

AuditBegin ==
    /\ co.pc = "audit_begin"
    /\ opened' = opened \cup {co.plan}
    /\ SeeAndGoto("claim")
    /\ Task
    /\ UNCHANGED <<inbox, fence, tasks, replies, nextOperation, serial, closed, verified,
                   journal, wire, ambiguous, failedIn>>

AuditBeginFails ==
    /\ co.pc = "audit_begin"
    /\ Goto("degrade")
    /\ Local

(***************************************************************************)
(* begin_restore of the session control: claim the fence.  If it is taken  *)
(* the operation is finished as aborted, whether or not that is recorded,  *)
(* and the audit is degraded.                                              *)
(***************************************************************************)
Claim ==
    /\ co.pc = "claim"
    /\ \/ /\ CanBegin(co.seen, fence)
          /\ fence' = BeginRestore(fence, co.plan.operation, co.seen.revision)
          /\ inbox' = Append(inbox, [type |-> "RestoreStarted", id |-> co.plan.operation])
          /\ Goto("step_before")
          /\ UNCHANGED closed
       \/ /\ ~CanBegin(co.seen, fence)
          /\ closed' \in {closed, closed \cup {co.plan}}
          /\ Goto("degrade")
          /\ UNCHANGED <<fence, inbox>>
    /\ Task
    /\ UNCHANGED <<tasks, replies, nextOperation, serial, opened, verified, journal, wire,
                   ambiguous, failedIn>>

(***************************************************************************)
(* execute_restore_step.  Twice, before and after the reads, the session   *)
(* and the fence must still show this restore at this index.  The snapshot *)
(* for restore_plan_matches_active_session and the one restore_matches     *)
(* takes right after it are one: the second repeats the conditions of the  *)
(* first, and no next session can begin while the task holds the mutex.    *)
(***************************************************************************)
StepMatch ==
    /\ co.pc \in {"step_match", "again_match"}
    /\ MatchesSession(TakenSnapshot, co.plan)
    /\ RestoreMatches(co.seen, fence, co.plan.operation, co.next)
    /\ Goto(IF co.pc = "step_match" THEN "step_read" ELSE "audit_prepare")
    /\ Local

StepFails ==
    /\ co.pc \in {"step_match", "step_read", "again_match"}
    /\ Goto("abort")
    /\ Local

StepPrepare ==
    /\ co.pc = "audit_prepare"
    /\ journal' = journal \cup {<<co.plan, co.next>>}
    /\ Goto("send")
    /\ Task
    /\ UNCHANGED <<inbox, fence, tasks, replies, nextOperation, restoreHistory, wire,
                   ambiguous, failedIn>>

StepPrepareFails ==
    /\ co.pc = "audit_prepare"
    /\ co' = [co EXCEPT !.pc = "abort", !.degrade = TRUE]
    /\ Local

SendStep ==
    /\ co.pc = "send" /\ bus = "open"
    /\ wire' = wire \cup {<<co.plan, co.next>>}
    /\ Goto("answer")
    /\ Task
    /\ UNCHANGED <<inbox, fence, tasks, replies, nextOperation, restoreHistory, journal,
                   ambiguous, failedIn>>

StepRefused ==
    /\ co.pc = "send"
    /\ \E unrecorded \in BOOLEAN :
          co' = [co EXCEPT !.pc = "abort", !.degrade = unrecorded]
    /\ Local

(***************************************************************************)
(* execute_once, finalize_device_write and advance_restore.  Only a        *)
(* verified read-back that was recorded advances the permit and the fence; *)
(* any other outcome, lost by a closed bus or not, aborts, and an outcome  *)
(* that could not be recorded degrades the audit besides.                  *)
(***************************************************************************)
StepVerified ==
    /\ co.pc = "answer" /\ bus = "open"
    /\ verified' = verified \cup {<<co.plan, co.next>>}
    /\ IF CanAdvanceRestore(fence, co.plan.operation, co.next + 1)
       THEN /\ fence' = AdvanceRestore(fence, co.next + 1)
            /\ inbox' = Append(inbox, [type |-> "RestoreAdvanced", next |-> co.next + 1])
            /\ co' = [co EXCEPT !.next = @ + 1,
                                !.pc = IF co.next + 1 < Steps THEN "step_before"
                                       ELSE "finish_before"]
       ELSE /\ co' = [co EXCEPT !.next = @ + 1, !.pc = "abort"]
            /\ UNCHANGED <<fence, inbox>>
    /\ Task
    /\ UNCHANGED <<tasks, replies, nextOperation, serial, opened, closed, journal, wire,
                   ambiguous, failedIn>>

\* Mutant: a step the device rejected changed nothing, so the restore goes on.
StepNotVerified_GoesOn ==
    /\ co.pc = "answer"
    /\ co' = [co EXCEPT !.pc = "send", !.degrade = FALSE]
    /\ Local

StepNotVerified ==
    /\ co.pc = "answer"
    /\ \E unrecorded \in BOOLEAN :
          co' = [co EXCEPT !.pc = "abort", !.degrade = unrecorded]
    /\ Local

(***************************************************************************)
(* abort_restore_in_place: finish the operation in the audit, finish it in *)
(* the fence, disarm; a failed append, or the caller, also degrades.       *)
(***************************************************************************)
Abort ==
    /\ co.pc = "abort"
    /\ \/ /\ closed' = closed \cup {co.plan}
          /\ Goto("disarm")
       \/ /\ co' = [co EXCEPT !.pc = "disarm", !.degrade = TRUE]
          /\ UNCHANGED closed
    /\ IF CanAbortRestore(fence, co.plan.operation)
       THEN /\ fence' = AbortRestore(fence)
            /\ inbox' = Append(inbox, Input("RestoreAborted"))
       ELSE UNCHANGED <<fence, inbox>>
    /\ Task
    /\ UNCHANGED <<tasks, replies, nextOperation, serial, opened, verified, journal, wire,
                   ambiguous, failedIn>>

(***************************************************************************)
(* session.disarm, the last step of a completed restore or of an aborted   *)
(* one whose audit is healthy.                                             *)
(***************************************************************************)
\* Mutant: the restore ends with writes still armed.
DisarmAfter_KeepsArmed ==
    /\ co.pc = "disarm"
    /\ UNCHANGED <<fence, inbox>>
    /\ \/ co.degrade /\ Goto("degrade") /\ UNCHANGED <<replies, ambiguous>>
       \/ ~co.degrade /\ Return(Finished)
    /\ Task
    /\ UNCHANGED <<tasks, nextOperation, restoreHistory, journal, wire, failedIn>>

DisarmAfter ==
    /\ co.pc = "disarm"
    /\ fence' = Disarm(fence)
    /\ inbox' = Append(inbox, Input("DisarmWrites"))
    /\ \/ co.degrade /\ Goto("degrade") /\ UNCHANGED <<replies, ambiguous>>
       \/ ~co.degrade /\ Return(Finished)
    /\ Task
    /\ UNCHANGED <<tasks, nextOperation, restoreHistory, journal, wire, failedIn>>

Degrade ==
    /\ co.pc = "degrade"
    /\ fence' = DegradeAuditAndDisarm(fence)
    /\ inbox' = Append(inbox, Input("AuditPersistenceFailed"))
    /\ failedIn' = failedIn \cup {co.plan.session}
    /\ Return(Finished)
    /\ Task
    /\ UNCHANGED <<tasks, nextOperation, restoreHistory, journal, wire>>

(***************************************************************************)
(* finish_restore: the permit must match the fence once more, the finish   *)
(* must be durable, and the fence must still hold the operation.           *)
(***************************************************************************)
\* Mutant: a permit that no longer matches is dropped without a trace.
FinishMatch_Drops ==
    /\ co.pc = "finish_match"
    /\ \/ /\ RestoreMatches(co.seen, fence, co.plan.operation, co.next)
          /\ Goto("finish")
       \/ /\ ~RestoreMatches(co.seen, fence, co.plan.operation, co.next)
          /\ Goto("disarm")
    /\ Local

FinishMatch ==
    /\ co.pc = "finish_match"
    /\ Goto(IF RestoreMatches(co.seen, fence, co.plan.operation, co.next)
            THEN "finish" ELSE "degrade")
    /\ Local

FinishRestoring ==
    /\ co.pc = "finish"
    /\ \/ UNCHANGED <<closed, fence, inbox>> /\ Goto("degrade")
       \/ /\ closed' = closed \cup {co.plan}
          /\ IF CanFinishRestore(fence, co.plan.operation)
             THEN /\ fence' = FinishRestore(fence)
                  /\ inbox' = Append(inbox, Input("RestoreFinished"))
                  /\ Goto("disarm")
             ELSE Goto("degrade") /\ UNCHANGED <<fence, inbox>>
    /\ Task
    /\ UNCHANGED <<tasks, replies, nextOperation, serial, opened, verified, journal, wire,
                   ambiguous, failedIn>>

SendRestoreReply ==
    /\ SendReply
    /\ UNCHANGED <<offered, nextOperation, restoreHistory>>

RestoreNext ==
    \/ SessionStep
    \/ PrepareRestore \/ ConfirmRestore \/ ClearPrepared
    \/ ReceiveRestoreReply
    \/ AcquireRestore \/ ReadRestoreProjection \/ RestoreReads
    \/ PrepareRestoreGuard \/ PrepareRestoreFails \/ PrepareRestoreStore
    \/ BeginGuard \/ BeginCheck \/ BeginRejected \/ AuditBegin \/ AuditBeginFails \/ Claim
    \/ StepMatch \/ StepFails \/ StepPrepare \/ StepPrepareFails \/ SendStep
    \/ StepRefused \/ StepVerified \/ StepNotVerified
    \/ Abort \/ DisarmAfter \/ Degrade
    \/ FinishMatch \/ FinishRestoring
    \/ SendRestoreReply

RestoreSpec == RestoreInit /\ [][RestoreNext]_restoreVars

-----------------------------------------------------------------------------
(***************************************************************************)
(* Properties.                                                             *)
(***************************************************************************)

\* A step reaches the bus only for a plan the operator confirmed, whose operation
\* start is durable and not yet finished, whose earlier steps have all been verified
\* and recorded, and only once: the first outcome that is not Verified ends the plan
\* for good, even if a new coordinator gives its operation id to another plan.
StepsInOrder ==
    [][wire' # wire \/ SendStep =>
          /\ co.plan \in (confirmed \cap opened) \ closed
          /\ <<co.plan, co.next>> \in journal \ wire
          /\ {w \in wire : w[1] = co.plan} = {co.plan} \X (0 .. co.next - 1)
          /\ {w \in verified : w[1] = co.plan} = {co.plan} \X (0 .. co.next - 1)]_restoreVars

OpenOperationDegrades ==
    Quiet /\ IsActive(session) =>
        \A plan \in opened \ closed : plan.session = session.id => session.audit = "Degraded"

\* Once every task has returned and every message is handled, the fence of an
\* Active session runs no operation, and a restore whose start is in the journal
\* of that session without a finish has left its mark: the session's audit is
\* degraded.  No branch forgets an open operation silently.
RestoreSettles == RestoreTypeOK /\ FenceDrains /\ OpenOperationDegrades

\* From a restore's operation start, completed or not, until the operator has armed
\* again, the session is not writable to any task: neither the application, which may
\* never have seen the restore start, nor the fence, whose operation is removed on the
\* way, lets one through.  The one exception is the window of sync(): the barrier is
\* lifted under the first lock, and the disarmed snapshot that lifted it is published
\* under the second.
RearmAfterRestore ==
    ambiguous => \/ ~Writable(Overlay(projection, fence))
                 \/ loop.stage = "publish" /\ ~loop.snap.armed
=============================================================================

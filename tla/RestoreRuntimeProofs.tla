-------------------------- MODULE RestoreRuntimeProofs --------------------------
(***************************************************************************)
(* Proofs about RestoreRuntime, for every number of steps, restores and    *)
(* sessions: steps go out in order and once, no session is writable after  *)
(* a restore until it is armed again, and a restore that ends leaves the   *)
(* fence drained and an unfinished operation visible.                      *)
(***************************************************************************)
EXTENDS RestoreRuntime, WriteRuntimeProofs

-----------------------------------------------------------------------------
(***************************************************************************)
(* The steps of a restore, as those of the manual write: what the loop     *)
(* dispatches, what it does besides, and what the task does.               *)
(***************************************************************************)
PreparePcs == {"prepare_before", "prepare_guard", "prepare_read", "prepare_store"}

BeginPcs == {"begin_before", "begin_guard", "begin_read", "begin_check", "audit_begin"}

StepPcs ==
    {"claim", "step_before", "step_match", "step_read", "again_match", "audit_prepare",
     "send", "answer"}

OpenPcs == StepPcs \cup {"finish_before", "finish_match", "finish", "abort"}

Restoring ==
    PrepareRestore \/ ConfirmRestore \/ ClearPrepared \/ ReceiveRestoreReply

Preparing ==
    PrepareRestoreGuard \/ PrepareRestoreFails \/ PrepareRestoreStore

Beginning ==
    BeginGuard \/ BeginCheck \/ BeginRejected \/ AuditBegin \/ AuditBeginFails \/ Claim

Stepping ==
    \/ StepMatch \/ StepFails \/ StepPrepare \/ StepPrepareFails \/ SendStep
    \/ StepRefused \/ StepVerified \/ StepNotVerified

Ending == Abort \/ DisarmAfter \/ Degrade \/ FinishMatch \/ FinishRestoring

TaskNext ==
    \/ AcquireRestore \/ ReadRestoreProjection \/ RestoreReads
    \/ Preparing \/ Beginning \/ Stepping \/ Ending

(***************************************************************************)
(* A dispatched input, with what the restore flow does for it.             *)
(***************************************************************************)
RestoreDispatched(in) ==
    /\ Dispatched(in)
    /\ offered' \in {offered, NoRestore}
    /\ UNCHANGED <<nextOperation, restoreHistory>>

Syncing ==
    /\ SyncReconcile \/ SyncPublish
    /\ UNCHANGED <<offered, nextOperation, restoreHistory>>

Connecting ==
    /\ AttachBus \/ OpenFails \/ Identified
    /\ nextOperation' \in {nextOperation, 1}
    /\ UNCHANGED <<offered, restoreHistory>>

\* Every step dispatches an input, syncs it, opens or identifies the port, moves the
\* restore on in the application or in its task, or sends a result.
LEMMA RestoreParts ==
    ASSUME lastSession \in Nat, [RestoreNext]_restoreVars
    PROVE  \/ \E in \in Inputs \cup {NoInput} : RestoreDispatched(in)
           \/ Syncing \/ Connecting \/ Restoring \/ TaskNext \/ SendRestoreReply
           \/ UNCHANGED restoreVars
<1>1. CASE SessionStep
  <2>1. UNCHANGED restoreHistory
    BY <1>1 DEF SessionStep
  <2>2. CASE /\ SyncReconcile \/ SyncPublish \/ OpenFails \/ Identified
             /\ UNCHANGED <<offered, nextOperation>>
    BY <2>1, <2>2 DEF Syncing, Connecting
  <2>3. CASE AttachBus /\ nextOperation' = 1 /\ UNCHANGED offered
    BY <2>1, <2>3 DEF Connecting
  <2>4. CASE Dispatching /\ offered' \in {offered, NoRestore} /\ UNCHANGED nextOperation
    <3>1. PICK in \in Inputs \cup {NoInput} : Dispatched(in)
      BY <2>4, AppInputs
    <3> QED BY <2>1, <2>4, <3>1 DEF RestoreDispatched
  <2> QED BY <1>1, <2>2, <2>3, <2>4 DEF SessionStep, Dispatching
<1>2. CASE RestoreNext /\ ~SessionStep
  BY <1>2 DEF RestoreNext, Restoring, TaskNext, Preparing, Beginning, Stepping, Ending
<1> QED BY <1>1, <1>2

\* The task leaves the session, the loop and the projection alone.
LEMMA TaskLeavesLoop ==
    ASSUME TaskNext \/ SendRestoreReply
    PROVE  UNCHANGED <<session, revision, lastSession, loop, projection, confirmed, offered>>
<1> USE DEF Task, Local
<1>1. CASE AcquireRestore \/ ReadRestoreProjection \/ RestoreReads \/ Preparing
  BY <1>1 DEF AcquireRestore, ReadRestoreProjection, RestoreReads, Preparing,
     PrepareRestoreGuard, PrepareRestoreFails, PrepareRestoreStore
<1>2. CASE Beginning
  BY <1>2 DEF Beginning, BeginGuard, BeginCheck, BeginRejected, AuditBegin,
     AuditBeginFails, Claim
<1>3. CASE Stepping
  BY <1>3 DEF Stepping, StepMatch, StepFails, StepPrepare, StepPrepareFails, SendStep,
     StepRefused, StepVerified, StepNotVerified
<1>4. CASE Ending
  BY <1>4 DEF Ending, Abort, DisarmAfter, Degrade, FinishMatch, FinishRestoring
<1>5. CASE SendRestoreReply
  BY <1>5 DEF SendRestoreReply, SendReply, CoFrame, fenceVars, history
<1> QED BY <1>1, <1>2, <1>3, <1>4, <1>5 DEF TaskNext

\* What the application does with a restore, it does without the task and the fence.
LEMMA RestoringLeaves ==
    ASSUME Restoring
    PROVE  /\ UNCHANGED <<session, revision, lastSession, projection, fence, tasks, co,
                          replies, nextOperation, serial, opened, closed, verified,
                          journal, wire, ambiguous, failedIn>>
           /\ loop.stage = "ready"
BY DEF Restoring, PrepareRestore, ConfirmRestore, ClearPrepared, ReceiveRestoreReply,
       AppFrame, fenceVars, restoreHistory, history, CanDispatch

-----------------------------------------------------------------------------
(***************************************************************************)
(* Types.                                                                  *)
(***************************************************************************)
RestoreLoops ==
    [stage : {"ready", "reconcile", "publish"},
     snap  : Snapshots,
     task  : RestoreTasks \cup {NoTask}]

RestoreTypes ==
    /\ session \in Sessions /\ revision \in Nat /\ lastSession \in Nat
    /\ fence \in Fences /\ projection \in Snapshots
    /\ loop \in RestoreLoops
    /\ offered \in RestorePlans
    /\ nextOperation \in Nat /\ serial \in Nat
    /\ tasks \subseteq RestoreTasks
    /\ replies \subseteq RestoreReplies
    /\ inbox \in Seq(Inputs \cup RestoreReplies)
    /\ co \in RestoreCoordinators \cup {FreeCoordinator}
    /\ opened \subseteq RestorePlans
    /\ co.pc \in BeginPcs => co.next = 0
    /\ co.pc \in StepPcs => co.next < Steps

LEMMA RestoreFenceTypes ==
    ASSUME NEW f \in Fences, NEW id \in Nat, NEW r \in Nat, NEW n \in Nat
    PROVE  /\ BeginRestore(f, id, r) \in Fences
           /\ AdvanceRestore(f, n) \in Fences
           /\ FinishRestore(f) \in Fences
           /\ AbortRestore(f) \in Fences
           /\ Disarm(f) \in Fences
<1>a. f.operation \in FenceOperations
  BY DEF Fences
<1>b. ASSUME NEW o \in FenceOperations
      PROVE  [f EXCEPT !.operation = o] \in Fences
  BY DEF Fences
<1>1. BeginRestore(f, id, r) \in Fences
  BY DEF BeginRestore, Fences, FenceOperations
<1>2. AdvanceRestore(f, n) \in Fences
  BY <1>a DEF AdvanceRestore, Fences, FenceOperations
<1>3. FinishRestore(f) \in Fences /\ AbortRestore(f) \in Fences
  BY <1>a DEF FinishRestore, AbortRestore, Fences, FenceOperations
<1>4. Disarm(f) \in Fences
  BY DEF Disarm, Fences
<1> QED BY <1>1, <1>2, <1>3, <1>4

\* A snapshot taken over the fence, the messages of a task and its results are typed.
LEMMA TaskMessages ==
    ASSUME RestoreTypes
    PROVE  /\ TakenSnapshot \in Snapshots \/ co = FreeCoordinator
           /\ \A t \in {"DisarmWrites", "RestoreAborted", "RestoreFinished",
                        "AuditPersistenceFailed"} : Input(t) \in Inputs
           /\ co.plan.operation \in Nat \/ co = FreeCoordinator
           /\ \A n \in Nat : [type |-> "RestoreStarted", id |-> n] \in Inputs
           /\ \A n \in Nat : [type |-> "RestoreAdvanced", next |-> n] \in Inputs
           /\ Finished \in RestoreReplies /\ NoRestore \in RestorePlans
           /\ \A p \in RestorePlans : [type |-> "RestorePrepared", plan |-> p] \in RestoreReplies
<1>1. TakenSnapshot \in Snapshots \/ co = FreeCoordinator
  <2>1. co.seen \in Snapshots \/ co = FreeCoordinator
    BY DEF RestoreTypes, RestoreCoordinators
  <2>2. \A p \in Snapshots : Overlay(p, fence) \in Snapshots
    BY FenceTypes DEF RestoreTypes
  <2> QED BY <2>1, <2>2 DEF TakenSnapshot
<1>2. \A t \in {"DisarmWrites", "RestoreAborted", "RestoreFinished",
                "AuditPersistenceFailed"} : Input(t) \in Inputs
  BY DEF Input, Inputs, PlainInputs
<1>3. co.plan.operation \in Nat \/ co = FreeCoordinator
  BY DEF RestoreTypes, RestoreCoordinators, RestorePlans
<1>4. NoRestore \in RestorePlans
  BY DEF NoRestore, RestorePlans
<1> QED BY <1>1, <1>2, <1>3, <1>4 DEF Inputs, OperationInputs, Finished, RestoreReplies

\* The task: its own state, and what it moves besides.
LEMMA TaskTyped ==
    ASSUME RestoreTypes, TaskNext
    PROVE  RestoreTypes'
<1> USE TaskMessages
<1> DEFINE Same == UNCHANGED <<nextOperation, serial, tasks, replies, opened>>
<1>a. /\ fence \in Fences /\ projection \in Snapshots /\ nextOperation \in Nat
      /\ serial \in Nat /\ tasks \subseteq RestoreTasks /\ replies \subseteq RestoreReplies
      /\ inbox \in Seq(Inputs \cup RestoreReplies) /\ opened \subseteq RestorePlans
      /\ co \in RestoreCoordinators \cup {FreeCoordinator}
      /\ co.pc \in BeginPcs => co.next = 0
      /\ co.pc \in StepPcs => co.next < Steps
  BY DEF RestoreTypes
<1>b. FreeCoordinator.pc = "free" /\ Steps \in Nat \ {0}
  BY RestoreAssumption DEF FreeCoordinator
<1>c. UNCHANGED <<session, revision, lastSession, loop, projection, offered>>
  BY TaskLeavesLoop
<1>d. SUFFICES /\ fence' \in Fences /\ nextOperation' \in Nat /\ serial' \in Nat
               /\ tasks' \subseteq RestoreTasks /\ replies' \subseteq RestoreReplies
               /\ inbox' \in Seq(Inputs \cup RestoreReplies) /\ opened' \subseteq RestorePlans
               /\ co' \in RestoreCoordinators \cup {FreeCoordinator}
               /\ co'.pc \in BeginPcs => co'.next = 0
               /\ co'.pc \in StepPcs => co'.next < Steps
  BY <1>c DEF RestoreTypes
<1>e. \A m \in Inputs : Append(inbox, m) \in Seq(Inputs \cup RestoreReplies)
  BY <1>a
<1>g. co.pc # "free" => co \in RestoreCoordinators
  BY <1>a, <1>b
<1>h. ASSUME NEW reply \in RestoreReplies, Return(reply)
      PROVE  /\ replies' \subseteq RestoreReplies /\ co' = FreeCoordinator
             /\ co'.pc \notin BeginPcs \cup StepPcs
  BY <1>h, <1>a, <1>b DEF Return, BeginPcs, StepPcs
<1>1. CASE AcquireRestore
  <2>1. PICK task \in tasks :
           /\ tasks' = tasks \ {task}
           /\ \/ /\ serial' = serial + 1
                 /\ co' = Holding("prepare_before", [NoRestore EXCEPT !.serial = serial'])
              \/ /\ co' = Holding("begin_before", task.plan)
                 /\ UNCHANGED serial
    BY <1>1 DEF AcquireRestore
  <2>2. [NoRestore EXCEPT !.serial = serial + 1] \in RestorePlans
    BY <1>a DEF NoRestore, RestorePlans
  <2>3. task.plan \in RestorePlans
    BY <1>a DEF RestoreTasks
  <2>4. {"prepare_before", "begin_before"} \subseteq RestorePcs
    BY DEF RestorePcs
  <2>5. \A pc \in RestorePcs : \A p \in RestorePlans : Holding(pc, p) \in RestoreCoordinators
    <3>1. UnavailableSnapshot \in Snapshots /\ 0 \in 0 .. Steps
      BY <1>b DEF UnavailableSnapshot, Snapshots
    <3> QED BY <3>1 DEF RestoreCoordinators, Holding
  <2>6. co' \in RestoreCoordinators /\ serial' \in Nat
    BY <1>a, <2>1, <2>2, <2>3, <2>4, <2>5
  <2>7. co'.next = 0 /\ co'.pc \notin StepPcs
    BY <2>1 DEF Holding, StepPcs
  <2> QED BY <1>1, <1>a, <2>1, <2>6, <2>7 DEF AcquireRestore
<1>2. CASE ReadRestoreProjection \/ RestoreReads
  <2>1. PICK pc \in {"prepare_guard", "begin_guard", "step_match", "finish_match",
                     "prepare_store", "begin_check", "again_match"} :
           /\ co' = [co EXCEPT !.seen = projection, !.pc = pc]
           /\ co.pc # "free"
           /\ pc \in BeginPcs => co.pc \in BeginPcs
           /\ pc \in StepPcs => co.pc \in StepPcs
    BY <1>2 DEF ReadRestoreProjection, RestoreReads, SeeAndGoto, BeginPcs, StepPcs
  <2>2. pc \in RestorePcs
    BY DEF RestorePcs
  <2>3. co' \in RestoreCoordinators
    BY <1>a, <1>g, <2>1, <2>2 DEF RestoreCoordinators
  <2>4. co'.next = co.next /\ co'.pc = pc
    BY <1>g, <2>1 DEF RestoreCoordinators
  <2> QED BY <1>2, <1>a, <2>1, <2>3, <2>4 DEF ReadRestoreProjection, RestoreReads, Local,
             restoreHistory
<1>3. CASE Preparing
  <2>1. CASE PrepareRestoreGuard
    <3> DEFINE plan == [co.plan EXCEPT !.operation = nextOperation,
                                       !.session = TakenSnapshot.session]
    <3>1. co.pc = "prepare_guard" /\ co \in RestoreCoordinators /\ TakenSnapshot \in Snapshots
      BY <2>1, <1>b, <1>g DEF PrepareRestoreGuard
    <3>2. plan \in RestorePlans
      BY <1>a, <3>1 DEF RestoreCoordinators, RestorePlans, Snapshots
    <3>3. co' = [co EXCEPT !.pc = "prepare_read", !.before = TakenSnapshot, !.plan = plan]
      BY <2>1, <3>1 DEF PrepareRestoreGuard, RestoreCoordinators, RestorePlans
    <3> HIDE DEF plan
    <3>4. co' \in RestoreCoordinators /\ co'.pc = "prepare_read"
      BY <3>1, <3>2, <3>3 DEF RestoreCoordinators, RestorePcs
    <3>5. nextOperation' = nextOperation + 1
      BY <2>1 DEF PrepareRestoreGuard
    <3>6. nextOperation + 1 \in Nat
      BY <1>a
    <3> QED BY <2>1, <1>a, <3>4, <3>5, <3>6 DEF PrepareRestoreGuard, restoreHistory, BeginPcs,
               StepPcs
  <2>2. CASE PrepareRestoreFails \/ PrepareRestoreStore
    <3>1. co.plan \in RestorePlans
      BY <2>2, <1>g DEF PrepareRestoreFails, PrepareRestoreStore, RestoreCoordinators
    <3> QED BY <2>2, <1>a, <1>h, <3>1 DEF PrepareRestoreFails, PrepareRestoreStore,
               restoreHistory
  <2> QED BY <1>3, <2>1, <2>2 DEF Preparing
<1>4. CASE Beginning
  <2>1. CASE BeginGuard
    <3>1. co.pc = "begin_guard" /\ co \in RestoreCoordinators /\ TakenSnapshot \in Snapshots
      BY <2>1, <1>b, <1>g DEF BeginGuard
    <3>2. co' = [co EXCEPT !.pc = "begin_read", !.before = TakenSnapshot]
      BY <2>1 DEF BeginGuard
    <3>3. co' \in RestoreCoordinators /\ co'.next = co.next /\ co'.pc = "begin_read"
      BY <3>1, <3>2 DEF RestoreCoordinators, RestorePcs
    <3> QED BY <2>1, <1>a, <3>1, <3>3 DEF BeginGuard, Local, restoreHistory, BeginPcs, StepPcs
  <2>2. CASE BeginCheck \/ AuditBeginFails
    <3>1. PICK pc \in {"audit_begin", "degrade"} :
             co' = [co EXCEPT !.pc = pc] /\ co.pc \in BeginPcs
      BY <2>2 DEF BeginCheck, AuditBeginFails, Goto, BeginPcs
    <3>2. co \in RestoreCoordinators /\ co.next = 0
      BY <1>a, <1>g, <3>1 DEF BeginPcs
    <3>3. co' \in RestoreCoordinators /\ co'.next = co.next /\ co'.pc = pc
      BY <3>1, <3>2 DEF RestoreCoordinators, RestorePcs
    <3> QED BY <2>2, <1>a, <3>2, <3>3 DEF BeginCheck, AuditBeginFails, Local, restoreHistory,
               StepPcs
  <2>3. CASE BeginRejected
    <3>1. fence' \in Fences
      BY <2>3, <1>a DEF BeginRejected, Disarm, Fences
    <3>2. inbox' \in Seq(Inputs \cup RestoreReplies)
      BY <2>3, <1>a, <1>e DEF BeginRejected
    <3> QED BY <2>3, <1>a, <1>h, <3>1, <3>2 DEF BeginRejected, restoreHistory
  <2>4. CASE AuditBegin
    <3>1. co.pc = "audit_begin" /\ co \in RestoreCoordinators /\ co.next = 0
      BY <2>4, <1>a, <1>g DEF AuditBegin, BeginPcs
    <3>2. co' = [co EXCEPT !.seen = projection, !.pc = "claim"]
      BY <2>4 DEF AuditBegin, SeeAndGoto
    <3>3. co' \in RestoreCoordinators /\ co'.next = 0 /\ co'.pc = "claim"
      BY <1>a, <3>1, <3>2 DEF RestoreCoordinators, RestorePcs
    <3>4. opened' \subseteq RestorePlans
      BY <2>4, <1>a, <3>1 DEF AuditBegin, RestoreCoordinators
    <3> QED BY <2>4, <1>a, <1>b, <3>3, <3>4 DEF AuditBegin
  <2>5. CASE Claim
    <3>1. co.pc = "claim" /\ co \in RestoreCoordinators /\ co.next < Steps
      BY <2>5, <1>a, <1>g DEF Claim, StepPcs
    <3>2. PICK pc \in {"step_before", "degrade"} : co' = [co EXCEPT !.pc = pc]
      BY <2>5 DEF Claim, Goto
    <3>3. co' \in RestoreCoordinators /\ co'.next = co.next /\ co'.pc = pc
      BY <3>1, <3>2 DEF RestoreCoordinators, RestorePcs
    <3>4. fence' \in Fences
      <4>1. co.plan.operation \in Nat /\ co.seen.revision \in Nat
        BY <3>1 DEF RestoreCoordinators, RestorePlans, Snapshots
      <4>2. BeginRestore(fence, co.plan.operation, co.seen.revision) \in Fences
        BY <1>a, <4>1, RestoreFenceTypes
      <4> QED BY <2>5, <1>a, <4>2 DEF Claim
    <3>5. inbox' \in Seq(Inputs \cup RestoreReplies)
      <4>1. co.plan.operation \in Nat
        BY <3>1 DEF RestoreCoordinators, RestorePlans
      <4> QED BY <2>5, <1>a, <1>e, <4>1 DEF Claim
    <3> QED BY <2>5, <1>a, <3>1, <3>3, <3>4, <3>5 DEF Claim, BeginPcs
  <2> QED BY <1>4, <2>1, <2>2, <2>3, <2>4, <2>5 DEF Beginning
<1>5. CASE Stepping
  <2>1. CASE StepMatch \/ StepFails \/ StepPrepare \/ SendStep
    <3>1. PICK pc \in {"step_read", "audit_prepare", "abort", "send", "answer"} :
             co' = [co EXCEPT !.pc = pc] /\ co.pc \in StepPcs
      BY <2>1 DEF StepMatch, StepFails, StepPrepare, SendStep, Goto, StepPcs
    <3>2. co \in RestoreCoordinators /\ co.next < Steps
      BY <1>a, <1>g, <3>1 DEF StepPcs
    <3>3. co' \in RestoreCoordinators /\ co'.next = co.next /\ co'.pc = pc
      BY <3>1, <3>2 DEF RestoreCoordinators, RestorePcs
    <3> QED BY <2>1, <1>a, <3>2, <3>3 DEF StepMatch, StepFails, StepPrepare, SendStep, Local,
               restoreHistory, BeginPcs
  <2>2. CASE StepPrepareFails \/ StepRefused \/ StepNotVerified
    <3>1. PICK d \in BOOLEAN : co' = [co EXCEPT !.pc = "abort", !.degrade = d]
      BY <2>2 DEF StepPrepareFails, StepRefused, StepNotVerified
    <3>2. co \in RestoreCoordinators
      BY <2>2, <1>g DEF StepPrepareFails, StepRefused, StepNotVerified
    <3>3. co' \in RestoreCoordinators /\ co'.pc = "abort"
      BY <3>1, <3>2 DEF RestoreCoordinators, RestorePcs
    <3> QED BY <2>2, <1>a, <3>3 DEF StepPrepareFails, StepRefused, StepNotVerified, Local,
               restoreHistory, BeginPcs, StepPcs
  <2>3. CASE StepVerified
    <3>1. co.pc = "answer" /\ co \in RestoreCoordinators /\ co.next < Steps
      BY <2>3, <1>a, <1>g DEF StepVerified, StepPcs
    <3>2. co.next \in Nat /\ co.next + 1 \in 0 .. Steps
      BY <1>b, <3>1 DEF RestoreCoordinators
    <3>3. PICK pc \in {"step_before", "finish_before", "abort"} :
             /\ co' = [co EXCEPT !.next = @ + 1, !.pc = pc]
             /\ pc = "step_before" => co.next + 1 < Steps
      BY <2>3 DEF StepVerified
    <3>4. co' = [co EXCEPT !.next = co.next + 1, !.pc = pc]
      BY <3>1, <3>3 DEF RestoreCoordinators
    <3>5. co' \in RestoreCoordinators /\ co'.next = co.next + 1 /\ co'.pc = pc
      BY <3>1, <3>2, <3>4 DEF RestoreCoordinators, RestorePcs
    <3>c. co.next + 1 \in Nat
      BY <3>2
    <3>6. fence' \in Fences
      <4>1. AdvanceRestore(fence, co.next + 1) \in Fences
        BY <1>a, <3>c, RestoreFenceTypes
      <4> QED BY <2>3, <1>a, <4>1 DEF StepVerified
    <3>7. inbox' \in Seq(Inputs \cup RestoreReplies)
      <4>1. [type |-> "RestoreAdvanced", next |-> co.next + 1] \in Inputs
        BY <3>c
      <4> QED BY <2>3, <1>a, <1>e, <4>1 DEF StepVerified
    <3> QED BY <2>3, <1>a, <3>3, <3>5, <3>6, <3>7 DEF StepVerified, BeginPcs, StepPcs
  <2> QED BY <1>5, <2>1, <2>2, <2>3 DEF Stepping
<1>6. CASE Ending
  <2>a. /\ Disarm(fence) \in Fences /\ DegradeAuditAndDisarm(fence) \in Fences
        /\ FinishRestore(fence) \in Fences /\ AbortRestore(fence) \in Fences
    <3>1. 0 \in Nat
      OBVIOUS
    <3> QED BY <1>a, <3>1, RestoreFenceTypes, FenceTypes
  <2>b. ASSUME NEW pc \in {"disarm", "degrade", "finish"}, co.pc # "free",
               co' = [co EXCEPT !.pc = pc] \/ co' = [co EXCEPT !.pc = pc, !.degrade = TRUE]
        PROVE  /\ co' \in RestoreCoordinators
               /\ co'.pc \notin BeginPcs \cup StepPcs
    BY <2>b, <1>g DEF RestoreCoordinators, RestorePcs, BeginPcs, StepPcs
  <2>1. CASE Abort
    BY <2>1, <1>a, <1>e, <2>a, <2>b DEF Abort, Goto
  <2>2. CASE DisarmAfter
    <3>1. fence' \in Fences /\ inbox' \in Seq(Inputs \cup RestoreReplies)
      BY <2>2, <1>e, <2>a DEF DisarmAfter
    <3>2. CASE co' = [co EXCEPT !.pc = "degrade"] /\ UNCHANGED replies
      BY <2>2, <3>1, <3>2, <1>a, <2>b DEF DisarmAfter, restoreHistory
    <3>3. CASE Return(Finished)
      BY <2>2, <3>1, <3>3, <1>a, <1>h DEF DisarmAfter, restoreHistory
    <3> QED BY <2>2, <3>2, <3>3 DEF DisarmAfter, Goto
  <2>3. CASE Degrade
    BY <2>3, <1>a, <1>e, <1>h, <2>a DEF Degrade, restoreHistory
  <2>4. CASE FinishMatch \/ FinishRestoring
    BY <2>4, <1>a, <1>e, <2>a, <2>b DEF FinishMatch, FinishRestoring, Goto, Local,
       restoreHistory
  <2> QED BY <1>6, <2>1, <2>2, <2>3, <2>4 DEF Ending
<1> QED BY <1>1, <1>2, <1>3, <1>4, <1>5, <1>6 DEF TaskNext

\* Whatever dispatches, synchronizes, connects or moves the restore in the application
\* keeps the types too.
LEMMA RestoreTypesStep ==
    ASSUME RestoreTypes, [RestoreNext]_restoreVars
    PROVE  RestoreTypes'
<1>a. /\ session \in Sessions /\ revision \in Nat /\ lastSession \in Nat
      /\ fence \in Fences /\ projection \in Snapshots /\ loop \in RestoreLoops
      /\ offered \in RestorePlans /\ nextOperation \in Nat /\ serial \in Nat
      /\ tasks \subseteq RestoreTasks /\ replies \subseteq RestoreReplies
      /\ inbox \in Seq(Inputs \cup RestoreReplies) /\ opened \subseteq RestorePlans
  BY DEF RestoreTypes
<1>b. NoRestore \in RestorePlans
  BY DEF NoRestore, RestorePlans
<1>c. LoopReady \in RestoreLoops
  BY DEF LoopReady, RestoreLoops, UnavailableSnapshot, Snapshots
<1>d. ASSUME NEW s \in Sessions, NEW r \in Nat, NEW task \in RestoreTasks \cup {NoTask}
      PROVE  SyncThen(s, r, task) \in RestoreLoops
  <2>1. SnapshotOf(s, r) \in Snapshots
    BY DEF SnapshotOf, Snapshots, Sessions
  <2> QED BY <1>c, <2>1 DEF SyncThen, RestoreLoops
<1>1. ASSUME NEW in \in Inputs \cup {NoInput}, RestoreDispatched(in)
      PROVE  RestoreTypes'
  <2>1. PICK resets : Dispatch(in, resets)
    BY <1>1 DEF RestoreDispatched, Dispatched
  <2>2. session' = Reduce(session, in) /\ revision' = revision + 1
    BY <2>1 DEF Dispatch
  <2>3. session' \in Sessions
    BY <1>a, <2>2, ReduceType
  <2>4. revision' \in Nat
    BY <1>a, <2>2
  <2>5. lastSession' \in Nat
    BY <1>a, <2>1 DEF Dispatch
  <2>6. loop' \in RestoreLoops
    <3>1. loop' = SyncThen(session', revision', NoTask)
      BY <2>1 DEF Dispatch
    <3> QED BY <1>d, <2>3, <2>4, <3>1
  <2>7. inbox' \in Seq(Inputs \cup RestoreReplies)
    BY <1>a, <1>1 DEF RestoreDispatched, Dispatched
  <2>8. UNCHANGED <<fence, projection, tasks, co, replies, nextOperation, serial, opened>>
    BY <1>1, <2>1 DEF RestoreDispatched, Dispatch, fenceVars, coVars, restoreHistory
  <2>9. offered' \in RestorePlans
    BY <1>a, <1>b, <1>1 DEF RestoreDispatched
  <2> QED BY <2>3, <2>4, <2>5, <2>6, <2>7, <2>8, <2>9 DEF RestoreTypes
<1>2. CASE Syncing
  <2>1. /\ fence' \in Fences /\ projection' \in Snapshots
        /\ loop' \in RestoreLoops /\ tasks' \subseteq RestoreTasks
    <3>1. Reconcile(fence, loop.snap) \in Fences
      <4>1. 0 \in Nat /\ loop.snap \in Snapshots
        BY <1>a DEF RestoreLoops
      <4> QED BY <1>a, <4>1, FenceTypes
    <3>2. CASE SyncReconcile
      BY <1>a, <3>1, <3>2 DEF SyncReconcile, RestoreLoops, coVars
    <3>3. CASE SyncPublish
      BY <1>a, <1>c, <3>3 DEF SyncPublish, RestoreLoops
    <3> QED BY <1>2, <3>2, <3>3 DEF Syncing
  <2>2. UNCHANGED <<session, revision, lastSession, offered, nextOperation, serial, replies,
                    inbox, co, opened>>
    BY <1>2 DEF Syncing, SyncReconcile, SyncPublish, coVars, restoreHistory
  <2> QED BY <2>1, <2>2 DEF RestoreTypes
<1>3. CASE Connecting
  <2>1. inbox' \in Seq(Inputs \cup RestoreReplies)
    <3>1. \E m \in Inputs : inbox' = Append(inbox, m)
      <4>1. CASE AttachBus \/ OpenFails
        BY <4>1, InputTypes DEF AttachBus, OpenFails
      <4>2. CASE Identified
        <5>1. \A d \in Devices \cup {NoDevice} :
                 /\ [type |-> "ReconnectIdentificationFinished", verified |-> d] \in Inputs
                 /\ [type |-> "IdentificationFinished", id |-> lastSession, verified |-> d]
                      \in Inputs
          BY <1>a DEF Inputs, IdentificationInputs
        <5> QED BY <4>2, <5>1 DEF Identified
      <4> QED BY <1>3, <4>1, <4>2 DEF Connecting
    <3> QED BY <1>a, <3>1
  <2>2. UNCHANGED <<session, revision, lastSession, loop, projection, fence, tasks, co, replies>>
    BY <1>3, TransportLeavesLoop DEF Connecting, Transport
  <2>3. UNCHANGED <<offered, serial, opened>> /\ nextOperation' \in Nat
    BY <1>3, <1>a DEF Connecting, restoreHistory
  <2> QED BY <2>1, <2>2, <2>3 DEF RestoreTypes
<1>4. CASE Restoring
  <2>1. loop' \in RestoreLoops
    <3>1. CASE PrepareRestore
      <4>1. [kind |-> "PrepareRestore", plan |-> NoRestore] \in RestoreTasks
        BY <1>b DEF RestoreTasks
      <4> QED BY <1>a, <1>d, <3>1, <4>1 DEF PrepareRestore
    <3>2. CASE ConfirmRestore
      <4>1. [kind |-> "ExecuteRestore", plan |-> offered] \in RestoreTasks
        BY <1>a DEF RestoreTasks
      <4> QED BY <1>a, <1>d, <3>2, <4>1 DEF ConfirmRestore
    <3>3. CASE ClearPrepared \/ ReceiveRestoreReply
      BY <1>a, <3>3 DEF ClearPrepared, ReceiveRestoreReply
    <3> QED BY <1>4, <3>1, <3>2, <3>3 DEF Restoring
  <2>2. offered' \in RestorePlans /\ inbox' \in Seq(Inputs \cup RestoreReplies)
    <3>1. CASE PrepareRestore \/ ConfirmRestore \/ ClearPrepared
      BY <1>a, <1>b, <3>1 DEF PrepareRestore, ConfirmRestore, ClearPrepared
    <3>2. CASE ReceiveRestoreReply
      <4>1. Head(inbox).plan \in RestorePlans
        BY <3>2 DEF ReceiveRestoreReply, RestoreReplies
      <4> QED BY <1>a, <1>b, <3>2, <4>1 DEF ReceiveRestoreReply
    <3> QED BY <1>4, <3>1, <3>2 DEF Restoring
  <2> QED BY <1>4, <2>1, <2>2, RestoringLeaves DEF RestoreTypes
<1>5. CASE SendRestoreReply
  <2>1. PICK reply \in replies : inbox' = Append(inbox, reply) /\ replies' = replies \ {reply}
    BY <1>5 DEF SendRestoreReply, SendReply
  <2>2. inbox' \in Seq(Inputs \cup RestoreReplies) /\ replies' \subseteq RestoreReplies
    BY <1>a, <2>1
  <2>3. UNCHANGED <<session, revision, lastSession, loop, projection, offered>>
    BY <1>5, TaskLeavesLoop
  <2>4. UNCHANGED <<fence, nextOperation, serial, tasks, co, opened>>
    BY <1>5 DEF SendRestoreReply, SendReply, fenceVars, restoreHistory
  <2> QED BY <2>2, <2>3, <2>4 DEF RestoreTypes
<1>6. CASE UNCHANGED restoreVars
  BY <1>6 DEF RestoreTypes, restoreVars, vars, appVars, fenceVars, coVars
<1> QED BY <1>a, <1>1, <1>2, <1>3, <1>4, <1>5, <1>6, RestoreParts, TaskTyped

\* The typed part of the state, whatever the interleaving.
LEMMA RestoreTypesAlways == RestoreSpec => []RestoreTypes
<1>1. RestoreInit => RestoreTypes
  <2>1. /\ NewSession \in Sessions /\ UnavailableSnapshot \in Snapshots
        /\ OpenFence \in Fences
    <3>1. 0 \in 0 .. LastDelay
      BY SessionAssumption
    <3> QED BY <3>1 DEF NewSession, Inactive, Sessions, Phases, Connectivities,
               Authorizations, AuditHealths, Operations, Idle, UnavailableSnapshot,
               Snapshots, OpenFence, Fences, FenceOperations, NoFenceOperation
  <2>2. LoopReady \in RestoreLoops /\ NoRestore \in RestorePlans
    BY <2>1 DEF LoopReady, RestoreLoops, NoRestore, RestorePlans
  <2>3. FreeCoordinator.pc \notin BeginPcs \cup StepPcs
    BY DEF FreeCoordinator, BeginPcs, StepPcs
  <2> QED BY <2>1, <2>2, <2>3 DEF RestoreInit, Init, RestoreTypes
<1> QED BY <1>1, RestoreTypesStep, PTL DEF RestoreSpec

-----------------------------------------------------------------------------
(***************************************************************************)
(* The inbox.                                                              *)
(***************************************************************************)

\* The tasks that open the port and the restore task leave the inbox alone or append a
\* session input that does not start a manual write; a result is appended as it is.
LEMMA RestoreInboxGrows ==
    ASSUME RestoreTypes, Connecting \/ TaskNext \/ SendRestoreReply \/ UNCHANGED restoreVars
    PROVE  \/ inbox' = inbox
           \/ \E m \in Inputs : m.type # "WriteConfirmed" /\ Arrives(m)
           \/ SendRestoreReply /\ \E reply \in replies : Arrives(reply)
<1> USE DEF Arrives
<1>a. \A t \in {"PortOpened", "ReconnectPortOpened", "PortOpenFailed", "ReconnectFailed",
                "DisarmWrites", "RestoreAborted", "RestoreFinished",
                "AuditPersistenceFailed"} :
         Input(t) \in Inputs /\ Input(t).type = t
  BY DEF Input, Inputs, PlainInputs
<1>b. lastSession \in Nat
  BY DEF RestoreTypes
<1>1. CASE Connecting
  <2>1. CASE AttachBus \/ OpenFails
    BY <2>1, <1>a DEF AttachBus, OpenFails
  <2>2. CASE Identified
    <3>1. \A d \in Devices \cup {NoDevice} :
             /\ [type |-> "ReconnectIdentificationFinished", verified |-> d] \in Inputs
             /\ [type |-> "IdentificationFinished", id |-> lastSession, verified |-> d]
                  \in Inputs
      BY <1>b DEF Inputs, IdentificationInputs
    <3>2. PICK d \in Devices \cup {NoDevice} :
             inbox' = Append(inbox,
                IF IsActive(session)
                THEN [type |-> "ReconnectIdentificationFinished", verified |-> d]
                ELSE [type |-> "IdentificationFinished", id |-> lastSession, verified |-> d])
      BY <2>2 DEF Identified
    <3> QED BY <3>1, <3>2
  <2> QED BY <1>1, <2>1, <2>2 DEF Connecting
<1>2. CASE Claim \/ StepVerified
  <2>1. co \in RestoreCoordinators
    BY <1>2 DEF Claim, StepVerified, RestoreTypes, FreeCoordinator
  <2>2. co.plan.operation \in Nat /\ co.next + 1 \in Nat
    BY <2>1, RestoreAssumption DEF RestoreCoordinators, RestorePlans
  <2>3. /\ [type |-> "RestoreStarted", id |-> co.plan.operation] \in Inputs
        /\ [type |-> "RestoreAdvanced", next |-> co.next + 1] \in Inputs
    BY <2>2 DEF Inputs, OperationInputs
  <2> QED BY <1>2, <2>3 DEF Claim, StepVerified
<1>3. CASE BeginRejected \/ Ending
  BY <1>3, <1>a DEF BeginRejected, Ending, Abort, DisarmAfter, Degrade, FinishMatch,
     FinishRestoring, Local
<1>4. CASE TaskNext /\ ~(Claim \/ StepVerified \/ BeginRejected \/ Ending)
  BY <1>4 DEF TaskNext, AcquireRestore, ReadRestoreProjection, RestoreReads, Preparing,
     PrepareRestoreGuard, PrepareRestoreFails, PrepareRestoreStore, Beginning, BeginGuard,
     BeginCheck, AuditBegin, AuditBeginFails, Stepping, StepMatch, StepFails, StepPrepare,
     StepPrepareFails, SendStep, StepRefused, StepNotVerified, Local
<1>5. CASE SendRestoreReply
  BY <1>5 DEF SendRestoreReply, SendReply
<1>6. CASE UNCHANGED restoreVars
  BY <1>6 DEF restoreVars, vars, appVars
<1> QED BY <1>1, <1>2, <1>3, <1>4, <1>5, <1>6

\* Every step leaves the inbox alone, takes its head, sends a session input that is not
\* the start of a manual write, or sends a result.
LEMMA RestoreInboxSteps ==
    ASSUME RestoreTypes, [RestoreNext]_restoreVars
    PROVE  \/ inbox' = inbox
           \/ inbox # <<>> /\ inbox' = Tail(inbox)
           \/ \E m \in Inputs : m.type # "WriteConfirmed" /\ Arrives(m)
           \/ SendRestoreReply /\ \E reply \in replies : Arrives(reply)
<1>a. lastSession \in Nat
  BY DEF RestoreTypes
<1>1. ASSUME NEW in, RestoreDispatched(in)
      PROVE  inbox' = inbox \/ (inbox # <<>> /\ inbox' = Tail(inbox))
  BY <1>1 DEF RestoreDispatched, Dispatched
<1>2. CASE Syncing \/ Restoring
  BY <1>2 DEF Syncing, SyncReconcile, SyncPublish, Restoring, PrepareRestore, ConfirmRestore,
     ClearPrepared, ReceiveRestoreReply
<1> QED BY <1>a, <1>1, <1>2, RestoreInboxGrows, RestoreParts

-----------------------------------------------------------------------------
(***************************************************************************)
(* The way of a plan.  A prepared plan is a result, a message, the plan on *)
(* offer, the task a sync will spawn, a task, the plan of the task that    *)
(* holds the mutex, and an operation in the journal, one after the other;  *)
(* it is never in two of these places, so it begins at most once.          *)
(***************************************************************************)
Offer(p) == [type |-> "RestorePrepared", plan |-> p]

Execute(p) == [kind |-> "ExecuteRestore", plan |-> p]

Places == {"reply", "inbox", "offer", "loop", "task", "co", "opened"}

Lies(place, p) ==
    \/ place = "reply"  /\ p # NoRestore /\ Offer(p) \in replies
    \/ place = "inbox"  /\ p # NoRestore /\ \E i \in DOMAIN inbox : inbox[i] = Offer(p)
    \/ place = "offer"  /\ p # NoRestore /\ offered = p
    \/ place = "loop"   /\ loop.task = Execute(p)
    \/ place = "task"   /\ Execute(p) \in tasks
    \/ place = "co"     /\ co.pc \in BeginPcs /\ co.plan = p
    \/ place = "opened" /\ p \in opened

OnePlace(p) == \A a, b \in Places : Lies(a, p) /\ Lies(b, p) => a = b

OneMessage(p) ==
    \A i, j \in DOMAIN inbox : inbox[i] = Offer(p) /\ inbox[j] = Offer(p) => i = j

WayInv ==
    /\ \A p \in RestorePlans : OnePlace(p) /\ (p # NoRestore => OneMessage(p))
    /\ \A p \in RestorePlans : \A a \in Places :
          Lies(a, p) => p.serial <= serial /\ (co.pc \in PreparePcs => p.serial # serial)
    /\ co.pc \in PreparePcs => co.plan.serial = serial /\ serial > 0

Rests(p) == \A k \in Places : Lies(k, p)' => Lies(k, p)

Moves(a, b, p) ==
    /\ Lies(a, p)
    /\ \A k \in Places : Lies(k, p)' => k = b \/ (k # a /\ Lies(k, p))

Enters(p) ==
    /\ PrepareRestoreStore /\ p = co.plan
    /\ \A k \in Places : Lies(k, p)' => k = "reply" \/ Lies(k, p)

Proceeds(p) ==
    \/ Moves("reply", "inbox", p)
    \/ Moves("inbox", "offer", p)
    \/ Moves("offer", "loop", p) /\ p \in confirmed'
    \/ Moves("loop", "task", p)
    \/ Moves("task", "co", p)
    \/ Moves("co", "opened", p)

\* A plan stays where it is, is dropped, or goes on to the next place.
LEMMA PlanSteps ==
    ASSUME RestoreTypes, [RestoreNext]_restoreVars, NEW p \in RestorePlans,
           p # NoRestore => OneMessage(p)
    PROVE  Rests(p) \/ Enters(p) \/ Proceeds(p)
<1> USE DEF Rests
<1>a. /\ inbox \in Seq(Inputs \cup RestoreReplies) /\ lastSession \in Nat
      /\ co \in RestoreCoordinators \cup {FreeCoordinator} /\ loop \in RestoreLoops
  BY DEF RestoreTypes
<1>b. /\ \A m \in Inputs : m # Offer(p)
      /\ NoTask # Execute(p) /\ LoopReady.task = NoTask /\ LoopReady.task # Execute(p)
      /\ FreeCoordinator.pc \notin BeginPcs
  BY DEF Inputs, PlainInputs, IdentificationInputs, TimedInputs, OperationInputs, Offer,
     NoTask, Execute, LoopReady, FreeCoordinator, BeginPcs
<1>c. ASSUME (\E i \in DOMAIN inbox' : inbox'[i] = Offer(p))
      PROVE  \/ \E i \in DOMAIN inbox : inbox[i] = Offer(p)
             \/ SendRestoreReply /\ Offer(p) \in replies /\ Arrives(Offer(p))
  <2>1. CASE inbox' = inbox
    BY <1>c, <2>1
  <2>2. CASE inbox # <<>> /\ inbox' = Tail(inbox)
    BY <1>a, <1>c, <2>2, TailShifts
  <2>3. ASSUME NEW m \in Inputs \cup RestoreReplies, Arrives(m)
        PROVE  m = Offer(p) \/ \E i \in DOMAIN inbox : inbox[i] = Offer(p)
    <3>1. \A i \in DOMAIN inbox' : i \in DOMAIN inbox \/ i = Len(inbox) + 1
      BY <1>a, <2>3 DEF Arrives
    <3>2. inbox'[Len(inbox) + 1] = m /\ \A i \in DOMAIN inbox : inbox'[i] = inbox[i]
      BY <1>a, <2>3, AppendKeeps DEF Arrives
    <3> QED BY <1>c, <3>1, <3>2
  <2>4. replies \subseteq RestoreReplies
    BY DEF RestoreTypes
  <2> QED BY <1>b, <2>1, <2>2, <2>3, <2>4, RestoreInboxSteps
<1>d. ASSUME ~SendRestoreReply
      PROVE  Lies("inbox", p)' => Lies("inbox", p)
  BY <1>c, <1>d DEF Lies
<1>1. ASSUME NEW in \in Inputs \cup {NoInput}, RestoreDispatched(in)
      PROVE  Rests(p)
  <2>1. PICK resets : Dispatch(in, resets)
    BY <1>1 DEF RestoreDispatched, Dispatched
  <2>2. UNCHANGED <<tasks, co, replies, opened>> /\ offered' \in {offered, NoRestore}
    BY <1>1, <2>1 DEF RestoreDispatched, Dispatch, coVars, restoreHistory
  <2>3. loop'.task = NoTask
    BY <2>1 DEF Dispatch, SyncThen, LoopReady
  <2>4. inbox' = inbox \/ (inbox # <<>> /\ inbox' = Tail(inbox))
    BY <1>1 DEF RestoreDispatched, Dispatched
  <2>5. Lies("inbox", p)' => Lies("inbox", p)
    BY <1>a, <2>4, TailShifts DEF Lies
  <2> QED BY <1>b, <2>2, <2>3, <2>5 DEF Lies
<1>2. CASE Syncing
  <2>1. UNCHANGED <<inbox, co, replies, opened, offered>>
    BY <1>2 DEF Syncing, SyncReconcile, SyncPublish, coVars, restoreHistory
  <2>2. CASE SyncReconcile
    BY <2>1, <2>2, <1>a DEF SyncReconcile, coVars, Lies, RestoreLoops
  <2>3. CASE SyncPublish
    <3>1. /\ tasks' = IF loop.task # NoTask THEN tasks \cup {loop.task} ELSE tasks
          /\ loop'.task # Execute(p)
      BY <2>3, <1>b DEF SyncPublish
    <3>2. CASE loop.task = Execute(p)
      BY <2>1, <3>1, <3>2 DEF Moves, Proceeds, Lies
    <3>3. CASE loop.task # Execute(p)
      BY <2>1, <3>1, <3>3 DEF Lies
    <3> QED BY <3>2, <3>3
  <2> QED BY <1>2, <2>2, <2>3 DEF Syncing
<1>3. CASE Connecting
  <2>1. UNCHANGED <<loop, tasks, co, replies, opened, offered>>
    BY <1>3, TransportLeavesLoop DEF Connecting, Transport, restoreHistory
  <2>2. Lies("inbox", p)' => Lies("inbox", p)
    <3>1. ~SendRestoreReply
      BY <2>1 DEF SendRestoreReply, SendReply
    <3> QED BY <1>d, <3>1
  <2> QED BY <2>1, <2>2 DEF Lies
<1>4. CASE Restoring
  <2>a. UNCHANGED <<tasks, co, replies, opened>>
    BY <1>4, RestoringLeaves
  <2>1. CASE PrepareRestore
    <3>1. offered' = NoRestore /\ loop'.task # Execute(p) /\ inbox' = inbox
      BY <2>1, <1>b DEF PrepareRestore, SyncThen, Execute
    <3> QED BY <2>a, <3>1 DEF Lies
  <2>2. CASE ConfirmRestore
    <3>1. /\ offered # NoRestore /\ offered' = NoRestore /\ inbox' = inbox
          /\ loop'.task = Execute(offered) /\ confirmed' = confirmed \cup {offered}
      BY <2>2 DEF ConfirmRestore, SyncThen, Execute
    <3>2. CASE p = offered
      BY <2>a, <3>1, <3>2 DEF Moves, Proceeds, Lies
    <3>3. CASE p # offered
      BY <2>a, <3>1, <3>3 DEF Lies, Execute
    <3> QED BY <3>2, <3>3
  <2>3. CASE ClearPrepared
    BY <2>a, <2>3 DEF ClearPrepared, Lies
  <2>4. CASE ReceiveRestoreReply
    <3>1. inbox # <<>> /\ inbox' = Tail(inbox) /\ loop' = loop
      BY <2>4 DEF ReceiveRestoreReply
    <3>2. offered' \in {offered, NoRestore} \/ Head(inbox) = Offer(offered')
      BY <2>4 DEF ReceiveRestoreReply, RestoreReplies, Offer
    <3>3. Lies("inbox", p)' => Lies("inbox", p)
      BY <1>a, <3>1, TailShifts DEF Lies
    <3>4. CASE p # NoRestore /\ Head(inbox) = Offer(p)
      <4>1. Lies("inbox", p) /\ ~Lies("inbox", p)'
        BY <1>a, <3>1, <3>4, TailShifts DEF Lies, OneMessage
      <4> QED BY <2>a, <3>1, <4>1 DEF Lies, Moves, Proceeds, Places
    <3>5. CASE ~(p # NoRestore /\ Head(inbox) = Offer(p))
      <4>1. Lies("offer", p)' => Lies("offer", p)
        BY <3>2, <3>5 DEF Lies
      <4> QED BY <2>a, <3>1, <3>3, <4>1 DEF Lies
    <3> QED BY <3>4, <3>5
  <2> QED BY <1>4, <2>1, <2>2, <2>3, <2>4 DEF Restoring
<1>5. CASE SendRestoreReply
  <2>1. PICK reply \in replies : Arrives(reply) /\ replies' = replies \ {reply}
    BY <1>5 DEF SendRestoreReply, SendReply, Arrives
  <2>2. UNCHANGED <<loop, offered, tasks, co, opened>>
    BY <1>5, TaskLeavesLoop DEF SendRestoreReply, SendReply, restoreHistory
  <2>3. CASE p # NoRestore /\ reply = Offer(p)
    BY <2>1, <2>2, <2>3 DEF Lies, Moves, Proceeds, Places
  <2>4. CASE ~(p # NoRestore /\ reply = Offer(p))
    <3>1. Lies("inbox", p)' => Lies("inbox", p)
      <4>1. SUFFICES ASSUME p # NoRestore, Arrives(Offer(p)), Arrives(reply) PROVE FALSE
        BY <1>c, <2>1 DEF Lies
      <4>2. Append(inbox, reply)[Len(inbox) + 1] = reply
            /\ Append(inbox, Offer(p))[Len(inbox) + 1] = Offer(p)
        <5>1. reply \in Inputs \cup RestoreReplies /\ Offer(p) \in Inputs \cup RestoreReplies
          BY DEF RestoreTypes, Offer, RestoreReplies
        <5> QED BY <1>a, <5>1, AppendKeeps
      <4> QED BY <2>4, <4>1, <4>2 DEF Arrives
    <3> QED BY <2>1, <2>2, <3>1 DEF Lies
  <2> QED BY <2>3, <2>4
<1>6. CASE TaskNext /\ ~SendRestoreReply
  <2>a. UNCHANGED <<loop, offered>> /\ (Lies("inbox", p)' => Lies("inbox", p))
    BY <1>6, <1>d, TaskLeavesLoop
  <2>b. co.pc # "free" => co \in RestoreCoordinators
    BY <1>a DEF FreeCoordinator
  <2>1. CASE AcquireRestore
    <3>1. PICK task \in tasks :
             /\ tasks' = tasks \ {task}
             /\ \/ co'.pc = "prepare_before"
                \/ /\ task.kind = "ExecuteRestore"
                   /\ co' = Holding("begin_before", task.plan)
      BY <2>1 DEF AcquireRestore, Holding
    <3>2. UNCHANGED <<replies, opened>> /\ co.pc = "free"
      BY <2>1 DEF AcquireRestore
    <3>3. task.kind = "ExecuteRestore" => task = Execute(task.plan)
      BY DEF RestoreTypes, RestoreTasks, Execute
    <3>4. CASE task = Execute(p)
      <4>1. Execute(p) \notin tasks' /\ Execute(p) \in tasks
        BY <3>1, <3>4
      <4> QED BY <2>a, <3>2, <4>1 DEF Lies, Moves, Proceeds, Places
    <3>5. CASE task # Execute(p)
      <4>1. ~Lies("co", p)'
        <5>1. CASE co'.pc = "prepare_before"
          BY <5>1 DEF Lies, BeginPcs
        <5>2. CASE task.kind = "ExecuteRestore" /\ co' = Holding("begin_before", task.plan)
          BY <3>3, <3>5, <5>2 DEF Lies, Holding
        <5> QED BY <3>1, <5>1, <5>2
      <4> QED BY <2>a, <3>1, <3>2, <4>1 DEF Lies
    <3> QED BY <3>4, <3>5
  <2>2. CASE AuditBegin
    <3>1. /\ co.pc = "audit_begin" /\ co'.pc = "claim" /\ opened' = opened \cup {co.plan}
          /\ UNCHANGED <<tasks, replies>>
      BY <2>2, <2>b DEF AuditBegin, SeeAndGoto, RestoreCoordinators
    <3>2. CASE p = co.plan
      BY <2>a, <3>1, <3>2 DEF Lies, Moves, Proceeds, Places, BeginPcs
    <3>3. CASE p # co.plan
      BY <2>a, <3>1, <3>3 DEF Lies, BeginPcs
    <3> QED BY <3>2, <3>3
  <2>3. CASE PrepareRestoreStore
    <3>1. /\ replies' = replies \cup {Offer(co.plan)} /\ co' = FreeCoordinator
          /\ UNCHANGED <<tasks, opened>>
      BY <2>3 DEF PrepareRestoreStore, Return, Offer, restoreHistory
    <3>2. CASE p = co.plan
      BY <1>b, <2>3, <2>a, <3>1, <3>2 DEF Lies, Enters
    <3>3. CASE p # co.plan
      BY <1>b, <2>a, <3>1, <3>3 DEF Lies, Offer
    <3> QED BY <3>2, <3>3
  <2>4. ASSUME UNCHANGED <<tasks, opened>>, ~(Lies("reply", p)' /\ ~Lies("reply", p)),
               co'.pc \notin BeginPcs \/ (co.pc \in BeginPcs /\ co'.plan = co.plan)
        PROVE  Rests(p)
    BY <2>a, <2>4 DEF Lies
  <2>5. CASE PrepareRestoreFails
    <3>1. /\ replies' = replies \cup {Offer(NoRestore)} /\ co' = FreeCoordinator
          /\ UNCHANGED <<tasks, opened>>
      BY <2>5 DEF PrepareRestoreFails, Return, Offer, restoreHistory
    <3> QED BY <1>b, <2>4, <3>1 DEF Lies, Offer
  <2>6. CASE BeginRejected \/ Degrade \/ (DisarmAfter /\ Return(Finished))
    <3>1. /\ replies' = replies \cup {Finished} /\ co' = FreeCoordinator
          /\ UNCHANGED <<tasks, opened>>
      BY <2>6 DEF BeginRejected, Degrade, DisarmAfter, Return, restoreHistory
    <3> QED BY <1>b, <2>4, <3>1 DEF Lies, Offer, Finished
  <2>7. CASE ReadRestoreProjection \/ RestoreReads \/ PrepareRestoreGuard \/ BeginGuard
              \/ BeginCheck \/ AuditBeginFails
    <3>1. UNCHANGED <<tasks, opened, replies>>
      BY <2>7 DEF ReadRestoreProjection, RestoreReads, PrepareRestoreGuard, BeginGuard,
         BeginCheck, AuditBeginFails, Local, restoreHistory
    <3>2. co \in RestoreCoordinators
      BY <2>7, <2>b DEF ReadRestoreProjection, RestoreReads, PrepareRestoreGuard, BeginGuard,
         BeginCheck, AuditBeginFails
    <3>3. co'.pc \notin BeginPcs \/ (co.pc \in BeginPcs /\ co'.plan = co.plan)
      BY <2>7, <3>2 DEF ReadRestoreProjection, RestoreReads, PrepareRestoreGuard, BeginGuard,
         BeginCheck, AuditBeginFails, SeeAndGoto, Goto, RestoreCoordinators, BeginPcs
    <3> QED BY <2>4, <3>1, <3>3 DEF Lies
  <2>8. CASE Claim \/ Stepping \/ Abort \/ FinishMatch \/ FinishRestoring
             \/ (DisarmAfter /\ ~Return(Finished))
    <3>1. UNCHANGED <<tasks, opened, replies>>
      BY <2>8 DEF Claim, Stepping, StepMatch, StepFails, StepPrepare, StepPrepareFails,
         SendStep, StepRefused, StepVerified, StepNotVerified, Abort, FinishMatch,
         FinishRestoring, DisarmAfter, Local, restoreHistory
    <3>2. co \in RestoreCoordinators
      BY <2>8, <2>b DEF Claim, Stepping, StepMatch, StepFails, StepPrepare,
         StepPrepareFails, SendStep, StepRefused, StepVerified, StepNotVerified, Abort,
         FinishMatch, FinishRestoring, DisarmAfter
    <3>3. co'.pc \notin BeginPcs
      <4>1. CASE Claim \/ Abort \/ FinishMatch \/ FinishRestoring
                 \/ (DisarmAfter /\ ~Return(Finished))
        BY <3>2, <4>1 DEF Claim, Abort, FinishMatch, FinishRestoring, DisarmAfter, Goto,
           RestoreCoordinators, BeginPcs
      <4>2. CASE Stepping
        BY <3>2, <4>2 DEF Stepping, StepMatch, StepFails, StepPrepare, StepPrepareFails,
           SendStep, StepRefused, StepVerified, StepNotVerified, Goto, RestoreCoordinators,
           BeginPcs
      <4> QED BY <2>8, <4>1, <4>2
    <3> QED BY <2>4, <3>1, <3>3 DEF Lies
  <2> QED BY <1>6, <2>1, <2>2, <2>3, <2>5, <2>6, <2>7, <2>8 DEF TaskNext, Preparing,
             Beginning, Ending
<1>7. CASE UNCHANGED restoreVars
  BY <1>7 DEF restoreVars, vars, appVars, coVars, Lies
<1> QED BY <1>a, <1>1, <1>2, <1>3, <1>4, <1>5, <1>6, <1>7, RestoreParts

\* The serial number grows only when the task that holds the mutex takes the next one; its
\* plan belongs to no session, and later to that of the snapshot it was guarded by.
LEMMA SerialSteps ==
    ASSUME RestoreTypes, [RestoreNext]_restoreVars
    PROVE  \/ /\ serial' = serial
              /\ co'.pc \in PreparePcs
                   => /\ co.pc \in PreparePcs /\ co'.plan.serial = co.plan.serial
                      /\ co'.plan.session \in {co.plan.session, co.seen.session}
           \/ serial' = serial + 1 /\ co'.plan.serial = serial + 1 /\ co'.plan.session = 0
<1> USE DEF PreparePcs
<1>a. co.pc # "free" => co \in RestoreCoordinators
  BY DEF RestoreTypes, FreeCoordinator
<1>b. lastSession \in Nat /\ FreeCoordinator.pc = "free"
  BY DEF RestoreTypes, FreeCoordinator
<1>1. ASSUME NEW in, RestoreDispatched(in) PROVE UNCHANGED <<serial, co>>
  BY <1>1 DEF RestoreDispatched, Dispatched, Dispatch, coVars, restoreHistory
<1>2. CASE Syncing \/ Connecting
  BY <1>2 DEF Syncing, SyncReconcile, SyncPublish, Connecting, AttachBus, OpenFails,
     Identified, coVars, restoreHistory
<1>3. CASE Restoring
  BY <1>3, RestoringLeaves
<1>4. CASE AcquireRestore
  BY <1>4 DEF AcquireRestore, Holding, NoRestore
<1>5. CASE Preparing \/ ReadRestoreProjection \/ RestoreReads
  <2>1. CASE PrepareRestoreGuard
    <3>1. co \in RestoreCoordinators /\ serial' = serial /\ co.pc = "prepare_guard"
      BY <1>a, <2>1 DEF PrepareRestoreGuard, restoreHistory
    <3>2. co.plan \in RestorePlans
      BY <3>1 DEF RestoreCoordinators
    <3>3. co'.plan = [co.plan EXCEPT !.operation = nextOperation,
                                     !.session = TakenSnapshot.session]
      BY <2>1, <3>1, <3>2 DEF PrepareRestoreGuard, RestoreCoordinators, RestorePlans
    <3>4. TakenSnapshot.session = co.seen.session
      BY <3>1 DEF TakenSnapshot, Overlay, RestoreCoordinators, Snapshots
    <3> QED BY <3>1, <3>2, <3>3, <3>4 DEF RestorePlans
  <2>2. CASE PrepareRestoreFails \/ PrepareRestoreStore
    BY <1>b, <2>2 DEF PrepareRestoreFails, PrepareRestoreStore, Return, restoreHistory
  <2>3. CASE ReadRestoreProjection \/ RestoreReads
    BY <1>a, <2>3 DEF ReadRestoreProjection, RestoreReads, SeeAndGoto, RestoreCoordinators,
       Local, restoreHistory
  <2> QED BY <1>5, <2>1, <2>2, <2>3 DEF Preparing
<1>6. CASE Beginning
  BY <1>a, <1>b, <1>6 DEF Beginning, BeginGuard, BeginCheck, BeginRejected, AuditBegin,
     AuditBeginFails, Claim, Return, Goto, SeeAndGoto, RestoreCoordinators, Local,
     restoreHistory
<1>7. CASE Stepping
  BY <1>a, <1>7 DEF Stepping, StepMatch, StepFails, StepPrepare, StepPrepareFails, SendStep,
     StepRefused, StepVerified, StepNotVerified, Goto, RestoreCoordinators, Local,
     restoreHistory
<1>8. CASE Ending
  BY <1>a, <1>b, <1>8 DEF Ending, Abort, DisarmAfter, Degrade, FinishMatch, FinishRestoring,
     Return, Goto, RestoreCoordinators, Local, restoreHistory
<1>9. CASE SendRestoreReply \/ UNCHANGED restoreVars
  BY <1>9 DEF SendRestoreReply, SendReply, restoreVars, vars, coVars, restoreHistory
<1> QED BY <1>b, <1>1, <1>2, <1>3, <1>4, <1>5, <1>6, <1>7, <1>8, <1>9, RestoreParts
        DEF TaskNext

\* A plan enters its way with a serial number that no plan before it had, and leaves a
\* place when it reaches the next.
LEMMA WayStep ==
    ASSUME RestoreTypes, WayInv, [RestoreNext]_restoreVars
    PROVE  WayInv'
<1>a. serial \in Nat /\ inbox \in Seq(Inputs \cup RestoreReplies)
      /\ replies \subseteq RestoreReplies /\ co \in RestoreCoordinators \cup {FreeCoordinator}
  BY DEF RestoreTypes
<1>1. \A p \in RestorePlans : Rests(p) \/ Enters(p) \/ Proceeds(p)
  BY PlanSteps DEF WayInv
<1>2. ASSUME NEW p \in RestorePlans, Enters(p)
      PROVE  /\ \A a \in Places : ~Lies(a, p)
             /\ p.serial = serial /\ serial' = serial /\ co'.pc \notin PreparePcs
  <2>1. /\ co.pc \in PreparePcs /\ p = co.plan /\ co'.pc = "free" /\ serial' = serial
    BY <1>2 DEF Enters, PrepareRestoreStore, PreparePcs, Return, FreeCoordinator,
       restoreHistory
  <2> QED BY <2>1 DEF WayInv, PreparePcs
<1>3. ASSUME NEW p \in RestorePlans PROVE OnePlace(p)'
  <2>0. OnePlace(p)
    BY DEF WayInv
  <2>1. CASE Rests(p)
    BY <2>0, <2>1 DEF Rests, OnePlace
  <2>2. CASE Enters(p)
    BY <1>2, <2>2 DEF Enters, OnePlace
  <2>3. ASSUME NEW a \in Places, NEW b, Moves(a, b, p) PROVE OnePlace(p)'
    BY <2>0, <2>3 DEF Moves, OnePlace
  <2> QED BY <1>1, <2>1, <2>2, <2>3 DEF Proceeds, Places
<1>4. ASSUME NEW p \in RestorePlans, p # NoRestore PROVE OneMessage(p)'
  <2>0. OneMessage(p)
    BY <1>4 DEF WayInv
  <2>1. CASE inbox' = inbox
    BY <2>0, <2>1 DEF OneMessage
  <2>2. CASE inbox # <<>> /\ inbox' = Tail(inbox)
    <3>1. ASSUME NEW i \in DOMAIN inbox', NEW j \in DOMAIN inbox',
                 inbox'[i] = Offer(p), inbox'[j] = Offer(p)
          PROVE  i = j
      <4>1. /\ i + 1 \in DOMAIN inbox /\ inbox[i + 1] = Offer(p)
            /\ j + 1 \in DOMAIN inbox /\ inbox[j + 1] = Offer(p)
        BY <1>a, <2>2, <3>1, TailShifts
      <4>2. i + 1 = j + 1
        BY <2>0, <4>1 DEF OneMessage
      <4>3. i \in Nat /\ j \in Nat
        BY <1>a, <2>2
      <4> QED BY <4>2, <4>3
    <3> QED BY <3>1 DEF OneMessage
  <2>3. ASSUME NEW m \in Inputs \cup RestoreReplies, Arrives(m),
               m = Offer(p) => \A i \in DOMAIN inbox : inbox[i] # Offer(p)
        PROVE  OneMessage(p)'
    <3>1. \A i \in DOMAIN inbox' : i \in DOMAIN inbox \/ i = Len(inbox) + 1
      BY <1>a, <2>3 DEF Arrives
    <3>2. inbox'[Len(inbox) + 1] = m /\ \A i \in DOMAIN inbox : inbox'[i] = inbox[i]
      BY <1>a, <2>3, AppendKeeps DEF Arrives
    <3> QED BY <2>0, <2>3, <3>1, <3>2 DEF OneMessage
  <2>4. \A m \in Inputs : m # Offer(p)
    BY DEF Inputs, PlainInputs, IdentificationInputs, TimedInputs, OperationInputs, Offer
  <2>5. ASSUME NEW reply \in replies, reply = Offer(p)
        PROVE  \A i \in DOMAIN inbox : inbox[i] # Offer(p)
    <3>1. Lies("reply", p)
      BY <1>4, <2>5 DEF Lies
    <3>2. ~Lies("inbox", p)
      BY <3>1 DEF WayInv, OnePlace, Places
    <3> QED BY <1>4, <3>2 DEF Lies
  <2> QED BY <1>a, <2>1, <2>2, <2>3, <2>4, <2>5, RestoreInboxSteps
<1>5. ASSUME NEW p \in RestorePlans, NEW a \in Places, Lies(a, p)'
      PROVE  p.serial <= serial' /\ (co'.pc \in PreparePcs => p.serial # serial')
  <2>a. p.serial \in Nat
    BY DEF RestorePlans
  <2>1. CASE Enters(p)
    BY <1>a, <1>2, <2>1
  <2>2. CASE ~Enters(p)
    <3>1. \E b \in Places : Lies(b, p)
      <4>1. CASE Rests(p)
        BY <1>5, <4>1 DEF Rests
      <4>2. CASE Proceeds(p)
        BY <4>2 DEF Proceeds, Moves, Places
      <4> QED BY <1>1, <2>2, <4>1, <4>2
    <3>2. p.serial <= serial /\ (co.pc \in PreparePcs => p.serial # serial)
      BY <3>1 DEF WayInv
    <3> QED BY <1>a, <2>a, <3>2, SerialSteps
  <2> QED BY <2>1, <2>2
<1>6. ASSUME co'.pc \in PreparePcs PROVE co'.plan.serial = serial' /\ serial' > 0
  <2>1. CASE serial' = serial /\ co.pc \in PreparePcs /\ co'.plan.serial = co.plan.serial
    BY <2>1 DEF WayInv
  <2>2. CASE serial' = serial + 1 /\ co'.plan.serial = serial + 1
    BY <1>a, <2>2
  <2> QED BY <1>6, <2>1, <2>2, SerialSteps
<1> QED BY <1>3, <1>4, <1>5, <1>6 DEF WayInv

\* At first there is no plan anywhere.
LEMMA NoPlanAtFirst ==
    ASSUME RestoreInit
    PROVE  WayInv /\ \A p \in RestorePlans : \A k \in Places : ~Lies(k, p)
<1>1. /\ co = FreeCoordinator /\ inbox = <<>> /\ replies = {} /\ tasks = {}
      /\ offered = NoRestore /\ loop = LoopReady /\ opened = {}
  BY DEF RestoreInit, Init
<1>2. co.pc = "free" /\ loop.task = NoTask
  BY <1>1 DEF FreeCoordinator, LoopReady
<1>3. \A p \in RestorePlans : \A k \in Places : ~Lies(k, p)
  <2>1. \A p : NoTask # Execute(p)
    BY DEF NoTask, Execute
  <2> QED BY <1>1, <1>2, <2>1 DEF Lies, BeginPcs
<1>4. \A p : OneMessage(p)
  BY <1>1 DEF OneMessage
<1> QED BY <1>2, <1>3, <1>4 DEF WayInv, OnePlace, PreparePcs

-----------------------------------------------------------------------------
(***************************************************************************)
(* Steps in order.                                                         *)
(***************************************************************************)
Decided == {"loop", "task", "co", "opened"}

ConsentInv ==
    \A p \in RestorePlans : \A a \in Decided : Lies(a, p) => p \in confirmed

Of(set, plan) == {w \in set : w[1] = plan}

StepsOf(plan, n) == {plan} \X (0 .. n - 1)

PermitInv ==
    /\ closed \subseteq opened
    /\ verified \subseteq wire
    /\ wire \subseteq opened \X (0 .. Steps - 1)
    /\ co.pc \in OpenPcs => co.plan \in opened \ closed
    /\ co.pc \in StepPcs =>
          /\ Of(verified, co.plan) = StepsOf(co.plan, co.next)
          /\ Of(wire, co.plan)
                = StepsOf(co.plan, IF co.pc = "answer" THEN co.next + 1 ELSE co.next)
    /\ co.pc = "send" => <<co.plan, co.next>> \in journal

\* A plan that reaches a task was on offer when the operator confirmed it.
LEMMA ConsentStep ==
    ASSUME RestoreTypes, WayInv, ConsentInv, [RestoreNext]_restoreVars
    PROVE  ConsentInv'
<1>1. confirmed \subseteq confirmed'
  <2>1. ASSUME NEW in, RestoreDispatched(in) PROVE confirmed' = confirmed
    BY <2>1 DEF RestoreDispatched, Dispatched, Dispatch
  <2>2. CASE Syncing \/ Connecting
    BY <2>2 DEF Syncing, SyncReconcile, SyncPublish, Connecting, AttachBus, OpenFails,
       Identified, history
  <2>3. CASE Restoring
    BY <2>3 DEF Restoring, PrepareRestore, ConfirmRestore, ClearPrepared,
       ReceiveRestoreReply, history
  <2>4. CASE TaskNext \/ SendRestoreReply
    BY <2>4, TaskLeavesLoop
  <2>5. CASE UNCHANGED restoreVars
    BY <2>5 DEF restoreVars, vars, history
  <2>6. lastSession \in Nat
    BY DEF RestoreTypes
  <2> QED BY <2>1, <2>2, <2>3, <2>4, <2>5, <2>6, RestoreParts
<1>2. ASSUME NEW p \in RestorePlans, NEW k \in Decided, Lies(k, p)' PROVE p \in confirmed'
  <2>1. Rests(p) \/ Enters(p) \/ Proceeds(p)
    BY PlanSteps DEF WayInv
  <2>2. k \in Places /\ k # "reply" /\ k # "inbox" /\ k # "offer"
    BY DEF Decided, Places
  <2>3. CASE Lies(k, p)
    BY <1>1, <2>3 DEF ConsentInv
  <2>4. CASE ~Lies(k, p)
    <3>1. \/ Moves("offer", "loop", p) /\ p \in confirmed'
          \/ \E a \in Decided : Lies(a, p)
      BY <1>2, <2>1, <2>2, <2>4 DEF Rests, Enters, Proceeds, Moves, Decided
    <3> QED BY <1>1, <3>1 DEF ConsentInv
  <2> QED BY <2>3, <2>4
<1> QED BY <1>2 DEF ConsentInv

\* Only the task moves what the permit is about.
LEMMA PermitFrame ==
    ASSUME RestoreTypes, [RestoreNext]_restoreVars, ~TaskNext
    PROVE  UNCHANGED <<co, opened, closed, verified, wire, journal>>
<1>a. lastSession \in Nat
  BY DEF RestoreTypes
<1>1. ASSUME NEW in, RestoreDispatched(in)
      PROVE  UNCHANGED <<co, opened, closed, verified, wire, journal>>
  BY <1>1 DEF RestoreDispatched, Dispatched, Dispatch, coVars, restoreHistory
<1>2. CASE Syncing \/ Connecting
  BY <1>2 DEF Syncing, SyncReconcile, SyncPublish, Connecting, AttachBus, OpenFails,
     Identified, coVars, history, restoreHistory
<1>3. CASE Restoring
  BY <1>3, RestoringLeaves
<1>4. CASE SendRestoreReply \/ UNCHANGED restoreVars
  BY <1>4 DEF SendRestoreReply, SendReply, restoreVars, vars, coVars, history, restoreHistory
<1> QED BY <1>a, <1>1, <1>2, <1>3, <1>4, RestoreParts

\* One more step extends the run of steps by the next index.
LEMMA OneMoreStep ==
    ASSUME NEW plan, NEW n \in Nat
    PROVE  /\ StepsOf(plan, n + 1) = StepsOf(plan, n) \cup {<<plan, n>>}
           /\ <<plan, n>> \notin StepsOf(plan, n)
<1>1. 0 .. n + 1 - 1 = (0 .. n - 1) \cup {n}
  OBVIOUS
<1>2. StepsOf(plan, n + 1) = StepsOf(plan, n) \cup {<<plan, n>>}
  BY <1>1 DEF StepsOf
<1>3. <<plan, n>> \notin StepsOf(plan, n)
  BY DEF StepsOf
<1> QED BY <1>2, <1>3

\* The permit and the journal agree with the steps that went out.
LEMMA PermitStep ==
    ASSUME RestoreTypes, WayInv, PermitInv, [RestoreNext]_restoreVars
    PROVE  PermitInv'
<1> USE DEF OpenPcs, StepPcs
<1>a. /\ co \in RestoreCoordinators \cup {FreeCoordinator} /\ opened \subseteq RestorePlans
      /\ co.pc \in BeginPcs => co.next = 0
      /\ co.pc \in StepPcs => co.next < Steps
      /\ Steps \in Nat \ {0}
  BY RestoreAssumption DEF RestoreTypes
<1>b. co.pc # "free" => co \in RestoreCoordinators /\ co.next \in Nat
  BY <1>a DEF FreeCoordinator, RestoreCoordinators
<1>c. FreeCoordinator.pc = "free"
  BY DEF FreeCoordinator
<1>1. CASE UNCHANGED <<co, opened, closed, verified, wire, journal>>
  BY <1>1 DEF PermitInv
<1>2. ASSUME co'.pc \notin OpenPcs, UNCHANGED <<opened, verified, wire>>,
             closed' = closed \/ (co.pc \in OpenPcs /\ closed' = closed \cup {co.plan})
      PROVE  PermitInv'
  BY <1>2 DEF PermitInv
<1>3. ASSUME co.pc \in OpenPcs, co'.plan = co.plan, co'.next = co.next,
             co'.pc \in OpenPcs \ {"answer", "send"},
             co'.pc \in StepPcs => co.pc \in StepPcs \ {"answer"},
             UNCHANGED <<opened, closed, verified, wire>>
      PROVE  PermitInv'
  BY <1>3 DEF PermitInv
<1>4. CASE AcquireRestore \/ Preparing
  <2>1. co'.pc \notin OpenPcs
    <3>1. CASE AcquireRestore
      BY <3>1 DEF AcquireRestore, Holding
    <3>2. CASE PrepareRestoreGuard
      BY <1>b, <3>2 DEF PrepareRestoreGuard, RestoreCoordinators
    <3>3. CASE PrepareRestoreFails \/ PrepareRestoreStore
      BY <1>c, <3>3 DEF PrepareRestoreFails, PrepareRestoreStore, Return
    <3> QED BY <1>4, <3>1, <3>2, <3>3 DEF Preparing
  <2> QED BY <1>2, <1>4, <2>1 DEF AcquireRestore, Preparing, PrepareRestoreGuard,
             PrepareRestoreFails, PrepareRestoreStore, restoreHistory
<1>5. CASE ReadRestoreProjection \/ RestoreReads
  <2>1. co \in RestoreCoordinators /\ UNCHANGED <<opened, closed, verified, wire>>
    BY <1>5, <1>b DEF ReadRestoreProjection, RestoreReads, Local, restoreHistory
  <2>2. \/ co'.pc \notin OpenPcs
        \/ /\ co.pc \in OpenPcs /\ co'.plan = co.plan /\ co'.next = co.next
           /\ co'.pc \in OpenPcs \ {"answer", "send"}
           /\ co'.pc \in StepPcs => co.pc \in StepPcs \ {"answer"}
    BY <1>5, <2>1 DEF ReadRestoreProjection, RestoreReads, SeeAndGoto, RestoreCoordinators
  <2> QED BY <1>2, <1>3, <2>1, <2>2
<1>6. CASE Beginning
  <2>1. CASE BeginGuard \/ BeginCheck \/ BeginRejected \/ AuditBeginFails
    BY <1>b, <1>c, <1>2, <2>1 DEF BeginGuard, BeginCheck, BeginRejected, AuditBeginFails,
       Return, Goto, Local, restoreHistory, RestoreCoordinators
  <2>2. CASE AuditBegin
    <3>1. /\ co \in RestoreCoordinators /\ co.pc = "audit_begin" /\ co.next = 0
          /\ opened' = opened \cup {co.plan} /\ UNCHANGED <<closed, verified, wire, journal>>
      BY <1>a, <1>b, <2>2 DEF AuditBegin, BeginPcs
    <3>2. co'.pc = "claim" /\ co'.plan = co.plan /\ co'.next = 0
      BY <2>2, <3>1 DEF AuditBegin, SeeAndGoto, RestoreCoordinators
    <3>3. co.plan \in RestorePlans /\ Lies("co", co.plan)
      BY <3>1 DEF RestoreCoordinators, Lies, BeginPcs
    <3>4. co.plan \notin opened
      <4>1. ~Lies("opened", co.plan)
        BY <3>3 DEF WayInv, OnePlace, Places
      <4> QED BY <4>1 DEF Lies
    <3>5. \A w \in wire : w[1] \in opened
      BY DEF PermitInv
    <3>6. Of(wire, co.plan) = {} /\ Of(verified, co.plan) = {}
      BY <3>4, <3>5 DEF Of, PermitInv
    <3>7. StepsOf(co.plan, 0) = {}
      BY DEF StepsOf
    <3>8. co.plan \in opened' \ closed' /\ closed' \subseteq opened'
          /\ verified' \subseteq wire'
      BY <3>1, <3>4 DEF PermitInv
    <3>9. wire' \subseteq opened' \X (0 .. Steps - 1)
      BY <3>1 DEF PermitInv
    <3> QED BY <3>1, <3>2, <3>6, <3>7, <3>8, <3>9 DEF PermitInv
  <2>3. CASE Claim
    <3>1. /\ co \in RestoreCoordinators /\ co.pc = "claim"
          /\ UNCHANGED <<opened, verified, wire>>
      BY <1>b, <2>3 DEF Claim
    <3>2. CASE Goto("step_before") /\ UNCHANGED closed
      BY <1>3, <3>1, <3>2 DEF Goto, RestoreCoordinators
    <3>3. CASE Goto("degrade")
      BY <1>2, <2>3, <3>1, <3>3 DEF Claim, Goto, RestoreCoordinators
    <3> QED BY <2>3, <3>2, <3>3 DEF Claim
  <2> QED BY <1>6, <2>1, <2>2, <2>3 DEF Beginning
<1>7. CASE Stepping
  <2>a. co \in RestoreCoordinators /\ co.next \in Nat /\ UNCHANGED <<opened, closed>>
    BY <1>7, <1>b DEF Stepping, StepMatch, StepFails, StepPrepare, StepPrepareFails, SendStep,
       StepRefused, StepVerified, StepNotVerified, Local, restoreHistory
  <2>1. CASE StepMatch \/ StepFails \/ StepPrepareFails \/ StepRefused \/ StepNotVerified
    <3>1. UNCHANGED <<verified, wire>>
      BY <2>1 DEF StepMatch, StepFails, StepPrepareFails, StepRefused, StepNotVerified, Local,
         restoreHistory
    <3>2. /\ co.pc \in OpenPcs /\ co'.plan = co.plan /\ co'.next = co.next
          /\ co'.pc \in OpenPcs \ {"answer", "send"}
          /\ co'.pc \in StepPcs => co.pc \in StepPcs \ {"answer"}
      BY <2>1, <2>a DEF StepMatch, StepFails, StepPrepareFails, StepRefused, StepNotVerified,
         Goto, RestoreCoordinators
    <3> QED BY <1>3, <2>a, <3>1, <3>2
  <2>2. CASE StepPrepare
    <3>1. /\ co.pc = "audit_prepare" /\ co'.pc = "send"
          /\ co'.plan = co.plan /\ co'.next = co.next
          /\ journal' = journal \cup {<<co.plan, co.next>>} /\ UNCHANGED <<verified, wire>>
      BY <2>2, <2>a DEF StepPrepare, Goto, RestoreCoordinators, restoreHistory
    <3> QED BY <2>a, <3>1 DEF PermitInv
  <2>3. CASE SendStep
    <3>1. /\ co.pc = "send" /\ co'.pc = "answer"
          /\ co'.plan = co.plan /\ co'.next = co.next
          /\ wire' = wire \cup {<<co.plan, co.next>>} /\ UNCHANGED verified
      BY <2>3, <2>a DEF SendStep, Goto, RestoreCoordinators, restoreHistory
    <3>2. Of(wire, co.plan) = StepsOf(co.plan, co.next)
      BY <3>1 DEF PermitInv
    <3>3. Of(wire', co'.plan) = StepsOf(co'.plan, co'.next + 1)
      <4>1. Of(wire \cup {<<co.plan, co.next>>}, co.plan) = StepsOf(co.plan, co.next + 1)
        <5>1. StepsOf(co.plan, co.next + 1)
                 = StepsOf(co.plan, co.next) \cup {<<co.plan, co.next>>}
          BY <2>a, OneMoreStep
        <5>2. Of(wire \cup {<<co.plan, co.next>>}, co.plan)
                 = Of(wire, co.plan) \cup {<<co.plan, co.next>>}
          BY DEF Of
        <5> QED BY <3>2, <5>1, <5>2
      <4> QED BY <3>1, <4>1
    <3>4. <<co.plan, co.next>> \in opened \X (0 .. Steps - 1)
      BY <1>a, <2>a, <3>1 DEF PermitInv
    <3> QED BY <2>a, <3>1, <3>3, <3>4 DEF PermitInv
  <2>4. CASE StepVerified
    <3>1. /\ co.pc = "answer" /\ co'.pc \in {"step_before", "finish_before", "abort"}
          /\ co'.plan = co.plan /\ co'.next = co.next + 1
          /\ verified' = verified \cup {<<co.plan, co.next>>} /\ UNCHANGED wire
      BY <2>4, <2>a DEF StepVerified, RestoreCoordinators
    <3>2. /\ Of(verified, co.plan) = StepsOf(co.plan, co.next)
          /\ Of(wire, co.plan) = StepsOf(co.plan, co.next + 1)
      BY <3>1 DEF PermitInv
    <3>3. Of(verified', co'.plan) = StepsOf(co'.plan, co'.next)
      <4>1. Of(verified \cup {<<co.plan, co.next>>}, co.plan)
               = StepsOf(co.plan, co.next + 1)
        <5>1. StepsOf(co.plan, co.next + 1)
                 = StepsOf(co.plan, co.next) \cup {<<co.plan, co.next>>}
          BY <2>a, OneMoreStep
        <5>2. Of(verified \cup {<<co.plan, co.next>>}, co.plan)
                 = Of(verified, co.plan) \cup {<<co.plan, co.next>>}
          BY DEF Of
        <5> QED BY <3>2, <5>1, <5>2
      <4> QED BY <3>1, <4>1
    <3>4. <<co.plan, co.next>> \in wire
      <4>1. <<co.plan, co.next>> \in StepsOf(co.plan, co.next + 1)
        BY <2>a DEF StepsOf
      <4> QED BY <3>2, <4>1 DEF Of
    <3> QED BY <2>a, <3>1, <3>2, <3>3, <3>4 DEF PermitInv
  <2> QED BY <1>7, <2>1, <2>2, <2>3, <2>4 DEF Stepping
<1>8. CASE Ending
  <2>1. CASE Abort \/ DisarmAfter \/ Degrade \/ FinishRestoring
    <3>1. co'.pc \notin OpenPcs
      BY <2>1, <1>b, <1>c DEF Abort, DisarmAfter, Degrade, FinishRestoring, Return, Goto,
         RestoreCoordinators
    <3>2. /\ UNCHANGED <<opened, verified, wire>>
          /\ closed' = closed \/ (co.pc \in OpenPcs /\ closed' = closed \cup {co.plan})
      BY <2>1 DEF Abort, DisarmAfter, Degrade, FinishRestoring, restoreHistory
    <3> QED BY <1>2, <3>1, <3>2
  <2>2. CASE FinishMatch
    <3>1. /\ co.pc = "finish_match" /\ co'.plan = co.plan /\ co'.next = co.next
          /\ co'.pc \in {"finish", "degrade"} /\ UNCHANGED <<opened, closed, verified, wire>>
      BY <2>2, <1>b DEF FinishMatch, Goto, Local, restoreHistory, RestoreCoordinators
    <3> QED BY <1>2, <1>3, <3>1
  <2> QED BY <1>8, <2>1, <2>2 DEF Ending
<1> QED BY <1>1, <1>4, <1>5, <1>6, <1>7, <1>8, PermitFrame DEF TaskNext

\* Only the step that is sent moves the bus history.
LEMMA OnlySendStep ==
    ASSUME RestoreTypes, [RestoreNext]_restoreVars, wire' # wire
    PROVE  SendStep
<1>1. TaskNext
  BY PermitFrame
<1>2. CASE AcquireRestore \/ ReadRestoreProjection \/ RestoreReads \/ Preparing
  BY <1>2 DEF AcquireRestore, ReadRestoreProjection, RestoreReads, Preparing,
     PrepareRestoreGuard, PrepareRestoreFails, PrepareRestoreStore, Local
<1>3. CASE Beginning
  BY <1>3 DEF Beginning, BeginGuard, BeginCheck, BeginRejected, AuditBegin, AuditBeginFails,
     Claim, Local
<1>4. CASE Stepping
  BY <1>4 DEF Stepping, StepMatch, StepFails, StepPrepare, StepPrepareFails, StepRefused,
     StepVerified, StepNotVerified, Local
<1>5. CASE Ending
  BY <1>5 DEF Ending, Abort, DisarmAfter, Degrade, FinishMatch, FinishRestoring, Local
<1> QED BY <1>1, <1>2, <1>3, <1>4, <1>5 DEF TaskNext

\* Steps go out in the order of the plan, each once and none after an unverified one,
\* and only for a plan that was confirmed and whose operation is durably open.
THEOREM RestoreStepsInOrder == RestoreSpec => StepsInOrder
<1>1. RestoreInit => WayInv /\ ConsentInv /\ PermitInv
  <2> SUFFICES ASSUME RestoreInit PROVE WayInv /\ ConsentInv /\ PermitInv
    OBVIOUS
  <2>1. ConsentInv
    BY NoPlanAtFirst DEF ConsentInv, Decided, Places
  <2>2. PermitInv
    BY DEF RestoreInit, Init, FreeCoordinator, PermitInv, OpenPcs, StepPcs
  <2> QED BY <2>1, <2>2, NoPlanAtFirst
<1>2. RestoreTypes /\ (WayInv /\ ConsentInv /\ PermitInv) /\ [RestoreNext]_restoreVars
        => (WayInv /\ ConsentInv /\ PermitInv)'
  BY WayStep, ConsentStep, PermitStep
<1>3. RestoreTypes /\ (WayInv /\ ConsentInv /\ PermitInv) /\ [RestoreNext]_restoreVars
        => [wire' # wire \/ SendStep =>
              /\ co.plan \in (confirmed \cap opened) \ closed
              /\ <<co.plan, co.next>> \in journal \ wire
              /\ {w \in wire : w[1] = co.plan} = {co.plan} \X (0 .. co.next - 1)
              /\ {w \in verified : w[1] = co.plan} = {co.plan} \X (0 .. co.next - 1)]_restoreVars
  <2> SUFFICES ASSUME RestoreTypes, ConsentInv, PermitInv, [RestoreNext]_restoreVars,
                      wire' # wire \/ SendStep
               PROVE  /\ co.plan \in (confirmed \cap opened) \ closed
                      /\ <<co.plan, co.next>> \in journal \ wire
                      /\ {w \in wire : w[1] = co.plan} = {co.plan} \X (0 .. co.next - 1)
                      /\ {w \in verified : w[1] = co.plan}
                            = {co.plan} \X (0 .. co.next - 1)
    OBVIOUS
  <2>1. co.pc = "send"
    BY OnlySendStep DEF SendStep
  <2>2. co \in RestoreCoordinators
    BY <2>1 DEF RestoreTypes, FreeCoordinator
  <2>3. co.plan \in RestorePlans /\ co.next \in Nat
    BY <2>2, RestoreAssumption DEF RestoreCoordinators
  <2>4. /\ co.plan \in opened \ closed /\ <<co.plan, co.next>> \in journal
        /\ Of(verified, co.plan) = StepsOf(co.plan, co.next)
        /\ Of(wire, co.plan) = StepsOf(co.plan, co.next)
    BY <2>1 DEF PermitInv, OpenPcs, StepPcs
  <2>5. co.plan \in confirmed
    <3>1. Lies("opened", co.plan)
      BY <2>4 DEF Lies
    <3> QED BY <2>3, <3>1 DEF ConsentInv, Decided
  <2>6. <<co.plan, co.next>> \notin wire
    <3>1. <<co.plan, co.next>> \notin StepsOf(co.plan, co.next)
      BY <2>3, OneMoreStep
    <3>2. <<co.plan, co.next>> \in wire => <<co.plan, co.next>> \in Of(wire, co.plan)
      BY DEF Of
    <3> QED BY <2>4, <3>1, <3>2
  <2> QED BY <2>4, <2>5, <2>6 DEF Of, StepsOf
<1> QED BY <1>1, <1>2, <1>3, RestoreTypesAlways, PTL DEF RestoreSpec, StepsInOrder

-----------------------------------------------------------------------------
(***************************************************************************)
(* Armed again after a restore.                                            *)
(***************************************************************************)
RestoreSyncInv ==
    /\ loop.stage # "ready" => IsActive(session) /\ loop.snap = SnapshotOf(session, revision)
    /\ projection.revision <= revision
    /\ co.seen.revision <= revision

\* The task looks at the projection, at what it saw before, or starts afresh.
LEMMA TaskSees ==
    ASSUME RestoreTypes, TaskNext
    PROVE  co'.seen \in {co.seen, projection, UnavailableSnapshot}
<1>a. co \in RestoreCoordinators \cup {FreeCoordinator}
  BY DEF RestoreTypes
<1>b. FreeCoordinator.seen = UnavailableSnapshot /\ FreeCoordinator.pc = "free"
  BY DEF FreeCoordinator
<1>1. ASSUME co.pc # "free",
             \/ \E pc : co' = [co EXCEPT !.pc = pc]
             \/ \E pc, d : co' = [co EXCEPT !.pc = pc, !.degrade = d]
             \/ \E pc, snap : co' = [co EXCEPT !.pc = pc, !.before = snap]
             \/ \E pc, n : co' = [co EXCEPT !.next = n, !.pc = pc]
             \/ \E pc, snap, plan : co' = [co EXCEPT !.pc = pc, !.before = snap, !.plan = plan]
      PROVE  co'.seen = co.seen
  BY <1>1, <1>a, <1>b DEF RestoreCoordinators
<1>2. CASE AcquireRestore
  BY <1>2 DEF AcquireRestore, Holding
<1>3. CASE ReadRestoreProjection \/ RestoreReads \/ AuditBegin
  BY <1>3, <1>a, <1>b DEF ReadRestoreProjection, RestoreReads, AuditBegin, SeeAndGoto,
     RestoreCoordinators
<1>4. ASSUME NEW reply, Return(reply) PROVE co'.seen = UnavailableSnapshot
  BY <1>4, <1>b DEF Return
<1>5. CASE Preparing
  <2>1. CASE PrepareRestoreGuard
    <3>1. co \in RestoreCoordinators
      BY <2>1, <1>a, <1>b DEF PrepareRestoreGuard
    <3> QED BY <2>1, <3>1 DEF PrepareRestoreGuard, RestoreCoordinators
  <2> QED BY <1>4, <1>5, <2>1 DEF Preparing, PrepareRestoreFails, PrepareRestoreStore
<1>6. CASE Beginning
  <2>1. CASE BeginGuard \/ BeginCheck \/ AuditBeginFails \/ Claim
    BY <1>1, <2>1 DEF BeginGuard, BeginCheck, AuditBeginFails, Claim, Goto
  <2> QED BY <1>3, <1>4, <1>6, <2>1 DEF Beginning, BeginRejected
<1>7. CASE Stepping
  <2>1. CASE StepVerified
    <3>1. co \in RestoreCoordinators
      BY <2>1, <1>a, <1>b DEF StepVerified
    <3> QED BY <2>1, <3>1 DEF StepVerified, RestoreCoordinators
  <2> QED BY <1>1, <1>7, <2>1 DEF Stepping, StepMatch, StepFails, StepPrepare,
          StepPrepareFails, SendStep, StepRefused, StepNotVerified, Goto
<1>8. CASE Ending
  BY <1>1, <1>4, <1>8 DEF Ending, Abort, DisarmAfter, Degrade, FinishMatch, FinishRestoring,
     Goto
<1> QED BY <1>2, <1>3, <1>5, <1>6, <1>7, <1>8 DEF TaskNext

\* While a sync runs, the loop holds the snapshot of the session as it is.
LEMMA RestoreSyncStep ==
    ASSUME RestoreTypes, RestoreSyncInv, [RestoreNext]_restoreVars
    PROVE  RestoreSyncInv'
<1>a. /\ revision \in Nat /\ lastSession \in Nat /\ loop \in RestoreLoops
      /\ projection \in Snapshots /\ co \in RestoreCoordinators \cup {FreeCoordinator}
  BY DEF RestoreTypes
<1>b. UnavailableSnapshot.revision = 0 /\ UnavailableSnapshot \in Snapshots
  BY DEF UnavailableSnapshot, Snapshots
<1>c. projection.revision \in Nat /\ co.seen.revision \in Nat
  BY <1>a, <1>b DEF Snapshots, RestoreCoordinators, FreeCoordinator
<1>d. ASSUME NEW s, NEW r, NEW task
      PROVE  SyncThen(s, r, task).stage # "ready" =>
               IsActive(s) /\ SyncThen(s, r, task).snap = SnapshotOf(s, r)
  BY DEF SyncThen, LoopReady
<1>1. ASSUME NEW in, RestoreDispatched(in) PROVE RestoreSyncInv'
  <2>1. PICK resets : Dispatch(in, resets)
    BY <1>1 DEF RestoreDispatched, Dispatched
  <2>2. /\ revision' = revision + 1 /\ UNCHANGED <<projection, co>>
        /\ loop' = SyncThen(session', revision', NoTask)
    BY <2>1 DEF Dispatch, fenceVars, coVars
  <2> QED BY <1>a, <1>c, <1>d, <2>2 DEF RestoreSyncInv
<1>2. CASE Syncing
  <2>1. UNCHANGED <<session, revision, co>>
    BY <1>2 DEF Syncing, SyncReconcile, SyncPublish, coVars
  <2>2. CASE SyncReconcile
    BY <1>a, <2>1, <2>2 DEF SyncReconcile, RestoreSyncInv, RestoreLoops
  <2>3. CASE SyncPublish
    BY <1>a, <2>1, <2>3 DEF SyncPublish, RestoreSyncInv, LoopReady, SnapshotOf
  <2> QED BY <1>2, <2>2, <2>3 DEF Syncing
<1>3. CASE Connecting
  BY <1>3 DEF Connecting, AttachBus, OpenFails, Identified, fenceVars, coVars, RestoreSyncInv
<1>4. CASE Restoring
  <2>1. UNCHANGED <<session, revision, projection, co>>
    BY <1>4, RestoringLeaves
  <2>2. loop' = loop \/ \E task : loop' = SyncThen(session, revision, task)
    BY <1>4 DEF Restoring, PrepareRestore, ConfirmRestore, ClearPrepared, ReceiveRestoreReply
  <2> QED BY <1>d, <2>1, <2>2 DEF RestoreSyncInv
<1>5. CASE TaskNext
  <2>1. UNCHANGED <<session, revision, loop, projection>>
    BY <1>5, TaskLeavesLoop
  <2>2. co'.seen.revision \in {co.seen.revision, projection.revision, 0}
    BY <1>5, <1>b, TaskSees
  <2> QED BY <1>a, <2>1, <2>2 DEF RestoreSyncInv
<1>6. CASE SendRestoreReply \/ UNCHANGED restoreVars
  BY <1>6 DEF SendRestoreReply, SendReply, CoFrame, restoreVars, vars, appVars, fenceVars,
     coVars, RestoreSyncInv
<1> QED BY <1>a, <1>1, <1>2, <1>3, <1>4, <1>5, <1>6, RestoreParts

\* A task that ends a restore which got as far as its operation start has disarmed.
LEMMA TaskDisarms ==
    ASSUME RestoreTypes, WayInv, TaskNext
    PROVE  /\ fence.disarm => fence'.disarm
           /\ fence'.disarm \/ (ambiguous' => ambiguous)
<1>a. fence \in Fences /\ co \in RestoreCoordinators \cup {FreeCoordinator}
  BY DEF RestoreTypes
<1>b. FreeCoordinator.pc = "free"
  BY DEF FreeCoordinator
<1>c. co.pc # "free" => co.plan \in RestorePlans
  BY <1>a, <1>b DEF RestoreCoordinators
<1>d. ASSUME NEW reply, Return(reply), co.pc \in PreparePcs \cup BeginPcs
      PROVE  ambiguous' => ambiguous
  <2>1. co.plan \in RestorePlans
    BY <1>c, <1>d DEF PreparePcs, BeginPcs
  <2>2. CASE co.pc \in PreparePcs
    <3>1. ~Lies("opened", co.plan)
      BY <2>1, <2>2 DEF WayInv, Places
    <3> QED BY <1>d, <3>1 DEF Return, Lies
  <2>3. CASE co.pc \in BeginPcs
    <3>1. Lies("co", co.plan)
      BY <2>3 DEF Lies
    <3>2. ~Lies("opened", co.plan)
      BY <2>1, <3>1 DEF WayInv, OnePlace, Places
    <3> QED BY <1>d, <3>2 DEF Return, Lies
  <2> QED BY <1>d, <2>2, <2>3
<1>e. /\ Disarm(fence).disarm /\ DegradeAuditAndDisarm(fence).disarm
      /\ \A id, r : BeginRestore(fence, id, r).disarm = fence.disarm
      /\ \A n : AdvanceRestore(fence, n).disarm = fence.disarm
      /\ FinishRestore(fence).disarm = fence.disarm
      /\ AbortRestore(fence).disarm = fence.disarm
  BY <1>a DEF Disarm, DegradeAuditAndDisarm, BeginRestore, AdvanceRestore, FinishRestore,
     AbortRestore, Fences
<1>1. CASE AcquireRestore \/ ReadRestoreProjection \/ RestoreReads
  BY <1>1 DEF AcquireRestore, ReadRestoreProjection, RestoreReads, Local
<1>2. CASE Preparing
  BY <1>2, <1>d DEF Preparing, PrepareRestoreGuard, PrepareRestoreFails,
     PrepareRestoreStore, PreparePcs
<1>3. CASE Beginning
  <2>1. CASE BeginRejected
    BY <2>1, <1>d, <1>e DEF BeginRejected, BeginPcs
  <2>2. CASE Claim
    BY <2>2, <1>e DEF Claim
  <2> QED BY <1>3, <2>1, <2>2 DEF Beginning, BeginGuard, BeginCheck, AuditBegin,
          AuditBeginFails, Local
<1>4. CASE Stepping
  <2>1. CASE StepVerified
    BY <2>1, <1>e DEF StepVerified
  <2>2. CASE StepMatch \/ StepFails \/ StepPrepare \/ StepPrepareFails \/ SendStep
             \/ StepRefused \/ StepNotVerified
    <3>1. UNCHANGED <<fence, ambiguous>>
      BY <2>2 DEF StepMatch, StepFails, StepPrepare, StepPrepareFails, SendStep,
         StepRefused, StepNotVerified, Local
    <3> QED BY <3>1
  <2> QED BY <1>4, <2>1, <2>2 DEF Stepping
<1>5. CASE Ending
  BY <1>5, <1>e DEF Ending, Abort, DisarmAfter, Degrade, FinishMatch, FinishRestoring, Local
<1> QED BY <1>1, <1>2, <1>3, <1>4, <1>5 DEF TaskNext

\* While writes may still be armed after a restore, the fence disarms them.
LEMMA RearmStep ==
    ASSUME RestoreTypes, RestoreSyncInv, WayInv, DisarmedInv, [RestoreNext]_restoreVars
    PROVE  DisarmedInv'
<1> USE DEF DisarmedInv
<1>a. fence \in Fences /\ loop \in RestoreLoops /\ lastSession \in Nat
  BY DEF RestoreTypes
<1>b. loop.stage # "ready" => loop.snap.armed = (session.authorization = "Armed")
  BY DEF RestoreSyncInv, SnapshotOf
<1>c. ASSUME NEW s, NEW r, NEW task
      PROVE  /\ SyncThen(s, r, task).stage # "publish"
             /\ SyncThen(s, r, task).stage # "ready"
                  => SyncThen(s, r, task).snap.armed = (s.authorization = "Armed")
  BY DEF SyncThen, SnapshotOf, LoopReady
<1>1. ASSUME NEW in, RestoreDispatched(in) PROVE DisarmedInv'
  <2>1. /\ UNCHANGED <<projection, fence>> /\ loop.stage = "ready"
        /\ loop' = SyncThen(session', revision', NoTask)
        /\ ambiguous' = (ambiguous /\ ~(session.authorization # "Armed"
                                         /\ session'.authorization = "Armed"))
    BY <1>1 DEF RestoreDispatched, Dispatched, Dispatch, CanDispatch, fenceVars
  <2> QED BY <2>1, <1>c
<1>2. CASE Syncing
  <2>1. CASE SyncReconcile
    <3>1. UNCHANGED <<session, ambiguous>> /\ loop'.stage = "publish"
          /\ loop'.snap = loop.snap /\ loop.stage # "ready"
      BY <2>1, <1>a DEF SyncReconcile, RestoreLoops, history
    <3>2. fence'.disarm = (fence.disarm /\ loop.snap.armed)
      BY <2>1 DEF SyncReconcile, Reconcile
    <3> QED BY <1>b, <3>1, <3>2
  <2>2. CASE SyncPublish
    BY <2>2 DEF SyncPublish, LoopReady, history
  <2> QED BY <1>2, <2>1, <2>2 DEF Syncing
<1>3. CASE Connecting
  BY <1>3 DEF Connecting, AttachBus, OpenFails, Identified, fenceVars, history
<1>4. CASE Restoring
  <2>1. UNCHANGED <<session, projection, fence, ambiguous>> /\ loop.stage = "ready"
    BY <1>4, RestoringLeaves
  <2>2. loop' = loop \/ \E task : loop' = SyncThen(session, revision, task)
    BY <1>4 DEF Restoring, PrepareRestore, ConfirmRestore, ClearPrepared, ReceiveRestoreReply
  <2> QED BY <1>c, <2>1, <2>2
<1>5. CASE TaskNext
  <2>1. UNCHANGED <<session, loop, projection>>
    BY <1>5, TaskLeavesLoop
  <2> QED BY <1>5, <2>1, TaskDisarms
<1>6. CASE SendRestoreReply \/ UNCHANGED restoreVars
  BY <1>6 DEF SendRestoreReply, SendReply, CoFrame, restoreVars, vars, appVars, fenceVars,
     history
<1> QED BY <1>a, <1>1, <1>2, <1>3, <1>4, <1>5, <1>6, RestoreParts

\* From the operation start of a restore, completed or not, until the operator arms again,
\* whoever takes a snapshot finds writes disarmed, by the fence or by the application:
\* except between the two locks of the very sync that withdraws the capability.
THEOREM ArmedAgainAfterRestore == RestoreSpec => []RearmAfterRestore
<1>1. RestoreInit => RestoreSyncInv /\ WayInv /\ DisarmedInv
  <2>1. RestoreInit => RestoreSyncInv
    BY DEF RestoreInit, Init, RestoreSyncInv, LoopReady, UnavailableSnapshot,
       FreeCoordinator
  <2>2. RestoreInit => DisarmedInv
    BY DEF RestoreInit, Init, DisarmedInv
  <2> QED BY <2>1, <2>2, NoPlanAtFirst
<1>2. RestoreTypes /\ (RestoreSyncInv /\ WayInv /\ DisarmedInv) /\ [RestoreNext]_restoreVars
        => (RestoreSyncInv /\ WayInv /\ DisarmedInv)'
  BY RestoreSyncStep, WayStep, RearmStep
<1>3. RestoreTypes /\ (RestoreSyncInv /\ WayInv /\ DisarmedInv) => RearmAfterRestore
  <2> SUFFICES ASSUME RestoreTypes, DisarmedInv, ambiguous,
                      ~(loop.stage = "publish" /\ ~loop.snap.armed)
               PROVE  ~Writable(Overlay(projection, fence))
    BY DEF RearmAfterRestore
  <2>1. CASE fence.disarm
    BY <2>1 DEF Writable, Overlay, RestoreTypes, Snapshots
  <2>2. CASE ~fence.disarm
    <3>1. loop.stage # "publish"
      BY <2>2 DEF DisarmedInv
    <3>2. ~projection.armed
      BY <2>2, <3>1 DEF DisarmedInv
    <3> QED BY <3>2 DEF Writable, Overlay, RestoreTypes, Snapshots
  <2> QED BY <2>1, <2>2
<1> QED BY <1>1, <1>2, <1>3, RestoreTypesAlways, PTL DEF RestoreSpec

-----------------------------------------------------------------------------
(***************************************************************************)
(* The operation of the fence.  From the moment a task claims the fence to *)
(* the moment it ends the operation there, an operation that runs is its   *)
(* own, so neither the abort nor the finish can be refused for another's.  *)
(***************************************************************************)
OwnPcs == OpenPcs \ {"claim"}

OwnInv ==
    Running(fence) =>
        /\ fence.operation.started <= revision
        /\ co.pc \in OwnPcs =>
              fence.operation.kind = "Restore" /\ fence.operation.id = co.plan.operation

EndsOperation == Claim \/ StepVerified \/ Abort \/ Degrade \/ FinishRestoring

\* Whatever advances or ends an operation keeps what identifies it.
LEMMA RestoreFenceKeeps ==
    ASSUME NEW f \in Fences
    PROVE  /\ \A n : \A g \in {AdvanceRestore(f, n), FinishRestore(f), AbortRestore(f),
                               DegradeAuditAndDisarm(f)} :
                 /\ g.operation.kind = f.operation.kind
                 /\ g.operation.id = f.operation.id
                 /\ g.operation.started = f.operation.started
           /\ FinishRestore(f).operation.finished
           /\ \A g \in {AbortRestore(f), DegradeAuditAndDisarm(f)} :
                 (Running(g) => Running(f)) /\ (Running(f) => g.operation.finished)
           /\ Disarm(f).operation = f.operation
<1>1. f.operation \in FenceOperations
  BY DEF Fences
<1>2. \A n : AdvanceRestore(f, n).operation = [f.operation EXCEPT !.next = n]
  BY <1>1 DEF AdvanceRestore, Fences
<1>3. FinishRestore(f).operation = [f.operation EXCEPT !.finished = TRUE]
  BY <1>1 DEF FinishRestore, Fences
<1>4. /\ AbortRestore(f).operation = [f.operation EXCEPT !.finished = @ \/ Running(f)]
      /\ DegradeAuditAndDisarm(f).operation
            = [f.operation EXCEPT !.finished = @ \/ Running(f)]
  BY <1>1 DEF AbortRestore, DegradeAuditAndDisarm, Fences
<1>5. \A n : \A g \in {AdvanceRestore(f, n), FinishRestore(f), AbortRestore(f),
                       DegradeAuditAndDisarm(f)} :
         /\ g.operation.kind = f.operation.kind
         /\ g.operation.id = f.operation.id
         /\ g.operation.started = f.operation.started
  <2>1. ASSUME NEW g, \/ \E n : g.operation = [f.operation EXCEPT !.next = n]
                      \/ \E b : g.operation = [f.operation EXCEPT !.finished = b]
        PROVE  /\ g.operation.kind = f.operation.kind
               /\ g.operation.id = f.operation.id
               /\ g.operation.started = f.operation.started
    BY <1>1, <2>1 DEF FenceOperations
  <2>2. /\ AbortRestore(f).operation
              = [f.operation EXCEPT !.finished = f.operation.finished \/ Running(f)]
        /\ DegradeAuditAndDisarm(f).operation
              = [f.operation EXCEPT !.finished = f.operation.finished \/ Running(f)]
    BY <1>1, <1>4 DEF FenceOperations
  <2> DEFINE Keeps(g) == /\ g.operation.kind = f.operation.kind
                         /\ g.operation.id = f.operation.id
                         /\ g.operation.started = f.operation.started
  <2>3. \A n : Keeps(AdvanceRestore(f, n))
    BY <1>2, <2>1
  <2>4. Keeps(FinishRestore(f))
    BY <1>3, <2>1
  <2>5. Keeps(AbortRestore(f)) /\ Keeps(DegradeAuditAndDisarm(f))
    BY <2>1, <2>2
  <2> QED BY <2>3, <2>4, <2>5
<1>6. FinishRestore(f).operation.finished
  BY <1>1, <1>3 DEF FenceOperations
<1>7. Running(f) => /\ AbortRestore(f).operation.finished
                    /\ DegradeAuditAndDisarm(f).operation.finished
  BY <1>1, <1>4 DEF FenceOperations
<1>8. ASSUME ~Running(f)
      PROVE  ~Running(AbortRestore(f)) /\ ~Running(DegradeAuditAndDisarm(f))
  <2>1. f.operation = NoFenceOperation
    BY <1>8 DEF Running
  <2>2. [f.operation EXCEPT !.finished = @ \/ Running(f)] = f.operation
    BY <1>1, <1>8, <2>1 DEF FenceOperations, NoFenceOperation
  <2> QED BY <1>4, <2>1, <2>2 DEF Running
<1>9. Disarm(f).operation = f.operation
  BY DEF Disarm, Fences
<1> QED BY <1>5, <1>6, <1>7, <1>8, <1>9

\* Only the task, and the sync, move the fence.
LEMMA RestoreFenceSteps ==
    ASSUME RestoreTypes, [RestoreNext]_restoreVars, ~TaskNext
    PROVE  /\ \/ fence' = fence
              \/ SyncReconcile /\ (Running(fence') => fence'.operation = fence.operation)
           /\ revision' \in {revision, revision + 1}
<1>a. lastSession \in Nat
  BY DEF RestoreTypes
<1>1. ASSUME NEW in, RestoreDispatched(in)
      PROVE  fence' = fence /\ revision' = revision + 1
  BY <1>1 DEF RestoreDispatched, Dispatched, Dispatch, fenceVars
<1>2. CASE Syncing
  BY <1>2 DEF Syncing, SyncReconcile, SyncPublish, Reconcile, Running
<1>3. CASE Connecting
  BY <1>3 DEF Connecting, AttachBus, OpenFails, Identified, fenceVars
<1>4. CASE Restoring
  BY <1>4, RestoringLeaves
<1>5. CASE SendRestoreReply \/ UNCHANGED restoreVars
  BY <1>5 DEF SendRestoreReply, SendReply, CoFrame, restoreVars, vars, appVars, fenceVars
<1> QED BY <1>a, <1>1, <1>2, <1>3, <1>4, <1>5, RestoreParts

\* A step of the task that neither begins, advances nor ends an operation leaves it to
\* the task that runs it.
LEMMA TaskHolds ==
    ASSUME RestoreTypes, TaskNext, ~EndsOperation
    PROVE  /\ fence'.operation = fence.operation
           /\ co'.pc \in OwnPcs => co.pc \in OwnPcs /\ co'.plan = co.plan
           /\ co.pc \in OwnPcs \cup {"degrade"} => co'.pc \in OwnPcs \cup {"degrade"}
<1> USE DEF OwnPcs, OpenPcs, StepPcs
<1>a. fence \in Fences /\ co \in RestoreCoordinators \cup {FreeCoordinator}
  BY DEF RestoreTypes
<1>b. FreeCoordinator.pc = "free"
  BY DEF FreeCoordinator
<1>c. co.pc # "free" => co \in RestoreCoordinators
  BY <1>a, <1>b
<1>d. Disarm(fence).operation = fence.operation
  BY <1>a, RestoreFenceKeeps
<1>1. CASE AcquireRestore
  BY <1>1 DEF AcquireRestore, Holding
<1>2. CASE ReadRestoreProjection \/ RestoreReads
  <2>1. co \in RestoreCoordinators /\ fence' = fence
    BY <1>2, <1>c DEF ReadRestoreProjection, RestoreReads, Local
  <2> QED BY <1>2, <2>1 DEF ReadRestoreProjection, RestoreReads, SeeAndGoto,
             RestoreCoordinators
<1>3. CASE Preparing
  <2>1. CASE PrepareRestoreGuard
    <3>1. co \in RestoreCoordinators /\ fence' = fence
      BY <2>1, <1>c DEF PrepareRestoreGuard
    <3> QED BY <2>1, <3>1 DEF PrepareRestoreGuard, RestoreCoordinators
  <2> QED BY <1>3, <1>b, <2>1 DEF Preparing, PrepareRestoreFails, PrepareRestoreStore, Return
<1>4. CASE Beginning
  <2>1. CASE BeginRejected
    BY <2>1, <1>b, <1>d DEF BeginRejected, Return
  <2>2. CASE BeginGuard \/ BeginCheck \/ AuditBegin \/ AuditBeginFails
    <3>1. co \in RestoreCoordinators /\ fence' = fence
      BY <2>2, <1>c DEF BeginGuard, BeginCheck, AuditBegin, AuditBeginFails, Local
    <3> QED BY <2>2, <3>1 DEF BeginGuard, BeginCheck, AuditBegin, AuditBeginFails, Goto,
               SeeAndGoto, RestoreCoordinators
  <2> QED BY <1>4, <2>1, <2>2 DEF Beginning, EndsOperation
<1>5. CASE Stepping
  <2>1. StepMatch \/ StepFails \/ StepPrepare \/ StepPrepareFails \/ SendStep
           \/ StepRefused \/ StepNotVerified
    BY <1>5 DEF Stepping, EndsOperation
  <2>2. co \in RestoreCoordinators /\ fence' = fence
    BY <2>1, <1>c DEF StepMatch, StepFails, StepPrepare, StepPrepareFails, SendStep,
       StepRefused, StepNotVerified, Local
  <2> QED BY <2>1, <2>2 DEF StepMatch, StepFails, StepPrepare, StepPrepareFails, SendStep,
             StepRefused, StepNotVerified, Goto, RestoreCoordinators
<1>6. CASE Ending
  <2>1. CASE DisarmAfter
    <3>1. co \in RestoreCoordinators /\ fence'.operation = fence.operation
      BY <2>1, <1>c, <1>d DEF DisarmAfter
    <3> QED BY <2>1, <1>b, <3>1 DEF DisarmAfter, Goto, Return, RestoreCoordinators
  <2>2. CASE FinishMatch
    <3>1. co \in RestoreCoordinators /\ fence' = fence
      BY <2>2, <1>c DEF FinishMatch, Local
    <3> QED BY <2>2, <3>1 DEF FinishMatch, Goto, RestoreCoordinators
  <2> QED BY <1>6, <2>1, <2>2 DEF Ending, EndsOperation
<1> QED BY <1>1, <1>2, <1>3, <1>4, <1>5, <1>6 DEF TaskNext

\* An operation that runs while its task is at work is that task's.
LEMMA OwnStep ==
    ASSUME RestoreTypes, RestoreSyncInv, OwnInv, [RestoreNext]_restoreVars
    PROVE  OwnInv'
<1> USE DEF OwnInv
<1>a. /\ fence \in Fences /\ revision \in Nat
      /\ co \in RestoreCoordinators \cup {FreeCoordinator}
  BY DEF RestoreTypes
<1>b. FreeCoordinator.pc = "free"
  BY DEF FreeCoordinator
<1>c. co.pc # "free" => co \in RestoreCoordinators
  BY <1>a, <1>b
<1>d. fence.operation.started \in Nat
  BY <1>a DEF Fences, FenceOperations
<1>1. CASE ~TaskNext
  <2>1. UNCHANGED co /\ revision' \in {revision, revision + 1}
    BY <1>1, PermitFrame, RestoreFenceSteps
  <2>2. Running(fence') => fence'.operation = fence.operation /\ Running(fence)
    BY <1>1, RestoreFenceSteps DEF Running
  <2> QED BY <1>a, <1>d, <2>1, <2>2
<1>2. CASE TaskNext /\ ~EndsOperation
  <2>1. revision' = revision
    BY <1>2, TaskLeavesLoop
  <2>2. Running(fence') => Running(fence)
    BY <1>2, TaskHolds DEF Running
  <2> QED BY <1>2, <2>1, <2>2, TaskHolds
<1>3. ASSUME revision' = revision, Running(fence') => Running(fence),
             fence'.operation.started = fence.operation.started,
             fence'.operation.kind = fence.operation.kind,
             fence'.operation.id = fence.operation.id,
             co'.pc \in OwnPcs => co.pc \in OwnPcs /\ co'.plan = co.plan
      PROVE  OwnInv'
  BY <1>3
<1>4. CASE TaskNext /\ EndsOperation
  <2>a. revision' = revision /\ co \in RestoreCoordinators
    BY <1>4, <1>c, TaskLeavesLoop DEF EndsOperation, Claim, StepVerified, Abort, Degrade,
       FinishRestoring
  <2>1. CASE Claim
    <3>1. CASE ~CanBegin(co.seen, fence)
      <4>1. fence' = fence /\ co'.pc = "degrade"
        BY <2>1, <2>a, <3>1 DEF Claim, Goto, RestoreCoordinators
      <4> QED BY <2>a, <4>1 DEF OwnPcs, OpenPcs, StepPcs
    <3>2. CASE fence' = BeginRestore(fence, co.plan.operation, co.seen.revision)
               /\ Goto("step_before")
      <4>1. /\ fence'.operation.kind = "Restore"
            /\ fence'.operation.id = co.plan.operation
            /\ fence'.operation.started = co.seen.revision
        BY <3>2, <1>a DEF BeginRestore, Fences
      <4>2. co'.plan = co.plan
        BY <3>2, <2>a DEF Goto, RestoreCoordinators
      <4> QED BY <2>a, <4>1, <4>2 DEF RestoreSyncInv
    <3> QED BY <2>1, <3>1, <3>2 DEF Claim
  <2>2. CASE StepVerified
    <3>1. /\ co.pc = "answer" /\ co'.plan = co.plan
          /\ co'.pc \in {"step_before", "finish_before", "abort"}
      BY <2>2, <2>a DEF StepVerified, RestoreCoordinators
    <3>2. co.pc \in OwnPcs
      BY <3>1 DEF OwnPcs, OpenPcs, StepPcs
    <3>3. CASE fence' = fence
      BY <1>3, <2>a, <3>1, <3>2, <3>3
    <3>4. CASE fence' = AdvanceRestore(fence, co.next + 1)
               /\ fence.operation.kind = "Restore"
      <4>1. Running(fence)
        BY <3>4 DEF Running, NoFenceOperation
      <4> QED BY <1>3, <1>a, <2>a, <3>1, <3>2, <3>4, <4>1, RestoreFenceKeeps
    <3> QED BY <2>2, <3>3, <3>4 DEF StepVerified, CanAdvanceRestore
  <2>3. CASE Abort \/ Degrade \/ FinishRestoring
    <3>1. co'.pc \notin OwnPcs
      BY <2>3, <2>a, <1>b DEF Abort, Degrade, FinishRestoring, Goto, Return,
         RestoreCoordinators, OwnPcs, OpenPcs, StepPcs
    <3>2. \/ fence' = fence \/ fence' = AbortRestore(fence)
          \/ fence' = DegradeAuditAndDisarm(fence)
          \/ fence' = FinishRestore(fence) /\ fence.operation.kind = "Restore"
      BY <2>3 DEF Abort, Degrade, FinishRestoring, CanFinishRestore
    <3>3. fence.operation.kind = "Restore" => Running(fence)
      BY DEF Running, NoFenceOperation
    <3>4. CASE fence' = fence
      BY <1>3, <2>a, <3>1, <3>4
    <3>5. CASE fence' = AbortRestore(fence) \/ fence' = DegradeAuditAndDisarm(fence)
      BY <1>3, <1>a, <2>a, <3>1, <3>5, RestoreFenceKeeps
    <3>6. CASE fence' = FinishRestore(fence) /\ fence.operation.kind = "Restore"
      BY <1>3, <1>a, <2>a, <3>1, <3>3, <3>6, RestoreFenceKeeps
    <3> QED BY <3>2, <3>4, <3>5, <3>6
  <2> QED BY <1>4, <2>1, <2>2, <2>3 DEF EndsOperation
<1> QED BY <1>1, <1>2, <1>4

-----------------------------------------------------------------------------
(***************************************************************************)
(* A restore settles.  What takes a finished restore out of the fence: the *)
(* message that ends it in the session, or the sync of a later session     *)
(* that is idle; while no session is Active, the sync of the next one.     *)
(***************************************************************************)
Ends(m) ==
    m \in {Input("RestoreFinished"), Input("RestoreAborted"), Input("AuditPersistenceFailed")}

RestoreSettling ==
    \/ ~IsActive(session)
    \/ \E i \in DOMAIN inbox : Ends(inbox[i])
    \/ /\ loop.stage = "reconcile"
       /\ loop.snap.idle
       /\ loop.snap.revision > fence.operation.started

SettleInv ==
    Running(fence) /\ co.pc \notin OwnPcs \cup {"degrade"}
        => fence.operation.finished /\ RestoreSettling

Restores(s) == s.operation = Idle \/ s.operation.kind = "Restore"

RestoreOnlyInv ==
    /\ \A i \in DOMAIN inbox : inbox[i].type # "WriteConfirmed"
    /\ Restores(session)

\* A session that does not write starts a write only by WriteConfirmed.
LEMMA ReduceKeepsRestore ==
    ASSUME NEW s \in Sessions, NEW in \in Inputs \cup {NoInput},
           Restores(s), in.type # "WriteConfirmed"
    PROVE  Restores(Reduce(s, in))
<1>1. CASE in.type = "RestoreAdvanced"
  <2>1. CASE s.operation.kind = "Restore" /\ IsActive(s)
    <3>1. Reduce(s, in) = [s EXCEPT !.operation.next = in.next]
      BY <1>1, <2>1 DEF Reduce
    <3>2. Reduce(s, in).operation = [s.operation EXCEPT !.next = in.next]
      BY <3>1 DEF Sessions
    <3>3. s.operation \in Operations
      BY DEF Sessions
    <3> QED BY <2>1, <3>2, <3>3 DEF Restores, Operations
  <2>2. CASE ~(s.operation.kind = "Restore" /\ IsActive(s))
    BY <1>1, <2>2 DEF Reduce
  <2> QED BY <2>1, <2>2
<1>2. CASE in.type # "RestoreAdvanced"
  <2>1. Reduce(s, in).operation \in {s.operation, Idle} \cup {Restore(n, 0) : n \in Nat}
    <3>1. CASE in.type = "RestoreStarted"
      <4>1. in.id \in Nat
        BY <3>1 DEF Inputs, PlainInputs, IdentificationInputs, TimedInputs,
           OperationInputs, NoInput, Input
      <4> QED BY <3>1, <4>1 DEF Reduce, Sessions
    <3>2. CASE in.type # "RestoreStarted"
      BY <1>2, <3>2 DEF Reduce, NewSession, Inactive, ActiveSession, TransportLost,
         ReconnectFailed, WriteFinished, Sessions
    <3> QED BY <3>1, <3>2
  <2> QED BY <2>1 DEF Restores, Restore
<1> QED BY <1>1, <1>2

\* The end of a restore and a failed audit leave the session idle.
LEMMA ReduceEnds ==
    ASSUME NEW s \in Sessions, NEW in \in Inputs \cup {NoInput}, Restores(s),
           in.type \in {"RestoreFinished", "RestoreAborted", "AuditPersistenceFailed"},
           IsActive(Reduce(s, in))
    PROVE  Reduce(s, in).operation = Idle
BY DEF Reduce, IsActive, Sessions, Restores

\* Without a manual write no session of the restore writes anything else.
LEMMA RestoreOnlyStep ==
    ASSUME RestoreTypes, RestoreOnlyInv, [RestoreNext]_restoreVars
    PROVE  RestoreOnlyInv'
<1>a. /\ inbox \in Seq(Inputs \cup RestoreReplies) /\ session \in Sessions
      /\ replies \subseteq RestoreReplies /\ lastSession \in Nat
  BY DEF RestoreTypes
<1>1. \A i \in DOMAIN inbox' : inbox'[i].type # "WriteConfirmed"
  <2>1. CASE inbox' = inbox
    BY <2>1 DEF RestoreOnlyInv
  <2>2. CASE inbox # <<>> /\ inbox' = Tail(inbox)
    BY <2>2, <1>a, TailShifts DEF RestoreOnlyInv
  <2>3. ASSUME NEW m \in Inputs \cup RestoreReplies, m.type # "WriteConfirmed", Arrives(m)
        PROVE  \A i \in DOMAIN inbox' : inbox'[i].type # "WriteConfirmed"
    <3>1. \A i \in DOMAIN inbox' : i \in DOMAIN inbox \/ i = Len(inbox) + 1
      BY <2>3, <1>a DEF Arrives
    <3>2. /\ \A i \in DOMAIN inbox : inbox'[i] = inbox[i]
          /\ inbox'[Len(inbox) + 1] = m
      BY <2>3, <1>a, AppendKeeps DEF Arrives
    <3> QED BY <2>3, <3>1, <3>2 DEF RestoreOnlyInv
  <2>4. \A reply \in replies : reply.type # "WriteConfirmed"
    BY <1>a DEF RestoreReplies
  <2> QED BY <1>a, <2>1, <2>2, <2>3, <2>4, RestoreInboxSteps
<1>2. Restores(session')
  <2>1. CASE session' = session
    BY <2>1 DEF RestoreOnlyInv
  <2>2. ASSUME NEW in \in Inputs \cup {NoInput}, RestoreDispatched(in)
        PROVE  Restores(session')
    <3>1. session' = Reduce(session, in) /\ Dispatched(in)
      BY <2>2 DEF RestoreDispatched, Dispatched, Dispatch
    <3>2. in.type # "WriteConfirmed"
      <4>1. CASE in.type \in UserInputs
        BY <4>1 DEF UserInputs
      <4>2. CASE inbox # <<>> /\ in.type = Head(inbox).type
        BY <4>2, <1>a, TailShifts DEF RestoreOnlyInv
      <4> QED BY <3>1, <4>1, <4>2 DEF Dispatched
    <3> QED BY <3>1, <3>2, <1>a, ReduceKeepsRestore DEF RestoreOnlyInv
  <2>3. CASE Syncing \/ Connecting
    BY <2>1, <2>3 DEF Syncing, SyncReconcile, SyncPublish, Connecting, AttachBus, OpenFails,
       Identified
  <2>4. CASE Restoring \/ TaskNext \/ SendRestoreReply
    BY <2>1, <2>4, RestoringLeaves, TaskLeavesLoop
  <2>5. CASE UNCHANGED restoreVars
    BY <2>1, <2>5 DEF restoreVars, vars, appVars
  <2> QED BY <1>a, <2>2, <2>3, <2>4, <2>5, RestoreParts
<1> QED BY <1>1, <1>2 DEF RestoreOnlyInv, Restores

\* What settles a finished restore stays on its way until it has done so.
LEMMA RestoreSettlingStays ==
    ASSUME RestoreTypes, RestoreOnlyInv, [RestoreNext]_restoreVars, Running(fence),
           fence.operation.finished, fence.operation.started <= revision, RestoreSettling,
           fence'.operation = fence.operation
    PROVE  RestoreSettling'
<1> USE DEF RestoreSettling
<1>a. /\ inbox \in Seq(Inputs \cup RestoreReplies) /\ session \in Sessions
      /\ revision \in Nat /\ fence \in Fences /\ loop \in RestoreLoops
      /\ replies \subseteq RestoreReplies /\ lastSession \in Nat
  BY DEF RestoreTypes
<1>b. ASSUME NEW in \in Inputs \cup {NoInput}, RestoreDispatched(in),
             IsActive(session'), session'.operation = Idle
      PROVE  RestoreSettling'
  <2>1. revision' = revision + 1 /\ loop' = SyncThen(session', revision', NoTask)
    BY <1>b DEF RestoreDispatched, Dispatched, Dispatch
  <2>2. fence.operation.started \in Nat
    BY <1>a DEF Fences, FenceOperations
  <2>3. /\ loop'.stage = "reconcile" /\ loop'.snap.idle
        /\ loop'.snap.revision = revision + 1
    BY <1>b, <2>1 DEF SyncThen, SnapshotOf
  <2>4. revision + 1 > fence'.operation.started
    BY <1>a, <2>2
  <2> QED BY <2>3, <2>4
<1>c. ASSUME NEW i \in DOMAIN inbox, Ends(inbox[i]),
             inbox' = inbox \/ (\E m : Arrives(m) /\ m \in Inputs \cup RestoreReplies)
      PROVE  RestoreSettling'
  BY <1>a, <1>c, AppendKeeps DEF Arrives
<1>d. ASSUME NEW i \in DOMAIN inbox, Ends(inbox[i]), i # 1,
             inbox # <<>>, inbox' = Tail(inbox)
      PROVE  RestoreSettling'
  BY <1>a, <1>d, TailShifts
<1>1. ASSUME NEW in \in Inputs \cup {NoInput}, RestoreDispatched(in)
      PROVE  RestoreSettling'
  <2>1. session' = Reduce(session, in) /\ loop.stage = "ready" /\ Dispatched(in)
    BY <1>1 DEF RestoreDispatched, Dispatched, Dispatch, CanDispatch
  <2>2. CASE ~IsActive(session)
    BY <1>a, <1>b, <1>1, <2>1, <2>2, ReduceActivates
  <2>3. ASSUME NEW i \in DOMAIN inbox, Ends(inbox[i]) PROVE RestoreSettling'
    <3>1. CASE inbox' = inbox
      BY <1>c, <2>3, <3>1
    <3>2. CASE inbox # <<>> /\ inbox' = Tail(inbox) /\ in.type = Head(inbox).type
      <4>1. CASE i # 1
        BY <1>d, <2>3, <3>2, <4>1
      <4>2. CASE i = 1
        <5>1. in.type \in {"RestoreFinished", "RestoreAborted", "AuditPersistenceFailed"}
          <6>1. Ends(Head(inbox))
            BY <1>a, <2>3, <3>2, <4>2, TailShifts
          <6> QED BY <3>2, <6>1 DEF Ends, Input
        <5> QED BY <1>a, <1>b, <1>1, <2>1, <5>1, ReduceEnds DEF RestoreOnlyInv
      <4> QED BY <4>1, <4>2
    <3> QED BY <2>1, <3>1, <3>2 DEF Dispatched
  <2> QED BY <2>1, <2>2, <2>3
<1>2. CASE Restoring
  <2>1. session' = session /\ loop.stage = "ready"
    BY <1>2, RestoringLeaves
  <2>2. \/ inbox' = inbox
        \/ inbox # <<>> /\ inbox' = Tail(inbox) /\ Head(inbox) \in RestoreReplies
    BY <1>2 DEF Restoring, PrepareRestore, ConfirmRestore, ClearPrepared,
       ReceiveRestoreReply
  <2>3. \A m \in RestoreReplies : ~Ends(m)
    BY DEF RestoreReplies, Ends, Input
  <2>4. ASSUME NEW i \in DOMAIN inbox, Ends(inbox[i]) PROVE RestoreSettling'
    <3>1. CASE inbox' = inbox
      BY <1>c, <2>4, <3>1
    <3>2. CASE inbox # <<>> /\ inbox' = Tail(inbox) /\ Head(inbox) \in RestoreReplies
      <4>1. i # 1
        BY <1>a, <2>3, <2>4, <3>2, TailShifts
      <4> QED BY <1>d, <2>4, <3>2, <4>1
    <3> QED BY <2>2, <3>1, <3>2
  <2> QED BY <2>1, <2>4
<1>3. CASE Syncing
  <2>1. UNCHANGED <<session, inbox>>
    BY <1>3 DEF Syncing, SyncReconcile, SyncPublish
  <2>2. loop.stage = "reconcile" =>
           ~(loop.snap.idle /\ loop.snap.revision > fence.operation.started)
    <3>1. CASE SyncReconcile
      BY <3>1 DEF SyncReconcile, Reconcile, Running, OperationReconciled
    <3>2. CASE SyncPublish
      BY <3>2 DEF SyncPublish
    <3> QED BY <1>3, <3>1, <3>2 DEF Syncing
  <2> QED BY <2>1, <2>2
<1>4. CASE Connecting \/ TaskNext \/ SendRestoreReply \/ UNCHANGED restoreVars
  <2>1. UNCHANGED <<session, loop>>
    <3>1. CASE Connecting \/ UNCHANGED restoreVars
      BY <3>1 DEF Connecting, AttachBus, OpenFails, Identified, restoreVars, vars, appVars
    <3> QED BY <1>4, <3>1, TaskLeavesLoop
  <2>2. inbox' = inbox \/ \E m \in Inputs \cup RestoreReplies : Arrives(m)
    BY <1>4, <1>a, RestoreInboxGrows
  <2> QED BY <1>c, <2>1, <2>2
<1> QED BY <1>a, <1>1, <1>2, <1>3, <1>4, RestoreParts

\* Whatever ends a restore leaves its operation finished and about to be settled.
LEMMA SettleStep ==
    ASSUME RestoreTypes, RestoreOnlyInv, OwnInv, SettleInv, [RestoreNext]_restoreVars
    PROVE  SettleInv'
<1> SUFFICES ASSUME Running(fence'), co'.pc \notin OwnPcs \cup {"degrade"}
             PROVE  fence'.operation.finished /\ RestoreSettling'
  BY DEF SettleInv
<1> USE DEF OwnPcs, OpenPcs, StepPcs
<1>a. /\ fence \in Fences /\ co \in RestoreCoordinators \cup {FreeCoordinator}
      /\ inbox \in Seq(Inputs \cup RestoreReplies)
  BY DEF RestoreTypes
<1>b. ASSUME Running(fence), co.pc \notin OwnPcs \cup {"degrade"},
             fence'.operation = fence.operation
      PROVE  fence'.operation.finished /\ RestoreSettling'
  BY <1>b, RestoreSettlingStays DEF SettleInv, OwnInv
<1>c. ASSUME NEW m, m \in Inputs, Ends(m), inbox' = Append(inbox, m)
      PROVE  RestoreSettling'
  BY <1>a, <1>c, AppendKeeps DEF RestoreSettling
<1>d. \A t \in {"RestoreFinished", "RestoreAborted", "AuditPersistenceFailed"} :
         Input(t) \in Inputs /\ Ends(Input(t))
  BY DEF Input, Inputs, PlainInputs, Ends
<1>e. co.pc # "free" => co \in RestoreCoordinators
  BY <1>a DEF FreeCoordinator
<1>1. CASE ~TaskNext
  <2>1. co' = co
    BY <1>1, PermitFrame
  <2>2. fence'.operation = fence.operation /\ Running(fence)
    BY <1>1, RestoreFenceSteps DEF Running
  <2> QED BY <1>b, <2>1, <2>2
<1>2. CASE TaskNext /\ ~EndsOperation
  <2>1. fence'.operation = fence.operation /\ Running(fence)
    BY <1>2, TaskHolds DEF Running
  <2>2. co.pc \notin OwnPcs \cup {"degrade"}
    BY <1>2, TaskHolds
  <2> QED BY <1>b, <2>1, <2>2
<1>3. ~Claim /\ ~StepVerified
  <2>1. CASE Claim
    <3>1. co \in RestoreCoordinators
      BY <2>1, <1>e DEF Claim
    <3> QED BY <2>1, <3>1 DEF Claim, Goto, RestoreCoordinators
  <2>2. CASE StepVerified
    <3>1. co \in RestoreCoordinators
      BY <2>2, <1>e DEF StepVerified
    <3> QED BY <2>2, <3>1 DEF StepVerified, RestoreCoordinators
  <2> QED BY <2>1, <2>2
<1>4. CASE Abort
  <2>1. co.pc \in OwnPcs
    BY <1>4 DEF Abort
  <2>2. Running(fence)
    <3>1. fence' = fence \/ fence' = AbortRestore(fence)
      BY <1>4 DEF Abort
    <3> QED BY <1>a, <3>1, RestoreFenceKeeps
  <2>3. CanAbortRestore(fence, co.plan.operation)
    BY <2>1, <2>2 DEF OwnInv, CanAbortRestore
  <2>4. fence' = AbortRestore(fence) /\ inbox' = Append(inbox, Input("RestoreAborted"))
    BY <1>4, <2>3 DEF Abort
  <2>5. fence'.operation.finished
    BY <1>a, <2>2, <2>4, RestoreFenceKeeps
  <2> QED BY <1>c, <1>d, <2>4, <2>5
<1>5. CASE Degrade
  <2>1. /\ fence' = DegradeAuditAndDisarm(fence)
        /\ inbox' = Append(inbox, Input("AuditPersistenceFailed"))
    BY <1>5 DEF Degrade
  <2>2. fence'.operation.finished
    BY <1>a, <2>1, RestoreFenceKeeps
  <2> QED BY <1>c, <1>d, <2>1, <2>2
<1>6. CASE FinishRestoring
  <2>1. co \in RestoreCoordinators
    BY <1>6, <1>e DEF FinishRestoring
  <2>2. /\ fence' = FinishRestore(fence)
        /\ inbox' = Append(inbox, Input("RestoreFinished"))
    BY <1>6, <2>1 DEF FinishRestoring, Goto, RestoreCoordinators
  <2>3. fence'.operation.finished
    BY <1>a, <2>2, RestoreFenceKeeps
  <2> QED BY <1>c, <1>d, <2>2, <2>3
<1> QED BY <1>1, <1>2, <1>3, <1>4, <1>5, <1>6 DEF EndsOperation

-----------------------------------------------------------------------------
(***************************************************************************)
(* Session ids are fresh: while a session is being opened, the plans of    *)
(* earlier sessions and every snapshot carry ids below the one it will     *)
(* get, so no session inherits the open operation of another.              *)
(***************************************************************************)
RestoreFreshInv ==
    /\ 0 < IdLimit
    /\ IsActive(session) => session.id < IdLimit
    /\ projection.session < IdLimit
    /\ co.seen.session < IdLimit
    /\ co.pc \in PreparePcs => co.plan.session < IdLimit
    /\ \A p \in RestorePlans : \A a \in Places : Lies(a, p) => p.session < IdLimit

\* The limit never goes down, and an activated session has the id just below it.
LEMMA RestoreIdLimit ==
    ASSUME RestoreTypes, [RestoreNext]_restoreVars
    PROVE  /\ IdLimit \in Nat /\ IdLimit' \in Nat /\ IdLimit <= IdLimit'
           /\ IsActive(session') =>
                 \/ IsActive(session) /\ session'.id = session.id
                 \/ /\ ~IsActive(session) /\ IdLimit = lastSession
                    /\ session'.id = lastSession /\ session'.id < IdLimit'
<1> USE DEF IdLimit, Opening
<1>a. lastSession \in Nat /\ session \in Sessions
  BY DEF RestoreTypes
<1>1. ASSUME UNCHANGED <<session, lastSession>>
      PROVE  /\ IdLimit \in Nat /\ IdLimit' \in Nat /\ IdLimit <= IdLimit'
             /\ IsActive(session') => IsActive(session) /\ session'.id = session.id
  BY <1>1, <1>a
<1>2. ASSUME NEW in \in Inputs \cup {NoInput}, RestoreDispatched(in)
      PROVE  /\ IdLimit \in Nat /\ IdLimit' \in Nat /\ IdLimit <= IdLimit'
             /\ IsActive(session') =>
                   \/ IsActive(session) /\ session'.id = session.id
                   \/ /\ ~IsActive(session) /\ IdLimit = lastSession
                      /\ session'.id = lastSession /\ session'.id < IdLimit'
  <2>1. /\ session' = Reduce(session, in) /\ Dispatched(in)
        /\ lastSession' = IF in.type = "Connect" THEN lastSession + 1 ELSE lastSession
    BY <1>2 DEF RestoreDispatched, Dispatched, Dispatch
  <2>2. Reduce(session, in).phase \in {"Connecting", "Identifying"}
          => Opening \/ in.type = "Connect"
    BY <1>a, ReduceConnects
  <2>3. IdLimit \in Nat /\ IdLimit' \in Nat /\ IdLimit <= IdLimit'
    BY <1>a, <2>1, <2>2
  <2>4. CASE IsActive(session)
    BY <1>a, <2>1, <2>3, <2>4, ReduceKeepsId
  <2>5. CASE ~IsActive(session) /\ IsActive(session')
    <3>1. /\ in.type = "IdentificationFinished" /\ session.phase = "Identifying"
          /\ session'.id = in.id
      BY <1>a, <2>1, <2>5, ReduceActivates
    <3>2. in.id = lastSession /\ lastSession' = lastSession
      BY <2>1, <3>1 DEF Dispatched
    <3>3. session'.phase = "Active"
      BY <2>5 DEF IsActive
    <3>4. lastSession < lastSession + 1
      BY <1>a
    <3> QED BY <2>3, <2>5, <3>1, <3>2, <3>3, <3>4
  <2> QED BY <2>3, <2>4, <2>5
<1>3. CASE Syncing \/ Connecting
  <2>1. UNCHANGED <<session, lastSession>>
    BY <1>3 DEF Syncing, SyncReconcile, SyncPublish, Connecting, AttachBus, OpenFails,
       Identified
  <2> QED BY <1>1, <2>1
<1>4. CASE Restoring \/ TaskNext \/ SendRestoreReply
  BY <1>1, <1>4, RestoringLeaves, TaskLeavesLoop
<1>5. CASE UNCHANGED restoreVars
  BY <1>1, <1>5 DEF restoreVars, vars, appVars
<1> QED BY <1>a, <1>2, <1>3, <1>4, <1>5, RestoreParts

\* No step brings an id into use but that of the session it activates.
LEMMA RestoreFreshStep ==
    ASSUME RestoreTypes, RestoreSyncInv, WayInv, RestoreFreshInv, [RestoreNext]_restoreVars
    PROVE  RestoreFreshInv'
<1>a. /\ projection \in Snapshots /\ session \in Sessions
      /\ co \in RestoreCoordinators \cup {FreeCoordinator}
  BY DEF RestoreTypes
<1>b. UnavailableSnapshot \in Snapshots /\ UnavailableSnapshot.session = 0
  BY DEF UnavailableSnapshot, Snapshots
<1>c. co.seen.session \in Nat /\ projection.session \in Nat /\ session.id \in Nat
  BY <1>a, <1>b DEF RestoreCoordinators, FreeCoordinator, Snapshots, Sessions
<1>d. IdLimit \in Nat /\ IdLimit' \in Nat /\ IdLimit <= IdLimit'
  BY RestoreIdLimit
<1>e. \A n \in Nat : n < IdLimit => n < IdLimit'
  BY <1>d
<1>1. 0 < IdLimit'
  BY <1>e DEF RestoreFreshInv
<1>2. IsActive(session') => session'.id < IdLimit'
  BY <1>c, <1>e, RestoreIdLimit DEF RestoreFreshInv
<1>3. projection'.session < IdLimit'
  <2>1. CASE projection' = projection
    BY <1>c, <1>e, <2>1 DEF RestoreFreshInv
  <2>2. CASE SyncPublish
    <3>1. projection' = SnapshotOf(session, revision) /\ IsActive(session)
      BY <2>2 DEF SyncPublish, RestoreSyncInv
    <3>2. projection'.session = session.id
      BY <3>1 DEF SnapshotOf
    <3> QED BY <1>c, <1>e, <3>1, <3>2 DEF RestoreFreshInv
  <2>3. ASSUME NEW in, RestoreDispatched(in) PROVE projection' = projection
    BY <2>3 DEF RestoreDispatched, Dispatched, Dispatch, fenceVars
  <2>4. CASE Connecting
    BY <2>1, <2>4 DEF Connecting, AttachBus, OpenFails, Identified, fenceVars
  <2>5. CASE Restoring \/ TaskNext \/ SendRestoreReply
    BY <2>1, <2>5, RestoringLeaves, TaskLeavesLoop
  <2>6. CASE SyncReconcile \/ UNCHANGED restoreVars
    BY <2>1, <2>6 DEF SyncReconcile, restoreVars, vars, fenceVars
  <2>7. lastSession \in Nat
    BY DEF RestoreTypes
  <2> QED BY <2>1, <2>2, <2>3, <2>4, <2>5, <2>6, <2>7, RestoreParts DEF Syncing
<1>4. co'.seen.session < IdLimit'
  <2>1. co'.seen.session \in {co.seen.session, projection.session, 0}
    BY <1>b, PermitFrame, TaskSees
  <2> QED BY <1>c, <1>e, <2>1 DEF RestoreFreshInv
<1>5. co'.pc \in PreparePcs => co'.plan.session < IdLimit'
  <2>1. ASSUME co.pc \in PreparePcs PROVE co.plan.session \in Nat
    <3>1. co \in RestoreCoordinators
      BY <1>a, <2>1 DEF FreeCoordinator, PreparePcs
    <3> QED BY <3>1 DEF RestoreCoordinators, RestorePlans
  <2>2. CASE /\ co.pc \in PreparePcs
             /\ co'.plan.session \in {co.plan.session, co.seen.session}
    BY <1>c, <1>e, <2>1, <2>2 DEF RestoreFreshInv
  <2>3. CASE co'.plan.session = 0
    BY <1>1, <2>3
  <2> QED BY <2>2, <2>3, SerialSteps
<1>6. ASSUME NEW p \in RestorePlans, NEW a \in Places, Lies(a, p)'
      PROVE  p.session < IdLimit'
  <2>a. p.session \in Nat
    BY DEF RestorePlans
  <2>b. Rests(p) \/ Enters(p) \/ Proceeds(p)
    BY PlanSteps DEF WayInv
  <2>1. CASE Enters(p)
    <3>1. co.pc \in PreparePcs /\ p = co.plan
      BY <2>1 DEF Enters, PrepareRestoreStore, PreparePcs
    <3> QED BY <1>e, <2>a, <3>1 DEF RestoreFreshInv
  <2>2. CASE \E b \in Places : Lies(b, p)
    BY <1>e, <2>a, <2>2 DEF RestoreFreshInv
  <2>3. CASE Rests(p)
    BY <1>6, <2>2, <2>3 DEF Rests
  <2>4. CASE Proceeds(p)
    BY <2>2, <2>4 DEF Proceeds, Moves, Places
  <2> QED BY <2>b, <2>1, <2>3, <2>4
<1> QED BY <1>1, <1>2, <1>3, <1>4, <1>5, <1>6 DEF RestoreFreshInv

-----------------------------------------------------------------------------
(***************************************************************************)
(* An operation that stays open degrades its session: the task that holds  *)
(* it will, or the session is told to.                                     *)
(***************************************************************************)
Told == \E i \in DOMAIN inbox : inbox[i] = Input("AuditPersistenceFailed")

Degraded(p) ==
    IsActive(session) /\ session.id = p.session => session.audit = "Degraded" \/ Told

InHand(p) ==
    /\ co.plan = p
    /\ \/ co.pc \in OpenPcs \cup {"degrade"}
       \/ co.pc = "disarm" /\ co.degrade

OpenInv == \A p \in opened \ closed : InHand(p) \/ Degraded(p)

\* A session that knows of a failed audit, or will, does not forget it.
LEMMA DegradedStays ==
    ASSUME RestoreTypes, RestoreFreshInv, [RestoreNext]_restoreVars, NEW p \in opened,
           Degraded(p)
    PROVE  Degraded(p)'
<1> USE DEF Degraded
<1>a. /\ inbox \in Seq(Inputs \cup RestoreReplies) /\ session \in Sessions
      /\ lastSession \in Nat /\ replies \subseteq RestoreReplies /\ p \in RestorePlans
  BY DEF RestoreTypes
<1>b. ASSUME Told, inbox' = inbox \/ (\E m \in Inputs \cup RestoreReplies : Arrives(m))
      PROVE  Told'
  BY <1>a, <1>b, AppendKeeps DEF Arrives, Told
<1>c. ASSUME Told, inbox # <<>>, inbox' = Tail(inbox)
      PROVE  Told' \/ Head(inbox) = Input("AuditPersistenceFailed")
  BY <1>a, <1>c, TailShifts DEF Told
<1>1. ASSUME NEW in \in Inputs \cup {NoInput}, RestoreDispatched(in)
      PROVE  Degraded(p)'
  <2>1. session' = Reduce(session, in) /\ Dispatched(in)
    BY <1>1 DEF RestoreDispatched, Dispatched, Dispatch
  <2> SUFFICES ASSUME IsActive(session'), session'.id = p.session
               PROVE  session'.audit = "Degraded" \/ Told'
    OBVIOUS
  <2>2. IsActive(session) /\ session.id = p.session
    <3>1. CASE ~IsActive(session)
      <4>1. IdLimit = lastSession /\ p.session = lastSession
        BY <3>1, RestoreIdLimit
      <4>2. Lies("opened", p)
        BY DEF Lies
      <4>3. p.session < IdLimit
        BY <1>a, <4>2 DEF RestoreFreshInv, Places
      <4> QED BY <1>a, <4>1, <4>3
    <3>2. CASE IsActive(session)
      BY <3>2, RestoreIdLimit
    <3> QED BY <3>1, <3>2
  <2>3. CASE session.audit = "Degraded"
    <3>1. session'.audit = "Degraded"
      BY <1>a, <2>1, <2>2, <2>3 DEF Reduce, IsActive, NewSession, Inactive, TransportLost,
         ReconnectFailed, WriteFinished, Sessions
    <3> QED BY <3>1
  <2>4. CASE Told
    <3>1. CASE inbox' = inbox
      BY <1>b, <2>4, <3>1
    <3>2. CASE inbox # <<>> /\ inbox' = Tail(inbox) /\ in.type = Head(inbox).type
      <4>1. CASE Head(inbox) = Input("AuditPersistenceFailed")
        <5>1. in.type = "AuditPersistenceFailed"
          BY <3>2, <4>1 DEF Input
        <5>2. session'.audit = "Degraded"
          BY <1>a, <2>1, <2>2, <5>1 DEF Reduce, IsActive, Sessions
        <5> QED BY <5>2
      <4> QED BY <1>c, <2>4, <3>2, <4>1
    <3> QED BY <2>1, <3>1, <3>2 DEF Dispatched
  <2> QED BY <2>2, <2>3, <2>4
<1>2. CASE Restoring
  <2>1. session' = session
    BY <1>2, RestoringLeaves
  <2>2. \/ inbox' = inbox
        \/ inbox # <<>> /\ inbox' = Tail(inbox) /\ Head(inbox) \in RestoreReplies
    BY <1>2 DEF Restoring, PrepareRestore, ConfirmRestore, ClearPrepared,
       ReceiveRestoreReply
  <2>3. Input("AuditPersistenceFailed") \notin RestoreReplies
    BY DEF RestoreReplies, Input
  <2>4. Told => Told'
    BY <1>b, <1>c, <2>2, <2>3
  <2> QED BY <2>1, <2>4
<1>3. CASE Syncing
  <2>1. UNCHANGED <<session, inbox>>
    BY <1>3 DEF Syncing, SyncReconcile, SyncPublish
  <2> QED BY <2>1, <1>b
<1>4. CASE Connecting \/ TaskNext \/ SendRestoreReply \/ UNCHANGED restoreVars
  <2>1. session' = session
    <3>1. CASE Connecting \/ UNCHANGED restoreVars
      BY <3>1 DEF Connecting, AttachBus, OpenFails, Identified, restoreVars, vars, appVars
    <3> QED BY <1>4, <3>1, TaskLeavesLoop
  <2>2. inbox' = inbox \/ \E m \in Inputs \cup RestoreReplies : Arrives(m)
    BY <1>4, <1>a, RestoreInboxGrows
  <2> QED BY <1>b, <2>1, <2>2
<1> QED BY <1>a, <1>1, <1>2, <1>3, <1>4, RestoreParts

\* A step of the task keeps the plan in hand, records its finish or degrades the audit.
LEMMA TaskKeepsInHand ==
    ASSUME RestoreTypes, TaskNext, NEW p, InHand(p)
    PROVE  InHand(p)' \/ p \in closed' \/ Told'
<1> USE DEF InHand, OpenPcs, StepPcs
<1>a. co \in RestoreCoordinators
  BY DEF RestoreTypes, FreeCoordinator
<1>b. co.plan = p
  OBVIOUS
<1>1. CASE AcquireRestore \/ Preparing
  BY <1>1 DEF AcquireRestore, Preparing, PrepareRestoreGuard, PrepareRestoreFails,
     PrepareRestoreStore
<1>2. CASE ReadRestoreProjection \/ RestoreReads
  BY <1>2, <1>a DEF ReadRestoreProjection, RestoreReads, SeeAndGoto, RestoreCoordinators
<1>3. CASE Beginning
  <2>1. Claim
    BY <1>3 DEF Beginning, BeginGuard, BeginCheck, BeginRejected, AuditBegin, AuditBeginFails
  <2> QED BY <2>1, <1>a DEF Claim, Goto, RestoreCoordinators
<1>4. CASE Stepping
  <2>1. CASE StepVerified
    <3>1. co'.plan = co.plan /\ co'.pc \in {"step_before", "finish_before", "abort"}
      BY <2>1, <1>a DEF StepVerified, RestoreCoordinators
    <3> QED BY <3>1
  <2>2. CASE ~StepVerified
    BY <1>4, <2>2, <1>a DEF Stepping, StepMatch, StepFails, StepPrepare, StepPrepareFails,
       SendStep, StepRefused, StepNotVerified, Goto, RestoreCoordinators
  <2> QED BY <2>1, <2>2
<1>5. CASE Abort
  BY <1>5, <1>a DEF Abort, Goto, RestoreCoordinators
<1>6. CASE DisarmAfter
  <2>1. co.degrade
    BY <1>6 DEF DisarmAfter
  <2> QED BY <1>6, <2>1, <1>a DEF DisarmAfter, Goto, RestoreCoordinators
<1>7. CASE Degrade
  <2>1. inbox \in Seq(Inputs \cup RestoreReplies)
    BY DEF RestoreTypes
  <2>2. inbox' = Append(inbox, Input("AuditPersistenceFailed"))
    BY <1>7 DEF Degrade
  <2>3. /\ Len(inbox) + 1 \in DOMAIN inbox'
        /\ inbox'[Len(inbox) + 1] = Input("AuditPersistenceFailed")
    BY <2>1, <2>2
  <2> QED BY <2>3 DEF Told
<1>8. CASE FinishMatch \/ FinishRestoring
  BY <1>8, <1>a DEF FinishMatch, FinishRestoring, Goto, RestoreCoordinators
<1> QED BY <1>1, <1>2, <1>3, <1>4, <1>5, <1>6, <1>7, <1>8 DEF TaskNext, Ending

\* No step leaves an open operation without its task and without a degraded audit.
LEMMA OpenStep ==
    ASSUME RestoreTypes, RestoreFreshInv, OpenInv, [RestoreNext]_restoreVars
    PROVE  OpenInv'
<1>1. ASSUME NEW p \in opened, p \notin closed', p \notin closed
      PROVE  InHand(p)' \/ Degraded(p)'
  <2>1. CASE Degraded(p)
    BY <2>1, DegradedStays
  <2>2. CASE InHand(p) /\ TaskNext
    BY <1>1, <2>2, TaskKeepsInHand DEF Degraded
  <2>3. CASE InHand(p) /\ ~TaskNext
    BY <2>3, PermitFrame DEF InHand
  <2> QED BY <1>1, <2>1, <2>2, <2>3 DEF OpenInv
<1>2. closed \subseteq closed'
  <2>1. CASE TaskNext
    BY <2>1 DEF TaskNext, AcquireRestore, ReadRestoreProjection, RestoreReads, Preparing,
       PrepareRestoreGuard, PrepareRestoreFails, PrepareRestoreStore, Beginning, BeginGuard,
       BeginCheck, BeginRejected, AuditBegin, AuditBeginFails, Claim, Stepping, StepMatch,
       StepFails, StepPrepare, StepPrepareFails, SendStep, StepRefused, StepVerified,
       StepNotVerified, Ending, Abort, DisarmAfter, Degrade, FinishMatch, FinishRestoring,
       Local, restoreHistory
  <2> QED BY <2>1, PermitFrame
<1>3. ASSUME NEW p \in opened', p \notin opened PROVE InHand(p)'
  <2>1. TaskNext
    BY <1>3, PermitFrame
  <2>2. AuditBegin
    BY <1>3, <2>1 DEF TaskNext, AcquireRestore, ReadRestoreProjection, RestoreReads,
       Preparing, PrepareRestoreGuard, PrepareRestoreFails, PrepareRestoreStore, Beginning,
       BeginGuard, BeginCheck, BeginRejected, AuditBeginFails, Claim, Stepping, StepMatch,
       StepFails, StepPrepare, StepPrepareFails, SendStep, StepRefused, StepVerified,
       StepNotVerified, Ending, Abort, DisarmAfter, Degrade, FinishMatch, FinishRestoring,
       Local, restoreHistory
  <2>3. co \in RestoreCoordinators
    BY <2>2 DEF AuditBegin, RestoreTypes, FreeCoordinator
  <2> QED BY <1>3, <2>2, <2>3 DEF AuditBegin, SeeAndGoto, InHand, OpenPcs, StepPcs,
             RestoreCoordinators
<1> QED BY <1>1, <1>2, <1>3 DEF OpenInv

\* Once every task has returned and every message is handled, the fence of an Active
\* session runs no operation, and an operation of that session that was started and not
\* finished in the journal has degraded the session's audit: whatever the abort, the
\* finish and the appends ran into, and for any number of sessions and coordinators.
THEOREM RestoresSettle == RestoreSpec => []RestoreSettles
<1> DEFINE RInv == /\ RestoreSyncInv /\ WayInv /\ PermitInv
                   /\ OwnInv /\ RestoreOnlyInv /\ SettleInv
                   /\ RestoreFreshInv /\ OpenInv
<1>1. RestoreInit => RInv
  <2> SUFFICES ASSUME RestoreInit PROVE RInv
    OBVIOUS
  <2>a. /\ Init /\ opened = {} /\ closed = {} /\ verified = {} /\ wire = {}
        /\ inbox = <<>> /\ lastSession = 0 /\ co = FreeCoordinator
        /\ session = NewSession /\ fence = OpenFence /\ projection = UnavailableSnapshot
    BY DEF RestoreInit, Init
  <2>1. RestoreSyncInv
    BY <2>a DEF Init, RestoreSyncInv, LoopReady, UnavailableSnapshot, FreeCoordinator
  <2>2. PermitInv
    BY <2>a DEF FreeCoordinator, PermitInv, OpenPcs, StepPcs
  <2>3. ~Running(fence)
    BY <2>a DEF Running, OpenFence
  <2>4. RestoreOnlyInv
    BY <2>a DEF RestoreOnlyInv, Restores, NewSession, Inactive
  <2>5. RestoreFreshInv
    <3>1. ~IsActive(session)
      BY <2>a DEF NewSession, Inactive, IsActive
    <3>2. 0 < IdLimit
      BY <2>a DEF IdLimit, Opening, NewSession, Inactive
    <3>3. projection.session = 0 /\ co.seen.session = 0 /\ co.pc = "free"
      BY <2>a DEF UnavailableSnapshot, FreeCoordinator
    <3>4. \A p \in RestorePlans : \A a \in Places : ~Lies(a, p)
      BY NoPlanAtFirst
    <3> QED BY <3>1, <3>2, <3>3, <3>4 DEF RestoreFreshInv, PreparePcs
  <2>6. OpenInv
    BY <2>a DEF OpenInv
  <2> QED BY <2>1, <2>2, <2>3, <2>4, <2>5, <2>6, NoPlanAtFirst DEF OwnInv, SettleInv
<1>2. RestoreTypes /\ RInv /\ [RestoreNext]_restoreVars => RInv'
  BY RestoreSyncStep, WayStep, PermitStep, OwnStep, RestoreOnlyStep, SettleStep,
     RestoreFreshStep, OpenStep
<1>3. RestoreTypes /\ RInv => RestoreSettles
  <2> SUFFICES ASSUME RestoreTypes, RInv PROVE RestoreSettles
    OBVIOUS
  <2>1. RestoreTypeOK
    <3>1. opened \subseteq RestorePlans
      BY DEF RestoreTypes
    <3> QED BY <3>1 DEF RestoreTypeOK, RestoreTypes, PermitInv
  <2>2. FenceDrains
    <3> SUFFICES ASSUME Quiet, IsActive(session) PROVE ~Running(fence)
      BY DEF FenceDrains
    <3>1. co.pc \notin OwnPcs \cup {"degrade"} /\ ~RestoreSettling
      BY DEF Quiet, OwnPcs, OpenPcs, StepPcs, RestoreSettling
    <3> QED BY <3>1 DEF SettleInv
  <2>3. OpenOperationDegrades
    <3> SUFFICES ASSUME Quiet, IsActive(session), NEW p \in opened \ closed,
                        p.session = session.id
                 PROVE  session.audit = "Degraded"
      BY DEF OpenOperationDegrades
    <3>1. ~InHand(p) /\ ~Told
      BY DEF Quiet, InHand, OpenPcs, StepPcs, Told
    <3> QED BY <3>1 DEF OpenInv, Degraded
  <2> QED BY <2>1, <2>2, <2>3 DEF RestoreSettles
<1> QED BY <1>1, <1>2, <1>3, RestoreTypesAlways, PTL DEF RestoreSpec
=============================================================================

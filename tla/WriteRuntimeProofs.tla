-------------------------- MODULE WriteRuntimeProofs --------------------------
(***************************************************************************)
(* Proofs about WriteRuntime, for every set of devices and targets and     *)
(* every bound.                                                            *)
(***************************************************************************)
EXTENDS WriteRuntime, TLAPS

-----------------------------------------------------------------------------
(***************************************************************************)
(* Typing of the operators.                                                *)
(***************************************************************************)

\* Every input leaves the reducer of session.rs in a well-formed session.
LEMMA ReduceType ==
    ASSUME NEW s \in Sessions, NEW in \in Inputs \cup {NoInput}
    PROVE  Reduce(s, in) \in Sessions
<1> USE SessionAssumption
<1>1. NewSession \in Sessions /\ Inactive("Connecting") \in Sessions
      /\ Inactive("Identifying") \in Sessions /\ Inactive("ShuttingDown") \in Sessions
  BY DEF NewSession, Inactive, Sessions, Phases, Connectivities, Authorizations,
         AuditHealths, Operations, Idle
<1>2. DisarmedForProcess \in Authorizations
  BY DEF DisarmedForProcess, Authorizations
<1>3. Idle \in Operations
  BY DEF Idle, Operations
<1>4. NextAttempt(s) \in 0 .. LastDelay
  BY DEF NextAttempt, Sessions
<1>5. TransportLost(s) \in Sessions
  BY <1>3, <1>4 DEF TransportLost, Sessions, Connectivities, Authorizations
<1>6. ReconnectFailed(s) \in Sessions
  BY <1>2, <1>3, <1>4 DEF ReconnectFailed, Sessions, Connectivities
<1>7. ASSUME NEW o PROVE WriteFinished(s, o) \in Sessions
  BY <1>2, <1>3 DEF WriteFinished, Sessions, AuditHealths
<1>8. CASE in.type \in {"Connect", "PortOpened", "PortOpenFailed", "CancelConnect",
                        "Disconnect", "TransportLost", "PortRemoved", "ShutdownComplete",
                        "Shutdown", "ReconnectFailed"}
  BY <1>1, <1>5, <1>6, <1>8 DEF Reduce
<1>9. CASE in.type = "IdentificationFinished"
  <2>1. in.id \in Nat /\ in.verified \in Devices \cup {NoDevice}
    BY <1>9 DEF Inputs, PlainInputs, IdentificationInputs, TimedInputs, OperationInputs,
                NoInput, Input
  <2>2. ActiveSession(in.id, in.verified) \in Sessions
    BY <2>1, <1>2, <1>3 DEF ActiveSession, Sessions, Phases, Connectivities, AuditHealths
  <2> QED BY <1>1, <1>9, <2>2 DEF Reduce
<1>10. CASE in.type \in {"WriteConfirmed", "RestoreStarted", "RestoreAdvanced"}
  <2>1. CASE in.type = "RestoreAdvanced"
    <3>1. in.next \in Nat
      BY <2>1 DEF Inputs, PlainInputs, IdentificationInputs, TimedInputs,
                  OperationInputs, NoInput, Input
    <3> QED BY <2>1, <3>1 DEF Reduce, Sessions, Operations
  <2>2. CASE in.type # "RestoreAdvanced"
    <3>1. in.id \in Nat
      BY <1>10, <2>2 DEF Inputs, PlainInputs, IdentificationInputs, TimedInputs,
                  OperationInputs, NoInput, Input
    <3>2. SingleWrite(in.id) \in Operations /\ Restore(in.id, 0) \in Operations
      BY <3>1 DEF SingleWrite, Restore, Operations
    <3> QED BY <1>10, <2>2, <3>2 DEF Reduce, Sessions
  <2> QED BY <2>1, <2>2
<1>11. CASE in.type \in {"RetryNow", "ReconnectTimerElapsed",
                         "ReconnectIdentificationFinished"}
  <2>1. 0 \in 0 .. LastDelay
    OBVIOUS
  <2>2. CASE in.type = "ReconnectIdentificationFinished"
    BY <1>2, <1>3, <2>1, <2>2 DEF Reduce, Sessions, Connectivities
  <2>3. CASE in.type \in {"RetryNow", "ReconnectTimerElapsed"}
    <3>1. Reduce(s, in) = s \/ Reduce(s, in) = [s EXCEPT !.opening = TRUE]
      BY <2>3 DEF Reduce
    <3>2. [s EXCEPT !.opening = TRUE] \in Sessions
      BY DEF Sessions
    <3> QED BY <3>1, <3>2
  <2> QED BY <1>11, <2>2, <2>3
<1>12. CASE in.type \in {"ArmWrites", "ConfirmArming", "CancelArming", "DisarmWrites",
                         "ArmingExpired", "IdleDisarmElapsed"}
  BY <1>2, <1>12 DEF Reduce, Sessions, Authorizations
<1>13. CASE in.type \in {"WriteFinished", "RestoreFinished", "RestoreAborted",
                         "AuditPersistenceFailed"}
  BY <1>2, <1>3, <1>7, <1>13 DEF Reduce, Sessions, AuditHealths
<1>14. CASE in.type \notin {"Connect", "PortOpened", "PortOpenFailed", "CancelConnect",
                        "Disconnect", "TransportLost", "PortRemoved", "ShutdownComplete",
                        "Shutdown", "ReconnectFailed", "IdentificationFinished",
                        "WriteConfirmed", "RestoreStarted", "RestoreAdvanced",
                        "RetryNow", "ReconnectTimerElapsed",
                        "ReconnectIdentificationFinished", "ArmWrites", "ConfirmArming",
                        "CancelArming", "DisarmWrites", "ArmingExpired",
                        "IdleDisarmElapsed", "WriteFinished", "RestoreFinished",
                        "RestoreAborted", "AuditPersistenceFailed"}
  BY <1>14 DEF Reduce
<1> QED BY <1>8, <1>9, <1>10, <1>11, <1>12, <1>13, <1>14

\* Syncing publishes well-formed snapshots, and every fence operation keeps the
\* fence well formed.
LEMMA FenceTypes ==
    ASSUME NEW f \in Fences, NEW p \in Snapshots, NEW id \in Nat, NEW r \in Nat, NEW o
    PROVE  /\ Reconcile(f, p) \in Fences
           /\ Overlay(p, f) \in Snapshots
           /\ BeginSingleWrite(f, id, r) \in Fences
           /\ FinishSingleWrite(f, o) \in Fences
           /\ DegradeAuditAndDisarm(f) \in Fences
<1>1. NoFenceOperation \in FenceOperations
  BY DEF NoFenceOperation, FenceOperations
<1>2. Reconcile(f, p) \in Fences
  BY <1>1 DEF Reconcile, Fences, Snapshots
<1>3. Overlay(p, f) \in Snapshots
  BY DEF Overlay, Snapshots
<1>4. BeginSingleWrite(f, id, r) \in Fences
  BY DEF BeginSingleWrite, Fences, FenceOperations
<1>5. FinishSingleWrite(f, o) \in Fences
  BY DEF FinishSingleWrite, Fences, FenceOperations
<1>6. DegradeAuditAndDisarm(f) \in Fences
  BY DEF DegradeAuditAndDisarm, Fences, FenceOperations
<1> QED BY <1>2, <1>3, <1>4, <1>5, <1>6

\* The sync the loop starts after an action is well formed.
LEMMA SyncType ==
    ASSUME NEW s \in Sessions, NEW r \in Nat, NEW task \in Tasks \cup {NoTask}
    PROVE  SyncThen(s, r, task) \in Loops
<1>1. SnapshotOf(s, r) \in Snapshots
  BY DEF SnapshotOf, Snapshots, Sessions
<1>2. UnavailableSnapshot \in Snapshots
  BY DEF UnavailableSnapshot, Snapshots
<1> QED BY <1>1, <1>2 DEF SyncThen, Loops, LoopReady

-----------------------------------------------------------------------------
(***************************************************************************)
(* Type correctness.                                                       *)
(***************************************************************************)

\* A dispatched action keeps every type, if the inbox it leaves behind is typed.
LEMMA DispatchType ==
    ASSUME TypeOK, NEW in \in Inputs \cup {NoInput}, NEW resets,
           Dispatch(in, resets),
           inbox' \in Seq(Inputs \cup Replies)
    PROVE  TypeOK'
<1>1. session' \in Sessions
  BY ReduceType DEF Dispatch, TypeOK
<1>2. revision' \in Nat /\ lastSession' \in Nat
  BY DEF Dispatch, TypeOK
<1>3. NoPlan \in Plans
  BY DEF NoPlan, Plans
<1>4. staged' \in Plans /\ prepared' \in Plans
  BY <1>3 DEF Dispatch, TypeOK
<1>5. loop' \in Loops
  BY <1>1, <1>2, SyncType DEF Dispatch
<1>6. bus' \in {"open", "closed"} /\ opening' \in {"none", "initial", "reconnect"}
  BY DEF Dispatch, TypeOK
<1>7. identifying' \in BOOLEAN /\ ambiguous' \in BOOLEAN
  BY Zenon DEF Dispatch
<1>8. UNCHANGED <<projection, fence, plans, nextPlan, tasks, co, replies,
                  confirmed, journal, wire, failedIn, strayed>>
  BY DEF Dispatch, fenceVars, coVars
<1> QED BY <1>1, <1>2, <1>4, <1>5, <1>6, <1>7, <1>8 DEF TypeOK

\* The inputs the environment dispatches are inputs of the machine.
LEMMA InputTypes ==
    /\ \A t \in {"Connect", "CancelConnect", "PortOpened", "PortOpenFailed", "Disconnect",
                 "PortRemoved", "TransportLost", "ReconnectPortOpened", "ReconnectFailed",
                 "ArmWrites", "DisarmWrites", "ArmingExpired", "IdleDisarmElapsed",
                 "AuditPersistenceFailed", "Shutdown"} :
          Input(t) \in Inputs
    /\ [type |-> "ReconnectTimerElapsed", due |-> TRUE] \in Inputs
    /\ [type |-> "ConfirmArming", valid |-> TRUE] \in Inputs
<1>1. \A t \in {"Connect", "CancelConnect", "PortOpened", "PortOpenFailed", "Disconnect",
                "PortRemoved", "TransportLost", "ReconnectPortOpened", "ReconnectFailed",
                "ArmWrites", "DisarmWrites", "ArmingExpired", "IdleDisarmElapsed",
                "AuditPersistenceFailed", "Shutdown"} :
         Input(t) \in PlainInputs
  BY DEF Input, PlainInputs
<1>2. [type |-> "ReconnectTimerElapsed", due |-> TRUE] \in TimedInputs
      /\ [type |-> "ConfirmArming", valid |-> TRUE] \in TimedInputs
  BY DEF TimedInputs
<1> QED BY <1>1, <1>2 DEF Inputs

\* Steps of the application loop keep every type.
LEMMA AppType == ASSUME TypeOK, AppNext PROVE TypeOK'
<1> USE InputTypes
<1>0. inbox \in Seq(Inputs \cup Replies)
  BY DEF TypeOK
<1>1. CASE UserConnects
  BY <1>0, <1>1, DispatchType DEF UserConnects, Apply
<1>2. CASE UserDisconnects
  BY <1>0, <1>2, DispatchType DEF UserDisconnects, Apply
<1>3. CASE UserArms
  BY <1>0, <1>3, DispatchType DEF UserArms, Apply
<1>4. CASE UserDisarms
  BY <1>0, <1>4, DispatchType DEF UserDisarms, Apply
<1>5. CASE SafetyTick
  BY <1>0, <1>5, DispatchType DEF SafetyTick, Apply
<1>6. CASE UserShutsDown
  BY <1>0, <1>6, DispatchType DEF UserShutsDown, Apply
<1>7. CASE PortRemoved
  <2>1. CASE Apply(Input("PortRemoved")) /\ inbox' = inbox
    BY <1>0, <2>1, DispatchType DEF Apply
  <2>2. CASE /\ Dispatch([type |-> "IdentificationFinished", id |-> lastSession,
                          verified |-> NoDevice], FALSE)
             /\ inbox' = inbox
    <3>1. [type |-> "IdentificationFinished", id |-> lastSession, verified |-> NoDevice]
             \in Inputs
      BY DEF TypeOK, Inputs, IdentificationInputs
    <3> QED BY <1>0, <2>2, <3>1, DispatchType
  <2> QED BY <1>7, <2>1, <2>2 DEF PortRemoved
<1>8. CASE ReconnectTimer
  BY <1>0, <1>8, DispatchType DEF ReconnectTimer, Apply
<1>9. CASE OtherConnectionAction
  BY <1>0, <1>9, DispatchType DEF OtherConnectionAction, Apply
<1>10. CASE ReceiveInput
  <2>1. inbox' \in Seq(Inputs \cup Replies) /\ Head(inbox) \in Inputs
    BY <1>0, <1>10 DEF ReceiveInput
  <2>2. Received(Head(inbox)) \in Inputs
    <3>1. CASE Head(inbox).type = "IdentificationFinished"
      <4>1. Head(inbox) \in IdentificationInputs
        BY <2>1, <3>1 DEF Inputs, PlainInputs, TimedInputs, OperationInputs
      <4>2. Received(Head(inbox)) \in IdentificationInputs
        BY <3>1, <4>1 DEF Received, IdentificationInputs, TypeOK
      <4> QED BY <4>2 DEF Inputs
    <3>2. CASE Head(inbox).type # "IdentificationFinished"
      BY <2>1, <3>2 DEF Received
    <3> QED BY <3>1, <3>2
  <2> QED BY <1>10, <2>1, <2>2, DispatchType DEF ReceiveInput, Apply
<1>11. CASE PrepareIntent
  <2>1. NoPlan \in Plans
    BY DEF NoPlan, Plans
  <2>2. \A t \in Targets : Intent(session.id, t) \in Plans
    BY DEF TypeOK, Sessions, Intent, Plans
  <2> QED BY <1>11, <2>1, <2>2
          DEF PrepareIntent, TypeOK, fenceVars, busVars, coVars, history
<1>12. CASE PrepareWrite
  <2>1. loop' \in Loops
    BY <1>12, SyncType DEF PrepareWrite, TypeOK, Tasks
  <2> QED BY <1>12, <2>1 DEF PrepareWrite, TypeOK, fenceVars, busVars, coVars, history
<1>13. CASE ConfirmPrepared
  <2>1. loop' \in Loops
    BY <1>13, SyncType DEF ConfirmPrepared, TypeOK, Tasks
  <2>2. NoPlan \in Plans
    BY DEF NoPlan, Plans
  <2> QED BY <1>13, <2>1, <2>2 DEF ConfirmPrepared, TypeOK, fenceVars, busVars, coVars
<1>14. CASE ClearIntent
  <2>1. NoPlan \in Plans
    BY DEF NoPlan, Plans
  <2>2. tasks' \in SUBSET Tasks
    BY <1>14 DEF ClearIntent, TypeOK, Tasks
  <2> QED BY <1>14, <2>1, <2>2 DEF ClearIntent, TypeOK, fenceVars, busVars, history
<1>15. CASE ReceiveReply
  <2>1. NoPlan \in Plans
    BY DEF NoPlan, Plans
  <2>2. inbox' \in Seq(Inputs \cup Replies) /\ Head(inbox).plan \in Plans
    BY <1>0, <1>15 DEF ReceiveReply, Replies
  <2> QED BY <1>15, <2>1, <2>2
          DEF ReceiveReply, TypeOK, fenceVars, busVars, coVars, history
<1>16. CASE SyncReconcile
  <2>1. fence' \in Fences
    BY <1>16, FenceTypes DEF SyncReconcile, TypeOK, Loops
  <2>2. loop' \in Loops
    BY <1>16 DEF SyncReconcile, TypeOK, Loops
  <2> QED BY <1>16, <2>1, <2>2 DEF SyncReconcile, TypeOK, busVars, coVars, history
<1>17. CASE SyncPublish
  <2>1. LoopReady \in Loops
    BY DEF LoopReady, Loops, UnavailableSnapshot, Snapshots
  <2>2. loop.snap \in Snapshots /\ loop.task \in Tasks \cup {NoTask}
    BY DEF TypeOK, Loops
  <2> QED BY <1>17, <2>1, <2>2 DEF SyncPublish, TypeOK, busVars, history
<1> QED BY <1>1, <1>2, <1>3, <1>4, <1>5, <1>6, <1>7, <1>8, <1>9, <1>10, <1>11, <1>12,
           <1>13, <1>14, <1>15, <1>16, <1>17 DEF AppNext

\* Steps of the tasks that open and identify a port keep every type.
LEMMA TransportType ==
    ASSUME TypeOK, AttachBus \/ OpenFails \/ Identified \/ ManualPathLost PROVE TypeOK'
<1>0. inbox \in Seq(Inputs \cup Replies)
  BY DEF TypeOK
<1>1. CASE AttachBus
  <2>1. inbox' \in Seq(Inputs \cup Replies)
    BY <1>0, <1>1, InputTypes DEF AttachBus
  <2> QED BY <1>1, <2>1 DEF AttachBus, TypeOK, fenceVars, history
<1>2. CASE Identified
  <2>1. \A d \in Devices \cup {NoDevice} :
           /\ [type |-> "ReconnectIdentificationFinished", verified |-> d] \in Inputs
           /\ [type |-> "IdentificationFinished", id |-> lastSession, verified |-> d]
                \in Inputs
    BY DEF TypeOK, Inputs, IdentificationInputs
  <2>2. inbox' \in Seq(Inputs \cup Replies)
    BY <1>0, <1>2, <2>1 DEF Identified
  <2> QED BY <1>2, <2>2 DEF Identified, TypeOK, fenceVars, coVars, history
<1>3. CASE OpenFails
  <2>1. inbox' \in Seq(Inputs \cup Replies)
    BY <1>0, <1>3, InputTypes DEF OpenFails
  <2> QED BY <1>3, <2>1 DEF OpenFails, TypeOK, fenceVars, coVars, history
<1>4. CASE ManualPathLost
  <2>1. inbox' \in Seq(Inputs \cup Replies)
    BY <1>0, <1>4, InputTypes DEF ManualPathLost
  <2> QED BY <1>4, <2>1 DEF ManualPathLost, TypeOK, fenceVars, busVars, coVars, history
<1> QED BY <1>1, <1>2, <1>3, <1>4

\* Steps of the coordinator task keep every type.
LEMMA CoType == ASSUME TypeOK, CoNext PROVE TypeOK'
<1>0. inbox \in Seq(Inputs \cup Replies)
  BY DEF TypeOK
<1>a. co \in Coordinators /\ co.plan \in Plans /\ co.task \in Tasks \cup {NoTask}
      /\ co.seen \in Snapshots /\ co.before \in Snapshots
  BY DEF TypeOK, Coordinators
<1>b. FreeCoordinator \in Coordinators /\ NoPlan \in Plans
  BY DEF FreeCoordinator, Coordinators, CoordinatorPcs, NoPlan, Plans,
         UnavailableSnapshot, Snapshots, WriteOutcomes
<1>c. TakenSnapshot \in Snapshots
  BY <1>a, FenceTypes DEF TypeOK, TakenSnapshot
<1>d. ASSUME NEW task PROVE Reply(task) \in Replies
  BY <1>b DEF Reply, Replies
<1>e. ASSUME CoLocal, co' \in Coordinators PROVE TypeOK'
  BY <1>e DEF CoLocal, CoFrame, TypeOK, busVars, fenceVars, history
<1>1. CASE Acquire
  <2>1. PICK task \in tasks :
           \/ /\ nextPlan' = nextPlan + 1
              /\ co' = [FreeCoordinator EXCEPT
                          !.pc = "prepare_before", !.task = task,
                          !.plan = [task.plan EXCEPT !.id = nextPlan]]
           \/ /\ co' = [FreeCoordinator EXCEPT !.pc = "confirm_take", !.task = task]
              /\ UNCHANGED nextPlan
    BY <1>1 DEF Acquire
  <2>2. task \in Tasks /\ nextPlan \in Nat
    BY DEF TypeOK
  <2>3. [task.plan EXCEPT !.id = nextPlan] \in Plans
    BY <2>2 DEF Tasks, Plans
  <2>4. nextPlan' \in Nat
    BY <2>1, <2>2
  <2>5. co' \in Coordinators
    <3>1. {"prepare_before", "confirm_take"} \subseteq CoordinatorPcs
      BY DEF CoordinatorPcs
    <3>2. ASSUME NEW pc \in CoordinatorPcs, NEW plan \in Plans, NEW c \in Coordinators
          PROVE  /\ [c EXCEPT !.pc = pc, !.task = task, !.plan = plan] \in Coordinators
                 /\ [c EXCEPT !.pc = pc, !.task = task] \in Coordinators
      BY <2>2 DEF Coordinators
    <3>3. [FreeCoordinator EXCEPT !.pc = "confirm_take", !.task = task] \in Coordinators
      BY <1>b, <3>1, <3>2
    <3>4. [FreeCoordinator EXCEPT !.pc = "prepare_before", !.task = task,
                                  !.plan = [task.plan EXCEPT !.id = nextPlan]] \in Coordinators
      BY <1>b, <2>3, <3>1, <3>2
    <3> QED BY <2>1, <3>3, <3>4
  <2> QED BY <1>1, <2>4, <2>5 DEF Acquire, CoFrame, TypeOK, busVars, fenceVars, history
<1>2. CASE ReadProjection
  <2>1. co' \in Coordinators
    <3>1. \E pc \in CoordinatorPcs : co' = [co EXCEPT !.pc = pc, !.seen = projection]
      BY <1>2 DEF ReadProjection, CoordinatorPcs
    <3>2. projection \in Snapshots
      BY DEF TypeOK
    <3> QED BY <1>a, <3>1, <3>2 DEF Coordinators
  <2> QED BY <1>2, <2>1, <1>e DEF ReadProjection
<1>3. CASE Reject
  BY <1>3, <1>a, <1>e DEF Reject, Coordinators, CoordinatorPcs
<1>4. CASE PrepareGuard
  BY <1>4, <1>a, <1>c, <1>e DEF PrepareGuard, Coordinators, CoordinatorPcs
<1>5. CASE FreshReads
  BY <1>5, <1>a, <1>e DEF FreshReads, Coordinators, CoordinatorPcs
<1>6. CASE PrepareStore
  <2> DEFINE plan == [co.plan EXCEPT !.revision = co.before.revision]
  <2>1. plan \in Plans
    BY <1>a DEF Plans, Snapshots
  <2>2. [type |-> "WritePrepared", plan |-> plan] \in Replies
    BY <2>1 DEF Replies
  <2>3. plans' \in SUBSET Plans /\ replies' \in SUBSET Replies /\ co' \in Coordinators
    BY <1>6, <1>b, <2>1, <2>2 DEF PrepareStore, Release, TypeOK
  <2>4. strayed' \in SUBSET Plans
    BY <1>6, <2>1 DEF PrepareStore, TypeOK
  <2> QED BY <1>6, <2>3, <2>4 DEF PrepareStore, TypeOK, appVars, busVars, fenceVars
<1>7. CASE ConfirmTake
  <2>1. co' \in Coordinators
    BY <1>7, <1>a DEF ConfirmTake, TypeOK, Coordinators, CoordinatorPcs
  <2> QED BY <1>7, <2>1 DEF ConfirmTake, CoFrame, TypeOK, busVars, fenceVars, history
<1>8. CASE ConfirmUnknownPlan
  BY <1>8, <1>b, <1>d
     DEF ConfirmUnknownPlan, Release, CoFrame, TypeOK, busVars, fenceVars, history
<1>9. CASE ConfirmGuard
  BY <1>9, <1>a, <1>c, <1>e DEF ConfirmGuard, Coordinators, CoordinatorPcs
<1>10. CASE ConfirmCheck
  BY <1>10, <1>a, <1>e DEF ConfirmCheck, Coordinators, CoordinatorPcs
<1>11. CASE Begin
  <2>1. co.plan.id \in Nat /\ co.seen.revision \in Nat
    BY <1>a DEF Plans, Snapshots
  <2>2. fence' \in Fences
    BY <1>11, <1>a, <2>1, FenceTypes DEF Begin, TypeOK
  <2>3. [type |-> "WriteConfirmed", id |-> co.plan.id] \in Inputs
    BY <2>1 DEF Inputs, OperationInputs
  <2>4. inbox' \in Seq(Inputs \cup Replies)
    BY <1>0, <1>11, <2>3 DEF Begin
  <2>5. co' \in Coordinators
    BY <1>11, <1>a DEF Begin, Coordinators, CoordinatorPcs
  <2> QED BY <1>11, <2>2, <2>4, <2>5 DEF Begin, CoFrame, TypeOK, busVars, history
<1>12. CASE AuditPrepare
  <2>1. co' \in Coordinators
    BY <1>12, <1>a DEF AuditPrepare, Coordinators, CoordinatorPcs
  <2> QED BY <1>12, <1>a, <2>1 DEF AuditPrepare, CoFrame, TypeOK, busVars, fenceVars
<1>13. CASE AuditPrepareFailed
  <2>1. fence' \in Fences
    BY <1>13, <1>a, FenceTypes DEF AuditPrepareFailed, TypeOK
  <2>2. inbox' \in Seq(Inputs \cup Replies)
    BY <1>0, <1>13, InputTypes DEF AuditPrepareFailed
  <2>3. failedIn' \in SUBSET Nat
    BY <1>13, <1>a DEF AuditPrepareFailed, TypeOK, Plans
  <2> QED BY <1>13, <1>b, <1>d, <2>1, <2>2, <2>3
          DEF AuditPrepareFailed, Release, CoFrame, TypeOK, busVars
<1>14. CASE SendWrite
  <2>1. co' \in Coordinators
    BY <1>14, <1>a DEF SendWrite, Coordinators, CoordinatorPcs
  <2> QED BY <1>14, <1>a, <2>1 DEF SendWrite, CoFrame, TypeOK, busVars, fenceVars
<1>15. CASE WriteRefused
  BY <1>15, <1>a, <1>e DEF WriteRefused, Coordinators, CoordinatorPcs, WriteOutcomes,
     AmbiguousOutcomes
<1>16. CASE WriteAnswered
  BY <1>16, <1>a, <1>e DEF WriteAnswered, Coordinators, CoordinatorPcs, WriteOutcomes,
     AmbiguousOutcomes
<1>17. CASE ReadBack
  BY <1>17, <1>a, <1>e DEF ReadBack, Coordinators, CoordinatorPcs, WriteOutcomes,
     AmbiguousOutcomes
<1>18. CASE Finish
  <2>1. PICK outcome \in {co.outcome, "AuditDegraded"} :
           /\ fence' = FinishSingleWrite(fence, outcome)
           /\ inbox' = Append(inbox, [type |-> "WriteFinished", outcome |-> outcome])
           /\ ambiguous' = (ambiguous \/ outcome \in AmbiguousOutcomes)
           /\ failedIn' = IF outcome \in AuditOutcomes
                          THEN failedIn \cup {co.plan.session} ELSE failedIn
    BY <1>18 DEF Finish
  <2>2. outcome \in WriteOutcomes
    BY <1>a DEF Coordinators, WriteOutcomes, AuditOutcomes
  <2>3. fence' \in Fences
    BY <2>1, <1>a, FenceTypes DEF TypeOK
  <2>4. [type |-> "WriteFinished", outcome |-> outcome] \in Inputs
    BY <2>2 DEF Inputs, OperationInputs
  <2>5. inbox' \in Seq(Inputs \cup Replies)
    BY <1>0, <2>1, <2>4
  <2>6. ambiguous' \in BOOLEAN
    BY <2>1, Zenon
  <2>7. failedIn' \in SUBSET Nat
    BY <2>1, <1>a DEF TypeOK, Plans
  <2> QED BY <1>18, <1>b, <1>d, <2>3, <2>5, <2>6, <2>7
          DEF Finish, Release, CoFrame, TypeOK, busVars
<1>19. CASE Decide
  <2>1. fence' \in Fences
    BY <1>19, <1>a, FenceTypes DEF Decide, TypeOK
  <2>2. inbox' \in Seq(Inputs \cup Replies)
    BY <1>0, <1>19, InputTypes DEF Decide
  <2>3. failedIn' \in SUBSET Nat
    BY <1>19, <1>a DEF Decide, TypeOK, Plans
  <2> QED BY <1>19, <1>b, <1>d, <2>1, <2>2, <2>3
          DEF Decide, Release, CoFrame, TypeOK, busVars
<1>20. CASE SendReply
  <2>1. inbox' \in Seq(Inputs \cup Replies)
    BY <1>0, <1>20 DEF SendReply, TypeOK
  <2> QED BY <1>20, <2>1 DEF SendReply, CoFrame, TypeOK, busVars, fenceVars, history
<1> QED BY <1>1, <1>2, <1>3, <1>4, <1>5, <1>6, <1>7, <1>8, <1>9, <1>10, <1>11, <1>12,
           <1>13, <1>14, <1>15, <1>16, <1>17, <1>18, <1>19, <1>20 DEF CoNext

\* Every step keeps every type.
LEMMA TypeStep == ASSUME TypeOK, [Next]_vars PROVE TypeOK'
<1>1. CASE Next
  BY <1>1, AppType, TransportType, CoType DEF Next
<1>2. CASE UNCHANGED vars
  BY <1>2 DEF vars, appVars, fenceVars, busVars, coVars, history, TypeOK
<1> QED BY <1>1, <1>2

\* Every variable of the write path keeps its type, for every number of devices,
\* targets, sessions and plans.
THEOREM TypeCorrect == Spec => []TypeOK
<1>1. Init => TypeOK
  <2> SUFFICES ASSUME Init PROVE TypeOK
    OBVIOUS
  <2>1. session \in Sessions
    BY SessionAssumption DEF Init, NewSession, Inactive, Sessions, Phases, Connectivities, Authorizations,
           AuditHealths, Operations, Idle
  <2>2. loop \in Loops /\ projection \in Snapshots
    BY DEF Init, LoopReady, Loops, UnavailableSnapshot, Snapshots
  <2>3. co \in Coordinators /\ staged \in Plans /\ prepared \in Plans
    BY DEF Init, FreeCoordinator, Coordinators, CoordinatorPcs, NoPlan, Plans,
           UnavailableSnapshot, Snapshots, WriteOutcomes
  <2>4. fence \in Fences
    BY DEF Init, OpenFence, Fences, NoFenceOperation, FenceOperations
  <2>5. /\ revision \in Nat /\ lastSession \in Nat /\ nextPlan \in Nat
        /\ bus \in {"open", "closed"} /\ opening \in {"none", "initial", "reconnect"}
        /\ inbox \in Seq(Inputs \cup Replies)
    BY DEF Init
  <2>6. identifying \in BOOLEAN /\ ambiguous \in BOOLEAN
    BY Zenon DEF Init
  <2>7. /\ plans = {} /\ tasks = {} /\ replies = {} /\ confirmed = {} /\ journal = {}
        /\ wire = {} /\ failedIn = {} /\ strayed = {}
    BY DEF Init
  <2> QED BY <2>1, <2>2, <2>3, <2>4, <2>5, <2>6, <2>7, Zenon DEF TypeOK
<1>2. TypeOK /\ [Next]_vars => TypeOK'
  BY TypeStep
<1> QED BY <1>1, <1>2, PTL DEF Spec

-----------------------------------------------------------------------------
(***************************************************************************)
(* Audit before write.  The invariant adds what the task that is about to  *)
(* transmit relies on: its own preparation record is already in the journal.*)
(***************************************************************************)
AuditInv == AuditBeforeWrite /\ (co.pc = "send" => co.plan \in journal)

\* No application step moves the coordinator, the journal or the wire.
LEMMA AppLeavesCoordinator ==
    ASSUME AppNext
    PROVE  UNCHANGED <<co, plans, journal, wire>>
<1>1. ASSUME NEW in, NEW resets, Dispatch(in, resets)
      PROVE  UNCHANGED <<co, plans, journal, wire>>
  BY <1>1 DEF Dispatch, coVars
<1>2. ASSUME NEW in, Apply(in) PROVE UNCHANGED <<co, plans, journal, wire>>
  BY <1>1, <1>2 DEF Apply
<1>3. CASE \/ UserConnects \/ UserDisconnects \/ UserArms \/ UserDisarms \/ SafetyTick
           \/ UserShutsDown \/ PortRemoved \/ ReconnectTimer \/ OtherConnectionAction
           \/ ReceiveInput
  BY <1>1, <1>2, <1>3 DEF UserConnects, UserDisconnects, UserArms, UserDisarms,
     SafetyTick, UserShutsDown, PortRemoved, ReconnectTimer, OtherConnectionAction,
     ReceiveInput
<1>4. CASE PrepareIntent \/ PrepareWrite \/ ConfirmPrepared \/ ClearIntent \/ ReceiveReply
           \/ SyncReconcile \/ SyncPublish
  BY <1>4 DEF PrepareIntent, PrepareWrite, ConfirmPrepared, ClearIntent, ReceiveReply,
     SyncReconcile, SyncPublish, coVars, history
<1> QED BY <1>3, <1>4 DEF AppNext

\* Whatever the interleaving, no write reaches the bus before the preparation
\* record of its plan is durable.
THEOREM AuditedBeforeWritten == Spec => []AuditBeforeWrite
<1>1. Init => AuditInv
  BY DEF Init, AuditInv, AuditBeforeWrite, FreeCoordinator
<1>2. TypeOK /\ AuditInv /\ [Next]_vars => AuditInv'
  <2> SUFFICES ASSUME TypeOK, AuditInv, [Next]_vars PROVE AuditInv'
    OBVIOUS
  <2>1. CASE AppNext
    BY <2>1, AppLeavesCoordinator DEF AuditInv, AuditBeforeWrite
  <2>2. CASE AttachBus \/ OpenFails \/ Identified \/ ManualPathLost
    BY <2>2 DEF AttachBus, OpenFails, Identified, ManualPathLost, AuditInv,
                AuditBeforeWrite, history, coVars
  <2>3. CASE Acquire \/ ReadProjection \/ Reject \/ PrepareGuard \/ FreshReads
             \/ ConfirmTake \/ ConfirmGuard \/ ConfirmCheck \/ WriteRefused
             \/ WriteAnswered \/ ReadBack \/ Begin \/ SendReply
    <3>1. UNCHANGED <<journal, wire>>
      BY <2>3 DEF Acquire, ReadProjection, Reject, PrepareGuard, FreshReads, ConfirmTake,
         ConfirmGuard, ConfirmCheck, WriteRefused, WriteAnswered, ReadBack, Begin,
         SendReply, CoLocal, history
    <3>2. co'.pc = "send" => co.pc = "send" /\ co'.plan = co.plan
      BY <2>3 DEF TypeOK, Coordinators, FreeCoordinator, Acquire, ReadProjection, Reject,
         PrepareGuard, FreshReads, ConfirmTake, ConfirmGuard, ConfirmCheck, WriteRefused,
         WriteAnswered, ReadBack, Begin, SendReply
    <3> QED BY <3>1, <3>2 DEF AuditInv, AuditBeforeWrite
  <2>4. CASE PrepareStore \/ ConfirmUnknownPlan \/ AuditPrepareFailed \/ Finish \/ Decide
    <3>1. UNCHANGED <<journal, wire>>
      BY <2>4 DEF PrepareStore, ConfirmUnknownPlan, AuditPrepareFailed, Finish, Decide,
         history
    <3>2. co'.pc = "free"
      BY <2>4 DEF PrepareStore, ConfirmUnknownPlan, AuditPrepareFailed, Finish, Decide,
         Release, FreeCoordinator
    <3> QED BY <3>1, <3>2 DEF AuditInv, AuditBeforeWrite
  <2>5. CASE AuditPrepare
    BY <2>5 DEF AuditPrepare, AuditInv, AuditBeforeWrite, TypeOK, Coordinators
  <2>6. CASE SendWrite
    BY <2>6 DEF SendWrite, AuditInv, AuditBeforeWrite, TypeOK, Coordinators
  <2>7. CASE UNCHANGED vars
    BY <2>7 DEF vars, coVars, history, AuditInv, AuditBeforeWrite
  <2> QED BY <2>1, <2>2, <2>3, <2>4, <2>5, <2>6, <2>7 DEF Next, CoNext
<1>3. AuditInv => AuditBeforeWrite
  BY DEF AuditInv
<1> QED BY <1>1, <1>2, <1>3, TypeCorrect, PTL DEF Spec

-----------------------------------------------------------------------------
(***************************************************************************)
(* Operator confirmation.  The confirmation travels from the loop to a     *)
(* spawned task and from there to the coordinator, which compares its      *)
(* challenge with the plan it holds; the invariant follows it all the way. *)
(***************************************************************************)
PastChallenge ==
    {"confirm_before", "confirm_guard", "confirm_read", "confirm_after",
     "confirm_check", "begin_snapshot", "begin", "audit_prepare", "send"}

CarriesConfirmed(task) == task.kind = "Confirm" => task.plan \in confirmed

ConfirmInv ==
    /\ OperatorConfirmed
    /\ CarriesConfirmed(loop.task)
    /\ \A task \in tasks : CarriesConfirmed(task)
    /\ CarriesConfirmed(co.task)
    /\ co.pc \in PastChallenge => co.plan \in confirmed

\* Application steps only ever hand confirmed plans to Confirm tasks.
LEMMA AppConfirms ==
    ASSUME TypeOK, ConfirmInv, AppNext
    PROVE  /\ confirmed \subseteq confirmed'
           /\ CarriesConfirmed(loop.task)'
           /\ \A task \in tasks' : CarriesConfirmed(task)'
<1> USE DEF CarriesConfirmed
<1>a. CarriesConfirmed(loop.task) /\ \A task \in tasks : CarriesConfirmed(task)
  BY DEF ConfirmInv
<1>b. ASSUME NEW s, NEW r, NEW task
      PROVE  SyncThen(s, r, task).task \in {task, NoTask}
  BY DEF SyncThen, LoopReady
<1>c. NoTask.kind # "Confirm"
  BY DEF NoTask
<1>1. ASSUME NEW in, NEW resets, Dispatch(in, resets)
      PROVE  /\ confirmed' = confirmed /\ tasks' = tasks
             /\ loop'.task = NoTask
  BY <1>1, <1>b DEF Dispatch, coVars
<1>2. CASE \/ UserConnects \/ UserDisconnects \/ UserArms \/ UserDisarms \/ SafetyTick
           \/ UserShutsDown \/ PortRemoved \/ ReconnectTimer \/ OtherConnectionAction
           \/ ReceiveInput
  <2>1. \E in, resets : Dispatch(in, resets)
    BY <1>2 DEF UserConnects, UserDisconnects, UserArms, UserDisarms, SafetyTick,
       UserShutsDown, PortRemoved, ReconnectTimer, OtherConnectionAction, ReceiveInput,
       Apply
  <2> QED BY <2>1, <1>1, <1>a, <1>c
<1>3. CASE PrepareIntent \/ ReceiveReply \/ SyncReconcile
  BY <1>3, <1>a DEF PrepareIntent, ReceiveReply, SyncReconcile, coVars, history, TypeOK,
     Loops
<1>4. CASE PrepareWrite
  <2>1. loop'.task \in {[kind |-> "Prepare", plan |-> staged], NoTask}
    BY <1>4, <1>b DEF PrepareWrite
  <2> QED BY <1>4, <2>1, <1>a, <1>c DEF PrepareWrite, coVars, history
<1>5. CASE ConfirmPrepared
  <2>1. loop'.task \in {[kind |-> "Confirm", plan |-> prepared], NoTask}
    BY <1>5, <1>b DEF ConfirmPrepared
  <2> QED BY <1>5, <2>1, <1>a, <1>c DEF ConfirmPrepared, coVars
<1>6. CASE ClearIntent
  BY <1>6, <1>a DEF ClearIntent, history
<1>7. CASE SyncPublish
  BY <1>7, <1>a, <1>c DEF SyncPublish, LoopReady, history
<1> QED BY <1>2, <1>3, <1>4, <1>5, <1>6, <1>7 DEF AppNext

\* A confirmation that waits in the loop, as a task or in the coordinator is one the
\* operator gave, and past the challenge the task holds the plan it was given for.
THEOREM ConfirmationsCarried == Spec => []ConfirmInv
<1>1. Init => ConfirmInv
  BY DEF Init, ConfirmInv, OperatorConfirmed, CarriesConfirmed, LoopReady, NoTask,
         FreeCoordinator, PastChallenge
<1>2. TypeOK /\ ConfirmInv /\ [Next]_vars => ConfirmInv'
  <2> SUFFICES ASSUME TypeOK, ConfirmInv, [Next]_vars PROVE ConfirmInv'
    OBVIOUS
  <2> USE DEF ConfirmInv, OperatorConfirmed, CarriesConfirmed
  <2>a. co \in Coordinators
    BY DEF TypeOK
  <2>1. CASE AppNext
    BY <2>1, AppLeavesCoordinator, AppConfirms
  <2>2. CASE AttachBus \/ OpenFails \/ Identified \/ ManualPathLost
    BY <2>2 DEF AttachBus, OpenFails, Identified, ManualPathLost, history, coVars
  <2>3. CASE Acquire
    <3>1. UNCHANGED <<loop, confirmed, wire>> /\ tasks' \subseteq tasks
      BY <2>3 DEF Acquire, CoFrame, history
    <3>2. co'.task \in tasks /\ co'.pc \in {"prepare_before", "confirm_take"}
      BY <2>3 DEF Acquire, FreeCoordinator
    <3> QED BY <3>1, <3>2 DEF PastChallenge
  <2>4. CASE \/ ReadProjection \/ Reject \/ PrepareGuard \/ FreshReads \/ ConfirmGuard
             \/ ConfirmCheck \/ WriteRefused \/ WriteAnswered \/ ReadBack
    <3>1. UNCHANGED <<loop, tasks, confirmed, wire>>
      BY <2>4 DEF ReadProjection, Reject, PrepareGuard, FreshReads, ConfirmGuard,
         ConfirmCheck, WriteRefused, WriteAnswered, ReadBack, CoLocal, CoFrame, history
    <3>2. /\ co'.task = co.task /\ co'.plan = co.plan
          /\ co'.pc \in PastChallenge => co.pc \in PastChallenge
      BY <2>4, <2>a DEF PastChallenge, Coordinators, ReadProjection, Reject, PrepareGuard,
         FreshReads, ConfirmGuard, ConfirmCheck, WriteRefused, WriteAnswered, ReadBack
    <3> QED BY <3>1, <3>2
  <2>5. CASE ConfirmTake
    <3>1. UNCHANGED <<loop, tasks, confirmed, wire>>
      BY <2>5 DEF ConfirmTake, CoFrame, history
    <3>2. PICK plan \in plans :
             \/ /\ co.task.kind = "Confirm"
                /\ Challenge(plan) = Challenge(co.task.plan)
                /\ co' = [co EXCEPT !.pc = "confirm_before", !.plan = plan]
             \/ co' = [co EXCEPT !.pc = "decide", !.plan = plan]
      BY <2>5 DEF ConfirmTake
    <3>3. CASE co' = [co EXCEPT !.pc = "decide", !.plan = plan]
      BY <3>1, <3>3, <2>a DEF Coordinators, PastChallenge
    <3>4. CASE /\ co.task.kind = "Confirm"
               /\ Challenge(plan) = Challenge(co.task.plan)
               /\ co' = [co EXCEPT !.pc = "confirm_before", !.plan = plan]
      <4>1. plan \in Plans /\ co.task.plan \in Plans
        BY <3>4, <2>a DEF TypeOK, Coordinators, Tasks, NoTask
      <4>2. plan = co.task.plan
        BY <3>4, <4>1 DEF Challenge, Plans
      <4> QED BY <3>1, <3>4, <4>2, <2>a DEF Coordinators
    <3> QED BY <3>2, <3>3, <3>4
  <2>6. CASE Begin \/ AuditPrepare
    <3>1. UNCHANGED <<loop, tasks, confirmed, wire>>
      BY <2>6 DEF Begin, AuditPrepare, CoFrame, history
    <3> QED BY <2>6, <3>1, <2>a DEF Begin, AuditPrepare, Coordinators, PastChallenge
  <2>7. CASE SendWrite
    <3>1. UNCHANGED <<loop, tasks, confirmed>>
      BY <2>7 DEF SendWrite, CoFrame
    <3> QED BY <2>7, <3>1, <2>a DEF SendWrite, Coordinators, PastChallenge
  <2>8. CASE PrepareStore \/ ConfirmUnknownPlan \/ AuditPrepareFailed \/ Finish \/ Decide
    <3>1. UNCHANGED <<loop, tasks, confirmed, wire>>
      BY <2>8 DEF PrepareStore, ConfirmUnknownPlan, AuditPrepareFailed, Finish, Decide,
         CoFrame, appVars, history
    <3>2. co' = FreeCoordinator
      BY <2>8 DEF PrepareStore, ConfirmUnknownPlan, AuditPrepareFailed, Finish, Decide,
         Release
    <3> QED BY <3>1, <3>2 DEF FreeCoordinator, NoTask, PastChallenge
  <2>9. CASE SendReply
    BY <2>9 DEF SendReply, CoFrame, history
  <2>10. CASE UNCHANGED vars
    BY <2>10 DEF vars, appVars, coVars, history
  <2> QED BY <2>1, <2>2, <2>3, <2>4, <2>5, <2>6, <2>7, <2>8, <2>9, <2>10 DEF Next, CoNext
<1> QED BY <1>1, <1>2, TypeCorrect, PTL DEF Spec

\* Every write on the bus is one the operator confirmed, with the very revision
\* it was shown, although a new coordinator numbers its plans from 1 again.
THEOREM ConfirmedBeforeWritten == Spec => []OperatorConfirmed
<1>1. ConfirmInv => OperatorConfirmed
  BY DEF ConfirmInv
<1> QED BY <1>1, ConfirmationsCarried, PTL

-----------------------------------------------------------------------------
(***************************************************************************)
(* What the write guard promises however the loop, the transport and the   *)
(* coordinator interleave, for every set of devices and targets and every  *)
(* bound: a write stays in the session of its plan, no write begins after  *)
(* a failed audit or an ambiguous outcome until writes are armed again,    *)
(* and the fence drains.  The lemmas at the head are those the proofs      *)
(* about repeated writes and about the restore need too.                   *)
(***************************************************************************)

(***************************************************************************)
(* What a step leaves alone.                                               *)
(***************************************************************************)

\* A step of the coordinator never moves what the main loop or the transport owns.
LEMMA CoLeavesLoop ==
    ASSUME CoNext
    PROVE  /\ UNCHANGED <<session, revision, lastSession, staged, prepared, loop, projection>>
           /\ UNCHANGED <<bus, opening, identifying>>
<1> USE DEF CoFrame, busVars, fenceVars
<1>1. CASE Acquire \/ ReadProjection \/ Reject \/ PrepareGuard \/ FreshReads \/ ConfirmTake
           \/ ConfirmUnknownPlan \/ ConfirmGuard \/ ConfirmCheck \/ Begin \/ WriteRefused
           \/ WriteAnswered \/ ReadBack \/ SendReply
  BY <1>1 DEF Acquire, ReadProjection, Reject, PrepareGuard, FreshReads, ConfirmTake,
     ConfirmUnknownPlan, ConfirmGuard, ConfirmCheck, Begin, WriteRefused, WriteAnswered,
     ReadBack, SendReply, CoLocal
<1>2. CASE AuditPrepare \/ AuditPrepareFailed \/ SendWrite \/ Finish \/ Decide
  BY <1>2 DEF AuditPrepare, AuditPrepareFailed, SendWrite, Finish, Decide
<1>3. CASE PrepareStore
  BY <1>3 DEF PrepareStore, appVars
<1> QED BY <1>1, <1>2, <1>3 DEF CoNext

Transport == AttachBus \/ OpenFails \/ Identified \/ ManualPathLost

\* The tasks that open and identify a port only move the bus, the inbox and, when a
\* new bus is attached, the plans and their counter.
LEMMA TransportLeavesLoop ==
    ASSUME Transport
    PROVE  /\ UNCHANGED <<session, revision, lastSession, staged, prepared, loop>>
           /\ UNCHANGED <<projection, fence, tasks, co, replies>>
           /\ UNCHANGED <<confirmed, journal, wire, ambiguous, failedIn, strayed>>
           /\ AttachBus \/ UNCHANGED <<bus, plans, nextPlan>>
BY DEF Transport, AttachBus, OpenFails, Identified, ManualPathLost, busVars, fenceVars,
       coVars, history

(***************************************************************************)
(* Actions of the loop that dispatch no session or connection input.       *)
(***************************************************************************)
Unguarded ==
    PrepareIntent \/ PrepareWrite \/ ConfirmPrepared \/ ClearIntent \/ ReceiveReply
        \/ SyncReconcile \/ SyncPublish

UserInputs ==
    {"Connect", "CancelConnect", "Disconnect", "ArmWrites", "ConfirmArming",
     "DisarmWrites", "ArmingExpired", "IdleDisarmElapsed", "Shutdown", "PortRemoved",
     "IdentificationFinished", "ReconnectTimerElapsed", "NoInput"}

(***************************************************************************)
(* A dispatched input comes from the operator and the timers, or is the    *)
(* head of the inbox; an identification takes the pending session id.      *)
(***************************************************************************)
Dispatched(in) ==
    /\ \E resets : Dispatch(in, resets)
    /\ in.type = "IdentificationFinished" => in.id = lastSession
    /\ \/ inbox' = inbox /\ in.type \in UserInputs
       \/ /\ inbox # <<>> /\ Head(inbox) \in Inputs /\ inbox' = Tail(inbox)
          /\ in.type = Head(inbox).type

(***************************************************************************)
(* Actions of the loop that dispatch one.                                  *)
(***************************************************************************)
Dispatching ==
    UserConnects \/ UserDisconnects \/ UserArms \/ UserDisarms \/ SafetyTick
        \/ UserShutsDown \/ PortRemoved \/ ReconnectTimer \/ OtherConnectionAction
        \/ ReceiveInput

\* They dispatch inputs of the session machine and nothing else.
LEMMA AppInputs ==
    ASSUME lastSession \in Nat, Dispatching
    PROVE  \E in \in Inputs \cup {NoInput} : Dispatched(in)
<1> USE InputTypes DEF Dispatched, UserInputs
<1>a. \A t \in UserInputs : Input(t).type = t
  BY DEF Input
<1>b. NoInput = Input("NoInput")
  BY DEF NoInput
<1>1. ASSUME NEW t \in UserInputs \ {"IdentificationFinished", "ConfirmArming",
                                     "ReconnectTimerElapsed"},
             Apply(Input(t)), inbox' = inbox
      PROVE  \E in \in Inputs \cup {NoInput} : Dispatched(in)
  <2>1. Input(t) \in Inputs \cup {NoInput}
    BY <1>1, <1>b
  <2>2. Dispatched(Input(t))
    BY <1>1, <1>a DEF Apply
  <2> QED BY <2>1, <2>2
<1>2. CASE UserConnects
  BY <1>1, <1>2 DEF UserConnects
<1>3. CASE UserDisconnects
  BY <1>1, <1>3 DEF UserDisconnects
<1>4. CASE UserArms
  <2>1. CASE Apply(Input("ArmWrites"))
    BY <1>1, <1>4, <2>1 DEF UserArms
  <2>2. CASE Apply([type |-> "ConfirmArming", valid |-> TRUE])
    BY <1>4, <2>2 DEF UserArms, Apply
  <2> QED BY <1>4, <2>1, <2>2 DEF UserArms
<1>5. CASE UserDisarms \/ SafetyTick \/ UserShutsDown \/ OtherConnectionAction
  BY <1>1, <1>5, <1>b DEF UserDisarms, SafetyTick, UserShutsDown, OtherConnectionAction
<1>6. CASE PortRemoved
  <2>1. CASE Apply(Input("PortRemoved"))
    BY <1>1, <1>6, <2>1 DEF PortRemoved
  <2>2. CASE Dispatch([type |-> "IdentificationFinished", id |-> lastSession,
                       verified |-> NoDevice], FALSE)
    <3> DEFINE in == [type |-> "IdentificationFinished", id |-> lastSession,
                      verified |-> NoDevice]
    <3>1. in \in Inputs
      BY DEF Inputs, IdentificationInputs
    <3>2. in.type = "IdentificationFinished" /\ in.id = lastSession
      OBVIOUS
    <3>3. \E resets : Dispatch(in, resets)
      BY <2>2
    <3>4. inbox' = inbox
      BY <1>6 DEF PortRemoved
    <3> HIDE DEF in
    <3> QED BY <3>1, <3>2, <3>3, <3>4
  <2> QED BY <1>6, <2>1, <2>2 DEF PortRemoved
<1>7. CASE ReconnectTimer
  BY <1>7 DEF ReconnectTimer, Apply
<1>8. CASE ReceiveInput
  <2>1. Head(inbox) \in Inputs
    BY <1>8 DEF ReceiveInput
  <2>2. /\ Received(Head(inbox)) \in Inputs
        /\ Received(Head(inbox)).type = Head(inbox).type
        /\ Head(inbox).type = "IdentificationFinished"
             => Received(Head(inbox)).id = lastSession
    <3>1. CASE Head(inbox).type = "IdentificationFinished"
      <4>1. Head(inbox) \in IdentificationInputs
        BY <2>1, <3>1 DEF Inputs, PlainInputs, TimedInputs, OperationInputs
      <4>2. Head(inbox) \in [type : {"IdentificationFinished"}, id : Nat,
                             verified : Devices \cup {NoDevice}]
        BY <3>1, <4>1 DEF IdentificationInputs
      <4> QED BY <3>1, <4>2 DEF Received, IdentificationInputs, Inputs
    <3>2. CASE Head(inbox).type # "IdentificationFinished"
      BY <2>1, <3>2 DEF Received
    <3> QED BY <3>1, <3>2
  <2> QED BY <1>8, <2>1, <2>2 DEF ReceiveInput, Apply
<1> QED BY <1>2, <1>3, <1>4, <1>5, <1>6, <1>7, <1>8 DEF Dispatching

\* Every step of the main loop dispatches one input of the session machine or is one
\* of the named actions that leave the session and the revision alone.
LEMMA AppSteps ==
    ASSUME TypeOK, AppNext
    PROVE  Unguarded \/ \E in \in Inputs \cup {NoInput} : Dispatched(in)
BY AppInputs DEF TypeOK, AppNext, Unguarded, Dispatching

\* The session only changes when an input is dispatched.
LEMMA SessionSteps ==
    ASSUME TypeOK, [Next]_vars, session' # session
    PROVE  \E in \in Inputs \cup {NoInput} : Dispatched(in)
<1>1. ~Unguarded
  BY DEF Unguarded, PrepareIntent, PrepareWrite, ConfirmPrepared, ClearIntent,
     ReceiveReply, SyncReconcile, SyncPublish
<1>2. ~Transport /\ ~CoNext
  BY TransportLeavesLoop, CoLeavesLoop
<1>3. ~UNCHANGED vars
  BY DEF vars, appVars
<1> QED BY <1>1, <1>2, <1>3, AppSteps DEF Next, Transport

-----------------------------------------------------------------------------
(***************************************************************************)
(* What the reducer of session.rs can do to a session.                     *)
(***************************************************************************)

\* An Active session stays Active with its id, or its bus is closed: Disconnect
\* emits ClosePort, Shutdown emits ShutdownBusActor.
LEMMA ReduceKeepsSession ==
    ASSUME NEW s \in Sessions, NEW in \in Inputs \cup {NoInput}, IsActive(s)
    PROVE  \/ IsActive(Reduce(s, in)) /\ Reduce(s, in).id = s.id
           \/ Emits("ClosePort", s, in) \/ Emits("ShutdownBusActor", s, in)
<1> USE DEF IsActive, Sessions
<1>1. CASE in.type = "Disconnect"
  <2>1. Effects(s, in) = AbortEffect(s) \o <<"CancelReconnect", "StopPlanner", "ClosePort">>
    BY <1>1 DEF Effects
  <2>2. CASE AbortEffect(s) = <<>>
    <3>1. Effects(s, in) = <<"CancelReconnect", "StopPlanner", "ClosePort">>
      BY <2>1, <2>2
    <3> QED BY <3>1 DEF Emits
  <2>3. CASE AbortEffect(s) = <<"AbortOperation">>
    <3>1. 4 \in DOMAIN Effects(s, in) /\ Effects(s, in)[4] = "ClosePort"
      BY <2>1, <2>3
    <3> QED BY <3>1 DEF Emits
  <2> QED BY <2>2, <2>3 DEF AbortEffect
<1>2. CASE in.type = "Shutdown"
  <2>1. Effects(s, in) = ShutdownEffects
    BY <1>2 DEF Effects
  <2>2. /\ DOMAIN ShutdownEffects = 1 .. 6
        /\ ShutdownEffects[4] = "ShutdownBusActor"
    BY DEF ShutdownEffects
  <2> QED BY <2>1, <2>2 DEF Emits
<1>3. CASE in.type \notin {"Disconnect", "Shutdown"}
  BY <1>3 DEF Reduce, TransportLost, NextAttempt, ReconnectFailed, WriteFinished
<1> QED BY <1>1, <1>2, <1>3

\* An Active session that stays Active keeps its id.
LEMMA ReduceKeepsId ==
    ASSUME NEW s \in Sessions, NEW in \in Inputs \cup {NoInput},
           IsActive(s), IsActive(Reduce(s, in))
    PROVE  Reduce(s, in).id = s.id
BY DEF Reduce, IsActive, Sessions, NewSession, Inactive, TransportLost, ReconnectFailed,
       WriteFinished

\* A session becomes Active only by an identification, with the id the input
\* carries, healthy, idle and not armed.
LEMMA ReduceActivates ==
    ASSUME NEW s \in Sessions, NEW in \in Inputs \cup {NoInput},
           ~IsActive(s), IsActive(Reduce(s, in))
    PROVE  /\ in.type = "IdentificationFinished" /\ s.phase = "Identifying"
           /\ Reduce(s, in).id = in.id
           /\ Reduce(s, in).operation = Idle
BY DEF Reduce, IsActive, NewSession, Inactive, ActiveSession

\* A session starts connecting only by Connect.
LEMMA ReduceConnects ==
    ASSUME NEW s \in Sessions, NEW in \in Inputs \cup {NoInput},
           Reduce(s, in).phase \in {"Connecting", "Identifying"}
    PROVE  s.phase \in {"Connecting", "Identifying"} \/ in.type = "Connect"
BY DEF Reduce, IsActive, NewSession, Inactive, ActiveSession, TransportLost,
       ReconnectFailed, WriteFinished, Sessions

\* A session that does not restore starts a restore only by RestoreStarted.
Manual(s) == s.operation = Idle \/ s.operation.kind = "SingleWrite"

LEMMA ReduceKeepsManual ==
    ASSUME NEW s \in Sessions, NEW in \in Inputs \cup {NoInput},
           Manual(s), in.type # "RestoreStarted"
    PROVE  Manual(Reduce(s, in))
<1>1. Reduce(s, in).operation \in {s.operation, Idle} \cup {SingleWrite(n) : n \in Nat}
  <2>1. CASE in.type = "WriteConfirmed"
    <3>1. in.id \in Nat
      BY <2>1 DEF Inputs, PlainInputs, IdentificationInputs, TimedInputs,
         OperationInputs, NoInput, Input
    <3> QED BY <2>1, <3>1 DEF Reduce, Sessions
  <2>2. CASE in.type = "RestoreAdvanced"
    <3>1. s.operation.kind # "Restore"
      BY DEF Manual, Idle
    <3> QED BY <2>2, <3>1 DEF Reduce
  <2>3. CASE in.type \notin {"WriteConfirmed", "RestoreAdvanced"}
    BY <2>3 DEF Reduce, NewSession, Inactive, ActiveSession, TransportLost,
       ReconnectFailed, WriteFinished, Sessions
  <2> QED BY <2>1, <2>2, <2>3
<1> QED BY <1>1 DEF Manual, SingleWrite

\* The end of a write and a failed audit leave the session idle.
Closes(m) == m.type \in {"WriteFinished", "AuditPersistenceFailed"}

LEMMA ReduceCloses ==
    ASSUME NEW s \in Sessions, NEW in \in Inputs \cup {NoInput},
           Manual(s), Closes(in), IsActive(Reduce(s, in))
    PROVE  Reduce(s, in).operation = Idle
BY DEF Reduce, IsActive, WriteFinished, Sessions, Manual, Closes

\* While a session stays Active its audit never recovers.
LEMMA ReduceKeepsDegraded ==
    ASSUME NEW s \in Sessions, NEW in \in Inputs \cup {NoInput},
           IsActive(s), s.audit # "Healthy"
    PROVE  Reduce(s, in).audit # "Healthy"
BY DEF Reduce, IsActive, NewSession, Inactive, TransportLost,
       ReconnectFailed, WriteFinished, Sessions

-----------------------------------------------------------------------------
(***************************************************************************)
(* The sync and the revisions.  While a sync runs, the loop holds the      *)
(* snapshot of the session as it is, since no input is dispatched in       *)
(* between; no snapshot is ahead of the revision counter.                  *)
(***************************************************************************)
SyncInv ==
    /\ loop.stage # "ready" => IsActive(session) /\ loop.snap = SnapshotOf(session, revision)
    /\ projection.revision <= revision
    /\ co.seen.revision <= revision
    /\ co.before.revision <= revision

\* Every snapshot in use was taken from a session that was Active, at a revision
\* that has not been exceeded since, and a running sync publishes the current one.
THEOREM SyncIsCurrent == Spec => []SyncInv
<1>1. Init => SyncInv
  BY DEF Init, SyncInv, LoopReady, UnavailableSnapshot, FreeCoordinator
<1>2. TypeOK /\ SyncInv /\ [Next]_vars => SyncInv'
  <2> SUFFICES ASSUME TypeOK, SyncInv, [Next]_vars PROVE SyncInv'
    OBVIOUS
  <2>a. /\ revision \in Nat /\ projection \in Snapshots /\ co \in Coordinators
        /\ loop \in Loops
    BY DEF TypeOK
  <2>b. ASSUME NEW task, loop' = SyncThen(session', revision', task)
        PROVE  loop'.stage # "ready" =>
                 IsActive(session') /\ loop'.snap = SnapshotOf(session', revision')
    BY <2>b DEF SyncThen, LoopReady
  <2>1. CASE Unguarded
    <3>1. UNCHANGED <<session, revision, co>>
      BY <2>1 DEF Unguarded, PrepareIntent, PrepareWrite, ConfirmPrepared, ClearIntent,
         ReceiveReply, SyncReconcile, SyncPublish, coVars
    <3>2. CASE PrepareIntent \/ ClearIntent \/ ReceiveReply
      BY <3>1, <3>2 DEF PrepareIntent, ClearIntent, ReceiveReply, fenceVars, SyncInv
    <3>3. CASE PrepareWrite \/ ConfirmPrepared
      <4>1. projection' = projection
        BY <3>3 DEF PrepareWrite, ConfirmPrepared, fenceVars
      <4>2. \E task : loop' = SyncThen(session', revision', task)
        BY <3>3, <3>1 DEF PrepareWrite, ConfirmPrepared
      <4> QED BY <3>1, <4>1, <4>2, <2>b DEF SyncInv
    <3>4. CASE SyncReconcile
      BY <3>1, <3>4, <2>a DEF SyncReconcile, SyncInv, Loops
    <3>5. CASE SyncPublish
      BY <3>1, <3>5, <2>a DEF SyncPublish, SyncInv, LoopReady, SnapshotOf
    <3> QED BY <2>1, <3>2, <3>3, <3>4, <3>5 DEF Unguarded
  <2>2. ASSUME NEW in, Dispatched(in) PROVE SyncInv'
    <3>1. PICK resets : Dispatch(in, resets)
      BY <2>2 DEF Dispatched
    <3>2. revision' = revision + 1 /\ UNCHANGED <<projection, co>>
      BY <3>1 DEF Dispatch, fenceVars, coVars
    <3>3. loop' = SyncThen(session', revision', NoTask)
      BY <3>1 DEF Dispatch
    <3>4. /\ projection.revision \in Nat /\ co.seen.revision \in Nat
          /\ co.before.revision \in Nat
      BY <2>a DEF Coordinators, Snapshots
    <3> QED BY <3>2, <3>3, <3>4, <2>a, <2>b DEF SyncInv
  <2>3. CASE Transport
    BY <2>3, TransportLeavesLoop DEF SyncInv
  <2>4. CASE CoNext
    <3>1. UNCHANGED <<session, revision, loop, projection>>
      BY <2>4, CoLeavesLoop
    <3>2. /\ co'.seen.revision \in {co.seen.revision, projection.revision, 0}
          /\ co'.before.revision \in {co.before.revision, co.seen.revision, 0}
      <4>1. UnavailableSnapshot.revision = 0
        BY DEF UnavailableSnapshot
      <4>2. TakenSnapshot.revision = co.seen.revision
        BY <2>a DEF TakenSnapshot, Overlay, Coordinators, Snapshots
      <4>3. CASE \/ Acquire \/ PrepareStore \/ ConfirmUnknownPlan \/ AuditPrepareFailed
                 \/ Finish \/ Decide
        <5>1. /\ FreeCoordinator.seen = UnavailableSnapshot
              /\ FreeCoordinator.before = UnavailableSnapshot
          BY DEF FreeCoordinator
        <5>2. co'.seen = UnavailableSnapshot /\ co'.before = UnavailableSnapshot
          BY <4>3, <5>1 DEF Acquire, PrepareStore, ConfirmUnknownPlan, Finish, Decide,
             AuditPrepareFailed, Release, FreeCoordinator
        <5> QED BY <4>1, <5>2
      <4>4. CASE \/ ReadProjection \/ Reject \/ PrepareGuard \/ FreshReads \/ ConfirmTake
                 \/ ConfirmGuard \/ ConfirmCheck \/ Begin
        BY <4>2, <4>4, <2>a DEF ReadProjection, Reject, PrepareGuard, FreshReads,
           ConfirmTake, ConfirmGuard, ConfirmCheck, Begin, Coordinators
      <4>5. CASE \/ AuditPrepare \/ SendWrite \/ WriteRefused \/ WriteAnswered \/ ReadBack
                 \/ SendReply
        BY <4>5, <2>a DEF AuditPrepare, SendWrite, WriteRefused, WriteAnswered, ReadBack,
           SendReply, Coordinators
      <4> QED BY <2>4, <4>3, <4>4, <4>5 DEF CoNext
    <3> QED BY <3>1, <3>2, <2>a DEF SyncInv
  <2>5. CASE UNCHANGED vars
    BY <2>5 DEF vars, appVars, fenceVars, coVars, SyncInv
  <2> QED BY <2>1, <2>2, <2>3, <2>4, <2>5, AppSteps DEF Next, Transport
<1> QED BY <1>1, <1>2, TypeCorrect, PTL DEF Spec
-----------------------------------------------------------------------------
(***************************************************************************)
(* A write stays in its session.  Over an open bus, every plan that the    *)
(* coordinator stores or confirms belongs to the Active session, unless it *)
(* was stored after its session had ended: a session only ends together    *)
(* with its bus, a new bus waits for the mutex, and a new coordinator      *)
(* starts without plans.                                                   *)
(***************************************************************************)
Held(plan) == plan \in plans \/ (co.pc \in PastChallenge /\ plan = co.plan)

InSession(plan) == IsActive(session) /\ session.id = plan.session

StayInv == bus = "open" => \A plan : Held(plan) /\ plan \notin strayed => InSession(plan)

\* Only SendWrite moves the wire, and only it leads from "send" to "answer".
LEMMA OnlySendWrites ==
    ASSUME TypeOK, [Next]_vars, ~SendWrite
    PROVE  wire' = wire /\ ~Transmits
<1>a. co \in Coordinators
  BY DEF TypeOK
<1>1. CASE AppNext
  BY <1>1, AppLeavesCoordinator DEF Transmits
<1>2. CASE Transport
  BY <1>2, TransportLeavesLoop DEF Transmits
<1>3. CASE Acquire \/ ReadProjection \/ Reject \/ PrepareGuard \/ FreshReads \/ ConfirmTake
           \/ ConfirmGuard \/ ConfirmCheck
  <2>1. wire' = wire
    BY <1>3 DEF Acquire, ReadProjection, Reject, PrepareGuard, FreshReads, ConfirmTake,
       ConfirmGuard, ConfirmCheck, CoLocal, history
  <2> QED BY <1>3, <1>a, <2>1 DEF Acquire, ReadProjection, Reject, PrepareGuard, FreshReads,
          ConfirmTake, ConfirmGuard, ConfirmCheck, FreeCoordinator, Transmits
<1>4. CASE Begin \/ AuditPrepare \/ WriteRefused \/ WriteAnswered \/ ReadBack \/ SendReply
  <2>1. wire' = wire
    BY <1>4 DEF Begin, AuditPrepare, WriteRefused, WriteAnswered, ReadBack, SendReply,
       CoLocal, history
  <2> QED BY <1>4, <1>a, <2>1 DEF Begin, AuditPrepare, WriteRefused, WriteAnswered, ReadBack,
          SendReply, Coordinators, Transmits
<1>5. CASE PrepareStore \/ ConfirmUnknownPlan \/ AuditPrepareFailed \/ Finish \/ Decide
  <2>1. wire' = wire
    BY <1>5 DEF PrepareStore, ConfirmUnknownPlan, AuditPrepareFailed, Finish, Decide, history
  <2> QED BY <1>5, <1>a, <2>1 DEF PrepareStore, ConfirmUnknownPlan, AuditPrepareFailed, Finish,
          Decide, Release, FreeCoordinator, Transmits
<1>6. CASE UNCHANGED vars
  BY <1>6 DEF vars, coVars, history, Transmits
<1> QED BY <1>1, <1>2, <1>3, <1>4, <1>5, <1>6 DEF Next, CoNext, Transport

\* No write goes out on the bus of another session than its plan's, for a plan that
\* was stored while its session was active: attach_bus waits for the coordinator
\* mutex, and a session that ends closes its bus in the same step.
THEOREM StaysInSession == Spec => WriteStaysInSession
<1>1. Init => StayInv
  BY DEF Init, StayInv
<1>2. TypeOK /\ StayInv /\ [Next]_vars => StayInv'
  <2> SUFFICES ASSUME TypeOK, StayInv, [Next]_vars PROVE StayInv'
    OBVIOUS
  <2> USE DEF StayInv, Held, InSession
  <2>a. co \in Coordinators /\ session \in Sessions
    BY DEF TypeOK
  <2>1. CASE Unguarded
    <3>1. UNCHANGED <<co, plans, session, bus, strayed>>
      BY <2>1 DEF Unguarded, PrepareIntent, PrepareWrite, ConfirmPrepared, ClearIntent,
         ReceiveReply, SyncReconcile, SyncPublish, coVars, busVars, history
    <3> QED BY <3>1
  <2>2. ASSUME NEW in \in Inputs \cup {NoInput}, Dispatched(in) PROVE StayInv'
    <3>1. PICK resets : Dispatch(in, resets)
      BY <2>2 DEF Dispatched
    <3>2. UNCHANGED <<co, plans, strayed>> /\ session' = Reduce(session, in)
      BY <3>1 DEF Dispatch, coVars
    <3>3. bus' = IF ClosesBus(in) THEN "closed" ELSE bus
      BY <3>1 DEF Dispatch
    <3>4. CASE ClosesBus(in)
      BY <3>3, <3>4
    <3>5. CASE ~ClosesBus(in)
      <4>1. IsActive(session) => IsActive(session') /\ session'.id = session.id
        BY <3>2, <3>5, <2>a, ReduceKeepsSession DEF ClosesBus
      <4> QED BY <3>2, <3>3, <3>5, <4>1
    <3> QED BY <3>4, <3>5
  <2>3. CASE AttachBus
    <3>1. plans' = {} /\ co' = co /\ co.pc = "free"
      BY <2>3 DEF AttachBus
    <3> QED BY <3>1 DEF PastChallenge
  <2>4. CASE Transport /\ ~AttachBus
    BY <2>4, TransportLeavesLoop
  <2>5. CASE CoNext
    <3>1. UNCHANGED <<session, bus>>
      BY <2>5, CoLeavesLoop
    <3>2. CASE PrepareStore
      <4> DEFINE stored == [co.plan EXCEPT !.revision = co.before.revision]
      <4>1. /\ plans' = plans \cup {stored} /\ co'.pc = "free"
            /\ strayed' = IF InSession(stored) THEN strayed ELSE strayed \cup {stored}
        BY <3>2 DEF PrepareStore, Release, FreeCoordinator
      <4> HIDE DEF stored
      <4>2. co'.pc \notin PastChallenge /\ strayed \subseteq strayed'
        BY <4>1 DEF PastChallenge
      <4>3. stored \notin strayed' => InSession(stored)
        BY <4>1
      <4>4. ASSUME NEW plan, Held(plan)', plan \notin strayed', bus' = "open"
            PROVE  InSession(plan)
        BY <3>1, <4>1, <4>2, <4>3, <4>4
      <4> QED BY <3>1, <4>4
    <3>3. CASE ~PrepareStore
      <4>1. strayed' = strayed
        BY <2>5, <3>3 DEF CoNext, CoFrame, Acquire, ReadProjection, Reject, PrepareGuard,
           FreshReads, ConfirmTake, ConfirmUnknownPlan, ConfirmGuard, ConfirmCheck, Begin,
           AuditPrepare, AuditPrepareFailed, SendWrite, WriteRefused, WriteAnswered,
           ReadBack, Finish, Decide, SendReply, CoLocal
      <4>2. ASSUME NEW plan, Held(plan)' PROVE Held(plan)
        <5>1. CASE Acquire \/ ConfirmUnknownPlan \/ AuditPrepareFailed \/ Finish \/ Decide
          <6>1. plans' = plans /\ co'.pc \in {"free", "prepare_before", "confirm_take"}
            <7>1. CASE Acquire
              BY <7>1 DEF Acquire, FreeCoordinator
            <7>2. CASE ConfirmUnknownPlan \/ AuditPrepareFailed \/ Finish \/ Decide
              BY <7>2 DEF ConfirmUnknownPlan, AuditPrepareFailed, Finish, Decide, Release,
                 FreeCoordinator
            <7> QED BY <5>1, <7>1, <7>2
          <6> QED BY <4>2, <6>1 DEF PastChallenge
        <5>2. CASE ConfirmTake
          <6>1. PICK taken \in plans : co'.plan = taken /\ plans' = plans \ {taken}
            BY <5>2, <2>a DEF ConfirmTake, Coordinators
          <6> QED BY <4>2, <6>1
        <5>3. CASE \/ ReadProjection \/ Reject \/ PrepareGuard \/ FreshReads \/ ConfirmGuard
                   \/ ConfirmCheck \/ WriteRefused \/ WriteAnswered \/ ReadBack
          BY <5>3, <4>2, <2>a DEF ReadProjection, Reject, PrepareGuard, FreshReads,
             ConfirmGuard, ConfirmCheck, WriteRefused, WriteAnswered, ReadBack, CoLocal,
             Coordinators, PastChallenge
        <5>4. CASE Begin \/ AuditPrepare \/ SendWrite \/ SendReply
          BY <5>4, <4>2, <2>a DEF Begin, AuditPrepare, SendWrite, SendReply, Coordinators,
             PastChallenge
        <5> QED BY <2>5, <3>3, <5>1, <5>2, <5>3, <5>4 DEF CoNext
      <4> QED BY <3>1, <4>1, <4>2
    <3> QED BY <3>2, <3>3
  <2>6. CASE UNCHANGED vars
    BY <2>6 DEF vars, appVars, busVars, coVars, history
  <2> QED BY <2>1, <2>2, <2>3, <2>4, <2>5, <2>6, AppSteps DEF Next, Transport
<1>3. TypeOK /\ StayInv /\ [Next]_vars
        => [wire' # wire /\ IsActive(session) /\ co.plan \notin strayed
              => session.id = co.plan.session]_vars
  <2> SUFFICES ASSUME TypeOK, StayInv, [Next]_vars, wire' # wire, co.plan \notin strayed
               PROVE  session.id = co.plan.session
    OBVIOUS
  <2>1. SendWrite
    BY OnlySendWrites
  <2> QED BY <2>1 DEF SendWrite, StayInv, Held, InSession, PastChallenge
<1> QED BY <1>1, <1>2, <1>3, TypeCorrect, PTL DEF Spec, WriteStaysInSession
-----------------------------------------------------------------------------
(***************************************************************************)
(* Session ids are fresh: while a session is being opened, every id in use *)
(* lies below the one it will get.                                         *)
(***************************************************************************)
Used(id) ==
    \/ id = 0
    \/ IsActive(session) /\ id = session.id
    \/ id = staged.session
    \/ \E task \in tasks \cup {loop.task} : task.kind = "Prepare" /\ id = task.plan.session
    \/ id = co.plan.session
    \/ \E plan \in plans : id = plan.session
    \/ id \in failedIn

Opening == session.phase \in {"Connecting", "Identifying"}

IdLimit == IF Opening THEN lastSession ELSE lastSession + 1

FreshInv == \A id : Used(id) => id < IdLimit

\* The limit never goes down: Connect allocates the id the session will get.
LEMMA IdLimitGrows ==
    ASSUME TypeOK, [Next]_vars PROVE IdLimit' \in {IdLimit, IdLimit + 1, IdLimit + 2}
<1> USE DEF IdLimit, Opening
<1>a. lastSession \in Nat /\ session \in Sessions
  BY DEF TypeOK
<1>1. CASE Unguarded
  BY <1>1, <1>a DEF Unguarded, PrepareIntent, PrepareWrite, ConfirmPrepared, ClearIntent,
     ReceiveReply, SyncReconcile, SyncPublish
<1>2. ASSUME NEW in \in Inputs \cup {NoInput}, Dispatched(in)
      PROVE  IdLimit' \in {IdLimit, IdLimit + 1, IdLimit + 2}
  <2>1. /\ session' = Reduce(session, in)
        /\ lastSession' = IF in.type = "Connect" THEN lastSession + 1 ELSE lastSession
    BY <1>2 DEF Dispatched, Dispatch
  <2>2. Reduce(session, in).phase \in {"Connecting", "Identifying"}
          => Opening \/ in.type = "Connect"
    BY <1>a, ReduceConnects
  <2> QED BY <2>1, <2>2, <1>a
<1>3. CASE Transport
  BY <1>3, <1>a, TransportLeavesLoop
<1>4. CASE CoNext
  BY <1>4, <1>a, CoLeavesLoop
<1>5. CASE UNCHANGED vars
  BY <1>5, <1>a DEF vars, appVars
<1> QED BY <1>1, <1>2, <1>3, <1>4, <1>5, AppSteps DEF Next, Transport

\* A step brings no id into use but that of the session it activates.
LEMMA IdsComeFromSessions ==
    ASSUME TypeOK, [Next]_vars, NEW id, Used(id)'
    PROVE  \/ Used(id)
           \/ ~IsActive(session) /\ IsActive(session') /\ id = session'.id
<1>a. NoPlan.session = 0 /\ NoTask.kind # "Prepare"
  BY DEF NoPlan, NoTask
<1>b. co \in Coordinators /\ session \in Sessions /\ loop \in Loops
  BY DEF TypeOK
<1>1. CASE PrepareIntent \/ ClearIntent \/ ReceiveReply
  <2>1. UNCHANGED <<session, loop, co, plans, failedIn>>
    BY <1>1 DEF PrepareIntent, ClearIntent, ReceiveReply, coVars, history
  <2>2. \A task \in tasks' : task.kind = "Prepare" => task \in tasks
    BY <1>1 DEF PrepareIntent, ClearIntent, ReceiveReply, coVars
  <2>3. staged' \in {staged, NoPlan}
          \/ (IsActive(session) /\ staged'.session = session.id)
    BY <1>1 DEF PrepareIntent, ClearIntent, ReceiveReply, Intent
  <2> QED BY <1>a, <2>1, <2>2, <2>3 DEF Used
<1>2. CASE PrepareWrite \/ ConfirmPrepared
  <2>1. UNCHANGED <<session, staged, tasks, co, plans, failedIn>>
    BY <1>2 DEF PrepareWrite, ConfirmPrepared, coVars, history
  <2>2. loop'.task.kind = "Prepare" => loop'.task.plan = staged
    BY <1>2, <1>a DEF PrepareWrite, ConfirmPrepared, SyncThen, LoopReady
  <2> QED BY <2>1, <2>2 DEF Used
<1>3. CASE SyncReconcile \/ SyncPublish
  <2>1. UNCHANGED <<session, staged, co, plans, failedIn>>
    BY <1>3 DEF SyncReconcile, SyncPublish, coVars, history
  <2>2. \A task \in tasks' \cup {loop'.task} :
           task.kind = "Prepare" => task \in tasks \cup {loop.task}
    BY <1>3, <1>a, <1>b DEF SyncReconcile, SyncPublish, coVars, Loops, LoopReady
  <2> QED BY <2>1, <2>2 DEF Used
<1>4. ASSUME NEW in \in Inputs \cup {NoInput}, Dispatched(in)
      PROVE  \/ Used(id)
             \/ ~IsActive(session) /\ IsActive(session') /\ id = session'.id
  <2>1. PICK resets : Dispatch(in, resets)
    BY <1>4 DEF Dispatched
  <2>2. UNCHANGED <<tasks, co, plans, failedIn>> /\ staged' \in {staged, NoPlan}
    BY <2>1 DEF Dispatch, coVars
  <2>3. loop'.task = NoTask
    BY <2>1 DEF Dispatch, SyncThen, LoopReady
  <2>4. IsActive(session) /\ IsActive(session') => session'.id = session.id
    <3>1. session' = Reduce(session, in)
      BY <2>1 DEF Dispatch
    <3> QED BY <3>1, <1>b, ReduceKeepsId
  <2> QED BY <1>a, <2>2, <2>3, <2>4 DEF Used
<1>5. CASE Transport
  <2>1. plans' \subseteq plans
    BY <1>5, TransportLeavesLoop DEF AttachBus
  <2> QED BY <1>5, <2>1, TransportLeavesLoop DEF Used
<1>6. CASE CoNext
  <2>1. UNCHANGED <<session, staged, loop>>
    BY <1>6, CoLeavesLoop
  <2>2. CASE Acquire
    <3>1. PICK task \in tasks :
             \/ /\ task.kind = "Prepare"
                /\ co' = [FreeCoordinator EXCEPT
                            !.pc = "prepare_before", !.task = task,
                            !.plan = [task.plan EXCEPT !.id = nextPlan]]
             \/ co' = [FreeCoordinator EXCEPT !.pc = "confirm_take", !.task = task]
      BY <2>2 DEF Acquire
    <3>2. task.plan \in Plans
      BY DEF TypeOK, Tasks
    <3>3. \/ co'.plan.session = 0
          \/ task.kind = "Prepare" /\ co'.plan.session = task.plan.session
      <4>1. CASE co' = [FreeCoordinator EXCEPT !.pc = "confirm_take", !.task = task]
        BY <4>1, <1>a DEF FreeCoordinator
      <4>2. CASE /\ task.kind = "Prepare"
                 /\ co' = [FreeCoordinator EXCEPT
                              !.pc = "prepare_before", !.task = task,
                              !.plan = [task.plan EXCEPT !.id = nextPlan]]
        <5>1. co'.plan = [task.plan EXCEPT !.id = nextPlan]
          BY <4>2 DEF FreeCoordinator
        <5> QED BY <3>2, <4>2, <5>1 DEF Plans
      <4> QED BY <3>1, <4>1, <4>2
    <3>4. tasks' \subseteq tasks /\ UNCHANGED <<plans, failedIn>>
      BY <2>2 DEF Acquire, history
    <3> QED BY <2>1, <3>3, <3>4 DEF Used
  <2>3. CASE PrepareStore
    <3>1. [co.plan EXCEPT !.revision = co.before.revision].session = co.plan.session
      BY <1>b DEF Coordinators, Plans
    <3>2. /\ \A plan \in plans' : plan \in plans \/ plan.session = co.plan.session
          /\ co'.plan = NoPlan
          /\ UNCHANGED <<tasks, failedIn>>
      BY <2>3, <3>1 DEF PrepareStore, Release, FreeCoordinator
    <3> QED BY <2>1, <3>2, <1>a DEF Used
  <2>4. CASE ConfirmTake
    <3>1. PICK taken \in plans : co'.plan = taken /\ plans' = plans \ {taken}
      BY <2>4, <1>b DEF ConfirmTake, Coordinators
    <3>2. UNCHANGED <<tasks, failedIn>>
      BY <2>4 DEF ConfirmTake, history
    <3> QED BY <2>1, <3>1, <3>2 DEF Used
  <2>5. CASE ConfirmUnknownPlan \/ AuditPrepareFailed \/ Finish \/ Decide
    <3>1. co'.plan = NoPlan /\ UNCHANGED <<tasks, plans>>
      BY <2>5 DEF ConfirmUnknownPlan, AuditPrepareFailed, Finish, Decide, Release,
         FreeCoordinator
    <3>2. failedIn' \subseteq failedIn \cup {co.plan.session}
      BY <2>5 DEF ConfirmUnknownPlan, AuditPrepareFailed, Finish, Decide, history
    <3> QED BY <2>1, <3>1, <3>2, <1>a DEF Used
  <2>6. CASE \/ ReadProjection \/ Reject \/ PrepareGuard \/ FreshReads \/ ConfirmGuard
             \/ ConfirmCheck \/ WriteRefused \/ WriteAnswered \/ ReadBack
    <3>1. co'.plan = co.plan
      BY <2>6, <1>b DEF ReadProjection, Reject, PrepareGuard, FreshReads, ConfirmGuard,
         ConfirmCheck, WriteRefused, WriteAnswered, ReadBack, Coordinators
    <3>2. UNCHANGED <<tasks, plans, failedIn>>
      BY <2>6 DEF ReadProjection, Reject, PrepareGuard, FreshReads, ConfirmGuard,
         ConfirmCheck, WriteRefused, WriteAnswered, ReadBack, CoLocal, history
    <3> QED BY <2>1, <3>1, <3>2 DEF Used
  <2>7. CASE Begin \/ AuditPrepare \/ SendWrite \/ SendReply
    <3>1. co'.plan = co.plan /\ UNCHANGED <<tasks, plans, failedIn>>
      BY <2>7, <1>b DEF Begin, AuditPrepare, SendWrite, SendReply, Coordinators, history
    <3> QED BY <2>1, <3>1 DEF Used
  <2> QED BY <1>6, <2>2, <2>3, <2>4, <2>5, <2>6, <2>7 DEF CoNext
<1>7. CASE UNCHANGED vars
  BY <1>7 DEF vars, appVars, coVars, history, Used
<1> QED BY <1>1, <1>2, <1>3, <1>4, <1>5, <1>6, <1>7, AppSteps DEF Next, Transport, Unguarded
\* The id a session gets when it is identified was never in use before: no plan, no
\* waiting preparation and no failed audit can be mistaken for one of its own.
THEOREM SessionsAreFresh == Spec => []FreshInv
<1>1. Init => FreshInv
  BY DEF Init, FreshInv, Used, IdLimit, Opening, NewSession, Inactive, IsActive, NoPlan,
         LoopReady, NoTask, FreeCoordinator
<1>2. TypeOK /\ FreshInv /\ [Next]_vars => FreshInv'
  <2> SUFFICES ASSUME TypeOK, FreshInv, [Next]_vars, NEW id, Used(id)'
               PROVE  id < IdLimit'
    BY DEF FreshInv
  <2>a. lastSession \in Nat /\ session \in Sessions /\ IdLimit \in Nat
    BY DEF TypeOK, IdLimit
  <2>1. CASE Used(id)
    <3>1. id \in Nat
      <4>1. /\ session.id \in Nat /\ staged \in Plans /\ co.plan \in Plans
            /\ plans \subseteq Plans /\ failedIn \subseteq Nat
        BY DEF TypeOK, Sessions, Coordinators
      <4>2. \A task \in tasks \cup {loop.task} : task.plan \in Plans
        BY DEF TypeOK, Loops, Tasks, NoTask, NoPlan, Plans
      <4>3. \A plan \in Plans : plan.session \in Nat
        BY DEF Plans
      <4>4. \A task \in tasks \cup {loop.task} : task.plan.session \in Nat
        BY <4>2, <4>3
      <4>5. 0 \in Nat /\ staged.session \in Nat /\ co.plan.session \in Nat
        BY <4>1, <4>3
      <4> QED BY <2>1, <4>1, <4>3, <4>4, <4>5, Zenon DEF Used
    <3> QED BY <2>1, <2>a, <3>1, IdLimitGrows DEF FreshInv
  <2>2. CASE ~IsActive(session) /\ IsActive(session') /\ id = session'.id
    <3>1. PICK in \in Inputs \cup {NoInput} : Dispatched(in)
      BY <2>2, SessionSteps
    <3>2. session' = Reduce(session, in) /\ lastSession' \in {lastSession, lastSession + 1}
      BY <3>1 DEF Dispatched, Dispatch
    <3>3. in.type = "IdentificationFinished" /\ session'.id = in.id
      BY <2>2, <2>a, <3>2, ReduceActivates
    <3>4. in.id = lastSession
      BY <3>1, <3>3 DEF Dispatched
    <3>5. IdLimit' \in {lastSession + 1, lastSession + 1 + 1}
      BY <2>2, <3>2 DEF IdLimit, Opening, IsActive
    <3>6. id = lastSession
      BY <2>2, <3>3, <3>4
    <3> QED BY <2>a, <3>5, <3>6
  <2> QED BY <2>1, <2>2, IdsComeFromSessions
<1> QED BY <1>1, <1>2, TypeCorrect, PTL DEF Spec

-----------------------------------------------------------------------------
(***************************************************************************)
(* Fail closed.  A barrier of the fence may be lifted only by a sync whose *)
(* snapshot already takes the capability away, so between the barrier, the *)
(* session, the snapshot being synced and the projection at least one      *)
(* always refuses.                                                         *)
(***************************************************************************)
DisarmedInv ==
    ambiguous /\ ~fence.disarm =>
        /\ session.authorization # "Armed"
        /\ loop.stage # "publish" => ~projection.armed
        /\ loop.stage # "ready" => ~loop.snap.armed

DegradedInv ==
    ~fence.audit => \A id \in failedIn :
        /\ IsActive(session) /\ session.id = id => session.audit # "Healthy"
        /\ loop.stage # "publish" /\ projection.session = id => ~projection.healthy
        /\ loop.stage # "ready" /\ loop.snap.session = id => ~loop.snap.healthy
        /\ loop.stage = "publish" /\ projection.session = id
              => ~projection.healthy \/ ~loop.snap.healthy

\* The steps that move the fence.
LEMMA FenceSteps ==
    ASSUME TypeOK, [Next]_vars
    PROVE  \/ fence' = fence
           \/ SyncReconcile \/ Begin \/ AuditPrepareFailed \/ Finish \/ Decide
<1>1. CASE Unguarded
  BY <1>1 DEF Unguarded, PrepareIntent, PrepareWrite, ConfirmPrepared, ClearIntent,
     ReceiveReply, SyncPublish, fenceVars
<1>2. ASSUME NEW in, Dispatched(in) PROVE fence' = fence
  BY <1>2 DEF Dispatched, Dispatch, fenceVars
<1>3. CASE Transport
  BY <1>3, TransportLeavesLoop
<1>4. CASE Acquire \/ ReadProjection \/ Reject \/ PrepareGuard \/ FreshReads \/ PrepareStore
           \/ ConfirmTake \/ ConfirmUnknownPlan \/ ConfirmGuard \/ ConfirmCheck
           \/ AuditPrepare \/ SendWrite \/ WriteRefused \/ WriteAnswered \/ ReadBack
           \/ SendReply
  BY <1>4 DEF Acquire, ReadProjection, Reject, PrepareGuard, FreshReads, PrepareStore,
     ConfirmTake, ConfirmUnknownPlan, ConfirmGuard, ConfirmCheck, AuditPrepare, SendWrite,
     WriteRefused, WriteAnswered, ReadBack, SendReply, CoLocal, fenceVars
<1>5. CASE UNCHANGED vars
  BY <1>5 DEF vars, fenceVars
<1> QED BY <1>1, <1>2, <1>3, <1>4, <1>5, AppSteps DEF Next, CoNext, Transport

\* The steps that add to the histories of failures.
LEMMA FailureSteps ==
    ASSUME TypeOK, CoNext, ~AuditPrepareFailed, ~Finish, ~Decide
    PROVE  UNCHANGED <<ambiguous, failedIn>>
BY DEF CoNext, Acquire, ReadProjection, Reject, PrepareGuard, FreshReads, PrepareStore,
   ConfirmTake, ConfirmUnknownPlan, ConfirmGuard, ConfirmCheck, Begin, AuditPrepare,
   SendWrite, WriteRefused, WriteAnswered, ReadBack, SendReply, CoLocal, history

\* Only Begin takes the fence from no operation to one.
LEMMA OnlyBegin ==
    ASSUME TypeOK, [Next]_vars, Begins
    PROVE  Begin
<1>a. fence \in Fences /\ fence.operation = NoFenceOperation
  BY DEF TypeOK, Begins, Running
<1>b. ASSUME NEW f \in Fences, f.operation = NoFenceOperation
      PROVE  /\ \A p : ~Running(Reconcile(f, p))
             /\ \A o : ~Running(FinishSingleWrite(f, o))
             /\ ~Running(DegradeAuditAndDisarm(f))
  <2>1. \A p : Reconcile(f, p).operation = NoFenceOperation
    BY <1>b DEF Reconcile
  <2>2. [f EXCEPT !.operation.finished = FALSE].operation = NoFenceOperation
    <3>1. ASSUME NEW o \in FenceOperations, o.finished = FALSE
          PROVE  [o EXCEPT !.finished = FALSE] = o
      BY <3>1 DEF FenceOperations
    <3>2. f.operation \in FenceOperations /\ NoFenceOperation.finished = FALSE
      BY <1>b DEF Fences, NoFenceOperation
    <3>3. [f EXCEPT !.operation.finished = FALSE].operation
             = [f.operation EXCEPT !.finished = FALSE]
      BY <1>b DEF Fences
    <3> QED BY <1>b, <3>1, <3>2, <3>3
  <2>3. \A o : FinishSingleWrite(f, o).operation = NoFenceOperation
    BY <1>b, <2>2 DEF FinishSingleWrite, Fences, NoFenceOperation
  <2>4. DegradeAuditAndDisarm(f).operation = NoFenceOperation
    BY <1>b, <2>2 DEF DegradeAuditAndDisarm, Fences, NoFenceOperation, Running
  <2> QED BY <2>1, <2>3, <2>4 DEF Running
<1>1. fence' # fence
  BY DEF Begins
<1>2. ~SyncReconcile
  BY <1>a, <1>b DEF SyncReconcile, Begins
<1>3. ~Finish
  BY <1>a, <1>b DEF Finish, Begins
<1>4. ~AuditPrepareFailed /\ ~Decide
  BY <1>a, <1>b DEF AuditPrepareFailed, Decide, Begins
<1> QED BY <1>1, <1>2, <1>3, <1>4, FenceSteps
\* While writes may still be armed after an ambiguous outcome, the fence disarms them.
LEMMA DisarmedStep ==
    ASSUME TypeOK, SyncInv, DisarmedInv, [Next]_vars PROVE DisarmedInv'
<1> USE DEF DisarmedInv
<1>a. fence \in Fences /\ loop \in Loops /\ session \in Sessions
  BY DEF TypeOK
<1>b. loop.stage # "ready" => loop.snap.armed = (session.authorization = "Armed")
  BY DEF SyncInv, SnapshotOf
<1>c. ASSUME NEW s, NEW r, NEW task
      PROVE  /\ SyncThen(s, r, task).stage # "publish"
             /\ SyncThen(s, r, task).stage # "ready"
                  => SyncThen(s, r, task).snap.armed = (s.authorization = "Armed")
  BY DEF SyncThen, SnapshotOf, LoopReady
<1>1. CASE PrepareIntent \/ ClearIntent \/ ReceiveReply
  BY <1>1 DEF PrepareIntent, ClearIntent, ReceiveReply, fenceVars, history
<1>2. CASE PrepareWrite \/ ConfirmPrepared
  <2>1. UNCHANGED <<session, projection, fence, ambiguous>> /\ loop.stage = "ready"
    BY <1>2 DEF PrepareWrite, ConfirmPrepared, CanDispatch, fenceVars, history
  <2>2. \E task : loop' = SyncThen(session, revision, task)
    BY <1>2 DEF PrepareWrite, ConfirmPrepared
  <2> QED BY <2>1, <2>2, <1>c
<1>3. CASE SyncReconcile
  <2>1. UNCHANGED <<session, ambiguous>> /\ loop'.stage = "publish" /\ loop'.snap = loop.snap
    BY <1>3, <1>a DEF SyncReconcile, Loops, history
  <2>2. fence'.disarm = (fence.disarm /\ loop.snap.armed)
    BY <1>3 DEF SyncReconcile, Reconcile
  <2>3. loop.stage # "ready"
    BY <1>3 DEF SyncReconcile
  <2> QED BY <1>b, <2>1, <2>2, <2>3
<1>4. CASE SyncPublish
  BY <1>4 DEF SyncPublish, LoopReady, history
<1>5. ASSUME NEW in \in Inputs \cup {NoInput}, Dispatched(in) PROVE DisarmedInv'
  <2>1. /\ UNCHANGED <<projection, fence>> /\ loop.stage = "ready"
        /\ loop' = SyncThen(session', revision', NoTask)
        /\ ambiguous' = (ambiguous /\ ~(session.authorization # "Armed"
                                         /\ session'.authorization = "Armed"))
    BY <1>5 DEF Dispatched, Dispatch, CanDispatch, fenceVars
  <2> QED BY <2>1, <1>c
<1>6. CASE Transport
  BY <1>6, TransportLeavesLoop
<1>7. CASE CoNext
  <2>1. UNCHANGED <<session, projection, loop>>
    BY <1>7, CoLeavesLoop
  <2>2. CASE Finish
    <3>1. PICK outcome : /\ fence' = FinishSingleWrite(fence, outcome)
                         /\ ambiguous' = (ambiguous \/ outcome \in AmbiguousOutcomes)
      BY <2>2 DEF Finish
    <3>2. fence'.disarm
            = (fence.disarm \/ outcome \in AmbiguousOutcomes \cup AuditOutcomes)
      BY <3>1, <1>a DEF FinishSingleWrite, Fences
    <3> QED BY <2>1, <3>1, <3>2
  <2>3. CASE AuditPrepareFailed \/ Decide
    <3>1. ambiguous' = ambiguous
      BY <2>3 DEF AuditPrepareFailed, Decide
    <3>2. fence' = fence \/ fence'.disarm
      BY <2>3, <1>a DEF AuditPrepareFailed, Decide, DegradeAuditAndDisarm, Fences
    <3> QED BY <2>1, <3>1, <3>2
  <2>4. CASE Begin
    <3>1. fence'.disarm = fence.disarm /\ ambiguous' = ambiguous
      BY <2>4, <1>a DEF Begin, BeginSingleWrite, Fences, history
    <3> QED BY <2>1, <3>1
  <2>5. CASE ~Finish /\ ~AuditPrepareFailed /\ ~Decide /\ ~Begin
    <3>1. ~SyncReconcile \/ fence' = fence
      BY <2>1, <1>a DEF SyncReconcile, Loops
    <3> QED BY <1>7, <2>1, <2>5, <3>1, FenceSteps, FailureSteps
  <2> QED BY <2>2, <2>3, <2>4, <2>5
<1>8. CASE UNCHANGED vars
  BY <1>8 DEF vars, appVars, fenceVars, history
<1> QED BY <1>1, <1>2, <1>3, <1>4, <1>5, <1>6, <1>7, <1>8, AppSteps
        DEF Next, Transport, Unguarded
\* While a failed audit is not yet reflected by the application, the fence degrades
\* the session it failed in.
LEMMA DegradedStep ==
    ASSUME TypeOK, SyncInv, FreshInv, DegradedInv, [Next]_vars PROVE DegradedInv'
<1> USE DEF DegradedInv
<1>a. fence \in Fences /\ loop \in Loops /\ session \in Sessions /\ lastSession \in Nat
  BY DEF TypeOK
<1>b. loop.stage # "ready" =>
        /\ IsActive(session) /\ loop.snap.session = session.id
        /\ loop.snap.healthy = (session.audit = "Healthy")
  BY DEF SyncInv, SnapshotOf
<1>c. ASSUME NEW s, NEW r, NEW task
      PROVE  /\ SyncThen(s, r, task).stage # "publish"
             /\ SyncThen(s, r, task).stage # "ready" =>
                  /\ IsActive(s)
                  /\ SyncThen(s, r, task).snap.session = s.id
                  /\ SyncThen(s, r, task).snap.healthy = (s.audit = "Healthy")
  BY DEF SyncThen, SnapshotOf, LoopReady
<1>1. CASE PrepareIntent \/ ClearIntent \/ ReceiveReply
  BY <1>1 DEF PrepareIntent, ClearIntent, ReceiveReply, fenceVars, history
<1>2. CASE PrepareWrite \/ ConfirmPrepared
  <2>1. UNCHANGED <<session, projection, fence, failedIn>> /\ loop.stage = "ready"
    BY <1>2 DEF PrepareWrite, ConfirmPrepared, CanDispatch, fenceVars, history
  <2>2. \E task : loop' = SyncThen(session, revision, task)
    BY <1>2 DEF PrepareWrite, ConfirmPrepared
  <2>3. /\ loop'.stage # "publish"
        /\ loop'.stage # "ready" => /\ IsActive(session) /\ loop'.snap.session = session.id
                                   /\ loop'.snap.healthy = (session.audit = "Healthy")
    BY <2>2, <1>c
  <2> QED BY <2>1, <2>3
<1>3. CASE SyncReconcile
  <2>1. UNCHANGED <<session, failedIn>> /\ loop'.stage = "publish" /\ loop'.snap = loop.snap
    BY <1>3, <1>a DEF SyncReconcile, Loops, history
  <2>2. fence'.audit = (fence.audit /\ loop.snap.healthy)
    BY <1>3 DEF SyncReconcile, Reconcile
  <2>3. loop.stage = "reconcile" /\ projection' = projection
    BY <1>3 DEF SyncReconcile
  <2>4. loop'.snap.session = session.id /\ loop'.snap.healthy = (session.audit = "Healthy")
    BY <1>b, <2>1, <2>3
  <2>5. SUFFICES ASSUME ~fence'.audit, NEW id \in failedIn
                 PROVE  /\ session.id = id => session.audit # "Healthy"
                        /\ projection.session = id => ~projection.healthy \/ ~loop'.snap.healthy
    BY <2>1, <2>3, <2>4
  <2>6. CASE fence.audit
    <3>1. ~loop'.snap.healthy
      BY <2>1, <2>2, <2>5, <2>6
    <3> QED BY <2>4, <3>1
  <2>7. CASE ~fence.audit
    BY <1>b, <2>3, <2>7
  <2> QED BY <2>6, <2>7
<1>4. CASE SyncPublish
  BY <1>4 DEF SyncPublish, LoopReady, history
<1>5. ASSUME NEW in \in Inputs \cup {NoInput}, Dispatched(in) PROVE DegradedInv'
  <2>1. /\ UNCHANGED <<projection, fence, failedIn>> /\ loop.stage = "ready"
        /\ loop' = SyncThen(session', revision', NoTask)
        /\ session' = Reduce(session, in)
    BY <1>5 DEF Dispatched, Dispatch, CanDispatch, fenceVars
  <2>2. ASSUME NEW id \in failedIn, ~fence.audit, IsActive(session'), session'.id = id
        PROVE  session'.audit # "Healthy"
    <3>1. CASE IsActive(session)
      BY <1>a, <2>1, <2>2, <3>1, ReduceKeepsId, ReduceKeepsDegraded
    <3>2. CASE ~IsActive(session)
      <4>1. /\ in.type = "IdentificationFinished" /\ session.phase = "Identifying"
            /\ id = in.id
        BY <1>a, <2>1, <2>2, <3>2, ReduceActivates
      <4>2. id = lastSession /\ IdLimit = lastSession
        BY <1>5, <4>1 DEF Dispatched, IdLimit, Opening
      <4>3. id < IdLimit
        BY <2>2 DEF FreshInv, Used
      <4> QED BY <4>2, <4>3, <1>a
    <3> QED BY <3>1, <3>2
  <2>3. /\ loop'.stage # "publish"
        /\ loop'.stage # "ready" => /\ IsActive(session') /\ loop'.snap.session = session'.id
                                   /\ loop'.snap.healthy = (session'.audit = "Healthy")
    BY <2>1, <1>c
  <2>4. ~fence.audit => \A id \in failedIn :
           projection.session = id => ~projection.healthy
    BY <2>1
  <2> QED BY <2>1, <2>2, <2>3, <2>4
<1>6. CASE Transport
  BY <1>6, TransportLeavesLoop
<1>7. CASE CoNext
  <2>1. UNCHANGED <<session, projection, loop>>
    BY <1>7, CoLeavesLoop
  <2>2. CASE Finish
    <3>1. PICK outcome : /\ fence' = FinishSingleWrite(fence, outcome)
                         /\ failedIn' = IF outcome \in AuditOutcomes
                                        THEN failedIn \cup {co.plan.session} ELSE failedIn
      BY <2>2 DEF Finish
    <3>2. fence'.audit = (fence.audit \/ outcome \in AuditOutcomes)
      BY <3>1, <1>a DEF FinishSingleWrite, Fences
    <3> QED BY <2>1, <3>1, <3>2
  <2>3. CASE AuditPrepareFailed \/ Decide
    <3>1. (fence' = fence /\ failedIn' = failedIn) \/ fence'.audit
      BY <2>3, <1>a DEF AuditPrepareFailed, Decide, DegradeAuditAndDisarm, Fences
    <3> QED BY <2>1, <3>1
  <2>4. CASE Begin
    <3>1. fence'.audit = fence.audit /\ failedIn' = failedIn
      BY <2>4, <1>a DEF Begin, BeginSingleWrite, Fences, history
    <3> QED BY <2>1, <3>1
  <2>5. CASE ~Finish /\ ~AuditPrepareFailed /\ ~Decide /\ ~Begin
    <3>1. ~SyncReconcile \/ fence' = fence
      BY <2>1, <1>a DEF SyncReconcile, Loops
    <3> QED BY <1>7, <2>1, <2>5, <3>1, FenceSteps, FailureSteps
  <2> QED BY <2>2, <2>3, <2>4, <2>5
<1>8. CASE UNCHANGED vars
  BY <1>8 DEF vars, appVars, fenceVars, history
<1> QED BY <1>1, <1>2, <1>3, <1>4, <1>5, <1>6, <1>7, <1>8, AppSteps
        DEF Next, Transport, Unguarded

\* A write that begins in a session whose audit has failed, or after an ambiguous
\* outcome before the operator has armed again, begins while the sync that withdraws
\* the capability stands between its two locks, or after that sync published what the
\* task had already read: nothing else lets one through.
THEOREM FailsClosedAlways == Spec => FailsClosed
<1>1. Init => DisarmedInv /\ DegradedInv
  BY DEF Init, DisarmedInv, DegradedInv
<1>2. TypeOK /\ SyncInv /\ FreshInv /\ (DisarmedInv /\ DegradedInv) /\ [Next]_vars
        => (DisarmedInv /\ DegradedInv)'
  BY DisarmedStep, DegradedStep
<1>3. TypeOK /\ SyncInv /\ (DisarmedInv /\ DegradedInv) /\ [Next]_vars
        => [Begins /\ (ambiguous \/ projection.session \in failedIn) => Withdrawing]_vars
  <2> SUFFICES ASSUME TypeOK, DisarmedInv, DegradedInv, [Next]_vars, Begins,
                      ambiguous \/ projection.session \in failedIn
               PROVE  Withdrawing
    OBVIOUS
  <2>1. Begin
    BY OnlyBegin
  <2>2. Writable(Overlay(co.seen, fence))
    BY <2>1 DEF Begin, CanBegin
  <2>3. ~fence.disarm /\ ~fence.audit
    BY <2>2 DEF Writable, Overlay, TypeOK, Coordinators, Snapshots
  <2>4. loop.stage \in {"ready", "reconcile", "publish"}
    BY DEF TypeOK, Loops
  <2>5. CASE ambiguous
    BY <2>3, <2>4, <2>5 DEF DisarmedInv, Withdrawing, Writable
  <2>6. CASE projection.session \in failedIn
    <3>1. /\ loop.stage # "publish" => ~projection.healthy
          /\ loop.stage = "publish" => ~projection.healthy \/ ~loop.snap.healthy
      BY <2>3, <2>6 DEF DegradedInv
    <3> QED BY <3>1 DEF Withdrawing, Writable
  <2> QED BY <2>5, <2>6
<1> QED BY <1>1, <1>2, <1>3, TypeCorrect, SyncIsCurrent, SessionsAreFresh, PTL
        DEF Spec, FailsClosed

-----------------------------------------------------------------------------
(***************************************************************************)
(* The inbox as a queue of the loop.                                       *)
(***************************************************************************)

Arrives(m) == inbox' = Append(inbox, m)

\* The transport and the coordinator only ever append to the inbox, and no task of
\* the manual write announces a restore.
LEMMA InboxGrows ==
    ASSUME TypeOK, Transport \/ CoNext
    PROVE  \/ inbox' = inbox
           \/ \E m \in Inputs \cup Replies : m.type # "RestoreStarted" /\ Arrives(m)
<1> USE DEF Arrives
<1>a. \A t \in {"PortOpened", "ReconnectPortOpened", "PortOpenFailed", "ReconnectFailed",
                "TransportLost", "AuditPersistenceFailed"} :
         Input(t) \in Inputs /\ Input(t).type = t
  BY InputTypes DEF Input
<1>1. CASE AttachBus \/ OpenFails \/ ManualPathLost
  BY <1>1, <1>a DEF AttachBus, OpenFails, ManualPathLost
<1>2. CASE Identified
  <2>1. \A d \in Devices \cup {NoDevice} :
           /\ [type |-> "ReconnectIdentificationFinished", verified |-> d] \in Inputs
           /\ [type |-> "IdentificationFinished", id |-> lastSession, verified |-> d]
                \in Inputs
    BY DEF TypeOK, Inputs, IdentificationInputs
  <2>2. PICK d \in Devices \cup {NoDevice} :
           inbox' = Append(inbox,
              IF IsActive(session)
              THEN [type |-> "ReconnectIdentificationFinished", verified |-> d]
              ELSE [type |-> "IdentificationFinished", id |-> lastSession, verified |-> d])
    BY <1>2 DEF Identified
  <2> QED BY <2>1, <2>2
<1>3. CASE Begin
  <2>1. [type |-> "WriteConfirmed", id |-> co.plan.id] \in Inputs
    BY DEF TypeOK, Coordinators, Plans, Inputs, OperationInputs
  <2> QED BY <1>3, <2>1 DEF Begin
<1>4. CASE Finish
  <2>1. \A outcome \in WriteOutcomes : [type |-> "WriteFinished", outcome |-> outcome] \in Inputs
    BY DEF Inputs, OperationInputs
  <2>2. {co.outcome, "AuditDegraded"} \subseteq WriteOutcomes
    BY DEF TypeOK, Coordinators, WriteOutcomes, AuditOutcomes
  <2> QED BY <1>4, <2>1, <2>2 DEF Finish
<1>5. CASE AuditPrepareFailed \/ Decide
  BY <1>5, <1>a DEF AuditPrepareFailed, Decide
<1>6. CASE SendReply
  <2>1. \A reply \in replies : reply \in Replies /\ reply.type # "RestoreStarted"
    BY DEF TypeOK, Replies
  <2> QED BY <1>6, <2>1 DEF SendReply
<1>7. CASE Acquire \/ ReadProjection \/ Reject \/ PrepareGuard \/ FreshReads \/ PrepareStore
           \/ ConfirmTake \/ ConfirmUnknownPlan \/ ConfirmGuard \/ ConfirmCheck
           \/ AuditPrepare \/ SendWrite \/ WriteRefused \/ WriteAnswered \/ ReadBack
  BY <1>7 DEF Acquire, ReadProjection, Reject, PrepareGuard, FreshReads, PrepareStore,
     ConfirmTake, ConfirmUnknownPlan, ConfirmGuard, ConfirmCheck, AuditPrepare, SendWrite,
     WriteRefused, WriteAnswered, ReadBack, CoLocal, appVars
<1> QED BY <1>1, <1>2, <1>3, <1>4, <1>5, <1>6, <1>7 DEF Transport, CoNext

\* Every step leaves the inbox alone, takes its head or appends one message.
LEMMA InboxSteps ==
    ASSUME TypeOK, [Next]_vars
    PROVE  \/ inbox' = inbox
           \/ inbox # <<>> /\ inbox' = Tail(inbox)
           \/ \E m \in Inputs \cup Replies : m.type # "RestoreStarted" /\ Arrives(m)
<1>1. CASE Unguarded
  BY <1>1 DEF Unguarded, PrepareIntent, PrepareWrite, ConfirmPrepared, ClearIntent,
     ReceiveReply, SyncReconcile, SyncPublish
<1>2. ASSUME NEW in, Dispatched(in)
      PROVE  inbox' = inbox \/ (inbox # <<>> /\ inbox' = Tail(inbox))
  BY <1>2 DEF Dispatched
<1>3. CASE UNCHANGED vars
  BY <1>3 DEF vars, appVars
<1> QED BY <1>1, <1>2, <1>3, AppSteps, InboxGrows DEF Next, Transport

\* A message stays in the inbox until it is its head that is taken.
LEMMA AppendKeeps ==
    ASSUME NEW S, NEW q \in Seq(S), NEW m \in S
    PROVE  /\ Len(Append(q, m)) = Len(q) + 1
           /\ DOMAIN Append(q, m) = 1 .. Len(q) + 1
           /\ \A i \in DOMAIN q : i \in DOMAIN Append(q, m) /\ Append(q, m)[i] = q[i]
           /\ Append(q, m)[Len(q) + 1] = m
OBVIOUS

LEMMA TailShifts ==
    ASSUME NEW S, NEW q \in Seq(S), q # <<>>
    PROVE  /\ Head(q) = q[1] /\ 1 \in DOMAIN q
           /\ Len(Tail(q)) = Len(q) - 1
           /\ \A i \in DOMAIN q \ {1} : i - 1 \in DOMAIN Tail(q) /\ Tail(q)[i - 1] = q[i]
           /\ \A i \in DOMAIN Tail(q) : i + 1 \in DOMAIN q /\ Tail(q)[i] = q[i + 1]
OBVIOUS
-----------------------------------------------------------------------------
(***************************************************************************)
(* The invariant.                                                          *)
(***************************************************************************)
ManualInv ==
    /\ \A i \in DOMAIN inbox : inbox[i].type # "RestoreStarted"
    /\ Manual(session)

RunningPcs == {"audit_prepare", "send", "answer", "read_back", "audit_finalize"}

(***************************************************************************)
(* What will take a finished operation out of the fence: a message that    *)
(* makes the session idle, or the sync of a later, idle session; while no  *)
(* session is Active, the sync of the next one.                            *)
(***************************************************************************)
Settling ==
    \/ ~IsActive(session)
    \/ \E i \in DOMAIN inbox : Closes(inbox[i])
    \/ /\ loop.stage = "reconcile"
       /\ loop.snap.idle
       /\ loop.snap.revision > fence.operation.started

OperationInv ==
    Running(fence) =>
        /\ fence.operation.kind = "SingleWrite"
        /\ fence.operation.started <= revision

DrainInv ==
    Running(fence) /\ co.pc \notin RunningPcs => fence.operation.finished /\ Settling

\* Without a restore task no session of the manual write restores anything.
LEMMA ManualStep ==
    ASSUME TypeOK, ManualInv, [Next]_vars PROVE ManualInv'
<1>a. inbox \in Seq(Inputs \cup Replies) /\ session \in Sessions
  BY DEF TypeOK
<1>1. \A i \in DOMAIN inbox' : inbox'[i].type # "RestoreStarted"
  <2>1. CASE inbox' = inbox
    BY <2>1 DEF ManualInv
  <2>2. CASE inbox # <<>> /\ inbox' = Tail(inbox)
    BY <2>2, <1>a, TailShifts DEF ManualInv
  <2>3. ASSUME NEW m \in Inputs \cup Replies, m.type # "RestoreStarted", Arrives(m)
        PROVE  \A i \in DOMAIN inbox' : inbox'[i].type # "RestoreStarted"
    <3>1. \A i \in DOMAIN inbox' : i \in DOMAIN inbox \/ i = Len(inbox) + 1
      BY <2>3, <1>a DEF Arrives
    <3>2. /\ \A i \in DOMAIN inbox : inbox'[i] = inbox[i]
          /\ inbox'[Len(inbox) + 1] = m
      BY <2>3, <1>a, AppendKeeps DEF Arrives
    <3> QED BY <2>3, <3>1, <3>2 DEF ManualInv
  <2> QED BY <2>1, <2>2, <2>3, InboxSteps
<1>2. Manual(session')
  <2>1. CASE session' = session
    BY <2>1 DEF ManualInv
  <2>2. CASE session' # session
    <3>1. PICK in \in Inputs \cup {NoInput} : Dispatched(in)
      BY <2>2, SessionSteps
    <3>2. session' = Reduce(session, in)
      BY <3>1 DEF Dispatched, Dispatch
    <3>3. in.type # "RestoreStarted"
      <4>1. CASE in.type \in UserInputs
        BY <4>1 DEF UserInputs
      <4>2. CASE inbox # <<>> /\ in.type = Head(inbox).type
        BY <4>2, <1>a, TailShifts DEF ManualInv
      <4> QED BY <3>1, <4>1, <4>2 DEF Dispatched
    <3> QED BY <3>2, <3>3, <1>a, ReduceKeepsManual DEF ManualInv
  <2> QED BY <2>1, <2>2
<1> QED BY <1>1, <1>2 DEF ManualInv, Manual

\* What settles a finished operation stays on its way until it has done so: a sync of
\* an idle session follows every message that ends a write.
LEMMA SettlingStays ==
    ASSUME TypeOK, ManualInv, [Next]_vars, Running(fence), fence.operation.finished,
           fence.operation.started <= revision, Settling,
           fence'.operation = fence.operation
    PROVE  Settling'
<1> USE DEF Settling
<1>a. /\ inbox \in Seq(Inputs \cup Replies) /\ session \in Sessions /\ revision \in Nat
      /\ fence \in Fences /\ loop \in Loops
  BY DEF TypeOK
<1>b. ASSUME NEW in \in Inputs \cup {NoInput}, Dispatched(in),
             IsActive(session'), session'.operation = Idle
      PROVE  Settling'
  <2>1. revision' = revision + 1 /\ loop' = SyncThen(session', revision', NoTask)
    BY <1>b DEF Dispatched, Dispatch
  <2>2. fence.operation.started \in Nat
    BY <1>a DEF Fences, FenceOperations
  <2>3. /\ loop'.stage = "reconcile" /\ loop'.snap.idle
        /\ loop'.snap.revision = revision + 1
    BY <1>b, <2>1 DEF SyncThen, SnapshotOf
  <2>4. revision + 1 > fence'.operation.started
    BY <1>a, <2>2
  <2> QED BY <2>3, <2>4
<1>c. ASSUME NEW i \in DOMAIN inbox, Closes(inbox[i]),
             inbox' = inbox \/ (\E m : Arrives(m) /\ m \in Inputs \cup Replies)
      PROVE  Settling'
  BY <1>a, <1>c, AppendKeeps DEF Arrives
<1>d. ASSUME NEW i \in DOMAIN inbox, Closes(inbox[i]), i # 1,
             inbox # <<>>, inbox' = Tail(inbox)
      PROVE  Settling'
  BY <1>a, <1>d, TailShifts
<1>1. ASSUME NEW in \in Inputs \cup {NoInput}, Dispatched(in) PROVE Settling'
  <2>1. session' = Reduce(session, in) /\ loop.stage = "ready"
    BY <1>1 DEF Dispatched, Dispatch, CanDispatch
  <2>2. CASE ~IsActive(session)
    BY <1>a, <1>b, <1>1, <2>1, <2>2, ReduceActivates
  <2>3. ASSUME NEW i \in DOMAIN inbox, Closes(inbox[i]) PROVE Settling'
    <3>1. CASE inbox' = inbox
      BY <1>c, <2>3, <3>1
    <3>2. CASE inbox # <<>> /\ inbox' = Tail(inbox) /\ in.type = Head(inbox).type
      <4>1. CASE i # 1
        BY <1>d, <2>3, <3>2, <4>1
      <4>2. CASE i = 1
        <5>1. Closes(in)
          BY <1>a, <2>3, <3>2, <4>2, TailShifts DEF Closes
        <5> QED BY <1>a, <1>b, <1>1, <2>1, <5>1, ReduceCloses DEF ManualInv
      <4> QED BY <4>1, <4>2
    <3> QED BY <1>1, <3>1, <3>2 DEF Dispatched
  <2> QED BY <2>1, <2>2, <2>3
<1>2. CASE PrepareIntent \/ PrepareWrite \/ ConfirmPrepared \/ ClearIntent
  <2>1. UNCHANGED <<session, inbox>> /\ loop.stage = "ready"
    BY <1>2 DEF PrepareIntent, PrepareWrite, ConfirmPrepared, ClearIntent, CanDispatch
  <2> QED BY <2>1
<1>3. CASE ReceiveReply
  <2>1. /\ inbox # <<>> /\ inbox' = Tail(inbox) /\ Head(inbox) \in Replies
        /\ loop.stage = "ready" /\ session' = session
    BY <1>3 DEF ReceiveReply, CanDispatch
  <2>2. ASSUME NEW i \in DOMAIN inbox, Closes(inbox[i]) PROVE i # 1
    BY <1>a, <2>1, <2>2, TailShifts DEF Replies, Closes
  <2> QED BY <1>d, <2>1, <2>2
<1>4. CASE SyncReconcile
  <2>1. UNCHANGED <<session, inbox>> /\ loop.stage = "reconcile"
    BY <1>4 DEF SyncReconcile
  <2>2. ~OperationReconciled(fence, loop.snap)
    BY <1>4 DEF SyncReconcile, Reconcile, Running
  <2>3. ~(loop.snap.idle /\ loop.snap.revision > fence.operation.started)
    BY <2>2 DEF OperationReconciled
  <2> QED BY <2>1, <2>3
<1>5. CASE SyncPublish
  BY <1>5 DEF SyncPublish
<1>6. CASE Transport \/ CoNext
  <2>1. UNCHANGED <<session, loop>>
    BY <1>6, TransportLeavesLoop, CoLeavesLoop
  <2>2. inbox' = inbox \/ \E m \in Inputs \cup Replies : Arrives(m)
    BY <1>6, InboxGrows
  <2> QED BY <1>c, <2>1, <2>2
<1>7. CASE UNCHANGED vars
  BY <1>7 DEF vars, appVars
<1> QED BY <1>1, <1>2, <1>3, <1>4, <1>5, <1>6, <1>7, AppSteps DEF Next, Transport, Unguarded
\* Finishing a write and degrading the audit keep the operation and finish it.
LEMMA FenceCloses ==
    ASSUME NEW f \in Fences, NEW o
    PROVE  /\ LET g == FinishSingleWrite(f, o)
              IN  /\ g.operation.kind = f.operation.kind
                  /\ g.operation.started = f.operation.started
                  /\ f.operation.kind = "SingleWrite" => g.operation.finished
           /\ LET g == DegradeAuditAndDisarm(f)
              IN  /\ g.operation.kind = f.operation.kind
                  /\ g.operation.started = f.operation.started
                  /\ Running(f) => g.operation.finished
<1>1. f.operation \in FenceOperations
  BY DEF Fences
<1>2. FinishSingleWrite(f, o).operation
        = [f.operation EXCEPT !.finished = @ \/ f.operation.kind = "SingleWrite"]
  BY <1>1 DEF FinishSingleWrite, Fences
<1>3. DegradeAuditAndDisarm(f).operation = [f.operation EXCEPT !.finished = @ \/ Running(f)]
  BY <1>1 DEF DegradeAuditAndDisarm, Fences
<1> QED BY <1>1, <1>2, <1>3 DEF FenceOperations

\* An operation enters the fence at the revision of the projection that let it begin.
LEMMA OperationStep ==
    ASSUME TypeOK, SyncInv, OperationInv, [Next]_vars PROVE OperationInv'
<1> USE DEF OperationInv
<1>a. fence \in Fences /\ revision \in Nat
  BY DEF TypeOK
<1>b. fence.operation.started \in Nat
  BY <1>a DEF Fences, FenceOperations
<1>c. revision' \in {revision, revision + 1}
  <2>1. CASE Unguarded
    BY <2>1 DEF Unguarded, PrepareIntent, PrepareWrite, ConfirmPrepared, ClearIntent,
       ReceiveReply, SyncReconcile, SyncPublish
  <2>2. ASSUME NEW in, Dispatched(in) PROVE revision' = revision + 1
    BY <2>2 DEF Dispatched, Dispatch
  <2>3. CASE Transport \/ CoNext
    BY <2>3, TransportLeavesLoop, CoLeavesLoop
  <2>4. CASE UNCHANGED vars
    BY <2>4 DEF vars, appVars
  <2> QED BY <2>1, <2>2, <2>3, <2>4, AppSteps DEF Next, Transport
<1>d. ASSUME Running(fence') => /\ Running(fence)
                               /\ fence'.operation.kind = fence.operation.kind
                               /\ fence'.operation.started = fence.operation.started
      PROVE  OperationInv'
  BY <1>a, <1>b, <1>c, <1>d
<1>1. CASE fence' = fence
  BY <1>1, <1>d
<1>2. CASE SyncReconcile
  BY <1>2, <1>d DEF SyncReconcile, Reconcile, Running
<1>3. CASE Begin
  <2>1. /\ fence'.operation.kind = "SingleWrite"
        /\ fence'.operation.started = co.seen.revision
        /\ revision' = revision
    BY <1>3, <1>a DEF Begin, BeginSingleWrite, CoFrame, Fences
  <2> QED BY <2>1 DEF SyncInv
<1>4. CASE AuditPrepareFailed \/ Finish \/ Decide
  <2>2. /\ fence'.operation.kind = fence.operation.kind
        /\ fence'.operation.started = fence.operation.started
    BY <1>4, <1>a, FenceCloses DEF AuditPrepareFailed, Finish, Decide
  <2>3. Running(fence') => Running(fence)
    BY OnlyBegin, <1>4, <1>a DEF Begins, Running, AuditPrepareFailed, Finish, Decide, Begin
  <2> QED BY <1>d, <2>2, <2>3
<1> QED BY <1>1, <1>2, <1>3, <1>4, FenceSteps
\* Whatever a task does with the fence, it leaves it with an operation that is finished
\* and about to be settled.
LEMMA DrainStep ==
    ASSUME TypeOK, ManualInv, OperationInv, DrainInv, [Next]_vars PROVE DrainInv'
<1> SUFFICES ASSUME Running(fence'), co'.pc \notin RunningPcs
             PROVE  fence'.operation.finished /\ Settling'
  BY DEF DrainInv
<1> USE DEF Settling
<1>a. /\ fence \in Fences /\ co \in Coordinators
      /\ inbox \in Seq(Inputs \cup Replies)
  BY DEF TypeOK
<1>b. ASSUME Running(fence), co.pc \notin RunningPcs, fence'.operation = fence.operation
      PROVE  fence'.operation.finished /\ Settling'
  BY <1>b, SettlingStays DEF DrainInv, OperationInv
<1>c. ASSUME NEW m, m \in Inputs, Closes(m), inbox' = Append(inbox, m)
      PROVE  Settling'
  BY <1>a, <1>c, AppendKeeps
<1>1. CASE SyncReconcile
  <2>1. fence'.operation = fence.operation /\ Running(fence)
    BY <1>1 DEF SyncReconcile, Reconcile, Running
  <2>2. co' = co
    BY <1>1 DEF SyncReconcile, coVars
  <2> QED BY <1>b, <2>1, <2>2
<1>2. ~Begin
  BY <1>a DEF Begin, RunningPcs, Coordinators
<1>3. CASE AuditPrepareFailed
  <2>1. Running(fence)
    BY <1>2, OnlyBegin DEF Begins
  <2>2. fence'.operation.finished
    BY <1>3, <1>a, <2>1, FenceCloses DEF AuditPrepareFailed
  <2>3. Input("AuditPersistenceFailed") \in Inputs /\ Closes(Input("AuditPersistenceFailed"))
    BY InputTypes DEF Input, Closes
  <2> QED BY <1>3, <1>c, <2>2, <2>3 DEF AuditPrepareFailed
<1>4. CASE Finish
  <2>1. Running(fence)
    BY <1>2, OnlyBegin DEF Begins
  <2>2. fence'.operation.finished
    BY <1>4, <1>a, <2>1, FenceCloses DEF Finish, OperationInv
  <2>3. \A outcome \in WriteOutcomes :
           /\ [type |-> "WriteFinished", outcome |-> outcome] \in Inputs
           /\ Closes([type |-> "WriteFinished", outcome |-> outcome])
    BY DEF Inputs, OperationInputs, Closes
  <2>4. {co.outcome, "AuditDegraded"} \subseteq WriteOutcomes
    BY <1>a DEF Coordinators, WriteOutcomes, AuditOutcomes
  <2> QED BY <1>4, <1>c, <2>2, <2>3, <2>4 DEF Finish
<1>5. CASE Decide
  <2>1. Running(fence) /\ co.pc \notin RunningPcs
    BY <1>2, <1>5, OnlyBegin DEF Begins, Decide, RunningPcs
  <2>2. CASE fence' = fence
    BY <1>b, <2>1, <2>2
  <2>3. CASE fence' # fence
    <3>1. fence' = DegradeAuditAndDisarm(fence)
             /\ inbox' = Append(inbox, Input("AuditPersistenceFailed"))
      BY <1>5, <2>3 DEF Decide
    <3>2. Input("AuditPersistenceFailed") \in Inputs
             /\ Closes(Input("AuditPersistenceFailed"))
      BY InputTypes DEF Input, Closes
    <3> QED BY <1>a, <1>c, <2>1, <3>1, <3>2, FenceCloses
  <2> QED BY <2>2, <2>3
<1>6. CASE fence' = fence /\ ~AuditPrepareFailed /\ ~Finish
  <2>1. co.pc \notin RunningPcs
    <3>1. CASE CoNext
      <4>1. CASE Acquire \/ PrepareStore \/ ConfirmUnknownPlan \/ ConfirmTake \/ Decide
                 \/ Reject \/ ReadProjection
        BY <4>1 DEF Acquire, PrepareStore, ConfirmUnknownPlan, ConfirmTake, Decide, Reject,
           ReadProjection, RunningPcs
      <4>2. CASE PrepareGuard \/ FreshReads \/ ConfirmGuard \/ ConfirmCheck
        BY <4>2 DEF PrepareGuard, FreshReads, ConfirmGuard, ConfirmCheck, RunningPcs
      <4>3. CASE AuditPrepare \/ SendWrite \/ WriteRefused \/ WriteAnswered \/ ReadBack
        BY <4>3, <1>a DEF AuditPrepare, SendWrite, WriteRefused, WriteAnswered, ReadBack,
           RunningPcs, Coordinators
      <4>4. CASE SendReply
        BY <4>4 DEF SendReply
      <4> QED BY <1>2, <1>6, <3>1, <4>1, <4>2, <4>3, <4>4 DEF CoNext
    <3>2. CASE ~CoNext
      <4>1. CASE AppNext
        BY <4>1, AppLeavesCoordinator
      <4>2. CASE Transport
        BY <4>2, TransportLeavesLoop
      <4>3. CASE UNCHANGED vars
        BY <4>3 DEF vars, coVars
      <4> QED BY <3>2, <4>1, <4>2, <4>3 DEF Next, Transport
    <3> QED BY <3>1, <3>2
  <2> QED BY <1>b, <1>6, <2>1
<1> QED BY <1>1, <1>2, <1>3, <1>4, <1>5, <1>6, FenceSteps

\* Once every task has returned and every message is handled, an Active session finds
\* the fence without an operation: no interleaving of the sync, the fence and the
\* messages of a task can leave writes blocked.
THEOREM FenceAlwaysDrains == Spec => []FenceDrains
<1>1. Init => ManualInv /\ OperationInv /\ DrainInv
  BY DEF Init, ManualInv, Manual, NewSession, Inactive, OperationInv, DrainInv, Running,
         OpenFence
<1>2. TypeOK /\ SyncInv /\ (ManualInv /\ OperationInv /\ DrainInv) /\ [Next]_vars
        => (ManualInv /\ OperationInv /\ DrainInv)'
  BY ManualStep, OperationStep, DrainStep
<1>3. TypeOK /\ DrainInv => FenceDrains
  <2> SUFFICES ASSUME TypeOK, DrainInv, Quiet, IsActive(session) PROVE ~Running(fence)
    BY DEF FenceDrains
  <2>1. co.pc \notin RunningPcs /\ ~Settling
    BY DEF Quiet, RunningPcs, Settling
  <2> QED BY <2>1 DEF DrainInv
<1> QED BY <1>1, <1>2, <1>3, TypeCorrect, SyncIsCurrent, PTL DEF Spec

-----------------------------------------------------------------------------
(***************************************************************************)
(* A confirmation puts its write on the bus at most once, for every set of *)
(* devices and targets and every bound.  Ids start again with every        *)
(* coordinator and the fence revision is only as fresh as the last sync,   *)
(* so the very same plan can be prepared, offered and confirmed twice; the *)
(* second confirmation then finds a later revision.                        *)
(***************************************************************************)

(***************************************************************************)
(* The copies of a plan on their way to the operator.  Position 0 is a     *)
(* confirmed plan, 1 the plan on the screen, i + 1 the i-th message of the *)
(* inbox, and the last position a reply that is not sent yet; copies only  *)
(* move down.                                                              *)
(***************************************************************************)
PlanOffer(w) == [type |-> "WritePrepared", plan |-> w]

At(w, p) ==
    \/ p = 0 /\ w \in confirmed
    \/ p = 1 /\ prepared = w
    \/ p - 1 \in DOMAIN inbox /\ inbox[p - 1] = PlanOffer(w)
    \/ p = Len(inbox) + 2 /\ PlanOffer(w) \in replies

Offered(w) == \E p \in Nat : At(w, p)

RealPlans == Plans \ {NoPlan}

(***************************************************************************)
(* The revision has passed that of the plan, or will have before position  *)
(* p is reached, because a session input comes first.                      *)
(***************************************************************************)
Overtaken(w, p) ==
    \/ revision > w.revision
    \/ \E i \in DOMAIN inbox : i + 1 < p /\ inbox[i] \in Inputs

Overdue(w) == Overtaken(w, Len(inbox) + 2)

\* The steps, as far as the copies of plans are concerned.
Aside ==
    /\ prepared' \in {prepared, NoPlan}
    /\ UNCHANGED <<confirmed, revision>>
    /\ \A w \in RealPlans : PlanOffer(w) \in replies' => PlanOffer(w) \in replies
    /\ \/ inbox' = inbox /\ nextPlan' \in {nextPlan, nextPlan + 1}
       \/ \E m \in Inputs : Arrives(m)

LEMMA CopySteps ==
    ASSUME TypeOK, [Next]_vars
    PROVE  \/ \E in \in Inputs \cup {NoInput} : Dispatched(in)
           \/ ReceiveReply \/ ConfirmPrepared \/ SendReply \/ PrepareStore
           \/ Aside
<1> USE DEF Aside
<1>a. \A t \in {"PortOpened", "ReconnectPortOpened", "PortOpenFailed", "ReconnectFailed",
                "TransportLost", "AuditPersistenceFailed"} :
         Input(t) \in Inputs
  BY InputTypes
<1>1. CASE PrepareIntent \/ PrepareWrite \/ ClearIntent \/ SyncReconcile \/ SyncPublish
  BY <1>1 DEF PrepareIntent, PrepareWrite, ClearIntent, SyncReconcile, SyncPublish,
     coVars, history
<1>2. CASE Transport
  <2>1. UNCHANGED <<prepared, confirmed, revision, replies>>
    BY <1>2, TransportLeavesLoop
  <2>2. CASE AttachBus \/ OpenFails \/ ManualPathLost
    BY <1>a, <2>1, <2>2 DEF AttachBus, OpenFails, ManualPathLost, Arrives
  <2>3. CASE Identified
    <3>1. \A d \in Devices \cup {NoDevice} :
             /\ [type |-> "ReconnectIdentificationFinished", verified |-> d] \in Inputs
             /\ [type |-> "IdentificationFinished", id |-> lastSession, verified |-> d]
                  \in Inputs
      BY DEF TypeOK, Inputs, IdentificationInputs
    <3> QED BY <2>1, <2>3, <3>1 DEF Identified, Arrives
  <2> QED BY <1>2, <2>2, <2>3 DEF Transport
<1>3. CASE CoNext /\ ~SendReply /\ ~PrepareStore
  <2>1. UNCHANGED <<prepared, revision>>
    BY <1>3, CoLeavesLoop
  <2>2. CASE Acquire
    BY <2>1, <2>2 DEF Acquire, history
  <2>3. CASE ReadProjection \/ Reject \/ PrepareGuard \/ FreshReads \/ ConfirmTake
             \/ ConfirmGuard \/ ConfirmCheck \/ WriteRefused \/ WriteAnswered \/ ReadBack
    BY <2>1, <2>3 DEF ReadProjection, Reject, PrepareGuard, FreshReads, ConfirmTake,
       ConfirmGuard, ConfirmCheck, WriteRefused, WriteAnswered, ReadBack, CoLocal, history
  <2>4. CASE AuditPrepare \/ SendWrite
    BY <2>1, <2>4 DEF AuditPrepare, SendWrite
  <2>5. CASE Begin
    <3>1. [type |-> "WriteConfirmed", id |-> co.plan.id] \in Inputs
      BY DEF TypeOK, Coordinators, Plans, Inputs, OperationInputs
    <3> QED BY <2>1, <2>5, <3>1 DEF Begin, Arrives, history
  <2>6. CASE ConfirmUnknownPlan \/ AuditPrepareFailed \/ Finish \/ Decide
    <3>1. \A w \in RealPlans : PlanOffer(w) \in replies' => PlanOffer(w) \in replies
      <4>1. \A w \in RealPlans : Reply(co.task) # PlanOffer(w)
        BY DEF RealPlans, Reply, PlanOffer
      <4>2. replies' = replies \cup {Reply(co.task)}
        BY <2>6 DEF ConfirmUnknownPlan, AuditPrepareFailed, Finish, Decide, Release
      <4> QED BY <4>1, <4>2
    <3>2. confirmed' = confirmed /\ nextPlan' = nextPlan
      BY <2>6 DEF ConfirmUnknownPlan, AuditPrepareFailed, Finish, Decide, history
    <3>3. inbox' = inbox \/ \E m \in Inputs : Arrives(m)
      <4>1. \A outcome \in WriteOutcomes :
               [type |-> "WriteFinished", outcome |-> outcome] \in Inputs
        BY DEF Inputs, OperationInputs
      <4>2. {co.outcome, "AuditDegraded"} \subseteq WriteOutcomes
        BY DEF TypeOK, Coordinators, WriteOutcomes, AuditOutcomes
      <4> QED BY <1>a, <2>6, <4>1, <4>2
              DEF ConfirmUnknownPlan, AuditPrepareFailed, Finish, Decide, Arrives
    <3> QED BY <2>1, <3>1, <3>2, <3>3
  <2> QED BY <1>3, <2>2, <2>3, <2>4, <2>5, <2>6 DEF CoNext
<1>4. CASE UNCHANGED vars
  BY <1>4 DEF vars, appVars, coVars, history
<1> QED BY <1>1, <1>2, <1>3, <1>4, AppSteps DEF Next, Transport, Unguarded
LEMMA InputsNoReplies == \A m \in Inputs : m \notin Replies
BY DEF Inputs, PlainInputs, IdentificationInputs, TimedInputs, OperationInputs, Replies

-----------------------------------------------------------------------------
(***************************************************************************)
(* The invariant on the copies.                                            *)
(***************************************************************************)

\* No copy is ahead of the revision counter, and a plan whose id the coordinator may
\* give out again is overdue.
KnownInv ==
    \A w \in RealPlans : Offered(w) =>
        w.revision <= revision /\ (w.id < nextPlan \/ Overdue(w))

PreparingPcs ==
    {"prepare_before", "prepare_guard", "prepare_read", "prepare_after", "prepare_store"}

\* A plan with the id of the one being prepared is overdue.
PreparingInv ==
    co.pc \in PreparingPcs =>
        /\ co.plan.id < nextPlan
        /\ \A w \in RealPlans : Offered(w) /\ w.id = co.plan.id => Overdue(w)

\* Of two copies of a plan the later one is overtaken when its turn comes.
OrderInv ==
    \A w \in RealPlans : \A p, q \in Nat :
        p < q /\ At(w, p) /\ At(w, q) => Overtaken(w, q)

\* A dispatched input overtakes every copy there is.
LEMMA DispatchOvertakes ==
    ASSUME TypeOK, KnownInv, NEW in, Dispatched(in), NEW w \in RealPlans, Offered(w)'
    PROVE  Offered(w) /\ w.revision <= revision /\ revision' = revision + 1 /\ revision' > w.revision
<1>a. inbox \in Seq(Inputs \cup Replies) /\ revision \in Nat /\ w.revision \in Nat
  BY DEF TypeOK, RealPlans, Plans
<1>1. /\ revision' = revision + 1 /\ UNCHANGED <<confirmed, replies>>
      /\ prepared' \in {prepared, NoPlan}
      /\ inbox' = inbox \/ (inbox # <<>> /\ inbox' = Tail(inbox))
  BY DEF Dispatched, Dispatch, coVars
<1>2. w # NoPlan
  BY DEF RealPlans
<1>3. Offered(w)
  <2>1. PICK q \in Nat : At(w, q)'
    BY DEF Offered
  <2>2. CASE w \in confirmed
    BY <2>2 DEF Offered, At
  <2>3. CASE prepared = w
    BY <2>3 DEF Offered, At
  <2>4. CASE PlanOffer(w) \in replies
    BY <1>a, <2>4 DEF Offered, At
  <2>5. ASSUME NEW i \in DOMAIN inbox', inbox'[i] = PlanOffer(w) PROVE Offered(w)
    <3>1. \E j \in DOMAIN inbox : inbox[j] = PlanOffer(w)
      BY <1>1, <1>a, <2>5, TailShifts
    <3>2. PICK j \in DOMAIN inbox : inbox[j] = PlanOffer(w)
      BY <3>1
    <3>3. j + 1 \in Nat /\ (j + 1) - 1 = j
      BY <1>a, <3>2
    <3> QED BY <3>2, <3>3 DEF Offered, At
  <2> QED BY <1>1, <1>2, <2>1, <2>2, <2>3, <2>4, <2>5 DEF At
<1> QED BY <1>1, <1>3, <1>a DEF KnownInv

\* What is overdue stays overdue.
LEMMA OverdueStays ==
    ASSUME TypeOK, [Next]_vars, NEW w \in RealPlans, w.revision <= revision, Overdue(w)
    PROVE  Overdue(w)'
<1> USE DEF Overdue, Overtaken
<1>a. /\ inbox \in Seq(Inputs \cup Replies) /\ revision \in Nat /\ w.revision \in Nat
      /\ Len(inbox) \in Nat
  BY DEF TypeOK, RealPlans, Plans
<1>b. ASSUME NEW m \in Inputs \cup Replies, inbox' = Append(inbox, m), revision' = revision
      PROVE  Overdue(w)'
  <2>1. CASE revision > w.revision
    BY <1>b, <2>1
  <2>2. ASSUME NEW i \in DOMAIN inbox, inbox[i] \in Inputs PROVE Overdue(w)'
    <3>1. i \in DOMAIN inbox' /\ inbox'[i] = inbox[i] /\ Len(inbox') = Len(inbox) + 1
      BY <1>a, <1>b, <2>2, AppendKeeps
    <3>2. i + 1 < (Len(inbox) + 1) + 2
      BY <1>a, <2>2
    <3> QED BY <2>2, <3>1, <3>2
  <2> QED BY <2>1, <2>2
<1>c. ASSUME inbox' = inbox, revision' = revision PROVE Overdue(w)'
  BY <1>c
<1>1. ASSUME NEW in, Dispatched(in) PROVE Overdue(w)'
  <2>1. revision' = revision + 1
    BY <1>1 DEF Dispatched, Dispatch
  <2> QED BY <1>a, <2>1
<1>2. CASE ReceiveReply
  <2>1. /\ inbox # <<>> /\ inbox' = Tail(inbox) /\ Head(inbox) \in Replies
        /\ revision' = revision
    BY <1>2 DEF ReceiveReply
  <2>2. CASE revision > w.revision
    BY <2>1, <2>2
  <2>3. ASSUME NEW i \in DOMAIN inbox, inbox[i] \in Inputs PROVE Overdue(w)'
    <3>1. i # 1
      BY <1>a, <2>1, <2>3, TailShifts, InputsNoReplies
    <3>2. /\ i - 1 \in DOMAIN inbox' /\ inbox'[i - 1] = inbox[i]
          /\ Len(inbox') = Len(inbox) - 1
      BY <1>a, <2>1, <2>3, <3>1, TailShifts
    <3>3. (i - 1) + 1 < (Len(inbox) - 1) + 2
      BY <1>a, <2>3
    <3> QED BY <2>3, <3>2, <3>3
  <2> QED BY <2>2, <2>3
<1>3. CASE ConfirmPrepared
  BY <1>3, <1>c DEF ConfirmPrepared
<1>4. CASE SendReply
  <2>1. revision' = revision /\ \E m \in Replies : inbox' = Append(inbox, m)
    BY <1>4 DEF SendReply, CoFrame, TypeOK
  <2> QED BY <1>b, <2>1
<1>5. CASE PrepareStore
  BY <1>5, <1>c DEF PrepareStore, appVars
<1>6. CASE Aside
  BY <1>6, <1>b, <1>c DEF Aside, Arrives
<1> QED BY <1>1, <1>2, <1>3, <1>4, <1>5, <1>6, CopySteps

-----------------------------------------------------------------------------
(***************************************************************************)
(* Where a copy was before a step.                                         *)
(***************************************************************************)

\* A reply that is handled moves everything behind it down by one place.
LEMMA ReceiveCopies ==
    ASSUME TypeOK, ReceiveReply, NEW w \in RealPlans, NEW q \in Nat, At(w, q)'
    PROVE  /\ IF q = 0 THEN At(w, 0) ELSE At(w, q + 1)
           /\ q # 0 /\ Overtaken(w, q + 1) => Overtaken(w, q)'
<1>a. inbox \in Seq(Inputs \cup Replies) /\ Len(inbox) \in Nat
  BY DEF TypeOK
<1>b. /\ inbox # <<>> /\ inbox' = Tail(inbox) /\ Head(inbox) \in Replies
      /\ prepared' = NoPlan \/ Head(inbox) = PlanOffer(prepared')
      /\ UNCHANGED <<confirmed, replies, revision>>
  BY DEF ReceiveReply, Replies, PlanOffer, coVars, history
<1>c. w # NoPlan /\ Head(inbox) = inbox[1] /\ 1 \in DOMAIN inbox /\ Len(inbox') = Len(inbox) - 1
  BY <1>a, <1>b, TailShifts DEF RealPlans
<1>d. ASSUME NEW i \in DOMAIN inbox, inbox[i] = PlanOffer(w), q = i PROVE At(w, q + 1)
  <2>1. (q + 1) - 1 = i
    BY <1>a, <1>d
  <2> QED BY <1>d, <2>1 DEF At
<1>1. ASSUME q = 0 PROVE At(w, 0)
  BY <1>a, <1>b, <1>c, <1>1 DEF At
<1>2. ASSUME prepared' = w, q = 1 PROVE At(w, q + 1)
  BY <1>b, <1>c, <1>d, <1>2
<1>3. ASSUME q - 1 \in DOMAIN inbox', inbox'[q - 1] = PlanOffer(w) PROVE At(w, q + 1) /\ q # 0
  <2>1. (q - 1) + 1 \in DOMAIN inbox /\ inbox[(q - 1) + 1] = PlanOffer(w) /\ q # 0
    BY <1>a, <1>b, <1>3, TailShifts
  <2>2. (q - 1) + 1 = q
    OBVIOUS
  <2> QED BY <1>d, <2>1, <2>2
<1>4. ASSUME q = Len(inbox') + 2, PlanOffer(w) \in replies PROVE At(w, q + 1) /\ q # 0
  <2>1. q + 1 = Len(inbox) + 2 /\ q # 0
    BY <1>a, <1>c, <1>4
  <2> QED BY <1>4, <2>1 DEF At
<1>5. ASSUME q # 0, Overtaken(w, q + 1) PROVE Overtaken(w, q)'
  <2>1. CASE revision > w.revision
    BY <1>b, <2>1 DEF Overtaken
  <2>2. ASSUME NEW i \in DOMAIN inbox, i + 1 < q + 1, inbox[i] \in Inputs
        PROVE  Overtaken(w, q)'
    <3>1. i # 1
      BY <1>b, <1>c, <2>2, InputsNoReplies
    <3>2. i - 1 \in DOMAIN inbox' /\ inbox'[i - 1] = inbox[i]
      BY <1>a, <1>b, <2>2, <3>1, TailShifts
    <3>3. (i - 1) + 1 < q
      BY <1>a, <2>2
    <3> QED BY <2>2, <3>2, <3>3 DEF Overtaken
  <2> QED BY <1>5, <2>1, <2>2 DEF Overtaken
<1> QED BY <1>b, <1>1, <1>2, <1>3, <1>4, <1>5 DEF At

\* The confirmed plan comes from the screen.
LEMMA ConfirmCopies ==
    ASSUME TypeOK, ConfirmPrepared, NEW w \in RealPlans, NEW q \in Nat, At(w, q)'
    PROVE  /\ q # 1
           /\ At(w, q) \/ (q = 0 /\ At(w, 1))
           /\ Overtaken(w, q) => Overtaken(w, q)'
<1>a. /\ UNCHANGED <<inbox, replies, revision>> /\ prepared' = NoPlan
      /\ confirmed' = confirmed \cup {prepared} /\ w # NoPlan
  BY DEF ConfirmPrepared, coVars, RealPlans
<1>b. inbox \in Seq(Inputs \cup Replies)
  BY DEF TypeOK
<1> QED BY <1>a, <1>b DEF At, Overtaken

\* What a finished task sends goes to the end of the inbox.
LEMMA SendCopies ==
    ASSUME TypeOK, SendReply, NEW w \in RealPlans, NEW q \in Nat, At(w, q)'
    PROVE  /\ q \in 0 .. Len(inbox) + 3
           /\ q <= Len(inbox) + 2 => At(w, q)
           /\ q = Len(inbox) + 3 => At(w, q - 1) /\ ~At(w, q - 1)'
<1>a. inbox \in Seq(Inputs \cup Replies) /\ Len(inbox) \in Nat
  BY DEF TypeOK
<1>b. PICK reply \in replies : inbox' = Append(inbox, reply) /\ replies' = replies \ {reply}
  BY DEF SendReply
<1>c. UNCHANGED <<prepared, confirmed>> /\ reply \in Inputs \cup Replies
  BY DEF SendReply, CoFrame, history, TypeOK
<1>d. /\ Len(inbox') = Len(inbox) + 1 /\ DOMAIN inbox' = 1 .. Len(inbox) + 1
      /\ DOMAIN inbox = 1 .. Len(inbox)
      /\ \A i \in DOMAIN inbox : inbox'[i] = inbox[i]
      /\ inbox'[Len(inbox) + 1] = reply
  BY <1>a, <1>b, <1>c, AppendKeeps
<1>1. CASE w \in confirmed /\ q = 0
  BY <1>a, <1>1 DEF At
<1>2. CASE prepared = w /\ q = 1
  BY <1>a, <1>2 DEF At
<1>3. CASE q - 1 \in DOMAIN inbox' /\ inbox'[q - 1] = PlanOffer(w)
  <2>1. CASE q - 1 = Len(inbox) + 1
    BY <1>a, <1>b, <1>d, <1>3, <2>1 DEF At
  <2>2. CASE q - 1 # Len(inbox) + 1
    BY <1>a, <1>d, <1>3, <2>2 DEF At
  <2> QED BY <2>1, <2>2
<1>4. CASE q = Len(inbox') + 2 /\ PlanOffer(w) \in replies'
  <2>1. At(w, q - 1) /\ q - 1 = Len(inbox) + 2 /\ reply # PlanOffer(w)
    BY <1>a, <1>b, <1>d, <1>4 DEF At
  <2>2. ~At(w, q - 1)'
    BY <1>a, <1>d, <2>1 DEF At
  <2> QED BY <1>a, <1>d, <1>4, <2>1, <2>2
<1> QED BY <1>c, <1>1, <1>2, <1>3, <1>4 DEF At

\* A plan that is stored is one more copy behind all others.
LEMMA StoreCopies ==
    ASSUME TypeOK, PrepareStore, NEW w \in RealPlans, NEW q \in Nat, At(w, q)'
    PROVE  /\ q <= Len(inbox) + 2
           /\ \/ At(w, q)
              \/ /\ q = Len(inbox) + 2
                 /\ w = [co.plan EXCEPT !.revision = co.before.revision]
           /\ \A p \in Nat : Overtaken(w, p) => Overtaken(w, p)'
<1>a. inbox \in Seq(Inputs \cup Replies) /\ Len(inbox) \in Nat /\ DOMAIN inbox = 1 .. Len(inbox)
  BY DEF TypeOK
<1>b. /\ UNCHANGED <<inbox, prepared, confirmed, revision>>
      /\ replies' = replies \cup {PlanOffer([co.plan EXCEPT !.revision = co.before.revision])}
  BY DEF PrepareStore, Release, appVars, PlanOffer
<1>c. \A v : PlanOffer(v) = PlanOffer(w) => v = w
  BY DEF PlanOffer
<1> QED BY <1>a, <1>b, <1>c DEF At, Overtaken

\* The remaining steps only take copies away, and put inputs behind those that stay.
LEMMA AsideCopies ==
    ASSUME TypeOK, Aside, NEW w \in RealPlans, NEW q \in Nat, At(w, q)'
    PROVE  \/ /\ q <= Len(inbox) + 2 /\ At(w, q)
              /\ Overtaken(w, q) => Overtaken(w, q)'
           \/ q = Len(inbox) + 3 /\ At(w, q - 1) /\ Overtaken(w, q)'
<1>a. inbox \in Seq(Inputs \cup Replies) /\ Len(inbox) \in Nat /\ DOMAIN inbox = 1 .. Len(inbox)
  BY DEF TypeOK
<1>b. /\ prepared' \in {prepared, NoPlan} /\ UNCHANGED <<confirmed, revision>>
      /\ PlanOffer(w) \in replies' => PlanOffer(w) \in replies
      /\ w # NoPlan
  BY DEF Aside, RealPlans
<1>1. CASE inbox' = inbox
  BY <1>1, <1>a, <1>b DEF At, Overtaken
<1>2. ASSUME NEW m \in Inputs, Arrives(m)
      PROVE  \/ q <= Len(inbox) + 2 /\ At(w, q) /\ (Overtaken(w, q) => Overtaken(w, q)')
             \/ q = Len(inbox) + 3 /\ At(w, q - 1) /\ Overtaken(w, q)'
  <2>a. /\ Len(inbox') = Len(inbox) + 1 /\ DOMAIN inbox' = 1 .. Len(inbox) + 1
        /\ \A i \in DOMAIN inbox : inbox'[i] = inbox[i]
        /\ inbox'[Len(inbox) + 1] = m
    BY <1>a, <1>2, AppendKeeps DEF Arrives
  <2>b. m # PlanOffer(w)
    <3>1. PlanOffer(w) \in Replies
      BY DEF PlanOffer, Replies, RealPlans
    <3> QED BY <1>2, <3>1, InputsNoReplies
  <2>c. ASSUME q <= Len(inbox) + 2, Overtaken(w, q) PROVE Overtaken(w, q)'
    BY <1>a, <1>b, <2>a, <2>c DEF Overtaken
  <2>1. CASE w \in confirmed /\ q = 0
    BY <1>a, <2>1, <2>c DEF At
  <2>2. CASE prepared = w /\ q = 1
    BY <1>a, <2>2, <2>c DEF At
  <2>3. CASE q - 1 \in DOMAIN inbox' /\ inbox'[q - 1] = PlanOffer(w)
    <3>1. q - 1 # Len(inbox) + 1
      BY <2>a, <2>b, <2>3
    <3>2. q - 1 \in DOMAIN inbox /\ inbox[q - 1] = PlanOffer(w) /\ q <= Len(inbox) + 2
      BY <1>a, <2>a, <2>3, <3>1
    <3> QED BY <3>2, <2>c DEF At
  <2>4. CASE q = Len(inbox') + 2 /\ PlanOffer(w) \in replies'
    <3>1. q = Len(inbox) + 3 /\ q - 1 = Len(inbox) + 2
      BY <1>a, <2>a, <2>4
    <3>2. At(w, q - 1)
      BY <1>b, <2>4, <3>1 DEF At
    <3>3. /\ Len(inbox) + 1 \in DOMAIN inbox' /\ (Len(inbox) + 1) + 1 < q
          /\ inbox'[Len(inbox) + 1] \in Inputs
      BY <1>a, <1>2, <2>a, <3>1
    <3> QED BY <3>1, <3>2, <3>3 DEF Overtaken
  <2> QED BY <1>b, <2>1, <2>2, <2>3, <2>4 DEF At
<1> QED BY <1>1, <1>2 DEF Aside

\* Only PrepareStore offers a plan that was not on its way already.
LEMMA OffersComeFromStore ==
    ASSUME TypeOK, KnownInv, [Next]_vars, NEW w \in RealPlans, Offered(w)',
           ~Offered(w)
    PROVE  PrepareStore /\ w = [co.plan EXCEPT !.revision = co.before.revision]
<1>a. PICK q \in Nat : At(w, q)'
  BY DEF Offered
<1>b. Len(inbox) \in Nat
  BY DEF TypeOK
<1>1. ASSUME NEW in, Dispatched(in) PROVE FALSE
  BY <1>1, DispatchOvertakes
<1>2. ~ReceiveReply
  BY <1>a, ReceiveCopies DEF Offered
<1>3. ~ConfirmPrepared
  BY <1>a, ConfirmCopies DEF Offered
<1>4. ~SendReply
  <2> SUFFICES ASSUME SendReply PROVE FALSE
    OBVIOUS
  <2>1. \/ At(w, q)
        \/ q = Len(inbox) + 3 /\ At(w, q - 1)
    BY <1>a, <1>b, SendCopies
  <2> QED BY <1>b, <2>1 DEF Offered
<1>5. ~Aside
  <2> SUFFICES ASSUME Aside PROVE FALSE
    OBVIOUS
  <2>1. At(w, q) \/ (q = Len(inbox) + 3 /\ At(w, q - 1))
    BY <1>a, AsideCopies
  <2> QED BY <1>b, <2>1 DEF Offered
<1>6. PrepareStore
  BY <1>1, <1>2, <1>3, <1>4, <1>5, CopySteps
<1> QED BY <1>a, <1>6, StoreCopies DEF Offered

-----------------------------------------------------------------------------
(***************************************************************************)
(* The invariant on the copies is inductive.                               *)
(***************************************************************************)

\* A plan gets its id when its task takes the mutex and keeps it; meanwhile no other
\* coordinator can be attached.
LEMMA PreparingSteps ==
    ASSUME TypeOK, [Next]_vars, co'.pc \in PreparingPcs
    PROVE  /\ ~PrepareStore
           /\ \/ Acquire /\ co'.plan.id = nextPlan /\ nextPlan' = nextPlan + 1
              \/ co.pc \in PreparingPcs /\ co'.plan = co.plan /\ nextPlan' = nextPlan
<1> USE DEF PreparingPcs
<1>a. co \in Coordinators
  BY DEF TypeOK
<1>1. CASE Acquire
  <2>1. PICK task \in tasks :
           /\ nextPlan' = nextPlan + 1
           /\ co' = [FreeCoordinator EXCEPT
                       !.pc = "prepare_before", !.task = task,
                       !.plan = [task.plan EXCEPT !.id = nextPlan]]
    BY <1>1 DEF Acquire, FreeCoordinator
  <2>2. co'.plan = [task.plan EXCEPT !.id = nextPlan] /\ task.plan \in Plans
    BY <2>1 DEF FreeCoordinator, TypeOK, Tasks
  <2>3. co'.plan.id = nextPlan
    BY <2>2 DEF Plans
  <2> QED BY <1>1, <2>1, <2>3 DEF Acquire, PrepareStore
<1>2. CASE ReadProjection \/ Reject \/ PrepareGuard \/ FreshReads
  BY <1>2, <1>a DEF ReadProjection, Reject, PrepareGuard, FreshReads, CoLocal,
     Coordinators, PrepareStore
<1>3. CASE ConfirmTake \/ ConfirmGuard \/ ConfirmCheck \/ Begin \/ AuditPrepare \/ SendWrite
           \/ WriteRefused \/ WriteAnswered \/ ReadBack
  BY <1>3, <1>a DEF ConfirmTake, ConfirmGuard, ConfirmCheck, Begin, AuditPrepare, SendWrite,
     WriteRefused, WriteAnswered, ReadBack, Coordinators
<1>4. CASE PrepareStore \/ ConfirmUnknownPlan \/ AuditPrepareFailed \/ Finish \/ Decide
  BY <1>4 DEF PrepareStore, ConfirmUnknownPlan, AuditPrepareFailed, Finish, Decide,
     Release, FreeCoordinator
<1>5. CASE AttachBus
  BY <1>5 DEF AttachBus
<1>6. ASSUME co' = co, nextPlan' = nextPlan
      PROVE  ~PrepareStore /\ co.pc \in PreparingPcs
  BY <1>6 DEF PrepareStore, Release, FreeCoordinator
<1>7. CASE SendReply \/ UNCHANGED vars
  BY <1>6, <1>7 DEF SendReply, vars, coVars
<1>8. CASE Transport /\ ~AttachBus
  BY <1>6, <1>8, TransportLeavesLoop
<1>9. CASE AppNext
  <2>1. CASE Unguarded
    BY <1>6, <2>1 DEF Unguarded, PrepareIntent, PrepareWrite, ConfirmPrepared, ClearIntent,
       ReceiveReply, SyncReconcile, SyncPublish, coVars
  <2>2. ASSUME NEW in, Dispatched(in) PROVE co' = co /\ nextPlan' = nextPlan
    BY <2>2 DEF Dispatched, Dispatch, coVars
  <2> QED BY <1>6, <1>9, <2>1, <2>2, AppSteps
<1> QED BY <1>1, <1>2, <1>3, <1>4, <1>5, <1>7, <1>8, <1>9 DEF Next, CoNext, Transport

\* An input that arrives makes every copy overdue.
LEMMA ArrivalOverdue ==
    ASSUME TypeOK, NEW m \in Inputs, Arrives(m), NEW w \in RealPlans
    PROVE  Overdue(w)'
<1>a. inbox \in Seq(Inputs \cup Replies) /\ Len(inbox) \in Nat
  BY DEF TypeOK
<1>1. /\ Len(inbox') = Len(inbox) + 1 /\ DOMAIN inbox' = 1 .. Len(inbox) + 1
      /\ inbox'[Len(inbox) + 1] = m
  BY <1>a, AppendKeeps DEF Arrives
<1>2. /\ Len(inbox) + 1 \in DOMAIN inbox'
      /\ (Len(inbox) + 1) + 1 < Len(inbox') + 2
  BY <1>a, <1>1
<1> QED BY <1>1, <1>2 DEF Overdue, Overtaken

LEMMA KnownStep ==
    ASSUME TypeOK, SyncInv, KnownInv, PreparingInv, [Next]_vars PROVE KnownInv'
<1> SUFFICES ASSUME NEW w \in RealPlans, Offered(w)'
             PROVE  w.revision <= revision' /\ (w.id < nextPlan' \/ Overdue(w)')
  BY DEF KnownInv
<1>a. /\ revision \in Nat /\ nextPlan \in Nat /\ co.plan \in Plans
      /\ co.before.revision \in Nat /\ w.revision \in Nat /\ w.id \in Nat
  BY DEF TypeOK, Coordinators, Snapshots, RealPlans, Plans
<1>1. CASE ~Offered(w)
  <2>1. PrepareStore /\ w = [co.plan EXCEPT !.revision = co.before.revision]
    BY <1>1, OffersComeFromStore
  <2>2. w.id = co.plan.id /\ w.revision = co.before.revision
    BY <1>a, <2>1 DEF Plans
  <2>3. co.pc \in PreparingPcs /\ nextPlan' = nextPlan /\ revision' = revision
    BY <2>1 DEF PrepareStore, PreparingPcs, appVars
  <2> QED BY <2>2, <2>3 DEF PreparingInv, SyncInv
<1>2. CASE Offered(w)
  <2>1. w.revision <= revision /\ (w.id < nextPlan \/ Overdue(w))
    BY <1>2 DEF KnownInv
  <2>2. CASE Overdue(w) /\ revision' = revision
    BY <2>1, <2>2, OverdueStays
  <2>3. ASSUME NEW in, Dispatched(in)
        PROVE  w.revision <= revision' /\ Overdue(w)'
    <3>1. revision' = revision + 1
      BY <2>3, DispatchOvertakes
    <3>2. revision + 1 > w.revision
      BY <1>a, <2>1
    <3> QED BY <1>a, <3>1, <3>2 DEF Overdue, Overtaken
  <2>4. CASE ReceiveReply \/ ConfirmPrepared \/ SendReply \/ PrepareStore
    <3>1. revision' = revision /\ nextPlan' = nextPlan
      BY <2>4 DEF ReceiveReply, ConfirmPrepared, SendReply, PrepareStore, CoFrame, appVars,
         coVars
    <3> QED BY <2>1, <2>2, <3>1
  <2>5. CASE Aside
    <3>1. revision' = revision
      BY <2>5 DEF Aside
    <3>2. CASE nextPlan' \in {nextPlan, nextPlan + 1}
      BY <1>a, <2>1, <2>2, <3>1, <3>2
    <3>3. ASSUME NEW m \in Inputs, Arrives(m) PROVE Overdue(w)'
      BY <3>3, ArrivalOverdue
    <3> QED BY <2>1, <2>5, <3>1, <3>2, <3>3 DEF Aside
  <2> QED BY <2>3, <2>4, <2>5, CopySteps
<1> QED BY <1>1, <1>2

LEMMA PreparingStep ==
    ASSUME TypeOK, KnownInv, PreparingInv, [Next]_vars PROVE PreparingInv'
<1> SUFFICES ASSUME co'.pc \in PreparingPcs
             PROVE  /\ co'.plan.id < nextPlan'
                    /\ \A w \in RealPlans : Offered(w)' /\ w.id = co'.plan.id => Overdue(w)'
  BY DEF PreparingInv
<1>a. nextPlan \in Nat
  BY DEF TypeOK
<1>1. ~PrepareStore
  BY PreparingSteps
<1>2. ASSUME NEW w \in RealPlans, Offered(w)', Offered(w) => Overdue(w) PROVE Overdue(w)'
  <2>1. Offered(w)
    BY <1>1, <1>2, OffersComeFromStore
  <2> QED BY <1>2, <2>1, OverdueStays DEF KnownInv
<1>3. CASE Acquire /\ co'.plan.id = nextPlan /\ nextPlan' = nextPlan + 1
  <2>1. ASSUME NEW w \in RealPlans, Offered(w), w.id = nextPlan PROVE Overdue(w)
    BY <1>a, <2>1 DEF KnownInv
  <2> QED BY <1>a, <1>2, <1>3, <2>1
<1>4. CASE co.pc \in PreparingPcs /\ co'.plan = co.plan /\ nextPlan' = nextPlan
  BY <1>2, <1>4 DEF PreparingInv
<1> QED BY <1>3, <1>4, PreparingSteps

\* The later of two copies stays overtaken: copies move down in step, a plan is stored
\* behind everything that has overtaken its older copies.
LEMMA OrderStep ==
    ASSUME TypeOK, KnownInv, PreparingInv, OrderInv, [Next]_vars PROVE OrderInv'
<1> SUFFICES ASSUME NEW w \in RealPlans, NEW p \in Nat, NEW q \in Nat,
                    p < q, At(w, p)', At(w, q)'
             PROVE  Overtaken(w, q)'
  BY DEF OrderInv
<1>a. inbox \in Seq(Inputs \cup Replies) /\ Len(inbox) \in Nat
  BY DEF TypeOK
<1>b. \A i, j \in Nat : i < j /\ At(w, i) /\ At(w, j) => Overtaken(w, j)
  BY DEF OrderInv
<1>1. ASSUME NEW in, Dispatched(in) PROVE Overtaken(w, q)'
  <2>1. Offered(w)'
    BY DEF Offered
  <2>2. revision' > w.revision
    BY <1>1, <2>1, DispatchOvertakes
  <2> QED BY <2>2 DEF Overtaken
<1>2. CASE ReceiveReply
  <2>1. At(w, q + 1) /\ (Overtaken(w, q + 1) => Overtaken(w, q)')
    BY <1>2, ReceiveCopies
  <2>2. IF p = 0 THEN At(w, 0) ELSE At(w, p + 1)
    BY <1>2, ReceiveCopies
  <2>3. 0 < q + 1 /\ p + 1 < q + 1 /\ q + 1 \in Nat /\ p + 1 \in Nat
    OBVIOUS
  <2> QED BY <1>b, <2>1, <2>2, <2>3
<1>3. CASE ConfirmPrepared
  <2>1. q # 1 /\ At(w, q) /\ (Overtaken(w, q) => Overtaken(w, q)')
    BY <1>3, ConfirmCopies
  <2>2. At(w, p) \/ (p = 0 /\ At(w, 1))
    BY <1>3, ConfirmCopies
  <2> QED BY <1>b, <2>1, <2>2
<1>4. CASE SendReply
  <2>a. /\ UNCHANGED revision
        /\ Len(inbox') = Len(inbox) + 1
        /\ \A i \in DOMAIN inbox : i \in DOMAIN inbox' /\ inbox'[i] = inbox[i]
    <3>1. UNCHANGED revision /\ \E m \in Inputs \cup Replies : inbox' = Append(inbox, m)
      BY <1>4 DEF SendReply, CoFrame, TypeOK
    <3> QED BY <1>a, <3>1, AppendKeeps
  <2>b. ASSUME NEW j \in Nat, j <= q, Overtaken(w, j) PROVE Overtaken(w, q)'
    BY <1>a, <2>a, <2>b DEF Overtaken
  <2>1. CASE q <= Len(inbox) + 2
    <3>1. At(w, q) /\ At(w, p)
      BY <1>4, <2>1, <1>a, SendCopies
    <3> QED BY <1>b, <2>b, <3>1
  <2>2. CASE q = Len(inbox) + 3
    <3>1. At(w, q - 1) /\ ~At(w, q - 1)' /\ q - 1 \in Nat
      BY <1>4, <1>a, <2>2, SendCopies
    <3>2. p # q - 1
      BY <3>1
    <3>3. p < q - 1 /\ p <= Len(inbox) + 2
      BY <1>a, <2>2, <3>2
    <3>4. At(w, p)
      BY <1>4, <3>3, SendCopies
    <3> QED BY <1>b, <2>b, <3>1, <3>3, <3>4
  <2>3. q \in 0 .. Len(inbox) + 3
    BY <1>4, SendCopies
  <2> QED BY <1>a, <2>1, <2>2, <2>3
<1>5. CASE PrepareStore
  <2> DEFINE plan == [co.plan EXCEPT !.revision = co.before.revision]
  <2>1. /\ q <= Len(inbox) + 2
        /\ At(w, q) \/ (q = Len(inbox) + 2 /\ w = plan)
        /\ \A i \in Nat : Overtaken(w, i) => Overtaken(w, i)'
    BY <1>5, StoreCopies
  <2>2. At(w, p)
    <3>1. p # Len(inbox) + 2
      BY <1>a, <2>1
    <3> QED BY <1>5, <3>1, StoreCopies
  <2>3. CASE At(w, q)
    BY <1>b, <2>1, <2>2, <2>3
  <2>4. CASE q = Len(inbox) + 2 /\ w = plan
    <3>1. w.id = co.plan.id
      BY <2>4 DEF TypeOK, Coordinators, Plans
    <3>2. Offered(w) /\ co.pc \in PreparingPcs
      BY <1>5, <2>2 DEF Offered, PrepareStore, PreparingPcs
    <3>3. Overtaken(w, q)
      BY <2>4, <3>1, <3>2 DEF PreparingInv, Overdue
    <3> QED BY <2>1, <3>3
  <2> QED BY <2>1, <2>3, <2>4
<1>6. CASE Aside
  <2>1. CASE q = Len(inbox) + 3 /\ Overtaken(w, q)'
    BY <2>1
  <2>2. CASE q <= Len(inbox) + 2 /\ At(w, q) /\ (Overtaken(w, q) => Overtaken(w, q)')
    <3>1. At(w, p)
      BY <1>6, <1>a, <2>2, AsideCopies
    <3> QED BY <1>b, <2>2, <3>1
  <2> QED BY <1>6, <2>1, <2>2, AsideCopies
<1> QED BY <1>1, <1>2, <1>3, <1>4, <1>5, <1>6, CopySteps

\* When a plan is offered to the operator a second time, the revision has passed it
\* before the second copy reaches the screen.
THEOREM CopiesAreOvertaken == Spec => []OrderInv
<1>1. Init => KnownInv /\ PreparingInv /\ OrderInv
  <2> SUFFICES ASSUME Init PROVE KnownInv /\ PreparingInv /\ OrderInv
    OBVIOUS
  <2>1. \A w \in RealPlans, p \in Nat : ~At(w, p)
    BY DEF Init, At, RealPlans
  <2>2. co.pc = "free"
    BY DEF Init, FreeCoordinator
  <2> QED BY <2>1, <2>2 DEF KnownInv, PreparingInv, OrderInv, Offered, PreparingPcs
<1>2. TypeOK /\ SyncInv /\ (KnownInv /\ PreparingInv /\ OrderInv) /\ [Next]_vars
        => (KnownInv /\ PreparingInv /\ OrderInv)'
  BY KnownStep, PreparingStep, OrderStep
<1> QED BY <1>1, <1>2, TypeCorrect, SyncIsCurrent, PTL DEF Spec

-----------------------------------------------------------------------------
(***************************************************************************)
(* At most once.  A confirmation of the same plan that follows another one *)
(* meets a later revision wherever it is: in the snapshot being synced, in *)
(* the projection, or in what the coordinator has read.                    *)
(***************************************************************************)
ConfTask(w) == [kind |-> "Confirm", plan |-> w]

Carried(w) == ConfTask(w) \in tasks \/ co.task = ConfTask(w) \/ w \in wire

OnceInv ==
    /\ \A w \in Plans :
         /\ loop.task = ConfTask(w) /\ Carried(w) => loop.snap.revision > w.revision
         /\ ConfTask(w) \in tasks /\ (co.task = ConfTask(w) \/ w \in wire)
              => projection.revision > w.revision
         /\ co.task = ConfTask(w) /\ w \in wire =>
              /\ co.pc \in {"confirm_take", "confirm_before"} => projection.revision > w.revision
              /\ co.pc = "confirm_guard" => co.seen.revision > w.revision
              /\ co.pc \notin PastChallenge \ {"confirm_before", "confirm_guard"}
    /\ co.pc \in PastChallenge => co.task = ConfTask(co.plan)

\* What the loop does to the confirmations.
LEMMA OnceAppStep ==
    ASSUME TypeOK, SyncInv, ConfirmInv, OrderInv, OnceInv, AppNext PROVE OnceInv'
<1> USE DEF OnceInv, Carried
<1>a. /\ revision \in Nat /\ projection.revision \in Nat /\ loop \in Loops
      /\ \A w \in Plans : w.revision \in Nat
  BY DEF TypeOK, Snapshots, Plans
<1>b. UNCHANGED <<co, wire>>
  BY AppLeavesCoordinator
<1>c. \A w : NoTask # ConfTask(w)
  BY DEF NoTask, ConfTask
<1>d. ASSUME NEW s, NEW r, NEW task PROVE SyncThen(s, r, task).task \in {task, NoTask}
  BY DEF SyncThen, LoopReady
<1>1. ASSUME \A w \in Plans : loop'.task # ConfTask(w),
             tasks' = tasks, projection' = projection
      PROVE  OnceInv'
  BY <1>1, <1>b
<1>2. ASSUME NEW in, Dispatched(in) PROVE OnceInv'
  <2>1. loop'.task = NoTask /\ tasks' = tasks /\ projection' = projection
    BY <1>2, <1>d DEF Dispatched, Dispatch, coVars, fenceVars
  <2> QED BY <1>1, <1>c, <2>1
<1>3. CASE PrepareWrite
  <2>1. loop'.task \in {[kind |-> "Prepare", plan |-> staged], NoTask}
    BY <1>3, <1>d DEF PrepareWrite
  <2>2. tasks' = tasks /\ projection' = projection
    BY <1>3 DEF PrepareWrite, coVars, fenceVars
  <2> QED BY <1>1, <1>c, <2>1, <2>2 DEF ConfTask
<1>4. CASE ConfirmPrepared
  <2>1. /\ tasks' = tasks /\ projection' = projection /\ prepared # NoPlan
        /\ loop' = SyncThen(session, revision, ConfTask(prepared)) /\ IsActive(session)
    BY <1>4 DEF ConfirmPrepared, coVars, fenceVars, ConfTask
  <2>2. loop'.task = ConfTask(prepared) /\ loop'.snap.revision = revision
    BY <2>1 DEF SyncThen, SnapshotOf
  <2>3. ASSUME NEW w \in Plans, w = prepared, Carried(w) PROVE revision > w.revision
    <3>1. w \in confirmed
      BY <2>3 DEF ConfirmInv, OperatorConfirmed, CarriesConfirmed, ConfTask
    <3>2. At(w, 0) /\ At(w, 1) /\ w \in RealPlans
      BY <2>1, <2>3, <3>1 DEF At, RealPlans
    <3>3. Overtaken(w, 1)
      BY <3>2 DEF OrderInv
    <3>4. \A i \in DOMAIN inbox : ~(i + 1 < 1)
      BY DEF TypeOK
    <3> QED BY <3>3, <3>4 DEF Overtaken
  <2>4. \A w \in Plans : loop'.task = ConfTask(w) => w = prepared
    BY <2>2 DEF ConfTask
  <2> QED BY <1>b, <2>1, <2>2, <2>3, <2>4
<1>5. CASE PrepareIntent \/ ReceiveReply
  BY <1>5, <1>b DEF PrepareIntent, ReceiveReply, coVars, fenceVars
<1>6. CASE ClearIntent
  <2>1. loop' = loop /\ projection' = projection
    BY <1>6 DEF ClearIntent, fenceVars
  <2>2. \A w : ConfTask(w) \in tasks' => ConfTask(w) \in tasks
    BY <1>6 DEF ClearIntent, ConfTask
  <2> QED BY <1>b, <2>1, <2>2
<1>7. CASE SyncReconcile
  <2>1. loop'.task = loop.task /\ loop'.snap = loop.snap
    BY <1>7, <1>a DEF SyncReconcile, Loops
  <2>2. tasks' = tasks /\ projection' = projection
    BY <1>7 DEF SyncReconcile, coVars
  <2> QED BY <1>b, <2>1, <2>2
<1>8. CASE SyncPublish
  <2>1. loop'.task = NoTask /\ projection' = loop.snap
    BY <1>8 DEF SyncPublish, LoopReady
  <2>2. loop.snap.revision = revision /\ projection.revision <= revision
    BY <1>8 DEF SyncPublish, SyncInv, SnapshotOf
  <2>3. \A w : ConfTask(w) \in tasks' => ConfTask(w) \in tasks \/ loop.task = ConfTask(w)
    BY <1>8 DEF SyncPublish
  <2>4. \A w \in Plans : projection.revision > w.revision => projection'.revision > w.revision
    BY <1>a, <2>1, <2>2
  <2> QED BY <1>b, <1>c, <2>1, <2>2, <2>3, <2>4
<1> QED BY <1>2, <1>3, <1>4, <1>5, <1>6, <1>7, <1>8, AppSteps DEF Unguarded

\* What the coordinator does to the confirmations: the guard compares the revision of
\* the plan with the one it has read.
LEMMA OnceCoStep ==
    ASSUME TypeOK, SyncInv, OnceInv, CoNext PROVE OnceInv'
<1> USE DEF OnceInv, Carried, PastChallenge
<1>a. co \in Coordinators /\ co.plan \in Plans /\ \A w \in Plans : w.revision \in Nat
  BY DEF TypeOK, Coordinators, Plans
<1>b. UNCHANGED <<loop, projection>>
  BY CoLeavesLoop
<1>1. CASE Acquire
  <2>1. PICK task \in tasks :
           /\ tasks' = tasks \ {task} /\ co'.task = task
           /\ co'.pc \in {"prepare_before", "confirm_take"}
    BY <1>1 DEF Acquire, FreeCoordinator
  <2>2. wire' = wire
    BY <1>1 DEF Acquire, history
  <2> QED BY <1>b, <2>1, <2>2
<1>2. CASE ReadProjection
  <2>1. /\ UNCHANGED <<tasks, wire>> /\ co'.task = co.task /\ co'.plan = co.plan
        /\ co'.seen = projection
    BY <1>2, <1>a DEF ReadProjection, CoLocal, history, Coordinators
  <2>2. \/ co.pc = "prepare_before" /\ co'.pc = "prepare_guard"
        \/ co.pc = "prepare_after" /\ co'.pc = "prepare_store"
        \/ co.pc = "confirm_before" /\ co'.pc = "confirm_guard"
        \/ co.pc = "confirm_after" /\ co'.pc = "confirm_check"
        \/ co.pc = "begin_snapshot" /\ co'.pc = "begin"
    BY <1>2, <1>a DEF ReadProjection, Coordinators
  <2> QED BY <1>b, <2>1, <2>2
<1>3. CASE ConfirmTake
  <2>1. UNCHANGED <<tasks, wire>> /\ co.pc = "confirm_take"
    BY <1>3 DEF ConfirmTake, CoFrame, history
  <2>2. PICK plan \in plans :
           \/ /\ co.task.kind = "Confirm"
              /\ Challenge(plan) = Challenge(co.task.plan)
              /\ co' = [co EXCEPT !.pc = "confirm_before", !.plan = plan]
           \/ co' = [co EXCEPT !.pc = "decide", !.plan = plan]
    BY <1>3 DEF ConfirmTake
  <2>3. CASE co' = [co EXCEPT !.pc = "decide", !.plan = plan]
    BY <1>a, <1>b, <2>1, <2>3 DEF Coordinators
  <2>4. CASE /\ co.task.kind = "Confirm"
             /\ Challenge(plan) = Challenge(co.task.plan)
             /\ co' = [co EXCEPT !.pc = "confirm_before", !.plan = plan]
    <3>1. plan \in Plans /\ co.task \in Tasks
      BY <1>a, <2>4 DEF TypeOK, Coordinators, NoTask
    <3>2. co.task.plan \in Plans /\ co.task = ConfTask(co.task.plan)
      BY <2>4, <3>1 DEF Tasks, ConfTask
    <3>3. plan = co.task.plan
      BY <2>4, <3>1, <3>2 DEF Challenge, Plans
    <3>4. co'.pc = "confirm_before" /\ co'.task = co.task /\ co'.plan = plan
      BY <1>a, <2>4 DEF Coordinators
    <3> QED BY <1>b, <2>1, <3>2, <3>3, <3>4
  <2> QED BY <2>2, <2>3, <2>4
<1>4. CASE ConfirmGuard
  <2>1. /\ UNCHANGED <<tasks, wire>> /\ co'.task = co.task /\ co'.plan = co.plan
        /\ co.pc = "confirm_guard" /\ co'.pc = "confirm_read"
    BY <1>4, <1>a DEF ConfirmGuard, CoLocal, history, Coordinators
  <2>2. co.seen.revision = co.plan.revision
    BY <1>4, <1>a DEF ConfirmGuard, PlanMatches, TakenSnapshot, Overlay, Coordinators, Snapshots
  <2>3. co.task = ConfTask(co.plan)
    BY <2>1
  <2>4. \A w \in Plans : co.task = ConfTask(w) => w = co.plan
    BY <2>3 DEF ConfTask
  <2>5. \A w \in Plans : co.task = ConfTask(w) => w \notin wire
    BY <1>a, <2>1, <2>2, <2>4
  <2> QED BY <1>b, <2>1, <2>5
<1>5. CASE SendWrite
  <2>1. /\ tasks' = tasks /\ wire' = wire \cup {co.plan} /\ co'.task = co.task
        /\ co.pc = "send" /\ co'.pc = "answer"
    BY <1>5, <1>a DEF SendWrite, Coordinators
  <2>2. co.task = ConfTask(co.plan)
    BY <2>1
  <2> QED BY <1>b, <2>1, <2>2
<1>6. CASE \/ Reject \/ PrepareGuard \/ FreshReads \/ ConfirmCheck \/ Begin \/ AuditPrepare
           \/ WriteRefused \/ WriteAnswered \/ ReadBack
  <2>1. UNCHANGED <<tasks, wire>>
    BY <1>6 DEF Reject, PrepareGuard, FreshReads, ConfirmCheck, Begin, AuditPrepare,
       WriteRefused, WriteAnswered, ReadBack, CoLocal, history
  <2>2. /\ co'.task = co.task /\ co'.plan = co.plan
        /\ co'.pc \in PastChallenge =>
             /\ co'.pc \notin {"confirm_before", "confirm_guard"}
             /\ co.pc \in PastChallenge \ {"confirm_before", "confirm_guard"}
        /\ co'.pc # "confirm_take"
    BY <1>6, <1>a DEF Reject, PrepareGuard, FreshReads, ConfirmCheck, Begin, AuditPrepare,
       WriteRefused, WriteAnswered, ReadBack, Coordinators
  <2> QED BY <1>b, <2>1, <2>2
<1>7. CASE PrepareStore \/ ConfirmUnknownPlan \/ AuditPrepareFailed \/ Finish \/ Decide
  <2>1. UNCHANGED <<tasks, wire>>
    BY <1>7 DEF PrepareStore, ConfirmUnknownPlan, AuditPrepareFailed, Finish, Decide, history
  <2>2. co'.pc = "free" /\ co'.task = NoTask
    BY <1>7 DEF PrepareStore, ConfirmUnknownPlan, AuditPrepareFailed, Finish, Decide, Release,
       FreeCoordinator
  <2>3. \A w : NoTask # ConfTask(w)
    BY DEF NoTask, ConfTask
  <2> QED BY <1>b, <2>1, <2>2, <2>3
<1>8. CASE SendReply
  BY <1>8, <1>b DEF SendReply, history
<1> QED BY <1>1, <1>2, <1>3, <1>4, <1>5, <1>6, <1>7, <1>8 DEF CoNext

\* A confirmation puts its write on the bus at most once, although ids start again with
\* every coordinator and the same plan may be offered and confirmed a second time.
THEOREM WrittenAtMostOnce == Spec => WrittenOnce
<1>1. Init => OnceInv
  BY DEF Init, OnceInv, Carried, LoopReady, FreeCoordinator, NoTask, ConfTask, PastChallenge
<1>2. TypeOK /\ SyncInv /\ ConfirmInv /\ OrderInv /\ OnceInv /\ [Next]_vars => OnceInv'
  <2> SUFFICES ASSUME TypeOK, SyncInv, ConfirmInv, OrderInv, OnceInv, [Next]_vars
               PROVE  OnceInv'
    OBVIOUS
  <2>1. CASE Transport
    BY <2>1, TransportLeavesLoop DEF OnceInv, Carried
  <2>2. CASE UNCHANGED vars
    BY <2>2 DEF vars, appVars, fenceVars, coVars, history, OnceInv, Carried
  <2> QED BY <2>1, <2>2, OnceAppStep, OnceCoStep DEF Next, Transport
<1>3. TypeOK /\ OnceInv /\ [Next]_vars => [Transmits => co.plan \notin wire]_vars
  <2> SUFFICES ASSUME TypeOK, OnceInv, [Next]_vars, Transmits PROVE co.plan \notin wire
    OBVIOUS
  <2>1. SendWrite
    BY OnlySendWrites
  <2>2. co.pc = "send" /\ co.plan \in Plans
    BY <2>1 DEF SendWrite, TypeOK, Coordinators
  <2> QED BY <2>2 DEF OnceInv, PastChallenge
<1> QED BY <1>1, <1>2, <1>3, TypeCorrect, SyncIsCurrent, ConfirmationsCarried,
           CopiesAreOvertaken, PTL DEF Spec, WrittenOnce
=============================================================================

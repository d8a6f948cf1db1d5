----------------------------- MODULE WriteRuntime -----------------------------
(***************************************************************************)
(* The guarded manual write, end to end: the application loop that owns    *)
(* the session (lantern-app/src/application.rs, vfd-lantern/src/main.rs),  *)
(* the runtime projection and fence it syncs (write_runtime.rs), and the   *)
(* WriteCoordinator task that prepares and confirms a plan, writes the     *)
(* device once and audits it (lantern-app/src/write_coordinator.rs).       *)
(*                                                                         *)
(* Three kinds of steps interleave: the main loop, one coordinator task    *)
(* (an async mutex admits one at a time), and the tasks that open and      *)
(* identify a port.  The coordinator gives up the processor at every await *)
(* and its snapshots are not atomic: snapshot() reads the projection under *)
(* one lock and the fence under another, and sync() reconciles the fence   *)
(* before it replaces the projection.  Every one of those points is a      *)
(* boundary between two actions here.                                      *)
(*                                                                         *)
(* Bus replies, audit appends, trust and fresh device reads are external:  *)
(* each may succeed or fail whenever it is used.                           *)
(***************************************************************************)
EXTENDS WriteFence, FiniteSets

CONSTANTS
    Targets,        \* parameter/value pairs an operator can ask for
    NoTarget,
    ManualPath,     \* the port was typed as a path and is watched by polling
    MaxRevision,    \* bound: session and connection actions dispatched
    MaxSessions,    \* bound: sessions opened by one process
    MaxPlans,       \* bound: plans one coordinator prepares
    MaxTasks        \* bound: tasks waiting for the coordinator mutex

ASSUME WriteRuntimeAssumption ==
    /\ NoTarget \notin Targets
    /\ ManualPath \in BOOLEAN
    /\ MaxRevision \in Nat
    /\ MaxSessions \in Nat
    /\ MaxPlans \in Nat
    /\ MaxTasks \in Nat

VARIABLES
    session,        \* ApplicationState.session
    revision,       \* ApplicationState.write_guard_revision
    lastSession,    \* the last session id the connection flow allocated
    staged,         \* parameters.staged_intent
    prepared,       \* parameters.prepared_write
    loop,           \* what the main loop is executing
    inbox,          \* action_rx: actions sent to the main loop, in order
    projection,     \* RuntimeSessionControl.projection
    fence,          \* RuntimeSessionControl.execution
    bus,            \* the bus handle of the attached coordinator
    opening,        \* an OpenPort task of the current generation runs
    identifying,    \* an identification task runs on the open bus
    plans,          \* WriteCoordinator.plans
    nextPlan,       \* WriteCoordinator.next_plan_id
    tasks,          \* spawned tasks that wait for the coordinator mutex
    co,             \* the task that holds the mutex
    replies,        \* results of finished tasks, not yet sent to the loop
    confirmed,      \* history: plans the operator confirmed
    journal,        \* history: plans with a durable preparation record
    wire,           \* history: plans whose write was put on the bus
    ambiguous,      \* history: an ambiguous outcome since the last arming
    failedIn,       \* history: sessions in which an audit append failed
    strayed         \* history: plans stored while their session was not active

appVars == <<session, revision, lastSession, staged, prepared, loop, inbox>>
fenceVars == <<projection, fence>>
busVars == <<bus, opening, identifying>>
coVars == <<plans, nextPlan, tasks, co, replies>>
history == <<confirmed, journal, wire, ambiguous, failedIn, strayed>>
vars == <<appVars, fenceVars, busVars, coVars, history>>

(***************************************************************************)
(* A prepared plan.  The old and the requested value, the parameter and    *)
(* the profile hash are one target; an intent is a plan without an id.     *)
(***************************************************************************)
Plans == [id : Nat, session : Nat, target : Targets \cup {NoTarget}, revision : Nat]

NoPlan == [id |-> 0, session |-> 0, target |-> NoTarget, revision |-> 0]

Intent(sessionId, target) ==
    [id |-> 0, session |-> sessionId, target |-> target, revision |-> 0]

(***************************************************************************)
(* write_context_hash and the challenge cut from it; SHA-256 is taken to   *)
(* be injective on the contexts of one process.                            *)
(***************************************************************************)
Challenge(plan) == <<plan.id, plan.session, plan.target, plan.revision>>

Tasks == [kind : {"Prepare", "Confirm", "Cancel"}, plan : Plans]

NoTask == [kind |-> "None", plan |-> NoPlan]

Replies == [type : {"WritePrepared", "WriteCompleted"}, plan : Plans]

CoordinatorPcs ==
    {"free",
     "prepare_before", "prepare_guard", "prepare_read", "prepare_after",
     "prepare_store",
     "confirm_take", "confirm_before", "confirm_guard", "confirm_read",
     "confirm_after", "confirm_check", "begin_snapshot", "begin",
     "audit_prepare", "send", "answer", "read_back", "audit_finalize",
     "decide"}

Coordinators ==
    [pc      : CoordinatorPcs,
     task    : Tasks \cup {NoTask},
     plan    : Plans,           \* the plan being confirmed
     seen    : Snapshots,       \* projection read by snapshot(), no overlay yet
     before  : Snapshots,       \* first complete snapshot of the phase
     outcome : WriteOutcomes]   \* outcome of execute_once

FreeCoordinator ==
    [pc |-> "free", task |-> NoTask, plan |-> NoPlan,
     seen |-> UnavailableSnapshot, before |-> UnavailableSnapshot,
     outcome |-> "Verified"]

Loops ==
    [stage : {"ready", "reconcile", "publish"},
     snap  : Snapshots,
     task  : Tasks \cup {NoTask}]

LoopReady == [stage |-> "ready", snap |-> UnavailableSnapshot, task |-> NoTask]

TypeOK ==
    /\ session \in Sessions
    /\ revision \in Nat
    /\ lastSession \in Nat
    /\ staged \in Plans
    /\ prepared \in Plans
    /\ loop \in Loops
    /\ inbox \in Seq(Inputs \cup Replies)
    /\ projection \in Snapshots
    /\ fence \in Fences
    /\ bus \in {"open", "closed"}
    /\ opening \in {"none", "initial", "reconnect"}
    /\ identifying \in BOOLEAN
    /\ plans \in SUBSET Plans
    /\ nextPlan \in Nat
    /\ tasks \in SUBSET Tasks
    /\ co \in Coordinators
    /\ replies \in SUBSET Replies
    /\ confirmed \in SUBSET Plans
    /\ journal \in SUBSET Plans
    /\ wire \in SUBSET Plans
    /\ ambiguous \in BOOLEAN
    /\ failedIn \in SUBSET Nat
    /\ strayed \in SUBSET Plans

Init ==
    /\ session = NewSession
    /\ revision = 0
    /\ lastSession = 0
    /\ staged = NoPlan
    /\ prepared = NoPlan
    /\ loop = LoopReady
    /\ inbox = <<>>
    /\ projection = UnavailableSnapshot
    /\ fence = OpenFence
    /\ bus = "closed"
    /\ opening = "none"
    /\ identifying = FALSE
    /\ plans = {}
    /\ nextPlan = 1
    /\ tasks = {}
    /\ co = FreeCoordinator
    /\ replies = {}
    /\ confirmed = {}
    /\ journal = {}
    /\ wire = {}
    /\ ambiguous = FALSE
    /\ failedIn = {}
    /\ strayed = {}

-----------------------------------------------------------------------------
(***************************************************************************)
(* The application loop.                                                   *)
(***************************************************************************)
CanDispatch == loop.stage = "ready" /\ session.phase # "ShuttingDown"

(***************************************************************************)
(* The sync that follows a dispatched action, and the task to spawn after  *)
(* it.  Without an Active session no snapshot exists and nothing is synced.*)
(***************************************************************************)
SyncThen(s, r, task) ==
    IF IsActive(s)
    THEN [stage |-> "reconcile", snap |-> SnapshotOf(s, r), task |-> task]
    ELSE LoopReady

NoInput == Input("NoInput")

CanSpawn == Cardinality(tasks) < MaxTasks

ClosesBus(in) == Emits("ClosePort", session, in) \/ Emits("ShutdownBusActor", session, in)

(***************************************************************************)
(* Which actions reset the staged intent and the prepared plan: on the     *)
(* connection path Connect, Cancel and the end of an identification; on    *)
(* the session path any input that finds or leaves the session ended.      *)
(***************************************************************************)
ConnectionInputs ==
    {"Connect", "CancelConnect", "Disconnect", "PortOpened", "PortOpenFailed",
     "ReconnectPortOpened", "ReconnectFailed", "IdentificationFinished",
     "ReconnectIdentificationFinished", "PortRemoved", "NoInput"}

ResetsParameters(in) ==
    IF in.type \in ConnectionInputs
    THEN in.type \in {"Connect", "CancelConnect", "Disconnect", "IdentificationFinished"}
    ELSE Reduce(session, in).phase \in {"Disconnected", "ShuttingDown"}

StartsIdentification(in) ==
    \/ Emits("StartIdentification", session, in)
    \/ Emits("StartReconnectIdentification", session, in)

(***************************************************************************)
(* ApplicationState::reduce for a Session or Connection action, and the    *)
(* transport effects ApplicationRuntime::dispatch executes for it.         *)
(***************************************************************************)
Dispatch(in, resets) ==
    /\ CanDispatch
    /\ revision < MaxRevision
    /\ revision' = revision + 1
    /\ session' = Reduce(session, in)
    /\ lastSession' = IF in.type = "Connect" THEN lastSession + 1 ELSE lastSession
    /\ staged' = IF resets THEN NoPlan ELSE staged
    /\ prepared' = IF resets THEN NoPlan ELSE prepared
    /\ bus' = IF ClosesBus(in) THEN "closed" ELSE bus
    /\ opening' = IF ClosesBus(in) THEN "none"
                  ELSE IF Emits("OpenPort", session, in)
                  THEN (IF IsActive(session) THEN "reconnect" ELSE "initial")
                  ELSE opening
    /\ identifying' = (~ClosesBus(in) /\ (identifying \/ StartsIdentification(in)))
    /\ loop' = SyncThen(session', revision', NoTask)
    /\ ambiguous' = (ambiguous /\ ~(session.authorization # "Armed"
                                    /\ session'.authorization = "Armed"))
    /\ UNCHANGED <<fenceVars, coVars, confirmed, journal, wire, failedIn, strayed>>

Apply(in) == Dispatch(in, ResetsParameters(in))

(***************************************************************************)
(* Keys of the operator and the two expiry checks of the safety tick.      *)
(***************************************************************************)
UserConnects ==
    /\ session.phase = "Disconnected" /\ lastSession < MaxSessions
    /\ Apply(Input("Connect"))
    /\ UNCHANGED inbox

UserDisconnects ==
    /\ session.phase \in {"Connecting", "Identifying", "Active"}
    /\ Apply(Input(IF IsActive(session) THEN "Disconnect" ELSE "CancelConnect"))
    /\ UNCHANGED inbox

UserArms ==
    /\ IsActive(session)
    /\ \E in \in {Input("ArmWrites"), [type |-> "ConfirmArming", valid |-> TRUE]} :
          Reduce(session, in) # session /\ Apply(in)
    /\ UNCHANGED inbox

UserDisarms ==
    /\ IsActive(session) /\ session.authorization \in {"Arming", "Armed"}
    /\ Apply(Input("DisarmWrites"))
    /\ UNCHANGED inbox

SafetyTick ==
    /\ IsActive(session)
    /\ \/ session.authorization = "Arming" /\ Apply(Input("ArmingExpired"))
       \/ session.authorization = "Armed" /\ Apply(Input("IdleDisarmElapsed"))
    /\ UNCHANGED inbox

UserShutsDown == Apply(Input("Shutdown")) /\ UNCHANGED inbox

(***************************************************************************)
(* A hotplug removal, the reconnect timer, and any connection action that  *)
(* leaves the session alone: a port refresh, an edit of the link settings. *)
(***************************************************************************)
PortRemoved ==
    /\ \/ IsActive(session) /\ Apply(Input("PortRemoved"))
       \/ /\ session.phase = "Identifying"
          /\ Dispatch([type |-> "IdentificationFinished", id |-> lastSession,
                       verified |-> NoDevice], FALSE)
    /\ UNCHANGED inbox

ReconnectTimer ==
    /\ IsActive(session) /\ session.connectivity = "Reconnecting" /\ ~session.opening
    /\ Apply([type |-> "ReconnectTimerElapsed", due |-> TRUE])
    /\ UNCHANGED inbox

OtherConnectionAction ==
    /\ IsActive(session)
    /\ Apply(NoInput)
    /\ UNCHANGED inbox

(***************************************************************************)
(* Parameter actions: no revision, no session transition.  PrepareIntent   *)
(* drops the plan shown to the operator, PrepareWrite does not; an input   *)
(* that does not parse or violates the profile's limits stages nothing.    *)
(***************************************************************************)
PrepareIntent ==
    /\ CanDispatch /\ IsActive(session) /\ session.connectivity = "Connected"
    /\ staged' \in {Intent(session.id, t) : t \in Targets} \cup {NoPlan}
    /\ prepared' = NoPlan
    /\ staged' # staged \/ prepared # NoPlan
    /\ UNCHANGED <<session, revision, lastSession, loop, inbox, fenceVars, busVars,
                   coVars, history>>

PrepareWrite ==
    LET task == [kind |-> "Prepare", plan |-> staged]
    IN  /\ CanDispatch /\ IsActive(session)
        /\ staged # NoPlan
        /\ task \notin tasks /\ CanSpawn
        /\ loop' = SyncThen(session, revision, task)
        /\ UNCHANGED <<session, revision, lastSession, staged, prepared, inbox,
                       fenceVars, busVars, coVars, history>>

ConfirmPrepared ==
    /\ CanDispatch /\ IsActive(session)
    /\ prepared # NoPlan /\ CanSpawn
    /\ loop' = SyncThen(session, revision, [kind |-> "Confirm", plan |-> prepared])
    /\ prepared' = NoPlan
    /\ confirmed' = confirmed \cup {prepared}
    /\ UNCHANGED <<session, revision, lastSession, staged, inbox, fenceVars, busVars,
                   coVars, journal, wire, ambiguous, failedIn, strayed>>

ClearIntent ==
    /\ CanDispatch
    /\ staged # NoPlan \/ prepared # NoPlan
    /\ prepared # NoPlan => CanSpawn
    /\ staged' = NoPlan
    /\ prepared' = NoPlan
    /\ tasks' = IF prepared # NoPlan
                THEN tasks \cup {[kind |-> "Cancel", plan |-> prepared]} ELSE tasks
    /\ UNCHANGED <<session, revision, lastSession, loop, inbox, fenceVars, busVars,
                   plans, nextPlan, co, replies, history>>

(***************************************************************************)
(* The head of action_rx: a session input, or the result of a task.  An    *)
(* identified session takes the id that is pending when it is handled.     *)
(***************************************************************************)
Received(in) ==
    IF in.type = "IdentificationFinished" THEN [in EXCEPT !.id = lastSession] ELSE in

ReceiveInput ==
    /\ inbox # <<>> /\ Head(inbox) \in Inputs
    /\ Apply(Received(Head(inbox)))
    /\ inbox' = Tail(inbox)

ReceiveReply ==
    /\ CanDispatch /\ inbox # <<>> /\ Head(inbox) \in Replies
    /\ inbox' = Tail(inbox)
    /\ \/ /\ Head(inbox).type = "WritePrepared"
          /\ prepared' = Head(inbox).plan
          /\ UNCHANGED staged
       \/ /\ Head(inbox).type = "WriteCompleted"
          /\ prepared' = NoPlan
          /\ staged' = NoPlan
    /\ UNCHANGED <<session, revision, lastSession, loop, fenceVars, busVars, coVars,
                   history>>

(***************************************************************************)
(* RuntimeSessionControl::sync in its two critical sections, and the spawn *)
(* of the task the effect carries.                                         *)
(***************************************************************************)
SyncReconcile ==
    /\ loop.stage = "reconcile"
    /\ fence' = Reconcile(fence, loop.snap)
    /\ loop' = [loop EXCEPT !.stage = "publish"]
    /\ UNCHANGED <<session, revision, lastSession, staged, prepared, inbox, projection,
                   busVars, coVars, history>>

SyncPublish ==
    /\ loop.stage = "publish"
    /\ projection' = loop.snap
    /\ tasks' = IF loop.task # NoTask THEN tasks \cup {loop.task} ELSE tasks
    /\ loop' = LoopReady
    /\ UNCHANGED <<session, revision, lastSession, staged, prepared, inbox, fence,
                   busVars, plans, nextPlan, co, replies, history>>

AppNext ==
    \/ UserConnects \/ UserDisconnects \/ UserArms \/ UserDisarms \/ SafetyTick
    \/ UserShutsDown \/ PortRemoved \/ ReconnectTimer \/ OtherConnectionAction
    \/ PrepareIntent \/ PrepareWrite \/ ConfirmPrepared \/ ClearIntent
    \/ ReceiveInput \/ ReceiveReply \/ SyncReconcile \/ SyncPublish

-----------------------------------------------------------------------------
(***************************************************************************)
(* Opening and identifying a port.  attach_bus waits for the coordinator   *)
(* mutex and installs a new coordinator, whose ids start again at 1, before *)
(* the application hears of the open port.                                 *)
(***************************************************************************)
\* Mutant: the new coordinator does not wait for the task that holds the mutex.
AttachBus_NoMutex ==
    /\ opening # "none"
    /\ inbox' = Append(inbox, Input(IF opening = "initial" THEN "PortOpened"
                                    ELSE "ReconnectPortOpened"))
    /\ bus' = "open"
    /\ opening' = "none"
    /\ plans' = {}
    /\ nextPlan' = 1
    /\ UNCHANGED <<session, revision, lastSession, staged, prepared, loop, fenceVars,
                   identifying, tasks, co, replies, history>>

AttachBus ==
    /\ opening # "none" /\ co.pc = "free"
    /\ inbox' = Append(inbox, Input(IF opening = "initial" THEN "PortOpened"
                                    ELSE "ReconnectPortOpened"))
    /\ bus' = "open"
    /\ opening' = "none"
    /\ plans' = {}
    /\ nextPlan' = 1
    /\ UNCHANGED <<session, revision, lastSession, staged, prepared, loop, fenceVars,
                   identifying, tasks, co, replies, history>>

OpenFails ==
    /\ opening # "none"
    /\ inbox' = Append(inbox, Input(IF opening = "initial" THEN "PortOpenFailed"
                                    ELSE "ReconnectFailed"))
    /\ opening' = "none"
    /\ UNCHANGED <<session, revision, lastSession, staged, prepared, loop, fenceVars,
                   bus, identifying, coVars, history>>

(***************************************************************************)
(* Identification reads the device over the open bus; without a bus it     *)
(* reports an error at once.                                               *)
(***************************************************************************)
Identified ==
    /\ identifying
    /\ identifying' = FALSE
    /\ \E d \in (IF bus = "open" THEN Devices ELSE {}) \cup {NoDevice} :
          inbox' = Append(inbox,
              IF IsActive(session)
              THEN [type |-> "ReconnectIdentificationFinished", verified |-> d]
              ELSE [type |-> "IdentificationFinished", id |-> lastSession,
                    verified |-> d])
    /\ UNCHANGED <<session, revision, lastSession, staged, prepared, loop, fenceVars,
                   bus, opening, coVars, history>>

(***************************************************************************)
(* The watch on a port opened by path: the path is gone.                   *)
(***************************************************************************)
ManualPathLost ==
    /\ ManualPath
    /\ bus = "open" /\ IsActive(session) /\ session.connectivity = "Connected"
    /\ \A i \in DOMAIN inbox : inbox[i] # Input("TransportLost")
    /\ inbox' = Append(inbox, Input("TransportLost"))
    /\ UNCHANGED <<session, revision, lastSession, staged, prepared, loop, fenceVars,
                   busVars, coVars, history>>

-----------------------------------------------------------------------------
(***************************************************************************)
(* The coordinator.  CoLocal keeps everything but the task's own state.    *)
(***************************************************************************)
CoFrame ==
    UNCHANGED <<session, revision, lastSession, staged, prepared, loop, busVars, strayed>>

CoLocal == CoFrame /\ UNCHANGED <<inbox, fenceVars, plans, nextPlan, tasks, replies, history>>

(***************************************************************************)
(* The task returns: the mutex is free and the result is about to be sent. *)
(* A result equal to one still unsent waits for it.                        *)
(***************************************************************************)
Reply(task) ==
    [type |-> IF task.kind = "Prepare" THEN "WritePrepared" ELSE "WriteCompleted",
     plan |-> NoPlan]

Release(reply) ==
    /\ reply \notin replies
    /\ replies' = replies \cup {reply}
    /\ co' = FreeCoordinator

Acquire ==
    /\ co.pc = "free"
    /\ \E task \in tasks :
          /\ tasks' = tasks \ {task}
          /\ \/ /\ task.kind = "Prepare"
                /\ nextPlan <= MaxPlans
                /\ nextPlan' = nextPlan + 1
                /\ co' = [FreeCoordinator EXCEPT
                            !.pc = "prepare_before", !.task = task,
                            !.plan = [task.plan EXCEPT !.id = nextPlan]]
             \/ /\ task.kind # "Prepare"
                /\ co' = [FreeCoordinator EXCEPT !.pc = "confirm_take", !.task = task]
                /\ UNCHANGED nextPlan
    /\ CoFrame
    /\ UNCHANGED <<inbox, fenceVars, plans, replies, history>>

(***************************************************************************)
(* The first lock of snapshot(): clone the projection.                     *)
(***************************************************************************)
ReadProjection ==
    /\ co.pc \in {"prepare_before", "prepare_after", "confirm_before",
                  "confirm_after", "begin_snapshot"}
    /\ co' = [co EXCEPT !.seen = projection,
                        !.pc = CASE co.pc = "prepare_before" -> "prepare_guard"
                                 [] co.pc = "prepare_after"  -> "prepare_store"
                                 [] co.pc = "confirm_before" -> "confirm_guard"
                                 [] co.pc = "confirm_after"  -> "confirm_check"
                                 [] co.pc = "begin_snapshot" -> "begin"]
    /\ CoLocal

(***************************************************************************)
(* The second lock of snapshot(): overlay the fence as it is now.          *)
(***************************************************************************)
TakenSnapshot == Overlay(co.seen, fence)

(***************************************************************************)
(* A guard that fails ends in a decision record.  The trust of the         *)
(* profile, the parameter's policy, the target's encoding, the expiry of   *)
(* the plan and the fresh reads may fail in any state.                     *)
(***************************************************************************)
Reject ==
    /\ co.pc \in {"prepare_guard", "prepare_read", "prepare_store", "confirm_guard",
                  "confirm_read", "confirm_check", "begin"}
    /\ co' = [co EXCEPT !.pc = "decide"]
    /\ CoLocal

PrepareGuard ==
    /\ co.pc = "prepare_guard"
    /\ ProcessWritesEnabled
    /\ Writable(TakenSnapshot)
    /\ co.plan.session = TakenSnapshot.session
    /\ co' = [co EXCEPT !.pc = "prepare_read", !.before = TakenSnapshot]
    /\ CoLocal

(***************************************************************************)
(* Fresh drive state and old value, over the coordinator's bus.            *)
(***************************************************************************)
FreshReads ==
    /\ bus = "open"
    /\ \/ co.pc = "prepare_read" /\ co' = [co EXCEPT !.pc = "prepare_after"]
       \/ co.pc = "confirm_read" /\ co' = [co EXCEPT !.pc = "confirm_after"]
    /\ CoLocal

PrepareStore ==
    LET plan == [co.plan EXCEPT !.revision = co.before.revision]
    IN  /\ co.pc = "prepare_store"
        /\ TakenSnapshot = co.before
        /\ plans' = plans \cup {plan}
        /\ Release([type |-> "WritePrepared", plan |-> plan])
        /\ strayed' = IF IsActive(session) /\ session.id = plan.session THEN strayed
                      ELSE strayed \cup {plan}
        /\ UNCHANGED <<appVars, busVars, fenceVars, nextPlan, tasks, confirmed, journal,
                       wire, ambiguous, failedIn>>

(***************************************************************************)
(* confirm_write takes the plan out of the map before it looks at the      *)
(* confirmation.                                                           *)
(***************************************************************************)
\* Mutant: whatever confirmation arrives is taken for the challenge.
ConfirmTake_AnyConfirmation ==
    /\ co.pc = "confirm_take"
    /\ \E plan \in plans :
          /\ plan.id = co.task.plan.id
          /\ plans' = plans \ {plan}
          /\ co' = [co EXCEPT !.pc = "confirm_before", !.plan = plan]
    /\ CoFrame
    /\ UNCHANGED <<inbox, fenceVars, nextPlan, tasks, replies, history>>

ConfirmTake ==
    /\ co.pc = "confirm_take"
    /\ \E plan \in plans :
          /\ plan.id = co.task.plan.id
          /\ plans' = plans \ {plan}
          /\ \/ /\ co.task.kind = "Confirm"
                /\ Challenge(plan) = Challenge(co.task.plan)
                /\ co' = [co EXCEPT !.pc = "confirm_before", !.plan = plan]
             \/ co' = [co EXCEPT !.pc = "decide", !.plan = plan]
    /\ CoFrame
    /\ UNCHANGED <<inbox, fenceVars, nextPlan, tasks, replies, history>>

ConfirmUnknownPlan ==
    /\ co.pc = "confirm_take"
    /\ \A plan \in plans : plan.id # co.task.plan.id
    /\ Release(Reply(co.task))
    /\ CoFrame
    /\ UNCHANGED <<inbox, fenceVars, plans, nextPlan, tasks, history>>

PlanMatches(snap, plan) ==
    /\ Writable(snap)
    /\ snap.session = plan.session
    /\ snap.revision = plan.revision

ConfirmGuard ==
    /\ co.pc = "confirm_guard"
    /\ PlanMatches(TakenSnapshot, co.plan)
    /\ co' = [co EXCEPT !.pc = "confirm_read", !.before = TakenSnapshot]
    /\ CoLocal

ConfirmCheck ==
    /\ co.pc = "confirm_check"
    /\ TakenSnapshot = co.before
    /\ TakenSnapshot.revision = co.plan.revision
    /\ co' = [co EXCEPT !.pc = "begin_snapshot"]
    /\ CoLocal

(***************************************************************************)
(* begin_single_write: claim the fence and tell the application.           *)
(***************************************************************************)
Begin ==
    /\ co.pc = "begin"
    /\ CanBegin(co.seen, fence)
    /\ fence' = BeginSingleWrite(fence, co.plan.id, co.seen.revision)
    /\ inbox' = Append(inbox, [type |-> "WriteConfirmed", id |-> co.plan.id])
    /\ co' = [co EXCEPT !.pc = "audit_prepare"]
    /\ CoFrame
    /\ UNCHANGED <<projection, plans, nextPlan, tasks, replies, history>>

AuditPrepare ==
    /\ co.pc = "audit_prepare"
    /\ journal' = journal \cup {co.plan}
    /\ co' = [co EXCEPT !.pc = "send"]
    /\ CoFrame
    /\ UNCHANGED <<inbox, fenceVars, plans, nextPlan, tasks, replies, confirmed, wire,
                   ambiguous, failedIn>>

(***************************************************************************)
(* An unavailable audit, a failed append or a foreign token: degrade, and  *)
(* return without finish_single_write.                                     *)
(***************************************************************************)
\* Mutant: the failure of the audit is reported, and the write goes on.
AuditPrepareFailed_Writes ==
    /\ co.pc = "audit_prepare"
    /\ fence' = DegradeAuditAndDisarm(fence)
    /\ inbox' = Append(inbox, Input("AuditPersistenceFailed"))
    /\ failedIn' = failedIn \cup {co.plan.session}
    /\ co' = [co EXCEPT !.pc = "send"]
    /\ CoFrame
    /\ UNCHANGED <<projection, plans, nextPlan, tasks, replies, confirmed, journal, wire,
                   ambiguous>>

AuditPrepareFailed ==
    /\ co.pc = "audit_prepare"
    /\ fence' = DegradeAuditAndDisarm(fence)
    /\ inbox' = Append(inbox, Input("AuditPersistenceFailed"))
    /\ failedIn' = failedIn \cup {co.plan.session}
    /\ Release(Reply(co.task))
    /\ CoFrame
    /\ UNCHANGED <<projection, plans, nextPlan, tasks, confirmed, journal, wire, ambiguous>>

(***************************************************************************)
(* execute_once: one request to the bus.  It is transmitted, or refused    *)
(* before transmission; the answer, if the actor survives to give one, is  *)
(* success, an exception or an unknown outcome.                            *)
(***************************************************************************)
SendWrite ==
    /\ co.pc = "send" /\ bus = "open"
    /\ wire' = wire \cup {co.plan}
    /\ co' = [co EXCEPT !.pc = "answer"]
    /\ CoFrame
    /\ UNCHANGED <<inbox, fenceVars, plans, nextPlan, tasks, replies, confirmed, journal,
                   ambiguous, failedIn>>

WriteRefused ==
    /\ co.pc = "send"
    /\ \E outcome \in {"TransportLost", "DeviceRejected"} :
          co' = [co EXCEPT !.pc = "audit_finalize", !.outcome = outcome]
    /\ CoLocal

\* Mutant: a write whose answer is unknown is sent again.
WriteAnswered_Retries ==
    /\ co.pc = "answer"
    /\ bus = "open"
    /\ co' = [co EXCEPT !.pc = "send"]
    /\ CoLocal

WriteAnswered ==
    /\ co.pc = "answer"
    /\ \/ /\ bus = "open"
          /\ \/ co' = [co EXCEPT !.pc = "read_back"]
             \/ \E outcome \in {"DeviceRejected", "OutcomeUnknown"} :
                   co' = [co EXCEPT !.pc = "audit_finalize", !.outcome = outcome]
       \/ /\ bus = "closed"
          /\ co' = [co EXCEPT !.pc = "audit_finalize", !.outcome = "TransportLost"]
    /\ CoLocal

ReadBack ==
    /\ co.pc = "read_back"
    /\ \E outcome \in {"Verified", "ReadBackMismatch", "TransportLost"} :
          /\ outcome # "TransportLost" => bus = "open"
          /\ co' = [co EXCEPT !.pc = "audit_finalize", !.outcome = outcome]
    /\ CoLocal

(***************************************************************************)
(* finalize_device_write, which may fail, and finish_single_write.         *)
(***************************************************************************)
Finish ==
    /\ co.pc = "audit_finalize"
    /\ \E outcome \in {co.outcome, "AuditDegraded"} :
          /\ fence' = FinishSingleWrite(fence, outcome)
          /\ inbox' = Append(inbox, [type |-> "WriteFinished", outcome |-> outcome])
          /\ ambiguous' = (ambiguous \/ outcome \in AmbiguousOutcomes)
          /\ failedIn' = IF outcome \in AuditOutcomes
                         THEN failedIn \cup {co.plan.session} ELSE failedIn
    /\ Release(Reply(co.task))
    /\ CoFrame
    /\ UNCHANGED <<projection, plans, nextPlan, tasks, confirmed, journal, wire>>

(***************************************************************************)
(* persist_decision: a decision that cannot be recorded degrades the audit.*)
(***************************************************************************)
Decide ==
    /\ co.pc = "decide"
    /\ \/ UNCHANGED <<inbox, fence, failedIn>>
       \/ /\ fence' = DegradeAuditAndDisarm(fence)
          /\ inbox' = Append(inbox, Input("AuditPersistenceFailed"))
          /\ failedIn' = failedIn \cup {co.plan.session}
    /\ Release(Reply(co.task))
    /\ CoFrame
    /\ UNCHANGED <<projection, plans, nextPlan, tasks, confirmed, journal, wire, ambiguous>>

(***************************************************************************)
(* The task sends its result once it has released the mutex.               *)
(***************************************************************************)
SendReply ==
    /\ \E reply \in replies :
          /\ inbox' = Append(inbox, reply)
          /\ replies' = replies \ {reply}
    /\ CoFrame
    /\ UNCHANGED <<fenceVars, plans, nextPlan, tasks, co, history>>

CoNext ==
    \/ Acquire \/ ReadProjection \/ Reject \/ PrepareGuard \/ FreshReads \/ PrepareStore
    \/ ConfirmTake \/ ConfirmUnknownPlan \/ ConfirmGuard \/ ConfirmCheck \/ Begin
    \/ AuditPrepare \/ AuditPrepareFailed \/ SendWrite \/ WriteRefused \/ WriteAnswered
    \/ ReadBack \/ Finish \/ Decide \/ SendReply

Next == AppNext \/ AttachBus \/ OpenFails \/ Identified \/ ManualPathLost \/ CoNext

Spec == Init /\ [][Next]_vars

-----------------------------------------------------------------------------
(***************************************************************************)
(* Properties.                                                             *)
(***************************************************************************)

\* A write reaches the bus only for a plan whose device-write preparation is
\* already durable in the audit journal (confirm_write: audit, then execute_once).
AuditBeforeWrite == wire \subseteq journal

\* A write reaches the bus only for the very plan the operator confirmed, although
\* plan ids start again at 1 after every reconnect and the plan shown to the
\* operator survives a transport loss.
OperatorConfirmed == wire \subseteq confirmed

Quiet ==
    /\ loop.stage = "ready" /\ inbox = <<>>
    /\ tasks = {} /\ replies = {} /\ co.pc = "free"

\* Once every task has returned and every message is handled, an Active session
\* finds the fence without an operation, however the application and the
\* coordinator interleaved: no lost message can block writes for good.
FenceDrains == Quiet /\ IsActive(session) => ~Running(fence)

Begins == ~Running(fence) /\ Running(fence')

(***************************************************************************)
(* The sync that takes the capability away has lifted the barrier of the   *)
(* fence: it is about to replace the projection, or it has replaced it     *)
(* since begin_single_write copied the old one.                            *)
(***************************************************************************)
Withdrawing ==
    \/ loop.stage = "publish" /\ ~Writable(loop.snap)
    \/ ~Writable(projection)

\* After an audit append failed in a session, even if the application never learnt
\* of the failure, and after an ambiguous outcome until the operator arms again, a
\* write can begin only in the one window sync() leaves open: between the lock under
\* which it lifts the barrier and the lock under which it publishes the withdrawal,
\* or with a projection copied before that publication.  No other sync, disconnection
\* or reconnection lets one begin.
FailsClosed ==
    [][Begins /\ (ambiguous \/ projection.session \in failedIn) => Withdrawing]_vars

\* What a test of write_runtime.rs says of the fence by its name: the barriers never
\* grant the capability before the authoritative sync.  From an ambiguous outcome until
\* the operator arms again, no snapshot that a task may take is writable.
BarriersHoldUntilSync == ambiguous => ~Writable(Overlay(projection, fence))

\* A write never goes out on the bus of another session than its plan's: a new
\* bus waits for the coordinator mutex before the next session can start.  The
\* exception is a plan that was prepared when its session had already ended, from
\* the projection that the session left behind.
WriteStaysInSession ==
    [][wire' # wire /\ IsActive(session) /\ co.plan \notin strayed
          => session.id = co.plan.session]_vars

Transmits == co.pc = "send" /\ co'.pc = "answer"

\* A confirmation puts its write on the bus at most once: no answer, not even an
\* unknown one, is followed by another transmission of the same plan.
WrittenOnce == [][Transmits => co.plan \notin wire]_vars
=============================================================================

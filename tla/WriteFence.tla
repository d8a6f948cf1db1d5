------------------------------ MODULE WriteFence ------------------------------
(***************************************************************************)
(* RuntimeSessionControl of vfd-lantern/src/write_runtime.rs as operators  *)
(* on values.  Two pieces of state stand behind two separate locks:        *)
(*                                                                         *)
(*   projection  the last WriteSessionSnapshot the application synced;     *)
(*   fence       RuntimeExecutionState: the running operation and two      *)
(*               barriers that take capabilities away from the projection  *)
(*               until the application has caught up.                      *)
(*                                                                         *)
(* The fingerprint, the profile hash and the slave of a snapshot are       *)
(* functions of the session and of the guard revision, which every action  *)
(* that can change one of them increments, so the snapshot keeps those two.*)
(***************************************************************************)
EXTENDS Session

Snapshots ==
    [session   : Nat,
     connected : BOOLEAN,
     armed     : BOOLEAN,
     healthy   : BOOLEAN,
     idle      : BOOLEAN,
     revision  : Nat]

UnavailableSnapshot ==
    [session |-> 0, connected |-> FALSE, armed |-> FALSE, healthy |-> FALSE,
     idle |-> FALSE, revision |-> 0]

(***************************************************************************)
(* ApplicationState::write_session_snapshot, for an Active session.        *)
(***************************************************************************)
SnapshotOf(s, revision) ==
    [session   |-> s.id,
     connected |-> s.connectivity = "Connected",
     armed     |-> s.authorization = "Armed",
     healthy   |-> s.audit = "Healthy",
     idle      |-> s.operation = Idle,
     revision  |-> revision]

FenceOperations ==
    [kind     : {"None", "SingleWrite", "Restore"},
     id       : Nat,
     next     : Nat,
     started  : Nat,
     finished : BOOLEAN]

NoFenceOperation ==
    [kind |-> "None", id |-> 0, next |-> 0, started |-> 0, finished |-> FALSE]

Fences == [operation : FenceOperations, disarm : BOOLEAN, audit : BOOLEAN]

OpenFence == [operation |-> NoFenceOperation, disarm |-> FALSE, audit |-> FALSE]

Running(f) == f.operation # NoFenceOperation

(***************************************************************************)
(* The operation leaves the fence once it has finished and the application *)
(* has published an idle projection of a later revision.                   *)
(***************************************************************************)
OperationReconciled(f, p) ==
    /\ Running(f)
    /\ f.operation.finished
    /\ p.idle
    /\ p.revision > f.operation.started

\* Mutant: any sync lifts the disarm barrier.
Reconcile_LiftsDisarm(f, p) ==
    [operation |-> IF OperationReconciled(f, p) THEN NoFenceOperation ELSE f.operation,
     disarm    |-> FALSE,
     audit     |-> f.audit /\ p.healthy]

Reconcile(f, p) ==
    [operation |-> IF OperationReconciled(f, p) THEN NoFenceOperation ELSE f.operation,
     disarm    |-> f.disarm /\ p.armed,
     audit     |-> f.audit /\ p.healthy]

(***************************************************************************)
(* apply_restrictive_overlay: what snapshot() returns for a projection     *)
(* read under the first lock and a fence read under the second.            *)
(***************************************************************************)
Overlay(p, f) ==
    [p EXCEPT !.idle    = @ /\ ~Running(f),
              !.armed   = @ /\ ~f.disarm /\ ~f.audit,
              !.healthy = @ /\ ~f.audit]

Writable(snap) == snap.connected /\ snap.armed /\ snap.healthy /\ snap.idle

CanBegin(p, f) == Writable(Overlay(p, f)) /\ ~Running(f)

BeginSingleWrite(f, id, revision) ==
    [f EXCEPT !.operation = [kind |-> "SingleWrite", id |-> id, next |-> 0,
                             started |-> revision, finished |-> FALSE]]

FinishSingleWrite(f, outcome) ==
    [f EXCEPT !.operation.finished = @ \/ f.operation.kind = "SingleWrite",
              !.disarm = @ \/ outcome \in AmbiguousOutcomes \cup AuditOutcomes,
              !.audit  = @ \/ outcome \in AuditOutcomes]

BeginRestore(f, id, revision) ==
    [f EXCEPT !.operation = [kind |-> "Restore", id |-> id, next |-> 0,
                             started |-> revision, finished |-> FALSE]]

RestoreMatches(p, f, id, next) ==
    /\ LET snap == Overlay(p, f)
       IN  snap.connected /\ snap.armed /\ snap.healthy /\ ~snap.idle
    /\ f.operation.kind = "Restore"
    /\ ~f.operation.finished
    /\ f.operation.id = id
    /\ f.operation.next = next

CanAdvanceRestore(f, id, next) ==
    /\ f.operation.kind = "Restore"
    /\ ~f.operation.finished
    /\ f.operation.id = id
    /\ next = f.operation.next + 1

AdvanceRestore(f, next) == [f EXCEPT !.operation.next = next]

CanFinishRestore(f, id) ==
    /\ f.operation.kind = "Restore"
    /\ f.operation.id = id
    /\ ~f.operation.finished

FinishRestore(f) == [f EXCEPT !.operation.finished = TRUE]

(***************************************************************************)
(* abort_restore succeeds on a matching operation, finished or not, and    *)
(* when there is none; it fails, changing nothing, on any other operation. *)
(***************************************************************************)
CanAbortRestore(f, id) ==
    \/ ~Running(f)
    \/ f.operation.kind = "Restore" /\ f.operation.id = id

AbortRestore(f) == [f EXCEPT !.operation.finished = @ \/ Running(f)]

Disarm(f) == [f EXCEPT !.disarm = TRUE]

\* Mutant: degrading the audit leaves the operation running.
DegradeAuditAndDisarm_KeepsOperation(f) ==
    [f EXCEPT !.disarm = TRUE, !.audit = TRUE]

DegradeAuditAndDisarm(f) ==
    [f EXCEPT !.operation.finished = @ \/ Running(f),
              !.disarm = TRUE,
              !.audit  = TRUE]
=============================================================================

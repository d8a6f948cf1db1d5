------------------------------- MODULE Session -------------------------------
(***************************************************************************)
(* The logical session of lantern-app/src/session.rs: a pure reducer from  *)
(* a session and an input to the next session and the effects the runtime  *)
(* must execute.  The module declares no variable; WriteRuntime and        *)
(* Connection apply Reduce and Effects to the session they own, exactly as *)
(* ApplicationState does.                                                  *)
(*                                                                         *)
(* Abstractions.  Instants are replaced by the outcome of the comparison   *)
(* the code makes with them (the fields valid and due of an input).  The   *)
(* verified identity is the device it was read from.  DisarmReason and the *)
(* texts of faults are left out: no transition depends on them.            *)
(***************************************************************************)
EXTENDS Naturals, Sequences

CONSTANTS
    ProcessWritesEnabled,   \* the process was started with --enable-writes
    Devices,                \* verified identities: fingerprint, profile, hash
    NoDevice,               \* no identity: the session is not Active
    LastDelay               \* last index of RECONNECT_DELAYS (5 in the code)

ASSUME SessionAssumption ==
    /\ ProcessWritesEnabled \in BOOLEAN
    /\ NoDevice \notin Devices
    /\ LastDelay \in Nat

Phases == {"Disconnected", "Connecting", "Identifying", "Active", "ShuttingDown"}

Connectivities == {"None", "Connected", "Reconnecting", "Faulted"}

Authorizations == {"None", "ProcessDisabled", "Disarmed", "Arming", "Armed"}

AuditHealths == {"None", "Healthy", "Degraded"}

Operations ==
    [kind : {"Idle", "SingleWrite", "Restore"}, id : Nat, next : Nat]

Idle == [kind |-> "Idle", id |-> 0, next |-> 0]

SingleWrite(id) == [kind |-> "SingleWrite", id |-> id, next |-> 0]

Restore(id, next) == [kind |-> "Restore", id |-> id, next |-> next]

Sessions ==
    [phase         : Phases,
     id            : Nat,
     device        : Devices \cup {NoDevice},
     connectivity  : Connectivities,
     attempt       : 0 .. LastDelay,
     opening       : BOOLEAN,
     authorization : Authorizations,
     audit         : AuditHealths,
     operation     : Operations]

(***************************************************************************)
(* A session that is not Active carries none of the Active fields.         *)
(***************************************************************************)
Inactive(phase) ==
    [phase         |-> phase,
     id            |-> 0,
     device        |-> NoDevice,
     connectivity  |-> "None",
     attempt       |-> 0,
     opening       |-> FALSE,
     authorization |-> "None",
     audit         |-> "None",
     operation     |-> Idle]

NewSession == Inactive("Disconnected")

DisarmedForProcess ==
    IF ProcessWritesEnabled THEN "Disarmed" ELSE "ProcessDisabled"

ActiveSession(id, device) ==
    [phase         |-> "Active",
     id            |-> id,
     device        |-> device,
     connectivity  |-> "Connected",
     attempt       |-> 0,
     opening       |-> FALSE,
     authorization |-> DisarmedForProcess,
     audit         |-> "Healthy",
     operation     |-> Idle]

IsActive(s) == s.phase = "Active"

(***************************************************************************)
(* The delay before the next reconnect attempt only depends on the attempt *)
(* capped at the last entry of RECONNECT_DELAYS, so the capped value is    *)
(* what the session keeps.                                                 *)
(***************************************************************************)
\* Mutant: the attempt is not capped at the last delay.
NextAttempt_Uncapped(s) ==
    IF s.connectivity # "Reconnecting" THEN 0 ELSE s.attempt + 1

NextAttempt(s) ==
    IF s.connectivity # "Reconnecting" THEN 0
    ELSE IF s.attempt < LastDelay THEN s.attempt + 1 ELSE LastDelay

CanArm(s) ==
    /\ s.connectivity = "Connected"
    /\ s.authorization = "Disarmed"
    /\ s.audit = "Healthy"
    /\ s.operation = Idle

OperationAllowed(s) ==
    /\ s.connectivity = "Connected"
    /\ s.authorization = "Armed"
    /\ s.audit = "Healthy"
    /\ s.operation = Idle

TransportLost(s) ==
    [s EXCEPT !.connectivity  = "Reconnecting",
              !.attempt       = NextAttempt(s),
              !.opening       = FALSE,
              !.authorization = IF @ = "ProcessDisabled" THEN @ ELSE "Disarmed",
              !.operation     = Idle]

ReconnectFailed(s) ==
    [s EXCEPT !.connectivity  = "Reconnecting",
              !.attempt       = NextAttempt(s),
              !.opening       = FALSE,
              !.authorization = DisarmedForProcess,
              !.operation     = Idle]

(***************************************************************************)
(* Outcomes of a device write, and the two sets the session distinguishes. *)
(***************************************************************************)
AmbiguousOutcomes == {"OutcomeUnknown", "TransportLost"}

AuditOutcomes == {"AuditDegraded", "AuditUnavailable"}

WriteOutcomes ==
    {"Verified", "ReadBackMismatch", "DeviceRejected"}
        \cup AmbiguousOutcomes \cup AuditOutcomes

WriteFinished(s, outcome) ==
    [s EXCEPT !.operation     = Idle,
              !.authorization =
                  IF outcome \in AmbiguousOutcomes \cup AuditOutcomes
                  THEN DisarmedForProcess ELSE @,
              !.audit         = IF outcome \in AuditOutcomes THEN "Degraded" ELSE @]

(***************************************************************************)
(* Inputs of the machine.  "same" is report.outcome = Match together with  *)
(* same_identity; "verified" is Match together with a verified identity.   *)
(***************************************************************************)
PlainInputs ==
    [type : {"Connect", "CancelConnect", "PortOpened", "PortOpenFailed",
             "Disconnect", "TransportLost", "PortRemoved",
             "ReconnectPortOpened", "ReconnectFailed", "RetryNow",
             "ArmWrites", "CancelArming", "DisarmWrites", "ArmingExpired",
             "IdleDisarmElapsed", "RestoreFinished", "RestoreAborted",
             "AuditPersistenceFailed", "Shutdown", "ShutdownComplete"}]

IdentificationInputs ==
    [type : {"IdentificationFinished"}, id : Nat, verified : Devices \cup {NoDevice}]
        \cup [type : {"ReconnectIdentificationFinished"},
              verified : Devices \cup {NoDevice}]

TimedInputs ==
    [type : {"ReconnectTimerElapsed"}, due : BOOLEAN]
        \cup [type : {"ConfirmArming"}, valid : BOOLEAN]

OperationInputs ==
    [type : {"WriteConfirmed", "RestoreStarted"}, id : Nat]
        \cup [type : {"WriteFinished"}, outcome : WriteOutcomes]
        \cup [type : {"RestoreAdvanced"}, next : Nat]

Inputs == PlainInputs \cup IdentificationInputs \cup TimedInputs \cup OperationInputs

Input(type) == [type |-> type]

SameIdentity(s, in) == in.verified # NoDevice /\ in.verified = s.device

(***************************************************************************)
(* SessionStateMachine::reduce.  An input that no arm accepts in the       *)
(* current state leaves the session as it is.                              *)
(***************************************************************************)
Reduce(s, in) ==
    CASE in.type = "Connect" /\ s.phase = "Disconnected" ->
            Inactive("Connecting")
      [] in.type = "PortOpened" /\ s.phase = "Connecting" ->
            Inactive("Identifying")
      [] in.type = "PortOpenFailed" /\ s.phase = "Connecting" ->
            NewSession
      [] in.type = "CancelConnect" /\ s.phase \in {"Connecting", "Identifying"} ->
            NewSession
      [] in.type = "IdentificationFinished" /\ s.phase = "Identifying" ->
            IF in.verified # NoDevice THEN ActiveSession(in.id, in.verified)
            ELSE NewSession
      [] in.type = "Disconnect" /\ IsActive(s) ->
            NewSession
      [] in.type \in {"TransportLost", "PortRemoved"} /\ IsActive(s) ->
            TransportLost(s)
      [] /\ IsActive(s) /\ s.connectivity = "Reconnecting"
         /\ \/ in.type = "RetryNow"
            \/ in.type = "ReconnectTimerElapsed" /\ in.due ->
            [s EXCEPT !.opening = TRUE]
      [] in.type = "ReconnectFailed" /\ IsActive(s)
            /\ s.connectivity = "Reconnecting" ->
            ReconnectFailed(s)
      [] in.type = "ReconnectIdentificationFinished" /\ IsActive(s) ->
            [s EXCEPT !.connectivity  = IF SameIdentity(s, in) THEN "Connected"
                                        ELSE "Faulted",
                      !.attempt       = 0,
                      !.opening       = FALSE,
                      !.authorization = DisarmedForProcess,
                      !.operation     = Idle]
      [] in.type = "ArmWrites" /\ IsActive(s) /\ CanArm(s) ->
            [s EXCEPT !.authorization = "Arming"]
      [] in.type = "ConfirmArming" /\ IsActive(s) /\ s.authorization = "Arming"
            /\ in.valid /\ s.audit = "Healthy" /\ s.connectivity = "Connected"
            /\ s.operation = Idle ->
            [s EXCEPT !.authorization = "Armed"]
      [] in.type \in {"CancelArming", "DisarmWrites", "ArmingExpired",
                      "IdleDisarmElapsed"} /\ IsActive(s) ->
            [s EXCEPT !.authorization = DisarmedForProcess]
      [] in.type = "WriteConfirmed" /\ IsActive(s) /\ OperationAllowed(s) ->
            [s EXCEPT !.operation = SingleWrite(in.id)]
      [] in.type = "WriteFinished" /\ IsActive(s)
            /\ s.operation.kind = "SingleWrite" ->
            WriteFinished(s, in.outcome)
      [] in.type = "RestoreStarted" /\ IsActive(s) /\ OperationAllowed(s) ->
            [s EXCEPT !.operation = Restore(in.id, 0)]
      [] in.type = "RestoreAdvanced" /\ IsActive(s)
            /\ s.operation.kind = "Restore" ->
            [s EXCEPT !.operation.next = in.next]
      [] in.type \in {"RestoreFinished", "RestoreAborted"} /\ IsActive(s)
            /\ s.operation.kind = "Restore" ->
            [s EXCEPT !.operation = Idle, !.authorization = DisarmedForProcess]
      [] in.type = "AuditPersistenceFailed" /\ IsActive(s) ->
            [s EXCEPT !.audit         = "Degraded",
                      !.authorization = DisarmedForProcess,
                      !.operation     = Idle]
      [] in.type = "ShutdownComplete" /\ s.phase = "ShuttingDown" ->
            NewSession
      [] in.type = "Shutdown" ->
            Inactive("ShuttingDown")
      [] OTHER -> s

AbortEffect(s) == IF s.operation # Idle THEN <<"AbortOperation">> ELSE <<>>

ShutdownEffects ==
    <<"AbortOperation", "StopPlanner", "FinalizeStorage", "ShutdownBusActor",
      "FinalizeLogs", "RestoreTerminal">>

(***************************************************************************)
(* The effects the reducer returns beside the next session, in order.      *)
(***************************************************************************)
Effects(s, in) ==
    CASE in.type = "Connect" /\ s.phase = "Disconnected" ->
            <<"OpenPort">>
      [] in.type = "PortOpened" /\ s.phase = "Connecting" ->
            <<"StartIdentification">>
      [] in.type = "CancelConnect" /\ s.phase \in {"Connecting", "Identifying"} ->
            <<"ClosePort">>
      [] in.type = "IdentificationFinished" /\ s.phase = "Identifying" ->
            IF in.verified # NoDevice THEN <<>> ELSE <<"ClosePort">>
      [] in.type = "Disconnect" /\ IsActive(s) ->
            AbortEffect(s) \o <<"CancelReconnect", "StopPlanner", "ClosePort">>
      [] in.type \in {"TransportLost", "PortRemoved"} /\ IsActive(s) ->
            AbortEffect(s) \o <<"ClosePort", "ScheduleReconnect">>
      [] /\ IsActive(s) /\ s.connectivity = "Reconnecting"
         /\ \/ in.type = "RetryNow"
            \/ in.type = "ReconnectTimerElapsed" /\ in.due ->
            <<"CancelReconnect", "OpenPort">>
      [] in.type = "ReconnectPortOpened" /\ IsActive(s)
            /\ s.connectivity = "Reconnecting" ->
            <<"StartReconnectIdentification">>
      [] in.type = "ReconnectFailed" /\ IsActive(s)
            /\ s.connectivity = "Reconnecting" ->
            <<"ClosePort", "ScheduleReconnect">>
      [] in.type = "ReconnectIdentificationFinished" /\ IsActive(s) ->
            IF SameIdentity(s, in) THEN <<>> ELSE <<"StopPlanner", "ClosePort">>
      [] in.type = "AuditPersistenceFailed" /\ IsActive(s) ->
            AbortEffect(s)
      [] in.type = "Shutdown" /\ s.phase # "ShuttingDown" ->
            ShutdownEffects
      [] OTHER -> <<>>

Emits(effect, s, in) ==
    LET effects == Effects(s, in) IN \E i \in DOMAIN effects : effects[i] = effect
=============================================================================

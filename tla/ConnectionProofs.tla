--------------------------- MODULE ConnectionProofs ---------------------------
(***************************************************************************)
(* The serial port and the monitoring gate follow the session, no read     *)
(* sleeps behind an open gate, and a session that lost its port goes on    *)
(* retrying until a retry is refused: for every set of devices, any number *)
(* of connections and removals, and any generation.                        *)
(*                                                                         *)
(* Verdicts and timers wait in the inbox while the generation moves on, so *)
(* each property rests on which of them can still be under way: none of an *)
(* initial attempt once the session is Active, no real one when a port is  *)
(* about to be opened, and no due timer unless the port is closed.         *)
(*                                                                         *)
(* A port that was opened is the one that was requested, for every set of  *)
(* adapters and nodes (SerialPorts): what ties the looks of an open        *)
(* together is the inode, which no adapter plugged in later has.           *)
(***************************************************************************)
EXTENDS Connection, SerialPorts, FiniteSetTheorems, WellFoundedInduction, TLAPS

-----------------------------------------------------------------------------
(***************************************************************************)
(* The inbox as a queue.                                                   *)
(***************************************************************************)

LEMMA AppendKeeps ==
    ASSUME NEW S, NEW q \in Seq(S), NEW m \in S
    PROVE  /\ Append(q, m) \in Seq(S)
           /\ Len(Append(q, m)) = Len(q) + 1
           /\ DOMAIN Append(q, m) = 1 .. Len(q) + 1
           /\ \A i \in DOMAIN q : i \in DOMAIN Append(q, m) /\ Append(q, m)[i] = q[i]
           /\ Append(q, m)[Len(q) + 1] = m
OBVIOUS

LEMMA TailShifts ==
    ASSUME NEW S, NEW q \in Seq(S), q # <<>>
    PROVE  /\ Head(q) = q[1] /\ 1 \in DOMAIN q /\ q[1] \in S
           /\ Tail(q) \in Seq(S)
           /\ \A i \in DOMAIN q \ {1} : i - 1 \in DOMAIN Tail(q) /\ Tail(q)[i - 1] = q[i]
           /\ \A i \in DOMAIN Tail(q) : i + 1 \in DOMAIN q /\ Tail(q)[i] = q[i + 1]
OBVIOUS

-----------------------------------------------------------------------------
(***************************************************************************)
(* What the reducer of session.rs does to a session that writes nothing.   *)
(***************************************************************************)
Shaped(s) ==
    /\ s \in Sessions
    /\ s.operation = Idle
    /\ ~IsActive(s) => s = Inactive(s.phase)
    /\ IsActive(s) => s.device \in Devices

\* The inputs the connection flow gives to the machine.
FlowInputs ==
    {Input(t) : t \in {"Connect", "CancelConnect", "Disconnect", "Shutdown", "PortOpened",
                       "ReconnectPortOpened", "PortOpenFailed", "ReconnectFailed",
                       "TransportLost", "PortRemoved"}}
        \cup IdentificationInputs
        \cup [type : {"ReconnectTimerElapsed"}, due : BOOLEAN]

LEMMA InactiveShaped ==
    \A phase \in Phases \ {"Active"} :
        Shaped(Inactive(phase)) /\ Inactive(phase).phase = phase
BY SessionAssumption DEF Shaped, Inactive, Sessions, Phases, Connectivities,
   Authorizations, AuditHealths, Operations, Idle, IsActive

LEMMA ReduceShaped ==
    ASSUME NEW s, Shaped(s), NEW in \in FlowInputs
    PROVE  Shaped(Reduce(s, in))
<1> USE SessionAssumption
<1>1. Shaped(NewSession) /\ \A phase \in Phases \ {"Active"} : Shaped(Inactive(phase))
  BY InactiveShaped DEF NewSession, Phases
<1>2. DisarmedForProcess \in Authorizations /\ "Disarmed" \in Authorizations
  BY DEF DisarmedForProcess, Authorizations
<1>3. Idle \in Operations /\ NextAttempt(s) \in 0 .. LastDelay /\ 0 \in 0 .. LastDelay
  BY DEF Idle, Operations, NextAttempt, Shaped, Sessions
<1>4. ASSUME IsActive(s)
      PROVE  Shaped(TransportLost(s)) /\ Shaped(ReconnectFailed(s))
             /\ Shaped([s EXCEPT !.opening = TRUE])
  BY <1>2, <1>3, <1>4 DEF Shaped, IsActive, TransportLost, ReconnectFailed, Sessions,
     Connectivities
<1>5. ASSUME in.type = "IdentificationFinished", in.verified # NoDevice
      PROVE  Shaped(ActiveSession(in.id, in.verified))
  <2>1. in.id \in Nat /\ in.verified \in Devices
    BY <1>5 DEF FlowInputs, Input, IdentificationInputs
  <2> QED BY <1>2, <1>3, <2>1 DEF Shaped, ActiveSession, IsActive, Sessions, Phases,
             Connectivities, AuditHealths
<1>6. ASSUME IsActive(s), NEW c \in Connectivities
      PROVE  Shaped([s EXCEPT !.connectivity = c, !.attempt = 0, !.opening = FALSE,
                              !.authorization = DisarmedForProcess, !.operation = Idle])
  BY <1>2, <1>3, <1>6 DEF Shaped, IsActive, Sessions
<1>7. CASE in.type \in {"Connect", "PortOpened", "PortOpenFailed", "CancelConnect",
                        "Disconnect", "Shutdown"}
  BY <1>1, <1>7 DEF Reduce, Phases
<1>8. CASE in.type \in {"TransportLost", "PortRemoved", "ReconnectFailed",
                        "ReconnectTimerElapsed", "ReconnectPortOpened"}
  BY <1>4, <1>8 DEF Reduce
<1>9. CASE in.type = "IdentificationFinished"
  BY <1>1, <1>5, <1>9 DEF Reduce
<1>10. CASE in.type = "ReconnectIdentificationFinished"
  <2>1. CASE ~IsActive(s)
    BY <1>10, <2>1 DEF Reduce
  <2>2. CASE IsActive(s)
    <3>1. \E c \in Connectivities :
             Reduce(s, in) = [s EXCEPT !.connectivity = c, !.attempt = 0, !.opening = FALSE,
                                 !.authorization = DisarmedForProcess, !.operation = Idle]
      BY <1>10, <2>2 DEF Reduce, Connectivities
    <3> QED BY <1>6, <2>2, <3>1
  <2> QED BY <2>1, <2>2
<1> QED BY <1>7, <1>8, <1>9, <1>10 DEF FlowInputs, Input, IdentificationInputs

-----------------------------------------------------------------------------
(***************************************************************************)
(* What the effects of an input do to the port, the timer and the gate.    *)
(***************************************************************************)
Runtimes == [generation : Nat, reconnect : Nat, bus : Nat]

GateCloses == BusClosed \/ StopAndClose

PortShut ==
    /\ runtime' \in Runtimes
    /\ runtime'.generation = runtime.generation + 1
    /\ runtime'.reconnect > runtime.reconnect
    /\ runtime'.bus = 0

LEMMA BusCloses ==
    ASSUME runtime \in Runtimes
    PROVE  /\ CloseRuntimeBus \in Runtimes
           /\ CloseRuntimeBus.generation = runtime.generation + 1
           /\ CloseRuntimeBus.reconnect = runtime.reconnect + 1
           /\ CloseRuntimeBus.bus = 0
BY DEF CloseRuntimeBus, Runtimes

LEMMA TransitionMoves ==
    ASSUME ConnectionTypeOK, NEW in, Transition(in)
    PROVE  /\ runtime \in Runtimes /\ runtime' \in Runtimes
           /\ runtime'.generation =
                (IF Closes(in) THEN runtime.generation + 1 ELSE runtime.generation)
                  + Count(Reopens(in))
           /\ runtime'.reconnect =
                (IF Closes(in) THEN runtime.reconnect + 1 ELSE runtime.reconnect)
                  + Count(Cancels(in)) + Count(Schedules(in))
           /\ runtime'.bus = IF Closes(in) THEN 0 ELSE runtime.bus
<1> DEFINE r == IF Closes(in) THEN CloseRuntimeBus ELSE runtime
<1>1. runtime \in Runtimes
  BY DEF ConnectionTypeOK, Runtimes
<1>2. /\ r \in Runtimes
      /\ r.generation = IF Closes(in) THEN runtime.generation + 1 ELSE runtime.generation
      /\ r.reconnect = IF Closes(in) THEN runtime.reconnect + 1 ELSE runtime.reconnect
      /\ r.bus = IF Closes(in) THEN 0 ELSE runtime.bus
  BY <1>1, BusCloses
<1>3. Count(Reopens(in)) \in Nat /\ Count(Cancels(in)) \in Nat /\ Count(Schedules(in)) \in Nat
  BY DEF Count
<1> DEFINE i == Count(Reopens(in))
           j == Count(Cancels(in))
           k == Count(Schedules(in))
           m == [r EXCEPT !.generation = @ + i]
<1>4. runtime' = [m EXCEPT !.reconnect = @ + j + k]
  BY DEF Transition
<1>5. i \in Nat /\ j \in Nat /\ k \in Nat
  BY <1>3
<1> HIDE DEF r, i, j, k
<1>6. /\ m \in Runtimes
      /\ m.generation = r.generation + i /\ m.reconnect = r.reconnect /\ m.bus = r.bus
  BY <1>2, <1>5 DEF Runtimes
<1> HIDE DEF m
<1>7. /\ runtime' \in Runtimes
      /\ runtime'.generation = r.generation + i
      /\ runtime'.reconnect = r.reconnect + j + k
      /\ runtime'.bus = r.bus
  BY <1>4, <1>5, <1>6 DEF Runtimes
<1> QED BY <1>1, <1>2, <1>7 DEF i, j, k

LEMMA NothingToDo ==
    ASSUME ConnectionTypeOK, NEW in, Effects(session, in) = <<>>
    PROVE  /\ Transition(in) => /\ session' = Reduce(session, in)
                                /\ UNCHANGED <<runtime, timer, retryAt, opens>>
           /\ GateEffects(in) => UNCHANGED <<monitor, reader>>
<1>1. /\ ~Closes(in) /\ ~Cancels(in) /\ ~Schedules(in) /\ ~Stops(in) /\ ~Reopens(in)
  BY DEF Closes, Cancels, Schedules, Stops, Reopens, Asks, Emits
<1>2. ASSUME Transition(in)
      PROVE  runtime' = runtime
  <2>1. /\ runtime \in Runtimes /\ runtime' \in Runtimes
        /\ runtime'.generation = runtime.generation + 0
        /\ runtime'.reconnect = runtime.reconnect + 0 + 0
        /\ runtime'.bus = runtime.bus
    BY <1>1, <1>2, TransitionMoves DEF Count
  <2>2. /\ runtime'.generation = runtime.generation
        /\ runtime'.reconnect = runtime.reconnect
    BY <2>1 DEF Runtimes
  <2> QED BY <2>1, <2>2 DEF Runtimes
<1> QED BY <1>1, <1>2 DEF Transition, GateEffects

LEMMA PortCloses ==
    ASSUME ConnectionTypeOK, NEW in, Transition(in), GateEffects(in),
           Effects(session, in) \in {<<"ClosePort">>, <<"StopPlanner", "ClosePort">>,
                                     <<"CancelReconnect", "StopPlanner", "ClosePort">>,
                                     ShutdownEffects}
    PROVE  /\ session' = Reduce(session, in)
           /\ PortShut /\ UNCHANGED <<timer, retryAt, opens>> /\ GateCloses
<1>1. /\ Closes(in) /\ ~Schedules(in) /\ ~Reopens(in)
  BY DEF Closes, Schedules, Reopens, Asks, Emits, ShutdownEffects
<1>2. /\ runtime \in Runtimes /\ runtime' \in Runtimes /\ runtime'.bus = 0
      /\ runtime'.generation = runtime.generation + 1 + 0
      /\ runtime'.reconnect = runtime.reconnect + 1 + Count(Cancels(in)) + 0
  BY <1>1, TransitionMoves DEF Count
<1>3. runtime.generation \in Nat /\ runtime.reconnect \in Nat /\ Count(Cancels(in)) \in Nat
  BY <1>2 DEF Runtimes, Count
<1>4. PortShut
  BY <1>2, <1>3 DEF PortShut
<1> QED BY <1>1, <1>4 DEF Transition, GateEffects, GateCloses

LEMMA PortIsLost ==
    ASSUME ConnectionTypeOK, NEW in, Transition(in), GateEffects(in),
           Effects(session, in) = <<"ClosePort", "ScheduleReconnect">>
    PROVE  /\ session' = Reduce(session, in)
           /\ PortShut
           /\ timer' = runtime'.reconnect /\ retryAt' = runtime'.reconnect
           /\ UNCHANGED opens /\ BusClosed
<1>1. /\ Closes(in) /\ Schedules(in) /\ ~Reopens(in) /\ ~Cancels(in) /\ ~Stops(in)
  BY DEF Closes, Schedules, Reopens, Asks, Cancels, Stops, Emits
<1>2. /\ runtime \in Runtimes /\ runtime' \in Runtimes /\ runtime'.bus = 0
      /\ runtime'.generation = runtime.generation + 1 + 0
      /\ runtime'.reconnect = runtime.reconnect + 1 + 0 + 1
  BY <1>1, TransitionMoves DEF Count
<1>3. runtime.generation \in Nat /\ runtime.reconnect \in Nat
  BY <1>2 DEF Runtimes
<1>4. PortShut
  BY <1>2, <1>3 DEF PortShut
<1> QED BY <1>1, <1>4 DEF Transition, GateEffects

LEMMA PortIsRetried ==
    ASSUME ConnectionTypeOK, NEW in, Transition(in), GateEffects(in),
           Effects(session, in) = <<"CancelReconnect", "OpenPort">>
    PROVE  /\ session' = Reduce(session, in)
           /\ runtime' \in Runtimes
           /\ runtime'.bus = runtime.bus /\ runtime'.reconnect = runtime.reconnect + 1
           /\ \/ /\ present /\ runtime'.generation = runtime.generation + 1
                 /\ opens' = opens \cup {OpenTask(runtime.generation + 1, "Reconnect", manual)}
              \/ /\ ~present /\ refused' = TRUE /\ runtime'.generation = runtime.generation
                 /\ UNCHANGED opens
           /\ UNCHANGED <<timer, retryAt, monitor, reader>>
<1>1. /\ ~Closes(in) /\ ~Schedules(in) /\ Cancels(in) /\ ~Stops(in)
      /\ Asks(in) /\ (Reopens(in) <=> present)
  BY DEF Closes, Schedules, Asks, Reopens, Cancels, Stops, Emits
<1>2. /\ runtime \in Runtimes /\ runtime' \in Runtimes /\ runtime'.bus = runtime.bus
      /\ runtime'.generation = runtime.generation + Count(Reopens(in))
      /\ runtime'.reconnect = runtime.reconnect + 1 + 0
  BY <1>1, TransitionMoves DEF Count
<1>3. runtime.generation \in Nat /\ runtime.reconnect \in Nat
  BY <1>2 DEF Runtimes
<1>4. /\ runtime'.reconnect = runtime.reconnect + 1
      /\ present => runtime'.generation = runtime.generation + 1
      /\ ~present => runtime'.generation = runtime.generation
  BY <1>1, <1>2, <1>3 DEF Count
<1> QED BY <1>1, <1>2, <1>4 DEF Transition, GateEffects

-----------------------------------------------------------------------------
(***************************************************************************)
(* Verdicts, due timers and retries in the inbox.                          *)
(***************************************************************************)
VerdictAt(i) == inbox[i].type = "IdentificationFinished"

RealAt(i) == VerdictAt(i) /\ inbox[i].verified # NoDevice

InitialAt(i) == VerdictAt(i) /\ inbox[i].kind = "Initial"

DueAt(i) == inbox[i].type = "ReconnectTimerElapsed" /\ inbox[i].stamp = retryAt

FailedAt(i) == inbox[i].type = "PortOpenFailed" /\ inbox[i].kind = "Initial"

RetryAt(i) ==
    \/ inbox[i].type \in {"PortOpened", "PortOpenFailed", "IdentificationFinished"}
          /\ inbox[i].kind = "Reconnect"
    \/ DueAt(i)

\* The first d messages are taken, the others stay in order.
Drops(d) ==
    /\ d = 1 => inbox # <<>> /\ 1 \in DOMAIN inbox
    /\ inbox' \in Seq(Messages)
    /\ \A i \in DOMAIN inbox' : i + d \in DOMAIN inbox /\ inbox'[i] = inbox[i + d]
    /\ \A i \in DOMAIN inbox : i > d => i - d \in DOMAIN inbox' /\ inbox'[i - d] = inbox[i]

(***************************************************************************)
(* The outcomes of a step of the loop.                                     *)
(***************************************************************************)
Connecting == session.phase = "Connecting"

Lost == IsActive(session) /\ Reconnecting

Idles ==
    /\ \E d \in {0, 1} : Drops(d) /\ (d = 1 /\ Lost => ~RetryAt(1))
    /\ pending' \in Nat /\ (Connecting => pending' = pending)
    /\ UNCHANGED <<session, runtime, timer, retryAt, opens, monitor, reader,
                   idents, identified>>

Shuts ==
    /\ \E d \in {0, 1} : Drops(d)
    /\ Shaped(session')
    /\ \/ session'.phase \in {"Disconnected", "ShuttingDown"}
       \/ IsActive(session) /\ IsActive(session') /\ session'.connectivity = "Faulted"
    /\ pending' \in Nat
    /\ PortShut /\ GateCloses
    /\ UNCHANGED <<timer, retryAt, opens, idents, identified>>

Loses ==
    /\ \E d \in {0, 1} : Drops(d)
    /\ IsActive(session)
    /\ Shaped(session') /\ Lost'
    /\ PortShut /\ timer' = runtime'.reconnect /\ retryAt' = runtime'.reconnect
    /\ BusClosed
    /\ UNCHANGED <<pending, opens, idents, identified>>

Retries ==
    /\ Drops(1) /\ DueAt(1)
    /\ Lost /\ Shaped(session') /\ Lost'
    /\ runtime' \in Runtimes
    /\ runtime'.bus = runtime.bus /\ runtime'.reconnect = runtime.reconnect + 1
    /\ \/ /\ present /\ runtime'.generation = runtime.generation + 1
          /\ opens' = opens \cup {OpenTask(runtime.generation + 1, "Reconnect", manual)}
       \/ /\ ~present /\ refused' = TRUE /\ runtime'.generation = runtime.generation
          /\ UNCHANGED opens
    /\ UNCHANGED <<pending, timer, retryAt, monitor, reader, idents, identified>>

Joins ==
    /\ Drops(1) /\ RealAt(1) /\ InitialAt(1)
    /\ session.phase = "Identifying" /\ pending # 0
    /\ session' = ActiveSession(pending, inbox[1].verified) /\ Shaped(session')
    /\ StartMonitoring(pending)
    /\ UNCHANGED <<pending, runtime, timer, retryAt, opens, idents, identified>>

Rejoins ==
    /\ Drops(1) /\ RealAt(1) /\ inbox[1].verified = session.device
    /\ IsActive(session) /\ Shaped(session') /\ IsActive(session')
    /\ session'.connectivity = "Connected"
    /\ session'.id = session.id /\ session'.device = session.device
    /\ ResumeMonitoring(session.id)
    /\ UNCHANGED <<pending, runtime, timer, retryAt, opens, idents, identified>>

FailsToOpen ==
    /\ Drops(1) /\ FailedAt(1)
    /\ Connecting /\ session' = NewSession
    /\ pending' = 0
    /\ UNCHANGED <<runtime, timer, retryAt, opens, monitor, reader, idents, identified>>

Discards ==
    /\ Drops(1) /\ InitialAt(1) /\ pending = 0
    /\ PortShut /\ BusClosed
    /\ UNCHANGED <<session, pending, timer, retryAt, opens, idents, identified>>

Identifies ==
    /\ inbox # <<>>
    /\ \/ Connecting /\ session' = Inactive("Identifying") /\ Identify("Initial")
       \/ Lost /\ UNCHANGED session /\ Identify("Reconnect")
    /\ UNCHANGED <<pending, runtime, timer, retryAt, opens, monitor, reader, identified>>

Outcome ==
    \/ Idles \/ Shuts \/ Loses \/ Retries \/ Joins \/ Rejoins \/ FailsToOpen
    \/ Discards \/ Identifies \/ UserConnects \/ UserRefreshes

LEMMA InboxTaken ==
    ASSUME inbox \in Seq(Messages)
    PROVE  /\ UNCHANGED inbox => Drops(0)
           /\ inbox # <<>> /\ inbox' = Tail(inbox) => Drops(1)
<1>1. ASSUME UNCHANGED inbox
      PROVE  Drops(0)
  <2>1. \A i \in DOMAIN inbox : i \in Nat /\ i + 0 = i /\ i - 0 = i
    OBVIOUS
  <2> QED BY <1>1, <2>1 DEF Drops
<1>2. ASSUME inbox # <<>>, inbox' = Tail(inbox)
      PROVE  Drops(1)
  <2>1. \A i \in DOMAIN inbox : i > 1 => i \in DOMAIN inbox \ {1}
    OBVIOUS
  <2> QED BY <1>2, <2>1, TailShifts DEF Drops
<1> QED BY <1>1, <1>2

LEMMA HeadTyped ==
    ASSUME inbox \in Seq(Messages), inbox # <<>>
    PROVE  Head(inbox) = inbox[1] /\ Head(inbox) \in Messages
OBVIOUS

-----------------------------------------------------------------------------
(***************************************************************************)
(* What the inputs of the flow do, one phase at a time.                    *)
(***************************************************************************)
LEMMA OpeningInputs ==
    ASSUME Shaped(session)
    PROVE  /\ session.phase = "Connecting" =>
                /\ Reduce(session, Input("PortOpened")) = Inactive("Identifying")
                /\ Effects(session, Input("PortOpened")) = <<"StartIdentification">>
                /\ Reduce(session, Input("PortOpenFailed")) = NewSession
           /\ session.phase # "Connecting" =>
                /\ Reduce(session, Input("PortOpened")) = session
                /\ Effects(session, Input("PortOpened")) = <<>>
                /\ Reduce(session, Input("PortOpenFailed")) = session
           /\ Effects(session, Input("PortOpenFailed")) = <<>>
BY DEF Reduce, Effects, Input

LEMMA EndingInputs ==
    ASSUME Shaped(session)
    PROVE  /\ session.phase \in {"Connecting", "Identifying"} =>
                /\ Reduce(session, Input("CancelConnect")) = NewSession
                /\ Effects(session, Input("CancelConnect")) = <<"ClosePort">>
           /\ session.phase \notin {"Connecting", "Identifying"} =>
                /\ Reduce(session, Input("CancelConnect")) = session
                /\ Effects(session, Input("CancelConnect")) = <<>>
           /\ IsActive(session) =>
                /\ Reduce(session, Input("Disconnect")) = NewSession
                /\ Effects(session, Input("Disconnect"))
                     = <<"CancelReconnect", "StopPlanner", "ClosePort">>
           /\ session.phase # "ShuttingDown" =>
                /\ Reduce(session, Input("Shutdown")) = Inactive("ShuttingDown")
                /\ Effects(session, Input("Shutdown")) = ShutdownEffects
<1>1. AbortEffect(session) \o <<"CancelReconnect", "StopPlanner", "ClosePort">>
        = <<"CancelReconnect", "StopPlanner", "ClosePort">>
  BY DEF AbortEffect, Shaped
<1> QED BY <1>1 DEF Reduce, Effects, Input, IsActive

LEMMA LosingInputs ==
    ASSUME Shaped(session), NEW in \in {Input("TransportLost"), Input("PortRemoved")}
    PROVE  /\ IsActive(session) =>
                /\ Reduce(session, in) = TransportLost(session)
                /\ Effects(session, in) = <<"ClosePort", "ScheduleReconnect">>
           /\ ~IsActive(session) =>
                /\ Reduce(session, in) = session
                /\ Effects(session, in) = <<>>
<1>1. AbortEffect(session) \o <<"ClosePort", "ScheduleReconnect">>
        = <<"ClosePort", "ScheduleReconnect">>
  BY DEF AbortEffect, Shaped
<1>2. CASE in = Input("TransportLost")
  <2>1. in.type = "TransportLost"
    BY <1>2 DEF Input
  <2>2. /\ IsActive(session) => Reduce(session, in) = TransportLost(session)
        /\ ~IsActive(session) => Reduce(session, in) = session
    BY <2>1 DEF Reduce
  <2> QED BY <1>1, <2>1, <2>2 DEF Effects
<1>3. CASE in = Input("PortRemoved")
  <2>1. in.type = "PortRemoved"
    BY <1>3 DEF Input
  <2>2. /\ IsActive(session) => Reduce(session, in) = TransportLost(session)
        /\ ~IsActive(session) => Reduce(session, in) = session
    BY <2>1 DEF Reduce
  <2> QED BY <1>1, <2>1, <2>2 DEF Effects
<1> QED BY <1>2, <1>3

LEMMA RetryInputs ==
    ASSUME Shaped(session), NEW due \in BOOLEAN
    PROVE  LET elapsed == [type |-> "ReconnectTimerElapsed", due |-> due]
           IN
           /\ Lost =>
                /\ Reduce(session, Input("ReconnectPortOpened")) = session
                /\ Effects(session, Input("ReconnectPortOpened"))
                     = <<"StartReconnectIdentification">>
                /\ Reduce(session, Input("ReconnectFailed")) = ReconnectFailed(session)
                /\ Effects(session, Input("ReconnectFailed"))
                     = <<"ClosePort", "ScheduleReconnect">>
           /\ ~Lost =>
                /\ Reduce(session, Input("ReconnectPortOpened")) = session
                /\ Effects(session, Input("ReconnectPortOpened")) = <<>>
                /\ Reduce(session, Input("ReconnectFailed")) = session
                /\ Effects(session, Input("ReconnectFailed")) = <<>>
           /\ Lost /\ due =>
                /\ Reduce(session, elapsed) = [session EXCEPT !.opening = TRUE]
                /\ Effects(session, elapsed) = <<"CancelReconnect", "OpenPort">>
           /\ ~(Lost /\ due) =>
                /\ Reduce(session, elapsed) = session
                /\ Effects(session, elapsed) = <<>>
BY DEF Reduce, Effects, Input, Lost, Reconnecting, IsActive

LEMMA InitialVerdictInput ==
    ASSUME Shaped(session), NEW id, NEW verified
    PROVE  LET in == [type |-> "IdentificationFinished", id |-> id, verified |-> verified]
           IN
           /\ session.phase = "Identifying" /\ verified # NoDevice =>
                /\ Reduce(session, in) = ActiveSession(id, verified)
                /\ Effects(session, in) = <<>>
           /\ session.phase = "Identifying" /\ verified = NoDevice =>
                /\ Reduce(session, in) = NewSession
                /\ Effects(session, in) = <<"ClosePort">>
           /\ session.phase # "Identifying" =>
                /\ Reduce(session, in) = session
                /\ Effects(session, in) = <<>>
BY DEF Reduce, Effects

LEMMA ReconnectVerdictInput ==
    ASSUME Shaped(session), NEW verified
    PROVE  LET in == [type |-> "ReconnectIdentificationFinished", verified |-> verified]
               same == verified # NoDevice /\ verified = session.device
           IN
           /\ IsActive(session) =>
                /\ IsActive(Reduce(session, in))
                /\ Reduce(session, in).id = session.id
                /\ Reduce(session, in).device = session.device
           /\ IsActive(session) /\ same =>
                /\ Reduce(session, in).connectivity = "Connected"
                /\ Effects(session, in) = <<>>
           /\ IsActive(session) /\ ~same =>
                /\ Reduce(session, in).connectivity = "Faulted"
                /\ Effects(session, in) = <<"StopPlanner", "ClosePort">>
           /\ ~IsActive(session) =>
                /\ Reduce(session, in) = session
                /\ Effects(session, in) = <<>>
                /\ Reduce(session, in).connectivity = "None"
<1> DEFINE in == [type |-> "ReconnectIdentificationFinished", verified |-> verified]
           same == verified # NoDevice /\ verified = session.device
<1>1. in.type = "ReconnectIdentificationFinished" /\ in.verified = verified
      /\ (SameIdentity(session, in) <=> same)
  BY DEF SameIdentity
<1> HIDE DEF in, same
<1>2. ASSUME ~IsActive(session)
      PROVE  /\ Reduce(session, in) = session
             /\ Effects(session, in) = <<>>
             /\ Reduce(session, in).connectivity = "None"
  BY <1>1, <1>2 DEF Reduce, Effects, Shaped, Inactive, IsActive
<1>3. ASSUME IsActive(session)
      PROVE  /\ IsActive(Reduce(session, in))
             /\ Reduce(session, in).id = session.id
             /\ Reduce(session, in).device = session.device
             /\ Reduce(session, in).connectivity = IF same THEN "Connected" ELSE "Faulted"
             /\ Effects(session, in) = IF same THEN <<>> ELSE <<"StopPlanner", "ClosePort">>
  <2>1. PICK c \in Connectivities :
             /\ Reduce(session, in) = [session EXCEPT !.connectivity = c, !.attempt = 0,
                     !.opening = FALSE, !.authorization = DisarmedForProcess, !.operation = Idle]
             /\ c = IF same THEN "Connected" ELSE "Faulted"
    BY <1>1, <1>3 DEF Reduce, Connectivities
  <2>2. Effects(session, in) = IF same THEN <<>> ELSE <<"StopPlanner", "ClosePort">>
    BY <1>1, <1>3 DEF Effects
  <2>3. session.phase = "Active"
    BY <1>3 DEF IsActive
  <2>4. /\ Reduce(session, in).connectivity = c
        /\ Reduce(session, in).id = session.id
        /\ Reduce(session, in).device = session.device
        /\ Reduce(session, in).phase = session.phase
    BY <2>1 DEF Shaped, Sessions
  <2>5. IsActive(Reduce(session, in))
    BY <2>3, <2>4 DEF IsActive
  <2> QED BY <2>1, <2>2, <2>4, <2>5
<1> QED BY <1>2, <1>3 DEF in, same

-----------------------------------------------------------------------------
(***************************************************************************)
(* Every handler of the loop has one of the outcomes.                      *)
(***************************************************************************)
NoStaleVerdict ==
    session.phase \in {"Connecting", "Active"} => \A i \in DOMAIN inbox : ~InitialAt(i)

LoopHolds == ConnectionTypeOK /\ Shaped(session) /\ NoStaleVerdict

LEMMA ShutOutcome ==
    ASSUME LoopHolds, NEW in \in FlowInputs, Transition(in), GateEffects(in),
           \E d \in {0, 1} : Drops(d),
           Effects(session, in) \in {<<"ClosePort">>, <<"StopPlanner", "ClosePort">>,
                                     <<"CancelReconnect", "StopPlanner", "ClosePort">>,
                                     ShutdownEffects},
           \/ Reduce(session, in).phase \in {"Disconnected", "ShuttingDown"}
           \/ /\ IsActive(session) /\ IsActive(Reduce(session, in))
              /\ Reduce(session, in).connectivity = "Faulted",
           pending' \in Nat, UNCHANGED <<idents, identified>>
    PROVE  Shuts
<1>1. ConnectionTypeOK /\ Shaped(session)
  BY DEF LoopHolds
<1>2. /\ session' = Reduce(session, in)
      /\ PortShut /\ UNCHANGED <<timer, retryAt, opens>> /\ GateCloses
  BY <1>1, PortCloses
<1>3. Shaped(Reduce(session, in))
  BY <1>1, ReduceShaped
<1> QED BY <1>2, <1>3 DEF Shuts

LEMMA LossOutcome ==
    ASSUME LoopHolds, NEW in \in FlowInputs, Transition(in), GateEffects(in),
           \E d \in {0, 1} : Drops(d), IsActive(session),
           Effects(session, in) = <<"ClosePort", "ScheduleReconnect">>,
           Reduce(session, in) \in {TransportLost(session), ReconnectFailed(session)},
           UNCHANGED <<pending, idents, identified>>
    PROVE  Loses
<1>1. ConnectionTypeOK /\ Shaped(session)
  BY DEF LoopHolds
<1>2. /\ session' = Reduce(session, in) /\ PortShut
      /\ timer' = runtime'.reconnect /\ retryAt' = runtime'.reconnect
      /\ UNCHANGED opens /\ BusClosed
  BY <1>1, PortIsLost
<1>3. Shaped(Reduce(session, in))
  BY <1>1, ReduceShaped
<1>4. /\ TransportLost(session).phase = session.phase
      /\ TransportLost(session).connectivity = "Reconnecting"
      /\ ReconnectFailed(session).phase = session.phase
      /\ ReconnectFailed(session).connectivity = "Reconnecting"
  BY <1>1 DEF Shaped, Sessions, TransportLost, ReconnectFailed
<1>5. session'.phase = "Active" /\ session'.connectivity = "Reconnecting"
  BY <1>2, <1>4 DEF IsActive
<1>6. Lost'
  BY <1>5 DEF Lost, IsActive, Reconnecting
<1>7. Shaped(session')
  BY <1>2, <1>3
<1> QED BY <1>2, <1>6, <1>7 DEF Loses

LEMMA IdleOutcome ==
    ASSUME LoopHolds, NEW in, Transition(in), GateEffects(in),
           \E d \in {0, 1} : Drops(d) /\ (d = 1 /\ Lost => ~RetryAt(1)),
           Effects(session, in) = <<>>, Reduce(session, in) = session,
           pending' \in Nat, Connecting => pending' = pending,
           UNCHANGED <<idents, identified>>
    PROVE  Idles
<1>1. ConnectionTypeOK
  BY DEF LoopHolds
<1>2. /\ session' = Reduce(session, in)
      /\ UNCHANGED <<runtime, timer, retryAt, opens, monitor, reader>>
  BY <1>1, NothingToDo
<1> QED BY <1>2 DEF Idles

LEMMA CancelOutcome == ASSUME LoopHolds, UserCancels PROVE Outcome
<1> DEFINE in == Input(IF IsActive(session) THEN "Disconnect" ELSE "CancelConnect")
<1>1. /\ Transition(in) /\ GateEffects(in) /\ pending' = 0
      /\ UNCHANGED <<inbox, idents, identified>>
  BY DEF UserCancels
<1>2. \E d \in {0, 1} : Drops(d) /\ (d = 1 /\ Lost => ~RetryAt(1))
  BY <1>1, InboxTaken DEF LoopHolds, ConnectionTypeOK
<1>3. in \in FlowInputs /\ Shaped(session)
  BY DEF FlowInputs, LoopHolds
<1>4. CASE IsActive(session) \/ session.phase \in {"Connecting", "Identifying"}
  <2>1. Reduce(session, in) = NewSession
        /\ Effects(session, in) \in {<<"ClosePort">>,
                                     <<"CancelReconnect", "StopPlanner", "ClosePort">>}
    BY <1>3, <1>4, EndingInputs DEF IsActive
  <2>2. Reduce(session, in).phase = "Disconnected"
    BY <2>1 DEF NewSession, Inactive
  <2> HIDE DEF in
  <2> QED BY <1>1, <1>2, <1>3, <2>1, <2>2, ShutOutcome DEF Outcome
<1>5. CASE ~IsActive(session) /\ session.phase \notin {"Connecting", "Identifying"}
  <2>1. Reduce(session, in) = session /\ Effects(session, in) = <<>>
    BY <1>3, <1>5, EndingInputs
  <2>2. ~Connecting
    BY <1>5 DEF Connecting
  <2> HIDE DEF in
  <2> QED BY <1>1, <1>2, <2>1, <2>2, IdleOutcome DEF Outcome
<1> QED BY <1>4, <1>5

LEMMA ShutdownOutcome == ASSUME LoopHolds, UserShutsDown PROVE Outcome
<1> DEFINE in == Input("Shutdown")
<1>1. /\ Transition(in) /\ GateEffects(in) /\ session.phase # "ShuttingDown"
      /\ UNCHANGED <<pending, inbox, idents, identified>>
  BY DEF UserShutsDown, Running
<1>2. (\E d \in {0, 1} : Drops(d)) /\ pending' \in Nat
  BY <1>1, InboxTaken DEF LoopHolds, ConnectionTypeOK
<1>3. in \in FlowInputs /\ Shaped(session)
  BY DEF FlowInputs, LoopHolds
<1>4. Reduce(session, in) = Inactive("ShuttingDown")
      /\ Effects(session, in) = ShutdownEffects
  BY <1>1, <1>3, EndingInputs
<1>5. Reduce(session, in).phase = "ShuttingDown"
  BY <1>4 DEF Inactive
<1> HIDE DEF in
<1> QED BY <1>1, <1>2, <1>3, <1>4, <1>5, ShutOutcome DEF Outcome

LEMMA PortEventOutcome == ASSUME LoopHolds, PortEvent PROVE Outcome
<1> DEFINE in == IF session.phase = "Identifying"
                 THEN [type |-> "IdentificationFinished", id |-> pending,
                       verified |-> NoDevice]
                 ELSE Input("PortRemoved")
<1>1. /\ UNCHANGED <<pending, inbox, idents, identified>>
      /\ \/ UNCHANGED <<session, retryAt, runtime, opens, timer, monitor, reader>>
         \/ Transition(in) /\ GateEffects(in)
  BY DEF PortEvent
<1>2. /\ \E d \in {0, 1} : Drops(d) /\ (d = 1 /\ Lost => ~RetryAt(1))
      /\ pending' \in Nat /\ pending \in Nat
  BY <1>1, InboxTaken DEF LoopHolds, ConnectionTypeOK
<1>3. in \in FlowInputs /\ Shaped(session)
  BY <1>2 DEF FlowInputs, LoopHolds, IdentificationInputs
<1>4. CASE UNCHANGED <<session, retryAt, runtime, opens, timer, monitor, reader>>
  BY <1>1, <1>2, <1>4 DEF Idles, Outcome
<1>5. CASE Transition(in) /\ GateEffects(in)
  <2>1. CASE session.phase = "Identifying"
    <3>1. Reduce(session, in) = NewSession /\ Effects(session, in) = <<"ClosePort">>
      BY <1>3, <2>1, InitialVerdictInput
    <3>2. Reduce(session, in).phase = "Disconnected"
      BY <3>1 DEF NewSession, Inactive
    <3> HIDE DEF in
    <3> QED BY <1>1, <1>2, <1>3, <1>5, <3>1, <3>2, ShutOutcome DEF Outcome
  <2>2. CASE IsActive(session)
    <3>1. /\ Reduce(session, in) = TransportLost(session)
          /\ Effects(session, in) = <<"ClosePort", "ScheduleReconnect">>
      BY <1>3, <2>2, LosingInputs DEF IsActive
    <3> HIDE DEF in
    <3> QED BY <1>1, <1>2, <1>3, <1>5, <2>2, <3>1, LossOutcome DEF Outcome
  <2>3. CASE session.phase # "Identifying" /\ ~IsActive(session)
    <3>1. Reduce(session, in) = session /\ Effects(session, in) = <<>>
      BY <1>3, <2>3, LosingInputs
    <3> HIDE DEF in
    <3> QED BY <1>1, <1>2, <1>5, <3>1, IdleOutcome DEF Outcome
  <2> QED BY <2>1, <2>2, <2>3
<1> QED BY <1>1, <1>4, <1>5

\* A message is handled while the loop runs; the handlers leave these alone.
Takes(m) ==
    /\ inbox # <<>> /\ m = Head(inbox)
    /\ UNCHANGED identified

LEMMA HeadTaken ==
    ASSUME LoopHolds, NEW m, Takes(m)
    PROVE  /\ m \in Messages /\ m = inbox[1] /\ pending \in Nat
           /\ inbox' = Tail(inbox) => Drops(1)
BY HeadTyped, InboxTaken DEF LoopHolds, ConnectionTypeOK, Takes

LEMMA OpenedOutcome == ASSUME LoopHolds, NEW m, Takes(m), PortOpened(m) PROVE Outcome
<1>1. m \in Messages /\ m = inbox[1] /\ pending \in Nat /\ Shaped(session)
      /\ (inbox' = Tail(inbox) => Drops(1))
  BY HeadTaken DEF LoopHolds
<1>2. m.type = "PortOpened" /\ m.kind \in Kinds
      /\ UNCHANGED <<pending, retryAt, runtime, opens, timer, monitor, reader, identified>>
  BY <1>1 DEF PortOpened, Messages, Takes
<1> DEFINE in == Input(IF m.kind = "Initial" THEN "PortOpened" ELSE "ReconnectPortOpened")
           asks == \/ Emits("StartIdentification", session, in)
                   \/ Emits("StartReconnectIdentification", session, in)
<1>3. /\ session' = Reduce(session, in)
      /\ asks => Identify(m.kind)
      /\ ~asks => inbox' = Tail(inbox) /\ UNCHANGED idents
  BY DEF PortOpened
<1>4. CASE m.kind = "Initial" /\ Connecting
  <2>1. Reduce(session, in) = Inactive("Identifying")
        /\ Effects(session, in) = <<"StartIdentification">>
    BY <1>1, <1>4, OpeningInputs DEF Connecting
  <2>2. asks
    <3> HIDE DEF in
    <3> QED BY <2>1 DEF Emits
  <2> QED BY <1>2, <1>3, <1>4, <2>1, <2>2 DEF Identifies, Outcome, Takes
<1>5. CASE m.kind = "Reconnect" /\ Lost
  <2>1. Reduce(session, in) = session
        /\ Effects(session, in) = <<"StartReconnectIdentification">>
    BY <1>1, <1>5, RetryInputs
  <2>2. asks
    <3> HIDE DEF in
    <3> QED BY <2>1 DEF Emits
  <2> QED BY <1>2, <1>3, <1>5, <2>1, <2>2 DEF Identifies, Outcome, Takes
<1>6. CASE \/ m.kind = "Initial" /\ ~Connecting
           \/ m.kind = "Reconnect" /\ ~Lost
  <2>1. Reduce(session, in) = session /\ Effects(session, in) = <<>>
    <3>1. CASE m.kind = "Initial" /\ ~Connecting
      BY <1>1, <3>1, OpeningInputs DEF Connecting
    <3>2. CASE m.kind = "Reconnect" /\ ~Lost
      BY <1>1, <3>2, RetryInputs
    <3> QED BY <1>6, <3>1, <3>2
  <2>2. ~asks
    <3> HIDE DEF in
    <3> QED BY <2>1 DEF Emits
  <2>3. Drops(1) /\ UNCHANGED <<session, idents>>
    BY <1>1, <1>3, <2>1, <2>2
  <2>4. Lost => ~RetryAt(1)
    BY <1>1, <1>2, <1>6 DEF RetryAt, DueAt
  <2> QED BY <1>1, <1>2, <2>3, <2>4 DEF Idles, Outcome
<1> QED BY <1>2, <1>4, <1>5, <1>6 DEF Kinds

LEMMA OpenFailedOutcome == ASSUME LoopHolds, NEW m, Takes(m), PortOpenFailed(m) PROVE Outcome
<1>1. m \in Messages /\ m = inbox[1] /\ pending \in Nat /\ Shaped(session) /\ Drops(1)
  BY HeadTaken DEF LoopHolds, PortOpenFailed
<1> DEFINE in == Input(IF m.kind = "Initial" THEN "PortOpenFailed" ELSE "ReconnectFailed")
<1>2. /\ m.type = "PortOpenFailed" /\ m.kind \in Kinds
      /\ Transition(in) /\ GateEffects(in) /\ in \in FlowInputs
      /\ pending' = IF m.kind = "Initial" THEN 0 ELSE pending
      /\ UNCHANGED <<idents, identified>>
  BY <1>1 DEF PortOpenFailed, Messages, Takes, FlowInputs
<1>3. CASE m.kind = "Initial" /\ Connecting
  <2>1. Reduce(session, in) = NewSession /\ Effects(session, in) = <<>>
    BY <1>1, <1>3, OpeningInputs DEF Connecting
  <2>2. /\ session' = NewSession
        /\ UNCHANGED <<runtime, timer, retryAt, opens, monitor, reader>>
    <3> HIDE DEF in
    <3> QED BY <1>2, <2>1, NothingToDo DEF LoopHolds
  <2> QED BY <1>1, <1>2, <1>3, <2>2 DEF FailsToOpen, FailedAt, Outcome
<1>4. CASE m.kind = "Reconnect" /\ Lost
  <2>1. Reduce(session, in) = ReconnectFailed(session)
        /\ Effects(session, in) = <<"ClosePort", "ScheduleReconnect">>
    BY <1>1, <1>4, RetryInputs
  <2>2. IsActive(session) /\ pending' = pending
    BY <1>2, <1>4 DEF Lost
  <2> HIDE DEF in
  <2> QED BY <1>1, <1>2, <2>1, <2>2, LossOutcome DEF Outcome
<1>5. CASE \/ m.kind = "Initial" /\ ~Connecting
           \/ m.kind = "Reconnect" /\ ~Lost
  <2>1. Reduce(session, in) = session /\ Effects(session, in) = <<>>
    <3>1. CASE m.kind = "Initial" /\ ~Connecting
      BY <1>1, <3>1, OpeningInputs DEF Connecting
    <3>2. CASE m.kind = "Reconnect" /\ ~Lost
      BY <1>1, <3>2, RetryInputs
    <3> QED BY <1>5, <3>1, <3>2
  <2>2. Lost => ~RetryAt(1)
    BY <1>1, <1>2, <1>5 DEF RetryAt, DueAt
  <2>3. pending' \in Nat /\ (Connecting => pending' = pending)
    BY <1>1, <1>2, <1>5
  <2> HIDE DEF in
  <2> QED BY <1>1, <1>2, <2>1, <2>2, <2>3, IdleOutcome DEF Outcome
<1> QED BY <1>2, <1>3, <1>4, <1>5 DEF Kinds

LEMMA TransportLostOutcome ==
    ASSUME LoopHolds, NEW m, Takes(m), TransportLostReported(m) PROVE Outcome
<1> DEFINE in == Input("TransportLost")
<1>1. m = inbox[1] /\ pending \in Nat /\ Shaped(session) /\ Drops(1)
  BY HeadTaken DEF LoopHolds, TransportLostReported
<1>2. /\ m.type = "TransportLost" /\ in \in FlowInputs
      /\ Transition(in) /\ GateEffects(in)
      /\ UNCHANGED <<pending, idents, identified>>
  BY DEF TransportLostReported, Takes, FlowInputs
<1>3. CASE IsActive(session)
  <2>1. /\ Reduce(session, in) = TransportLost(session)
        /\ Effects(session, in) = <<"ClosePort", "ScheduleReconnect">>
    BY <1>1, <1>3, LosingInputs
  <2> HIDE DEF in
  <2> QED BY <1>1, <1>2, <1>3, <2>1, LossOutcome DEF Outcome
<1>4. CASE ~IsActive(session)
  <2>1. Reduce(session, in) = session /\ Effects(session, in) = <<>>
    BY <1>1, <1>4, LosingInputs
  <2>2. Lost => ~RetryAt(1)
    BY <1>4 DEF Lost
  <2> HIDE DEF in
  <2> QED BY <1>1, <1>2, <2>1, <2>2, IdleOutcome DEF Outcome
<1> QED BY <1>3, <1>4

LEMMA TimerOutcome ==
    ASSUME LoopHolds, NEW m, Takes(m), ReconnectTimerElapsed(m) PROVE Outcome
<1> DEFINE due == m.stamp = retryAt
           in == [type |-> "ReconnectTimerElapsed", due |-> due]
<1>1. m = inbox[1] /\ pending \in Nat /\ Shaped(session) /\ Drops(1) /\ ConnectionTypeOK
  BY HeadTaken DEF LoopHolds, ReconnectTimerElapsed
<1>2. /\ m.type = "ReconnectTimerElapsed" /\ due \in BOOLEAN
      /\ Transition(in) /\ GateEffects(in)
      /\ UNCHANGED <<pending, idents, identified>>
  BY DEF ReconnectTimerElapsed, Takes
<1>3. in \in FlowInputs
  BY <1>2 DEF FlowInputs
<1>4. CASE Lost /\ due
  <2>1. /\ Reduce(session, in) = [session EXCEPT !.opening = TRUE]
        /\ Effects(session, in) = <<"CancelReconnect", "OpenPort">>
    BY <1>1, <1>2, <1>4, RetryInputs
  <2>2. DueAt(1)
    BY <1>1, <1>2, <1>4 DEF DueAt
  <2>3. Shaped(Reduce(session, in))
    BY <1>1, <1>3, ReduceShaped
  <2> HIDE DEF in
  <2>4. /\ session' = Reduce(session, in)
        /\ runtime' \in Runtimes
        /\ runtime'.bus = runtime.bus /\ runtime'.reconnect = runtime.reconnect + 1
        /\ \/ /\ present /\ runtime'.generation = runtime.generation + 1
              /\ opens' = opens \cup {OpenTask(runtime.generation + 1, "Reconnect", manual)}
           \/ /\ ~present /\ refused' = TRUE /\ runtime'.generation = runtime.generation
              /\ UNCHANGED opens
        /\ UNCHANGED <<timer, retryAt, monitor, reader>>
    BY <1>1, <1>2, <2>1, PortIsRetried
  <2>5. session'.phase = session.phase /\ session'.connectivity = session.connectivity
    BY <1>1, <2>1, <2>4 DEF Shaped, Sessions
  <2>6. Lost'
    BY <1>4, <2>5 DEF Lost, IsActive, Reconnecting
  <2>7. Shaped(session')
    BY <2>3, <2>4
  <2> QED BY <1>1, <1>2, <1>4, <2>2, <2>4, <2>6, <2>7 DEF Retries, Outcome
<1>5. CASE ~(Lost /\ due)
  <2>1. Reduce(session, in) = session /\ Effects(session, in) = <<>>
    BY <1>1, <1>2, <1>5, RetryInputs
  <2>2. Lost => ~RetryAt(1)
    BY <1>1, <1>2, <1>5 DEF RetryAt, DueAt
  <2> HIDE DEF in
  <2> QED BY <1>1, <1>2, <2>1, <2>2, IdleOutcome DEF Outcome
<1> QED BY <1>4, <1>5

LEMMA RefreshedOutcome ==
    ASSUME LoopHolds, NEW m, Takes(m), PortsRefreshed(m) PROVE Outcome
<1>1. m = inbox[1] /\ pending \in Nat /\ Drops(1)
  BY HeadTaken DEF LoopHolds, PortsRefreshed
<1>2. ~RetryAt(1)
  BY <1>1 DEF RetryAt, DueAt, PortsRefreshed
<1> QED BY <1>1, <1>2 DEF PortsRefreshed, Takes, Idles, Outcome

LEMMA InitialVerdictOutcome ==
    ASSUME LoopHolds, NEW m, Takes(m), InitialIdentificationFinished(m) PROVE Outcome
<1>1. /\ m \in Messages /\ m = inbox[1] /\ pending \in Nat /\ Shaped(session) /\ Drops(1)
      /\ ConnectionTypeOK
  BY HeadTaken DEF LoopHolds, InitialIdentificationFinished
<1>2. /\ m.type = "IdentificationFinished" /\ m.kind = "Initial"
      /\ UNCHANGED <<pending, idents, identified>>
  BY DEF InitialIdentificationFinished, Takes
<1>3. InitialAt(1) /\ 1 \in DOMAIN inbox /\ m.verified \in Devices \cup {NoDevice}
  BY <1>1, <1>2 DEF InitialAt, VerdictAt, Drops, Messages
<1>4. session.phase \notin {"Connecting", "Active"}
  BY <1>3 DEF LoopHolds, NoStaleVerdict
<1>5. CASE pending = 0
  <2>1. runtime' = CloseRuntimeBus /\ BusClosed
        /\ UNCHANGED <<session, timer, retryAt, opens>>
    BY <1>5 DEF InitialIdentificationFinished
  <2>2. runtime \in Runtimes
    BY <1>1 DEF ConnectionTypeOK, Runtimes
  <2>3. /\ runtime' \in Runtimes /\ runtime'.bus = 0
        /\ runtime'.generation = runtime.generation + 1
        /\ runtime'.reconnect = runtime.reconnect + 1 /\ runtime.reconnect \in Nat
    BY <2>1, <2>2, BusCloses DEF Runtimes
  <2>4. PortShut
    BY <2>3 DEF PortShut
  <2> QED BY <1>1, <1>2, <1>3, <1>5, <2>1, <2>4 DEF Discards, Outcome
<1> DEFINE in == [type |-> "IdentificationFinished", id |-> pending, verified |-> m.verified]
<1>6. in \in FlowInputs
  BY <1>1, <1>3 DEF FlowInputs, IdentificationInputs
<1>7. ASSUME pending # 0
      PROVE  /\ Transition(in)
             /\ m.verified # NoDevice /\ IsActive(session') => StartMonitoring(pending)
             /\ ~(m.verified # NoDevice /\ IsActive(session')) => GateEffects(in)
  BY <1>7 DEF InitialIdentificationFinished
<1>8. CASE pending # 0 /\ session.phase = "Identifying" /\ m.verified # NoDevice
  <2>1. Reduce(session, in) = ActiveSession(pending, m.verified) /\ Effects(session, in) = <<>>
    BY <1>1, <1>8, InitialVerdictInput
  <2>2. Shaped(Reduce(session, in))
    BY <1>1, <1>6, ReduceShaped
  <2>3. Transition(in)
    BY <1>7, <1>8
  <2>4. /\ session' = ActiveSession(pending, m.verified)
        /\ UNCHANGED <<runtime, timer, retryAt, opens>>
    <3> HIDE DEF in
    <3> QED BY <1>1, <2>1, <2>3, NothingToDo
  <2>5. IsActive(session')
    BY <2>4 DEF IsActive, ActiveSession
  <2>6. StartMonitoring(pending)
    BY <1>7, <1>8, <2>5
  <2>7. RealAt(1)
    BY <1>1, <1>2, <1>8 DEF RealAt, VerdictAt
  <2>8. Shaped(session')
    BY <2>1, <2>2, <2>4
  <2> HIDE DEF in
  <2> QED BY <1>1, <1>2, <1>3, <1>8, <2>4, <2>6, <2>7, <2>8 DEF Joins, Outcome
<1>9. CASE pending # 0 /\ session.phase = "Identifying" /\ m.verified = NoDevice
  <2>1. Reduce(session, in) = NewSession /\ Effects(session, in) = <<"ClosePort">>
    BY <1>1, <1>9, InitialVerdictInput
  <2>2. Transition(in) /\ GateEffects(in)
    BY <1>7, <1>9
  <2>3. Reduce(session, in).phase = "Disconnected"
    BY <2>1 DEF NewSession, Inactive
  <2>4. pending' \in Nat
    BY <1>1, <1>2
  <2> HIDE DEF in
  <2> QED BY <1>1, <1>2, <1>6, <2>1, <2>2, <2>3, <2>4, ShutOutcome DEF Outcome
<1>10. CASE pending # 0 /\ session.phase # "Identifying"
  <2>1. Reduce(session, in) = session /\ Effects(session, in) = <<>>
    BY <1>1, <1>10, InitialVerdictInput
  <2>2. Transition(in)
    BY <1>7, <1>10
  <2>3. session' = session
    BY <2>1, <2>2 DEF Transition
  <2>4. ~IsActive(session') /\ ~Lost /\ ~Connecting
    BY <1>4, <2>3 DEF IsActive, Lost, Connecting
  <2>5. GateEffects(in)
    BY <1>7, <1>10, <2>4
  <2>6. pending' \in Nat
    BY <1>1, <1>2
  <2> HIDE DEF in
  <2> QED BY <1>1, <1>2, <2>1, <2>2, <2>4, <2>5, <2>6, IdleOutcome DEF Outcome
<1> QED BY <1>3, <1>5, <1>8, <1>9, <1>10

LEMMA ReconnectVerdictOutcome ==
    ASSUME LoopHolds, NEW m, Takes(m), ReconnectIdentificationFinished(m) PROVE Outcome
<1>1. /\ m \in Messages /\ m = inbox[1] /\ pending \in Nat /\ Shaped(session) /\ Drops(1)
      /\ ConnectionTypeOK
  BY HeadTaken DEF LoopHolds, ReconnectIdentificationFinished
<1> DEFINE in == [type |-> "ReconnectIdentificationFinished", verified |-> m.verified]
           same == m.verified # NoDevice /\ m.verified = session.device
<1>2. /\ m.type = "IdentificationFinished" /\ m.kind = "Reconnect"
      /\ Transition(in) /\ session' = Reduce(session, in)
      /\ session'.connectivity = "Connected" => ResumeMonitoring(session'.id)
      /\ session'.connectivity # "Connected" => GateEffects(in)
      /\ UNCHANGED <<pending, idents, identified>>
  BY DEF ReconnectIdentificationFinished, Takes, Transition
<1>3. m.verified \in Devices \cup {NoDevice}
  BY <1>1, <1>2 DEF Messages
<1>4. in \in FlowInputs
  BY <1>3 DEF FlowInputs, IdentificationInputs
<1>5. CASE IsActive(session) /\ same
  <2>1. /\ IsActive(Reduce(session, in)) /\ Reduce(session, in).id = session.id
        /\ Reduce(session, in).device = session.device
        /\ Reduce(session, in).connectivity = "Connected" /\ Effects(session, in) = <<>>
    BY <1>1, <1>5, ReconnectVerdictInput
  <2>2. Shaped(Reduce(session, in))
    BY <1>1, <1>4, ReduceShaped
  <2>3. RealAt(1) /\ inbox[1].verified = session.device
    BY <1>1, <1>2, <1>5 DEF RealAt, VerdictAt
  <2> HIDE DEF in
  <2>4. UNCHANGED <<runtime, timer, retryAt, opens>>
    BY <1>1, <1>2, <2>1, NothingToDo
  <2>5. Shaped(session') /\ IsActive(session') /\ session'.connectivity = "Connected"
        /\ session'.id = session.id /\ session'.device = session.device
    BY <1>2, <2>1, <2>2
  <2>6. ResumeMonitoring(session.id)
    BY <1>2, <2>5
  <2> QED BY <1>1, <1>2, <1>5, <2>3, <2>4, <2>5, <2>6 DEF Rejoins, Outcome
<1>6. CASE IsActive(session) /\ ~same
  <2>1. /\ IsActive(Reduce(session, in))
        /\ Reduce(session, in).connectivity = "Faulted"
        /\ Effects(session, in) = <<"StopPlanner", "ClosePort">>
    BY <1>1, <1>6, ReconnectVerdictInput
  <2> HIDE DEF in
  <2>2. GateEffects(in) /\ pending' \in Nat
    BY <1>1, <1>2, <2>1
  <2> QED BY <1>1, <1>2, <1>4, <1>6, <2>1, <2>2, ShutOutcome DEF Outcome
<1>7. CASE ~IsActive(session)
  <2>1. /\ Reduce(session, in) = session /\ Effects(session, in) = <<>>
        /\ Reduce(session, in).connectivity = "None"
    BY <1>1, <1>7, ReconnectVerdictInput
  <2> HIDE DEF in
  <2>2. GateEffects(in) /\ pending' \in Nat /\ ~Lost
    BY <1>1, <1>2, <1>7, <2>1 DEF Lost
  <2> QED BY <1>1, <1>2, <2>1, <2>2, IdleOutcome DEF Outcome
<1> QED BY <1>5, <1>6, <1>7

LEMMA LoopOutcome == ASSUME LoopHolds, LoopNext PROVE Outcome
<1>1. ASSUME Receive
      PROVE  Outcome
  <2>1. Takes(Head(inbox))
    BY <1>1 DEF Receive, Takes
  <2> QED BY <1>1, <2>1, OpenedOutcome, OpenFailedOutcome, InitialVerdictOutcome,
             ReconnectVerdictOutcome, TransportLostOutcome, TimerOutcome, RefreshedOutcome
             DEF Receive
<1> QED BY <1>1, CancelOutcome, ShutdownOutcome, PortEventOutcome DEF LoopNext, Outcome

-----------------------------------------------------------------------------
(***************************************************************************)
(* The outcomes of a step of a task.                                       *)
(***************************************************************************)
Current(task) == task.generation = runtime.generation

\* The first d messages are taken and m is sent.
Queues(d, m) ==
    /\ inbox' \in Seq(Messages)
    /\ \A i \in DOMAIN inbox' :
          \/ i + d \in DOMAIN inbox /\ inbox'[i] = inbox[i + d]
          \/ i = Len(inbox) + 1 - d /\ inbox'[i] = m
    /\ \A i \in DOMAIN inbox : i > d => i - d \in DOMAIN inbox' /\ inbox'[i - d] = inbox[i]
    /\ Len(inbox) + 1 - d \in DOMAIN inbox' /\ inbox'[Len(inbox) + 1 - d] = m

\* A message no verdict, timer or retry is read from.
Notes ==
    /\ \E m \in Messages : m.type \in {"PortsRefreshed", "TransportLost"} /\ Queues(0, m)
    /\ UNCHANGED <<session, pending, retryAt, runtime, opens, idents, timer, monitor,
                   reader, identified>>

Accepted(o) ==
    /\ o.stage = "opening" /\ Current(o)
    /\ runtime' = [runtime EXCEPT !.bus = o.generation]
    /\ opens' = (opens \ {o}) \cup {[o EXCEPT !.stage = "accepted"]}
    /\ UNCHANGED <<session, pending, retryAt, inbox, idents, timer, monitor, reader,
                   identified>>

Withdrawn(o) ==
    /\ o.stage = "opening" /\ ~Current(o)
    /\ opens' = opens \ {o}
    /\ UNCHANGED <<session, pending, retryAt, inbox, runtime, idents, timer, monitor,
                   reader, identified>>

AttemptFailed(o) ==
    /\ o.stage = "opening" /\ Current(o)
    /\ opens' = opens \ {o}
    /\ Queues(0, [type |-> "PortOpenFailed", kind |-> o.kind])
    /\ UNCHANGED <<session, pending, retryAt, runtime, idents, timer, monitor, reader,
                   identified>>

Published(o) ==
    /\ o.stage = "accepted"
    /\ opens' = (opens \ {o}) \cup {[o EXCEPT !.stage = "published"]}
    /\ BusOpened(o.generation)
    /\ UNCHANGED <<session, pending, retryAt, inbox, runtime, idents, timer, identified>>

Announced(o) ==
    /\ o.stage = "published"
    /\ opens' = opens \ {o}
    /\ Queues(0, [type |-> "PortOpened", kind |-> o.kind])
    /\ UNCHANGED <<session, pending, retryAt, runtime, idents, timer, monitor, reader,
                   identified>>

Verified(t) ==
    /\ ~t.done
    /\ \E d \in Devices \cup {NoDevice} :
          /\ idents' = (idents \ {t}) \cup {[t EXCEPT !.done = TRUE, !.verified = d]}
          /\ identified' = identified \cup {<<t.bus, d>>}
    /\ UNCHANGED <<session, pending, retryAt, inbox, runtime, opens, timer, monitor, reader>>

Reported(t) ==
    /\ t.done
    /\ idents' = idents \ {t}
    /\ \/ Current(t) /\ Queues(0, Finished(t.kind, t.verified))
       \/ ~Current(t) /\ UNCHANGED inbox
    /\ UNCHANGED <<session, pending, retryAt, runtime, opens, timer, monitor, reader,
                   identified>>

Woken ==
    /\ timer # 0 /\ timer' = 0
    /\ \/ /\ timer = runtime.reconnect
          /\ Queues(0, [type |-> "ReconnectTimerElapsed", stamp |-> timer])
       \/ timer # runtime.reconnect /\ UNCHANGED inbox
    /\ UNCHANGED <<session, pending, retryAt, runtime, opens, idents, monitor, reader,
                   identified>>

Listens ==
    /\ ReaderChecks \/ ReaderListens \/ ReaderRechecks \/ ReaderWakes \/ ReaderReads
    /\ UNCHANGED <<session, pending, retryAt, inbox, runtime, opens, idents, timer,
                   monitor, identified>>

Waits ==
    UNCHANGED <<session, pending, retryAt, inbox, runtime, opens, idents, timer,
                monitor, reader, identified>>

TaskOutcome ==
    \/ \E o \in opens : Accepted(o) \/ Withdrawn(o) \/ AttemptFailed(o) \/ Published(o) \/ Announced(o)
    \/ \E t \in idents : Verified(t) \/ Reported(t)
    \/ Notes \/ Woken \/ Listens \/ Waits

LEMMA MessageQueued ==
    ASSUME inbox \in Seq(Messages), NEW m \in Messages
    PROVE  /\ inbox' = Append(inbox, m) => Queues(0, m)
           /\ inbox # <<>> /\ inbox' = Append(Tail(inbox), m) => Queues(1, m)
<1>1. ASSUME inbox' = Append(inbox, m)
      PROVE  Queues(0, m)
  <2>1. /\ inbox' \in Seq(Messages) /\ DOMAIN inbox' = 1 .. Len(inbox) + 1
        /\ DOMAIN inbox = 1 .. Len(inbox) /\ Len(inbox) \in Nat
        /\ \A i \in DOMAIN inbox : i \in DOMAIN inbox' /\ inbox'[i] = inbox[i]
        /\ inbox'[Len(inbox) + 1] = m
    BY <1>1, AppendKeeps
  <2>2. \A i \in DOMAIN inbox' : i \in DOMAIN inbox \/ i = Len(inbox) + 1
    BY <2>1
  <2>3. /\ \A i \in DOMAIN inbox' : i + 0 = i
        /\ \A i \in DOMAIN inbox : i - 0 = i
        /\ Len(inbox) + 1 - 0 = Len(inbox) + 1
        /\ Len(inbox) + 1 \in DOMAIN inbox'
    BY <2>1
  <2> QED BY <2>1, <2>2, <2>3 DEF Queues
<1>2. ASSUME inbox # <<>>, inbox' = Append(Tail(inbox), m)
      PROVE  Queues(1, m)
  <2> DEFINE q == Tail(inbox)
  <2>1. /\ q \in Seq(Messages) /\ Len(inbox) \in Nat /\ Len(q) = Len(inbox) - 1
        /\ DOMAIN q = 1 .. Len(q) /\ DOMAIN inbox = 1 .. Len(inbox) /\ Len(q) \in Nat
        /\ \A i \in DOMAIN inbox \ {1} : i - 1 \in DOMAIN q /\ q[i - 1] = inbox[i]
        /\ \A i \in DOMAIN q : i + 1 \in DOMAIN inbox /\ q[i] = inbox[i + 1]
    BY <1>2, TailShifts
  <2> HIDE DEF q
  <2>2. /\ inbox' \in Seq(Messages) /\ DOMAIN inbox' = 1 .. Len(q) + 1
        /\ \A i \in DOMAIN q : i \in DOMAIN inbox' /\ inbox'[i] = q[i]
        /\ inbox'[Len(q) + 1] = m
    BY <1>2, <2>1, AppendKeeps DEF q
  <2>3. /\ Len(inbox) + 1 - 1 = Len(q) + 1
        /\ \A i \in DOMAIN inbox' : i \in DOMAIN q \/ i = Len(q) + 1
        /\ \A i \in DOMAIN inbox : i > 1 => i \in DOMAIN inbox \ {1}
        /\ Len(q) + 1 \in DOMAIN inbox'
    BY <2>1, <2>2
  <2> QED BY <2>1, <2>2, <2>3 DEF Queues
<1> QED BY <1>1, <1>2

LEMMA TaskSteps ==
    ASSUME ConnectionTypeOK, [TaskNext \/ PlugChanges]_vars
    PROVE  TaskOutcome
<1> USE DEF ConnectionTypeOK
<1>1. ASSUME OpenStep
      PROVE  TaskOutcome
  <2>1. PICK o \in opens : PortOpens(o) \/ OpenFails(o) \/ PublishBus(o) \/ AnnounceBus(o)
    BY <1>1 DEF OpenStep
  <2>2. o \in OpenTasks /\ o.kind \in Kinds
    BY DEF OpenTasks
  <2>3. UNCHANGED <<session, pending, retryAt, idents, timer, identified>>
    BY <1>1 DEF OpenStep, app
  <2>4. CASE PortOpens(o)
    BY <2>3, <2>4 DEF PortOpens, Accepts, Accepted, Withdrawn, Current, TaskOutcome
  <2>5. CASE OpenFails(o)
    <3>1. [type |-> "PortOpenFailed", kind |-> o.kind] \in Messages
      BY <2>2 DEF Messages
    <3> QED BY <2>3, <2>5, <3>1, MessageQueued
            DEF OpenFails, AttemptFailed, Withdrawn, Current, TaskOutcome
  <2>6. CASE PublishBus(o)
    BY <2>3, <2>6 DEF PublishBus, Published, TaskOutcome
  <2>7. CASE AnnounceBus(o)
    <3>1. [type |-> "PortOpened", kind |-> o.kind] \in Messages
      BY <2>2 DEF Messages
    <3> QED BY <2>3, <2>7, <3>1, MessageQueued DEF AnnounceBus, Announced, TaskOutcome
  <2> QED BY <2>1, <2>4, <2>5, <2>6, <2>7
<1>2. ASSUME IdentifyStep
      PROVE  TaskOutcome
  <2>1. PICK t \in idents : IdentifyReads(t) \/ IdentifyReports(t)
    BY <1>2 DEF IdentifyStep
  <2>2. t \in IdentifyTasks /\ t.kind \in Kinds /\ t.verified \in Devices \cup {NoDevice}
    BY DEF IdentifyTasks
  <2>3. UNCHANGED <<session, pending, retryAt, runtime, opens, timer, monitor, reader>>
    BY <1>2 DEF IdentifyStep, app
  <2>4. CASE IdentifyReads(t)
    BY <2>3, <2>4 DEF IdentifyReads, Verified, TaskOutcome
  <2>5. CASE IdentifyReports(t)
    <3>1. Finished(t.kind, t.verified) \in Messages
      BY <2>2 DEF Messages, Finished
    <3> QED BY <2>3, <2>5, <3>1, MessageQueued
            DEF IdentifyReports, StillCurrent, Reported, Current, TaskOutcome
  <2> QED BY <2>1, <2>4, <2>5
<1>3. ASSUME TimerWakes
      PROVE  TaskOutcome
  <2>1. [type |-> "ReconnectTimerElapsed", stamp |-> timer] \in Messages
    BY DEF Messages
  <2> QED BY <1>3, <2>1, MessageQueued DEF TimerWakes, Woken, TaskOutcome, app
<1>4. ASSUME WatchTicks
      PROVE  TaskOutcome
  <2>1. [type |-> "TransportLost"] \in Messages
    BY DEF Messages
  <2> QED BY <1>4, <2>1, MessageQueued DEF WatchTicks, Notes, Waits, TaskOutcome, app
<1>5. ASSUME ReaderStep
      PROVE  TaskOutcome
  BY <1>5 DEF ReaderStep, Listens, TaskOutcome, app, tasks
<1>6. ASSUME PlugChanges \/ UNCHANGED vars
      PROVE  TaskOutcome
  BY <1>6 DEF PlugChanges, Waits, TaskOutcome, app, tasks, vars
<1> QED BY <1>1, <1>2, <1>3, <1>4, <1>5, <1>6 DEF TaskNext

LEMMA RefreshNotes == ASSUME ConnectionTypeOK, UserRefreshes PROVE Notes
<1>1. [type |-> "PortsRefreshed", listed |-> plugged /\ known] \in Messages
  BY DEF Messages, ConnectionTypeOK
<1> QED BY <1>1, MessageQueued DEF UserRefreshes, Notes, ConnectionTypeOK, app, tasks

Step ==
    \/ Idles \/ Shuts \/ Loses \/ Retries \/ Joins \/ Rejoins \/ FailsToOpen
    \/ Discards \/ Identifies \/ UserConnects \/ TaskOutcome

LEMMA Steps == ASSUME LoopHolds, [Next]_vars PROVE Step
<1>1. CASE LoopNext
  BY <1>1, LoopOutcome, RefreshNotes DEF Outcome, Step, TaskOutcome, LoopHolds
<1>2. CASE [TaskNext \/ PlugChanges]_vars
  BY <1>2, TaskSteps DEF Step, LoopHolds
<1> QED BY <1>1, <1>2 DEF Next

-----------------------------------------------------------------------------
(***************************************************************************)
(* The types, and the shape of the session.                                *)
(***************************************************************************)
MonitorTypes ==
    /\ monitor \in [bus : Nat, verified : Nat, active : Nat]
    /\ reader \in [stage : {"none", "check", "send", "listen", "recheck", "waiting"},
                   session : Nat, bus : Nat, woken : BOOLEAN]

StepTypes ==
    /\ pending \in Nat /\ retryAt \in Nat /\ timer \in Nat
    /\ inbox \in Seq(Messages)
    /\ runtime \in Runtimes
    /\ opens \subseteq OpenTasks
    /\ idents \subseteq IdentifyTasks
    /\ MonitorTypes
    /\ identified \subseteq Nat \X (Devices \cup {NoDevice})

PlugTypes ==
    /\ known \in BOOLEAN /\ manual \in BOOLEAN /\ plugged \in BOOLEAN
    /\ present \in BOOLEAN
    /\ unplugs \in 0 .. MaxUnplugs
    /\ lastId \in Nat /\ watch \in Nat
    /\ events \in Seq(BOOLEAN)

OtherTypes == PlugTypes /\ refused \in BOOLEAN

LEMMA TypesSplit ==
    Shaped(session) => (ConnectionTypeOK <=> StepTypes /\ OtherTypes)
BY DEF ConnectionTypeOK, StepTypes, OtherTypes, PlugTypes, MonitorTypes, Runtimes, Shaped

LEMMA MonitorMoves ==
    ASSUME MonitorTypes, NEW id \in Nat, NEW bus \in Nat
    PROVE  /\ BusOpened(bus) => MonitorTypes'
           /\ GateCloses => MonitorTypes'
           /\ StartMonitoring(id) => MonitorTypes'
           /\ ResumeMonitoring(id) => MonitorTypes'
<1>1. ASSUME reader' = Notified
      PROVE  reader' \in [stage : {"none", "check", "send", "listen", "recheck", "waiting"},
                          session : Nat, bus : Nat, woken : BOOLEAN]
  BY <1>1 DEF MonitorTypes, Notified
<1>2. ASSUME monitor' = [monitor EXCEPT !.bus = bus, !.verified = 0]
             \/ monitor' = [monitor EXCEPT !.bus = 0, !.verified = 0]
             \/ monitor' = [monitor EXCEPT !.verified = 0, !.active = 0]
             \/ monitor' = [monitor EXCEPT !.verified = id, !.active = id]
             \/ monitor' = [monitor EXCEPT !.verified = id]
      PROVE  monitor' \in [bus : Nat, verified : Nat, active : Nat]
  <2>1. monitor \in [bus : Nat, verified : Nat, active : Nat]
    BY DEF MonitorTypes
  <2>2. CASE monitor' = [monitor EXCEPT !.bus = bus, !.verified = 0]
    BY <2>1, <2>2
  <2>3. CASE monitor' = [monitor EXCEPT !.bus = 0, !.verified = 0]
    BY <2>1, <2>3
  <2>4. CASE monitor' = [monitor EXCEPT !.verified = 0, !.active = 0]
    BY <2>1, <2>4
  <2>5. CASE monitor' = [monitor EXCEPT !.verified = id, !.active = id]
    BY <2>1, <2>5
  <2>6. CASE monitor' = [monitor EXCEPT !.verified = id]
    BY <2>1, <2>6
  <2> QED BY <1>2, <2>2, <2>3, <2>4, <2>5, <2>6
<1>3. NoReader \in [stage : {"none", "check", "send", "listen", "recheck", "waiting"},
                    session : Nat, bus : Nat, woken : BOOLEAN]
      /\ NewReader(id) \in [stage : {"none", "check", "send", "listen", "recheck", "waiting"},
                            session : Nat, bus : Nat, woken : BOOLEAN]
  BY DEF NoReader, NewReader
<1>4. BusOpened(bus) => MonitorTypes'
  BY <1>1, <1>2 DEF BusOpened, MonitorTypes
<1>5. GateCloses => MonitorTypes'
  BY <1>1, <1>2, <1>3 DEF GateCloses, BusClosed, StopAndClose, MonitorTypes
<1>6. StartMonitoring(id) => MonitorTypes'
  BY <1>2, <1>3 DEF StartMonitoring, MonitorTypes
<1>7. ResumeMonitoring(id) => MonitorTypes'
  BY <1>1, <1>2 DEF ResumeMonitoring, MonitorTypes
<1> QED BY <1>4, <1>5, <1>6, <1>7

LEMMA ListensTyped == ASSUME MonitorTypes, Listens PROVE MonitorTypes'
<1>1. /\ reader \in [stage : {"none", "check", "send", "listen", "recheck", "waiting"},
                     session : Nat, bus : Nat, woken : BOOLEAN]
      /\ monitor.bus \in Nat /\ monitor' = monitor
  BY DEF MonitorTypes, Listens
<1>2. CASE ReaderChecks
  BY <1>1, <1>2 DEF ReaderChecks, MonitorTypes
<1>3. CASE ReaderListens
  BY <1>1, <1>3 DEF ReaderListens, MonitorTypes
<1>4. CASE ReaderRechecks
  BY <1>1, <1>4 DEF ReaderRechecks, MonitorTypes
<1>5. CASE ReaderWakes
  BY <1>1, <1>5 DEF ReaderWakes, MonitorTypes
<1>6. CASE ReaderReads
  BY <1>1, <1>6 DEF ReaderReads, MonitorTypes
<1> QED BY <1>2, <1>3, <1>4, <1>5, <1>6 DEF Listens

LEMMA IdentifyQueues ==
    ASSUME ConnectionTypeOK, inbox # <<>>, NEW kind \in Kinds, Identify(kind)
    PROVE  \/ runtime.bus = 0 /\ Queues(1, Finished(kind, NoDevice)) /\ UNCHANGED idents
           \/ /\ runtime.bus # 0 /\ Drops(1)
              /\ idents' = idents \cup
                    {[generation |-> runtime.generation, kind |-> kind,
                      bus |-> runtime.bus, done |-> FALSE, verified |-> NoDevice]}
<1>1. Finished(kind, NoDevice) \in Messages
  BY DEF Finished, Messages
<1> QED BY <1>1, MessageQueued, InboxTaken DEF Identify, ConnectionTypeOK

LEMMA StepTypesStep ==
    ASSUME Shaped(session), ConnectionTypeOK, Step
    PROVE  Shaped(session') /\ StepTypes'
<1>1. /\ StepTypes /\ MonitorTypes /\ runtime \in Runtimes
      /\ runtime.generation \in Nat /\ runtime.reconnect \in Nat /\ runtime.bus \in Nat
  BY TypesSplit DEF StepTypes, Runtimes
<1>2. CASE Idles
  BY <1>1, <1>2 DEF Idles, Drops, StepTypes, MonitorTypes
<1>3. CASE Shuts
  <2>1. MonitorTypes'
    BY <1>1, <1>3, MonitorMoves DEF Shuts
  <2> QED BY <1>1, <1>3, <2>1 DEF Shuts, Drops, PortShut, StepTypes
<1>4. CASE Loses
  <2>1. MonitorTypes'
    BY <1>1, <1>4, MonitorMoves DEF Loses, GateCloses
  <2>2. runtime' \in Runtimes /\ runtime'.reconnect \in Nat
    BY <1>4 DEF Loses, PortShut, Runtimes
  <2> QED BY <1>1, <1>4, <2>1, <2>2 DEF Loses, Drops, StepTypes
<1>5. CASE Retries
  <2>1. OpenTask(runtime.generation + 1, "Reconnect", manual) \in OpenTasks
    BY <1>1 DEF OpenTask, OpenTasks, Kinds, ConnectionTypeOK
  <2>2. opens' \subseteq OpenTasks
    BY <1>1, <1>5, <2>1 DEF Retries, StepTypes
  <2> QED BY <1>1, <1>5, <2>2 DEF Retries, Drops, StepTypes, MonitorTypes
<1>6. CASE Joins
  <2>1. MonitorTypes'
    BY <1>1, <1>6, MonitorMoves DEF Joins, StepTypes
  <2> QED BY <1>1, <1>6, <2>1 DEF Joins, Drops, StepTypes
<1>7. CASE Rejoins
  <2>1. MonitorTypes'
    BY <1>1, <1>7, MonitorMoves DEF Rejoins, Shaped, Sessions
  <2> QED BY <1>1, <1>7, <2>1 DEF Rejoins, Drops, StepTypes
<1>8. CASE FailsToOpen
  <2>1. Shaped(session')
    BY <1>8, InactiveShaped DEF FailsToOpen, NewSession, Phases
  <2> QED BY <1>1, <1>8, <2>1 DEF FailsToOpen, Drops, StepTypes, MonitorTypes
<1>9. CASE Discards
  <2>1. MonitorTypes'
    BY <1>1, <1>9, MonitorMoves DEF Discards, GateCloses
  <2> QED BY <1>1, <1>9, <2>1 DEF Discards, Drops, PortShut, StepTypes
<1>10. CASE Identifies
  <2>1. PICK kind \in Kinds : Identify(kind)
    BY <1>10 DEF Identifies, Kinds
  <2>2. inbox' \in Seq(Messages) /\ idents' \subseteq IdentifyTasks
    <3>1. [generation |-> runtime.generation, kind |-> kind,
           bus |-> runtime.bus, done |-> FALSE, verified |-> NoDevice] \in IdentifyTasks
      BY <1>1 DEF IdentifyTasks
    <3> QED BY <1>1, <1>10, <2>1, <3>1, IdentifyQueues
            DEF Identifies, Queues, Drops, StepTypes
  <2>3. Shaped(session')
    BY <1>10, InactiveShaped DEF Identifies, Phases
  <2> QED BY <1>1, <1>10, <2>2, <2>3 DEF Identifies, StepTypes, MonitorTypes
<1>11. CASE UserConnects
  <2>1. Shaped(session')
    BY <1>11, ReduceShaped DEF UserConnects, FlowInputs
  <2>2. OpenTask(runtime.generation + 1, "Initial", manual') \in OpenTasks
    <3>1. manual' \in BOOLEAN
      BY <1>11 DEF UserConnects, ConnectionTypeOK
    <3> QED BY <1>1, <3>1 DEF OpenTask, OpenTasks, Kinds
  <2>3. runtime' \in Runtimes
    BY <1>1, <1>11 DEF UserConnects, Runtimes
  <2>4. pending' \in Nat
    <3>1. lastId \in Nat
      BY DEF ConnectionTypeOK
    <3> QED BY <1>11, <3>1 DEF UserConnects
  <2>5. opens' \subseteq OpenTasks
    BY <1>1, <1>11, <2>2 DEF UserConnects, StepTypes
  <2> QED BY <1>1, <1>11, <2>1, <2>3, <2>4, <2>5 DEF UserConnects, StepTypes, MonitorTypes
<1>12. CASE \E o \in opens : \/ Accepted(o) \/ Withdrawn(o) \/ AttemptFailed(o)
                             \/ Published(o) \/ Announced(o)
  <2>1. PICK o \in opens : \/ Accepted(o) \/ Withdrawn(o) \/ AttemptFailed(o)
                           \/ Published(o) \/ Announced(o)
    BY <1>12
  <2>2. o \in OpenTasks /\ o.generation \in Nat
    BY <1>1 DEF StepTypes, OpenTasks
  <2>3. /\ [o EXCEPT !.stage = "accepted"] \in OpenTasks
        /\ [o EXCEPT !.stage = "published"] \in OpenTasks
    BY <2>2 DEF OpenTasks
  <2>4. opens' \subseteq OpenTasks
    BY <1>1, <2>1, <2>3
       DEF Accepted, Withdrawn, AttemptFailed, Published, Announced, StepTypes
  <2>5. runtime' \in Runtimes
    BY <1>1, <2>1, <2>2
       DEF Accepted, Withdrawn, AttemptFailed, Published, Announced, Runtimes
  <2>6. MonitorTypes'
    <3>1. CASE Published(o)
      BY <1>1, <2>2, <3>1, MonitorMoves DEF Published
    <3>2. CASE ~Published(o)
      BY <1>1, <2>1, <3>2 DEF Accepted, Withdrawn, AttemptFailed, Announced, MonitorTypes
    <3> QED BY <3>1, <3>2
  <2>7. inbox' \in Seq(Messages)
    BY <1>1, <2>1
       DEF Accepted, Withdrawn, AttemptFailed, Published, Announced, Queues, StepTypes
  <2> QED BY <1>1, <2>1, <2>4, <2>5, <2>6, <2>7
          DEF Accepted, Withdrawn, AttemptFailed, Published, Announced, StepTypes
<1>13. CASE \E t \in idents : Verified(t) \/ Reported(t)
  <2>1. PICK t \in idents : Verified(t) \/ Reported(t)
    BY <1>13
  <2>2. t \in IdentifyTasks /\ t.bus \in Nat
    BY <1>1 DEF StepTypes, IdentifyTasks
  <2>3. \A d \in Devices \cup {NoDevice} :
           [t EXCEPT !.done = TRUE, !.verified = d] \in IdentifyTasks
    BY <2>2 DEF IdentifyTasks
  <2>4. idents' \subseteq IdentifyTasks
        /\ identified' \subseteq Nat \X (Devices \cup {NoDevice})
    <3>1. CASE Verified(t)
      <4>1. PICK d \in Devices \cup {NoDevice} :
                /\ idents' = (idents \ {t}) \cup {[t EXCEPT !.done = TRUE, !.verified = d]}
                /\ identified' = identified \cup {<<t.bus, d>>}
        BY <3>1 DEF Verified
      <4>2. [t EXCEPT !.done = TRUE, !.verified = d] \in IdentifyTasks
            /\ <<t.bus, d>> \in Nat \X (Devices \cup {NoDevice})
        BY <2>2, <2>3
      <4> QED BY <1>1, <4>1, <4>2 DEF StepTypes
    <3>2. CASE Reported(t)
      BY <1>1, <3>2 DEF Reported, StepTypes
    <3> QED BY <2>1, <3>1, <3>2
  <2>5. inbox' \in Seq(Messages)
    BY <1>1, <2>1 DEF Verified, Reported, Queues, StepTypes
  <2> QED BY <1>1, <2>1, <2>4, <2>5 DEF Verified, Reported, StepTypes, MonitorTypes
<1>14. CASE Listens
  BY <1>1, <1>14, ListensTyped DEF Listens, StepTypes
<1>15. CASE Notes
  BY <1>1, <1>15 DEF Notes, Queues, StepTypes, MonitorTypes
<1>16. CASE Woken
  BY <1>1, <1>16 DEF Woken, Queues, StepTypes, MonitorTypes
<1>17. CASE Waits
  BY <1>1, <1>17 DEF Waits, StepTypes, MonitorTypes
<1> QED BY <1>2, <1>3, <1>4, <1>5, <1>6, <1>7, <1>8, <1>9, <1>10, <1>11, <1>12, <1>13,
           <1>14, <1>15, <1>16, <1>17 DEF Step, TaskOutcome

LEMMA RefusalMoves ==
    ASSUME [Next]_vars
    PROVE  UNCHANGED refused \/ UserConnects \/ \E in : Transition(in)
<1>1. CASE UserCancels
  BY <1>1 DEF UserCancels
<1>2. CASE UserShutsDown
  BY <1>2 DEF UserShutsDown
<1>3. CASE Receive
  BY <1>3 DEF Receive, PortOpened, PortOpenFailed, InitialIdentificationFinished,
     ReconnectIdentificationFinished, TransportLostReported, ReconnectTimerElapsed,
     PortsRefreshed
<1>4. CASE PortEvent
  BY <1>4 DEF PortEvent
<1>5. CASE UserRefreshes \/ TaskNext \/ PlugChanges \/ UNCHANGED vars
  BY <1>5 DEF UserRefreshes, TaskNext, OpenStep, IdentifyStep, TimerWakes, WatchTicks,
     ReaderStep, PlugChanges, vars, app
<1> QED BY <1>1, <1>2, <1>3, <1>4, <1>5 DEF Next, LoopNext

LEMMA PlugTypesStep ==
    ASSUME ConnectionTypeOK, [Next]_vars
    PROVE  PlugTypes'
<1>1. PlugTypes
  BY DEF ConnectionTypeOK, PlugTypes
<1>2. CASE UserConnects
  <2>1. /\ present' \in BOOLEAN /\ manual' \in BOOLEAN /\ lastId' \in Nat
        /\ UNCHANGED <<known, plugged, unplugs, watch, events>>
    <3>1. /\ lastId' \in Nat
          /\ UNCHANGED <<known, plugged, unplugs, watch, events>>
      BY <1>1, <1>2 DEF UserConnects, PlugTypes
    <3>2. present' \in BOOLEAN /\ manual' \in BOOLEAN
      BY <1>1, <1>2, Zenon DEF UserConnects, PlugTypes
    <3> QED BY <3>1, <3>2
  <2> QED BY <1>1, <2>1 DEF PlugTypes
<1>3. CASE UserCancels
  BY <1>1, <1>3 DEF UserCancels, PlugTypes
<1>4. CASE UserRefreshes
  BY <1>1, <1>4 DEF UserRefreshes, PlugTypes, app, tasks
<1>5. CASE UserShutsDown
  BY <1>1, <1>5 DEF UserShutsDown, PlugTypes
<1>6. CASE Receive
  <2>1. UNCHANGED <<known, manual, plugged, unplugs, events, watch>>
    BY <1>6 DEF Receive
  <2>2. lastId' = lastId /\ present' \in BOOLEAN
    <3>1. inbox # <<>> => Head(inbox) \in Messages
      BY HeadTyped DEF ConnectionTypeOK
    <3> QED BY <1>1, <1>6, <3>1 DEF Receive, PortOpened, PortOpenFailed,
              InitialIdentificationFinished, ReconnectIdentificationFinished,
              TransportLostReported, ReconnectTimerElapsed, PortsRefreshed, PlugTypes
  <2> QED BY <1>1, <2>1, <2>2 DEF PlugTypes
<1>7. CASE PortEvent
  <2>1. Head(events) \in BOOLEAN /\ Tail(events) \in Seq(BOOLEAN)
    <3>1. events # <<>> /\ events \in Seq(BOOLEAN)
      BY <1>1, <1>7 DEF PortEvent, PlugTypes
    <3> QED BY <3>1, TailShifts
  <2> QED BY <1>1, <1>7, <2>1 DEF PortEvent, PlugTypes
<1>8. CASE OpenStep
  <2>1. PICK o \in opens : PortOpens(o) \/ OpenFails(o) \/ PublishBus(o) \/ AnnounceBus(o)
    BY <1>8 DEF OpenStep
  <2>2. o.generation \in Nat
    BY DEF ConnectionTypeOK, OpenTasks
  <2>3. watch' \in {watch, o.generation}
    BY <2>1 DEF PortOpens, OpenFails, PublishBus, AnnounceBus
  <2> QED BY <1>1, <1>8, <2>2, <2>3 DEF OpenStep, PlugTypes, app
<1>9. CASE IdentifyStep \/ TimerWakes \/ WatchTicks \/ ReaderStep
  BY <1>1, <1>9 DEF IdentifyStep, TimerWakes, WatchTicks, ReaderStep, PlugTypes, app, tasks
<1>10. CASE PlugChanges
  <2>1. plugged' \in BOOLEAN /\ unplugs' \in 0 .. MaxUnplugs
    BY <1>1, <1>10, ConnectionAssumption DEF PlugChanges, PlugTypes
  <2>2. events' \in Seq(BOOLEAN)
    <3>1. events \in Seq(BOOLEAN) /\ (events' = events \/ events' = Append(events, plugged'))
      BY <1>1, <1>10 DEF PlugChanges, PlugTypes
    <3>2. Append(events, plugged') \in Seq(BOOLEAN)
      BY <2>1, <3>1, AppendKeeps
    <3> QED BY <3>1, <3>2
  <2> QED BY <1>1, <1>10, <2>1, <2>2 DEF PlugChanges, PlugTypes, app, tasks
<1>11. CASE UNCHANGED vars
  BY <1>1, <1>11 DEF vars, app, tasks, PlugTypes
<1> QED BY <1>2, <1>3, <1>4, <1>5, <1>6, <1>7, <1>8, <1>9, <1>10, <1>11
        DEF Next, LoopNext, TaskNext

LEMMA OtherTypesStep ==
    ASSUME ConnectionTypeOK, [Next]_vars
    PROVE  OtherTypes'
<1>1. CASE UserConnects
  <2>1. refused' \in BOOLEAN
    BY <1>1 DEF UserConnects
  <2> QED BY <2>1, PlugTypesStep DEF OtherTypes
<1>2. ASSUME NEW in, Transition(in)
      PROVE  OtherTypes'
  <2>1. refused' \in BOOLEAN
    BY <1>2, Zenon DEF Transition, ConnectionTypeOK
  <2> QED BY <2>1, PlugTypesStep DEF OtherTypes
<1>3. CASE UNCHANGED refused
  <2>1. refused' \in BOOLEAN
    BY <1>3 DEF ConnectionTypeOK
  <2> QED BY <2>1, PlugTypesStep DEF OtherTypes
<1> QED BY <1>1, <1>2, <1>3, RefusalMoves, Zenon

-----------------------------------------------------------------------------
(***************************************************************************)
(* What happens to the gate and the read behind it.                        *)
(***************************************************************************)
ReaderNotified ==
    /\ reader'.stage = reader.stage
    /\ reader'.session = reader.session
    /\ reader'.bus = reader.bus
    /\ reader.stage \in {"recheck", "waiting"} => reader'.woken

ReaderGone == reader'.stage = "none" /\ reader'.bus = 0

LEMMA GateMoves ==
    ASSUME MonitorTypes, NEW id \in Nat, NEW bus \in Nat
    PROVE  /\ BusOpened(bus) =>
                monitor'.bus = bus /\ monitor'.verified = 0 /\ ReaderNotified
           /\ BusClosed =>
                monitor'.bus = 0 /\ monitor'.verified = 0 /\ ReaderNotified
           /\ GateCloses =>
                monitor'.bus = 0 /\ monitor'.verified = 0 /\ (ReaderNotified \/ ReaderGone)
           /\ StartMonitoring(id) =>
                /\ monitor'.bus = monitor.bus
                /\ \/ monitor.bus = 0 /\ monitor'.verified = 0 /\ ReaderGone
                   \/ /\ monitor.bus # 0 /\ monitor'.verified = id
                      /\ reader'.stage = "check" /\ reader'.session = id /\ reader'.bus = 0
           /\ ResumeMonitoring(id) =>
                \/ monitor' = monitor /\ reader' = reader
                \/ /\ monitor.bus # 0 /\ monitor'.bus = monitor.bus
                   /\ monitor'.verified = id /\ ReaderNotified
<1>1. reader' = Notified => ReaderNotified
  BY DEF MonitorTypes, Notified, ReaderNotified
<1>2. reader' = NoReader => ReaderGone
  BY DEF NoReader, ReaderGone
<1>3. monitor \in [bus : Nat, verified : Nat, active : Nat]
  BY DEF MonitorTypes
<1>4. /\ [monitor EXCEPT !.bus = bus, !.verified = 0].bus = bus
      /\ [monitor EXCEPT !.bus = bus, !.verified = 0].verified = 0
      /\ [monitor EXCEPT !.bus = 0, !.verified = 0].bus = 0
      /\ [monitor EXCEPT !.bus = 0, !.verified = 0].verified = 0
  BY <1>3
<1>5. /\ [monitor EXCEPT !.verified = 0, !.active = 0].bus = monitor.bus
      /\ [monitor EXCEPT !.verified = 0, !.active = 0].verified = 0
      /\ [monitor EXCEPT !.verified = id, !.active = id].bus = monitor.bus
      /\ [monitor EXCEPT !.verified = id, !.active = id].verified = id
      /\ [monitor EXCEPT !.verified = id].bus = monitor.bus
      /\ [monitor EXCEPT !.verified = id].verified = id
  BY <1>3
<1>6. BusOpened(bus) => monitor'.bus = bus /\ monitor'.verified = 0 /\ ReaderNotified
  BY <1>1, <1>4 DEF BusOpened
<1>7. BusClosed => monitor'.bus = 0 /\ monitor'.verified = 0 /\ ReaderNotified
  BY <1>1, <1>4 DEF BusClosed
<1>8. StopAndClose => monitor'.bus = 0 /\ monitor'.verified = 0 /\ ReaderGone
  BY <1>2 DEF StopAndClose
<1>9. StartMonitoring(id) =>
          /\ monitor'.bus = monitor.bus
          /\ \/ monitor.bus = 0 /\ monitor'.verified = 0 /\ ReaderGone
             \/ /\ monitor.bus # 0 /\ monitor'.verified = id
                /\ reader'.stage = "check" /\ reader'.session = id /\ reader'.bus = 0
  <2>1. NewReader(id).stage = "check" /\ NewReader(id).session = id /\ NewReader(id).bus = 0
    BY DEF NewReader
  <2>2. CASE monitor.bus = 0
    BY <1>2, <1>5, <2>2 DEF StartMonitoring
  <2>3. CASE monitor.bus # 0
    BY <1>5, <2>1, <2>3 DEF StartMonitoring
  <2> QED BY <2>2, <2>3
<1>10. ResumeMonitoring(id) =>
           \/ monitor' = monitor /\ reader' = reader
           \/ /\ monitor.bus # 0 /\ monitor'.bus = monitor.bus
              /\ monitor'.verified = id /\ ReaderNotified
  BY <1>1, <1>5 DEF ResumeMonitoring
<1> QED BY <1>6, <1>7, <1>8, <1>9, <1>10 DEF GateCloses

ReaderWaits(stage) ==
    reader'.stage = stage /\ reader'.session = reader.session

LEMMA ReaderMoves ==
    ASSUME MonitorTypes, Listens
    PROVE  \/ /\ GateOpen /\ reader.stage = "check"
              /\ ReaderWaits("send") /\ reader'.bus = monitor.bus
           \/ ReaderWaits("listen") /\ reader'.bus = reader.bus /\ reader.stage = "check"
           \/ ReaderWaits("recheck") /\ reader'.bus = reader.bus /\ reader.stage = "listen"
           \/ /\ ReaderWaits("check") /\ reader'.bus \in {reader.bus, 0}
              /\ reader.stage \in {"recheck", "waiting", "send"}
           \/ /\ ReaderWaits("waiting") /\ reader'.bus = reader.bus /\ ~GateOpen
              /\ reader.stage = "recheck"
<1>1. /\ reader \in [stage : {"none", "check", "send", "listen", "recheck", "waiting"},
                     session : Nat, bus : Nat, woken : BOOLEAN]
      /\ monitor.bus \in Nat
  BY DEF MonitorTypes
<1>2. CASE ReaderChecks
  BY <1>1, <1>2 DEF ReaderChecks, ReaderWaits
<1>3. CASE ReaderListens
  BY <1>1, <1>3 DEF ReaderListens, ReaderWaits
<1>4. CASE ReaderRechecks
  BY <1>1, <1>4 DEF ReaderRechecks, ReaderWaits
<1>5. CASE ReaderWakes
  BY <1>1, <1>5 DEF ReaderWakes, ReaderWaits
<1>6. CASE ReaderReads
  BY <1>1, <1>6 DEF ReaderReads, ReaderWaits
<1> QED BY <1>2, <1>3, <1>4, <1>5, <1>6 DEF Listens

-----------------------------------------------------------------------------
(***************************************************************************)
(* Generations: no task is ahead of the runtime, and a port that is still  *)
(* being opened is told from every bus the gate and the read know.         *)
(***************************************************************************)
GenerationInv ==
    /\ runtime.bus <= runtime.generation
    /\ monitor.bus <= runtime.generation
    /\ reader.bus <= runtime.generation
    /\ \A o \in opens : o.generation \in 1 .. runtime.generation
    /\ \A t \in idents : t.generation <= runtime.generation
    /\ \A o \in opens : o.stage = "opening" =>
          /\ o.generation # monitor.bus /\ o.generation # reader.bus
          /\ \A p \in opens : p.generation = o.generation => p = o

LEMMA GenerationFrame ==
    ASSUME StepTypes, StepTypes', GenerationInv,
           runtime'.generation \in {runtime.generation, runtime.generation + 1},
           runtime'.bus \in {0, runtime.bus},
           monitor'.bus \in {0, monitor.bus},
           reader'.bus \in {0, reader.bus, monitor.bus},
           opens' \subseteq opens \/
              (/\ runtime'.generation = runtime.generation + 1
               /\ \E kind, typed :
                     opens' = opens \cup {OpenTask(runtime.generation + 1, kind, typed)}),
           \A t \in idents' : t \in idents \/ t.generation <= runtime.generation
    PROVE  GenerationInv'
<1>1. /\ runtime.generation \in Nat /\ runtime.bus \in Nat
      /\ monitor.bus \in Nat /\ reader.bus \in Nat
      /\ \A o \in opens : o.generation \in Nat
      /\ \A t \in idents' : t.generation \in Nat
  BY DEF StepTypes, MonitorTypes, Runtimes, OpenTasks, IdentifyTasks
<1> DEFINE g == runtime.generation
           G == runtime'.generation
<1>2. g \in Nat /\ G \in {g, g + 1}
  BY <1>1
<1>3. /\ runtime.bus <= g /\ monitor.bus <= g /\ reader.bus <= g
      /\ \A o \in opens : o.generation \in 1 .. g
      /\ \A t \in idents : t.generation <= g
      /\ \A o \in opens : o.stage = "opening" =>
            /\ o.generation # monitor.bus /\ o.generation # reader.bus
            /\ \A p \in opens : p.generation = o.generation => p = o
  BY DEF GenerationInv
<1>4. \A t \in idents' : t.generation <= g
  BY <1>3
<1>5. /\ runtime'.bus <= g /\ monitor'.bus <= g /\ reader'.bus <= g
      /\ monitor'.bus \in Nat /\ reader'.bus \in Nat /\ runtime'.bus \in Nat
  BY <1>1, <1>3
<1> HIDE DEF g, G
<1>6. /\ runtime'.bus <= G /\ monitor'.bus <= G /\ reader'.bus <= G
      /\ \A t \in idents' : t.generation <= G
  BY <1>1, <1>2, <1>4, <1>5
<1>7. \A o \in opens : o.generation \in 1 .. G
  BY <1>1, <1>2, <1>3
<1>8. CASE opens' \subseteq opens
  <2>1. \A o \in opens' : o.generation \in 1 .. G
    BY <1>7, <1>8
  <2>2. \A o \in opens' : o.stage = "opening" =>
            /\ o.generation # monitor'.bus /\ o.generation # reader'.bus
            /\ \A p \in opens' : p.generation = o.generation => p = o
    BY <1>3, <1>7, <1>8
  <2> QED BY <1>6, <2>1, <2>2 DEF GenerationInv, G
<1>9. CASE /\ G = g + 1
           /\ \E kind, typed :
                 opens' = opens \cup {OpenTask(g + 1, kind, typed)}
  <2>6. PICK kind, typed :
            opens' = opens \cup {OpenTask(g + 1, kind, typed)}
    BY <1>9
  <2> DEFINE n == OpenTask(g + 1, kind, typed)
  <2>1. opens' = opens \cup {n} /\ n.generation = g + 1
    BY <2>6 DEF OpenTask
  <2> HIDE DEF n
  <2>2. \A o \in opens : o.generation # g + 1
    BY <1>1, <1>2, <1>3
  <2>3. \A o \in opens' : o.generation \in 1 .. G
    BY <1>2, <1>7, <1>9, <2>1
  <2>4. g + 1 # monitor'.bus /\ g + 1 # reader'.bus /\ g + 1 # 0
    BY <1>2, <1>5
  <2>5. \A o \in opens' : o.stage = "opening" =>
            /\ o.generation # monitor'.bus /\ o.generation # reader'.bus
            /\ \A p \in opens' : p.generation = o.generation => p = o
    <3>1. TAKE o \in opens'
    <3>2. HAVE o.stage = "opening"
    <3>3. CASE o = n
      BY <2>1, <2>2, <2>4, <3>3
    <3>4. CASE o \in opens
      BY <1>3, <1>7, <2>1, <2>2, <3>2, <3>4
    <3> QED BY <2>1, <3>3, <3>4
  <2> QED BY <1>6, <2>3, <2>5 DEF GenerationInv, G
<1> QED BY <1>8, <1>9 DEF g, G

LEMMA GenerationStep ==
    ASSUME Shaped(session), ConnectionTypeOK, GenerationInv, Step
    PROVE  GenerationInv'
<1>1. StepTypes /\ StepTypes' /\ MonitorTypes
  BY TypesSplit, StepTypesStep DEF StepTypes
<1>2. /\ runtime.generation \in Nat /\ runtime.bus \in Nat /\ pending \in Nat
      /\ session.id \in Nat /\ monitor.bus \in Nat /\ reader.bus \in Nat
  BY <1>1 DEF StepTypes, MonitorTypes, Runtimes, Shaped, Sessions
<1>3. CASE Idles
  BY <1>1, <1>3, GenerationFrame DEF Idles
<1>4. CASE Shuts \/ Loses \/ Discards
  <2>1. GateCloses /\ PortShut /\ UNCHANGED <<opens, idents>>
    BY <1>4 DEF Shuts, Loses, Discards, GateCloses
  <2>2. monitor'.bus = 0 /\ reader'.bus \in {0, reader.bus}
    BY <1>1, <2>1, GateMoves DEF ReaderNotified, ReaderGone
  <2> QED BY <1>1, <2>1, <2>2, GenerationFrame DEF PortShut
<1>5. CASE Retries
  <2>1. /\ runtime'.bus = runtime.bus /\ UNCHANGED <<monitor, reader, idents>>
        /\ \/ /\ runtime'.generation = runtime.generation + 1
              /\ opens' = opens \cup {OpenTask(runtime.generation + 1, "Reconnect", manual)}
           \/ runtime'.generation = runtime.generation /\ UNCHANGED opens
    BY <1>5 DEF Retries
  <2> QED BY <1>1, <2>1, GenerationFrame
<1>6. CASE Joins \/ Rejoins
  <2>1. /\ UNCHANGED <<runtime, opens, idents>>
        /\ StartMonitoring(pending) \/ ResumeMonitoring(session.id)
    BY <1>6 DEF Joins, Rejoins
  <2>2. monitor'.bus = monitor.bus /\ reader'.bus \in {0, reader.bus}
    BY <1>1, <1>2, <2>1, GateMoves DEF ReaderNotified, ReaderGone
  <2> QED BY <1>1, <2>1, <2>2, GenerationFrame
<1>7. CASE FailsToOpen
  BY <1>1, <1>7, GenerationFrame DEF FailsToOpen
<1>8. CASE Identifies
  <2>1. UNCHANGED <<runtime, opens, monitor, reader>> /\ inbox # <<>>
    BY <1>8 DEF Identifies
  <2>2. \A t \in idents' : t \in idents \/ t.generation <= runtime.generation
    <3>1. PICK kind \in Kinds : Identify(kind)
      BY <1>8 DEF Identifies, Kinds
    <3> QED BY <1>2, <2>1, <3>1, IdentifyQueues
  <2> QED BY <1>1, <2>1, <2>2, GenerationFrame
<1>9. CASE UserConnects
  <2>1. /\ runtime'.generation = runtime.generation + 1 /\ runtime'.bus = runtime.bus
        /\ UNCHANGED <<monitor, reader, idents>>
        /\ opens' = opens \cup {OpenTask(runtime.generation + 1, "Initial", manual')}
    BY <1>1, <1>9 DEF UserConnects, StepTypes, Runtimes
  <2> QED BY <1>1, <2>1, GenerationFrame
<1>10. CASE \E o \in opens : Accepted(o) \/ Published(o)
  <2>1. PICK o \in opens : Accepted(o) \/ Published(o)
    BY <1>10
  <2>2. o \in OpenTasks /\ o.generation \in 1 .. runtime.generation
        /\ (o.stage = "opening" => \A p \in opens : p.generation = o.generation => p = o)
    BY <1>1 DEF StepTypes, GenerationInv
  <2>3. PICK n : /\ opens' = (opens \ {o}) \cup {n}
                 /\ n.generation = o.generation /\ n.stage # "opening"
    <3>1. /\ [o EXCEPT !.stage = "accepted"].generation = o.generation
          /\ [o EXCEPT !.stage = "accepted"].stage = "accepted"
          /\ [o EXCEPT !.stage = "published"].generation = o.generation
          /\ [o EXCEPT !.stage = "published"].stage = "published"
      BY <2>2 DEF OpenTasks
    <3> QED BY <2>1, <3>1 DEF Accepted, Published
  <2>4. /\ runtime'.generation = runtime.generation
        /\ runtime'.bus \in {runtime.bus, o.generation}
        /\ monitor'.bus = monitor.bus \/ (monitor'.bus = o.generation /\ o.stage # "opening")
        /\ reader'.bus = reader.bus /\ UNCHANGED idents
    BY <1>1, <2>1, <2>2, GateMoves
       DEF Accepted, Published, ReaderNotified, StepTypes, Runtimes
  <2>5. \A p \in opens : p.stage = "opening" /\ p # o => p.generation # o.generation
    BY DEF GenerationInv
  <2> QED BY <1>2, <2>2, <2>3, <2>4, <2>5 DEF GenerationInv
<1>11. CASE \E o \in opens : Withdrawn(o) \/ AttemptFailed(o) \/ Announced(o)
  BY <1>1, <1>11, GenerationFrame DEF Withdrawn, AttemptFailed, Announced
<1>12. CASE \E t \in idents : Verified(t) \/ Reported(t)
  <2>1. PICK t \in idents : Verified(t) \/ Reported(t)
    BY <1>12
  <2>2. UNCHANGED <<runtime, opens, monitor, reader>>
    BY <2>1 DEF Verified, Reported
  <2>3. \A u \in idents' : u \in idents \/ u.generation <= runtime.generation
    <3>1. t \in IdentifyTasks /\ t.generation <= runtime.generation
      BY <1>1 DEF StepTypes, GenerationInv
    <3>2. \A d : [t EXCEPT !.done = TRUE, !.verified = d].generation = t.generation
      BY <3>1 DEF IdentifyTasks
    <3> QED BY <2>1, <3>1, <3>2 DEF Verified, Reported
  <2> QED BY <1>1, <2>2, <2>3, GenerationFrame
<1>13. CASE Listens
  <2>1. reader'.bus \in {0, reader.bus, monitor.bus} /\ UNCHANGED <<runtime, opens, monitor, idents>>
    BY <1>1, <1>13, ReaderMoves DEF Listens
  <2> QED BY <1>1, <2>1, GenerationFrame
<1>14. CASE Notes \/ Woken \/ Waits
  <2>1. UNCHANGED <<runtime, opens, monitor, reader, idents>>
    BY <1>14 DEF Notes, Woken, Waits
  <2> QED BY <1>1, <2>1, GenerationFrame
<1> QED BY <1>3, <1>4, <1>5, <1>6, <1>7, <1>8, <1>9, <1>10, <1>11, <1>12, <1>13, <1>14
        DEF Step, TaskOutcome

-----------------------------------------------------------------------------
(***************************************************************************)
(* The parts of the inductive invariant.                                   *)
(***************************************************************************)
Ended ==
    session.phase \in {"Disconnected", "ShuttingDown"} \/ session.connectivity = "Faulted"

OpenUnderWay == \E o \in opens : o.stage = "opening" /\ Current(o)

TimerLive == timer # 0 /\ timer = runtime.reconnect

NoReal == \A i \in DOMAIN inbox : ~RealAt(i)

OpenFailing == \E i \in DOMAIN inbox : FailedAt(i)

IdentsOnBus == \A t \in idents : Current(t) => t.bus = runtime.bus /\ runtime.bus # 0

\* A port is being opened only when none is open and no verdict is due.
ClosedInv ==
    /\ Ended => runtime.bus = 0 /\ ~OpenUnderWay
    /\ OpenUnderWay => runtime.bus = 0 /\ NoReal
    /\ Connecting /\ OpenFailing => runtime.bus = 0 /\ ~OpenUnderWay
    /\ IdentsOnBus
    /\ Connecting => pending # 0

\* The timer last set is the only one that can be due, and only while the
\* port is closed and no verdict was sent after it.
TimerInv ==
    /\ timer \in {0, retryAt} /\ retryAt <= runtime.reconnect
    /\ \A i \in DOMAIN inbox :
          inbox[i].type = "ReconnectTimerElapsed" => inbox[i].stamp <= retryAt
    /\ timer # 0 => \A i \in DOMAIN inbox : ~DueAt(i)
    /\ \A i, j \in DOMAIN inbox : DueAt(i) /\ DueAt(j) => i = j
    /\ TimerLive => IsActive(session) /\ runtime.bus = 0 /\ ~OpenUnderWay
    /\ \A i \in DOMAIN inbox : DueAt(i) =>
          /\ runtime.bus = 0 /\ ~OpenUnderWay
          /\ \A j \in DOMAIN inbox : j > i => ~RealAt(j)

InitialTask(t) == Current(t) /\ t.kind = "Initial"

\* An initial attempt is identified once, while the session waits for it.
VerdictInv ==
    /\ NoStaleVerdict
    /\ session.phase = "Identifying" =>
          \A i, j \in DOMAIN inbox : InitialAt(i) /\ InitialAt(j) => i = j
    /\ \A t \in idents : InitialTask(t) =>
          /\ session.phase = "Identifying"
          /\ \A i \in DOMAIN inbox : ~InitialAt(i)
          /\ \A u \in idents : InitialTask(u) => u = t

FlowHolds ==
    /\ ConnectionTypeOK /\ Shaped(session)
    /\ GenerationInv /\ ClosedInv /\ TimerInv /\ VerdictInv

LEMMA FlowTypes ==
    ASSUME FlowHolds, Step
    PROVE  /\ StepTypes /\ StepTypes' /\ MonitorTypes
           /\ Shaped(session) /\ Shaped(session') /\ GenerationInv'
           /\ runtime.generation \in Nat /\ runtime.bus \in Nat /\ runtime.reconnect \in Nat
           /\ runtime'.generation \in Nat /\ runtime'.bus \in Nat /\ runtime'.reconnect \in Nat
           /\ retryAt \in Nat /\ timer \in Nat /\ Len(inbox) \in Nat
<1>1. Shaped(session) /\ ConnectionTypeOK /\ GenerationInv
  BY DEF FlowHolds
<1>2. StepTypes
  BY <1>1, TypesSplit
<1>3. Shaped(session') /\ StepTypes'
  BY <1>1, StepTypesStep
<1>4. GenerationInv'
  BY <1>1, GenerationStep
<1>5. /\ MonitorTypes /\ retryAt \in Nat /\ timer \in Nat /\ Len(inbox) \in Nat
      /\ runtime.generation \in Nat /\ runtime.bus \in Nat /\ runtime.reconnect \in Nat
  BY <1>2 DEF StepTypes, Runtimes
<1>6. runtime'.generation \in Nat /\ runtime'.bus \in Nat /\ runtime'.reconnect \in Nat
  BY <1>3 DEF StepTypes, Runtimes
<1> QED BY <1>1, <1>2, <1>3, <1>4, <1>5, <1>6

LEMMA NoneUnderWay ==
    ASSUME FlowHolds, Step, PortShut
    PROVE  /\ UNCHANGED opens => ~OpenUnderWay'
           /\ UNCHANGED idents => \A t \in idents' : ~Current(t)'
<1>1. /\ runtime'.generation = runtime.generation + 1 /\ runtime.generation \in Nat
      /\ \A o \in opens : o.generation \in 1 .. runtime.generation
      /\ \A t \in idents : t.generation \in Nat /\ t.generation <= runtime.generation
  BY FlowTypes DEF PortShut, FlowHolds, GenerationInv, StepTypes, IdentifyTasks
<1>2. /\ \A o \in opens : o.generation # runtime'.generation
      /\ \A t \in idents : t.generation # runtime'.generation
  BY <1>1
<1> QED BY <1>2 DEF OpenUnderWay, Current

\* What is left in the inbox was there.
LEMMA DropsShift ==
    ASSUME NEW d \in {0, 1}, Drops(d)
    PROVE  /\ \A i \in DOMAIN inbox' :
                 /\ i + d \in DOMAIN inbox
                 /\ RealAt(i)' <=> RealAt(i + d)
                 /\ InitialAt(i)' <=> InitialAt(i + d)
                 /\ FailedAt(i)' <=> FailedAt(i + d)
                 /\ UNCHANGED retryAt => (DueAt(i)' <=> DueAt(i + d))
                 /\ i \in Nat
           /\ NoReal => NoReal'
           /\ OpenFailing' => OpenFailing
<1>1. \A i \in DOMAIN inbox' : i + d \in DOMAIN inbox /\ inbox'[i] = inbox[i + d]
  BY DEF Drops
<1>2. \A i \in DOMAIN inbox' :
          /\ i + d \in DOMAIN inbox
          /\ RealAt(i)' <=> RealAt(i + d)
          /\ InitialAt(i)' <=> InitialAt(i + d)
          /\ FailedAt(i)' <=> FailedAt(i + d)
          /\ UNCHANGED retryAt => (DueAt(i)' <=> DueAt(i + d))
  BY <1>1 DEF RealAt, InitialAt, VerdictAt, FailedAt, DueAt
<1>3. \A i \in DOMAIN inbox' : i \in Nat
  BY DEF Drops
<1> QED BY <1>2, <1>3 DEF NoReal, OpenFailing

LEMMA QueuesShift ==
    ASSUME NEW d \in {0, 1}, NEW m, Queues(d, m), inbox \in Seq(Messages)
    PROVE  /\ \A i \in DOMAIN inbox' :
                 \/ /\ i + d \in DOMAIN inbox
                    /\ RealAt(i)' <=> RealAt(i + d)
                    /\ InitialAt(i)' <=> InitialAt(i + d)
                    /\ FailedAt(i)' <=> FailedAt(i + d)
                    /\ UNCHANGED retryAt => (DueAt(i)' <=> DueAt(i + d))
                 \/ i = Len(inbox) + 1 - d /\ inbox'[i] = m
           /\ \A i \in DOMAIN inbox' : i \in Nat
<1>1. \A i \in DOMAIN inbox' :
          \/ i + d \in DOMAIN inbox /\ inbox'[i] = inbox[i + d]
          \/ i = Len(inbox) + 1 - d /\ inbox'[i] = m
  BY DEF Queues
<1>2. \A i \in DOMAIN inbox' :
          \/ /\ i + d \in DOMAIN inbox
             /\ RealAt(i)' <=> RealAt(i + d)
             /\ InitialAt(i)' <=> InitialAt(i + d)
             /\ FailedAt(i)' <=> FailedAt(i + d)
             /\ UNCHANGED retryAt => (DueAt(i)' <=> DueAt(i + d))
          \/ i = Len(inbox) + 1 - d /\ inbox'[i] = m
  BY <1>1 DEF RealAt, InitialAt, VerdictAt, FailedAt, DueAt
<1>3. \A i \in DOMAIN inbox' : i \in Nat
  BY DEF Queues
<1> QED BY <1>2, <1>3

\* A message that is not a real verdict and fails no initial open.
LEMMA QueuesQuietly ==
    ASSUME NEW d \in {0, 1}, NEW m, Queues(d, m), inbox \in Seq(Messages),
           ~(m.type = "IdentificationFinished" /\ m.verified # NoDevice)
    PROVE  /\ NoReal => NoReal'
           /\ ~(m.type = "PortOpenFailed" /\ m.kind = "Initial")
                => (OpenFailing' => OpenFailing)
<1>1. \A i \in DOMAIN inbox' :
          RealAt(i)' => i + d \in DOMAIN inbox /\ RealAt(i + d)
  BY QueuesShift DEF RealAt, VerdictAt
<1>2. ~(m.type = "PortOpenFailed" /\ m.kind = "Initial") =>
          \A i \in DOMAIN inbox' :
              FailedAt(i)' => i + d \in DOMAIN inbox /\ FailedAt(i + d)
  BY QueuesShift DEF FailedAt
<1> QED BY <1>1, <1>2 DEF NoReal, OpenFailing

-----------------------------------------------------------------------------
LEMMA ClosedFrame ==
    ASSUME FlowHolds,
           runtime'.generation = runtime.generation, runtime'.bus = runtime.bus,
           OpenUnderWay' => OpenUnderWay,
           Ended' => Ended,
           NoReal => NoReal',
           Connecting' => Connecting /\ pending' = pending,
           OpenFailing' => OpenFailing,
           IdentsOnBus'
    PROVE  ClosedInv'
BY DEF FlowHolds, ClosedInv

LEMMA ClosedStep == ASSUME FlowHolds, Step PROVE ClosedInv'
<1>1. /\ ClosedInv /\ TimerInv /\ VerdictInv /\ GenerationInv /\ inbox \in Seq(Messages)
      /\ StepTypes /\ Shaped(session) /\ Shaped(session') /\ IdentsOnBus
  BY FlowTypes DEF FlowHolds, StepTypes, ClosedInv
<1>2. CASE Idles
  <2>1. PICK d \in {0, 1} : Drops(d)
    BY <1>2 DEF Idles
  <2>2. UNCHANGED <<session, runtime, opens, idents>> /\ (Connecting => pending' = pending)
    BY <1>2 DEF Idles
  <2>3. /\ OpenUnderWay' <=> OpenUnderWay
        /\ Ended' <=> Ended
        /\ Connecting' <=> Connecting
        /\ IdentsOnBus'
    BY <1>1, <2>2 DEF OpenUnderWay, Current, Ended, Connecting, IdentsOnBus
  <2> QED BY <2>1, <2>2, <2>3, DropsShift, ClosedFrame
<1>3. CASE Shuts \/ Loses \/ Discards
  <2>1. PortShut /\ UNCHANGED <<opens, idents>>
    BY <1>3 DEF Shuts, Loses, Discards
  <2>2. runtime'.bus = 0 /\ ~OpenUnderWay' /\ IdentsOnBus'
    BY <2>1, NoneUnderWay DEF PortShut, IdentsOnBus
  <2>3. ~Connecting'
    <3>1. CASE Shuts \/ Loses
      BY <3>1 DEF Shuts, Loses, Lost, IsActive, Connecting
    <3>2. CASE Discards
      <4>1. 1 \in DOMAIN inbox /\ InitialAt(1) /\ UNCHANGED session
        BY <3>2 DEF Discards, Drops
      <4> QED BY <1>1, <4>1 DEF VerdictInv, NoStaleVerdict, Connecting
    <3> QED BY <1>3, <3>1, <3>2
  <2> QED BY <2>2, <2>3 DEF ClosedInv
<1>4. CASE Retries
  <2>1. /\ 1 \in DOMAIN inbox /\ DueAt(1) /\ Drops(1) /\ runtime'.bus = runtime.bus
        /\ Lost' /\ UNCHANGED idents
    BY <1>4 DEF Retries, Drops
  <2>2. runtime.bus = 0 /\ \A j \in DOMAIN inbox : j > 1 => ~RealAt(j)
    BY <1>1, <2>1 DEF TimerInv
  <2>3. NoReal'
    <3>1. \A i \in DOMAIN inbox' : i + 1 > 1 /\ i + 1 \in DOMAIN inbox
                                   /\ (RealAt(i)' <=> RealAt(i + 1))
      BY <2>1, DropsShift DEF Drops
    <3> QED BY <2>2, <3>1 DEF NoReal
  <2>4. ~Ended' /\ ~Connecting'
    BY <2>1 DEF Lost, Ended, Reconnecting, IsActive, Connecting
  <2>5. IdentsOnBus'
    <3>1. \A t \in idents : t.generation \in Nat /\ t.generation <= runtime.generation
                            /\ ~Current(t)
      BY <1>1, <2>2 DEF IdentsOnBus, StepTypes, IdentifyTasks, GenerationInv
    <3>2. runtime.generation \in Nat
      BY FlowTypes
    <3>3. runtime'.generation \in {runtime.generation, runtime.generation + 1}
      BY <1>4 DEF Retries
    <3>4. \A t \in idents : t.generation # runtime'.generation
      BY <3>1, <3>2, <3>3 DEF Current
    <3> QED BY <2>1, <3>4 DEF IdentsOnBus, Current
  <2> QED BY <2>1, <2>2, <2>3, <2>4, <2>5 DEF ClosedInv
<1>5. CASE Joins \/ Rejoins
  <2>1. Drops(1) /\ UNCHANGED <<runtime, opens, idents>>
    BY <1>5 DEF Joins, Rejoins
  <2>2. session'.phase = "Active" /\ session'.connectivity = "Connected"
    BY <1>5 DEF Joins, Rejoins, ActiveSession, IsActive
  <2>3. /\ OpenUnderWay' <=> OpenUnderWay
        /\ ~Ended' /\ ~Connecting'
        /\ IdentsOnBus'
    BY <1>1, <2>1, <2>2 DEF OpenUnderWay, Current, Ended, Connecting, IdentsOnBus
  <2> QED BY <2>1, <2>3, DropsShift, ClosedFrame
<1>6. CASE FailsToOpen
  <2>1. Drops(1) /\ UNCHANGED <<runtime, opens, idents>> /\ Connecting /\ OpenFailing
        /\ session'.phase = "Disconnected"
    BY <1>6 DEF FailsToOpen, Drops, OpenFailing, NewSession, Inactive
  <2>2. runtime'.bus = 0 /\ ~OpenUnderWay' /\ ~Connecting' /\ IdentsOnBus'
    BY <1>1, <2>1 DEF ClosedInv, OpenUnderWay, Current, Connecting, IdentsOnBus
  <2> QED BY <2>2 DEF ClosedInv
<1>7. CASE Identifies
  <2>1. PICK kind \in Kinds : Identify(kind)
    BY <1>7 DEF Identifies, Kinds
  <2>2. /\ inbox # <<>> /\ UNCHANGED <<runtime, opens>>
        /\ ~Ended' \/ UNCHANGED session
        /\ ~Connecting'
    <3>1. CASE session' = Inactive("Identifying")
      BY <1>7, <3>1 DEF Identifies, Inactive, Ended, Connecting
    <3>2. CASE Lost /\ UNCHANGED session
      BY <1>7, <3>2 DEF Identifies, Lost, IsActive, Connecting
    <3> QED BY <1>7, <3>1, <3>2 DEF Identifies
  <2>3. /\ OpenUnderWay' <=> OpenUnderWay
        /\ Ended' => Ended
    BY <2>2 DEF OpenUnderWay, Current, Ended
  <2>4. /\ NoReal => NoReal'
        /\ OpenFailing' => OpenFailing
        /\ IdentsOnBus'
    <3>1. CASE runtime.bus = 0 /\ Queues(1, Finished(kind, NoDevice)) /\ UNCHANGED idents
      <4>1. /\ Finished(kind, NoDevice).type = "IdentificationFinished"
            /\ Finished(kind, NoDevice).verified = NoDevice
        BY DEF Finished
      <4>2. NoReal => NoReal'
        BY <1>1, <3>1, <4>1, QueuesQuietly
      <4>3. OpenFailing' => OpenFailing
        BY <1>1, <3>1, <4>1, QueuesQuietly
      <4>4. IdentsOnBus'
        BY <1>1, <2>2, <3>1 DEF IdentsOnBus, Current
      <4> QED BY <4>2, <4>3, <4>4
    <3>2. CASE /\ runtime.bus # 0 /\ Drops(1)
               /\ idents' = idents \cup
                     {[generation |-> runtime.generation, kind |-> kind,
                       bus |-> runtime.bus, done |-> FALSE, verified |-> NoDevice]}
      <4>1. IdentsOnBus'
        BY <1>1, <2>2, <3>2 DEF IdentsOnBus, Current
      <4> QED BY <3>2, <4>1, DropsShift
    <3> QED BY <2>1, <2>2, <3>1, <3>2, IdentifyQueues DEF FlowHolds
  <2> QED BY <2>2, <2>3, <2>4, ClosedFrame
<1>8. CASE UserConnects
  <2>1. /\ session.phase = "Disconnected" /\ inbox = <<>> /\ inbox' = <<>>
        /\ pending' = lastId + 1 /\ lastId \in Nat /\ UNCHANGED idents
        /\ runtime'.generation = runtime.generation + 1 /\ runtime'.bus = runtime.bus
    BY <1>1, <1>8 DEF UserConnects, StepTypes, Runtimes, FlowHolds, ConnectionTypeOK
  <2>2. runtime'.bus = 0
    BY <1>1, <2>1 DEF ClosedInv, Ended
  <2>3. session'.phase = "Connecting" /\ session'.connectivity = "None"
    BY <1>8 DEF UserConnects, Reduce, Input, Inactive
  <2>4. IdentsOnBus'
    <3>1. \A t \in idents : t.generation \in Nat /\ t.generation <= runtime.generation
      BY <1>1 DEF StepTypes, IdentifyTasks, GenerationInv
    <3>2. runtime.generation \in Nat
      BY FlowTypes
    <3>3. \A t \in idents : t.generation # runtime'.generation
      BY <2>1, <3>1, <3>2
    <3> QED BY <2>1, <3>3 DEF IdentsOnBus, Current
  <2>5. ~Ended' /\ ~OpenFailing' /\ NoReal' /\ pending' # 0
    BY <2>1, <2>3 DEF Ended, OpenFailing, NoReal
  <2> QED BY <2>2, <2>4, <2>5 DEF ClosedInv
<1>9. CASE \E o \in opens : Accepted(o)
  <2>1. PICK o \in opens : Accepted(o)
    BY <1>9
  <2>2. /\ o.stage = "opening" /\ Current(o) /\ OpenUnderWay
        /\ UNCHANGED <<session, pending, inbox, idents>>
        /\ o \in OpenTasks /\ o.generation = runtime.generation
        /\ runtime'.generation = runtime.generation
    BY <1>1, <2>1 DEF Accepted, OpenUnderWay, StepTypes, Runtimes, Current
  <2>3. runtime.bus = 0 /\ NoReal /\ ~Ended /\ ~(Connecting /\ OpenFailing)
    BY <1>1, <2>2 DEF ClosedInv
  <2>4. \A p \in opens : p.stage = "opening" /\ p.generation = o.generation => p = o
    BY <1>1, <2>2 DEF GenerationInv
  <2>5. [o EXCEPT !.stage = "accepted"].stage = "accepted"
    BY <2>2 DEF OpenTasks
  <2>6. ~OpenUnderWay'
    BY <2>1, <2>2, <2>4, <2>5 DEF Accepted, OpenUnderWay, Current
  <2>7. IdentsOnBus'
    BY <1>1, <2>2, <2>3 DEF IdentsOnBus, Current
  <2>8. ~Ended' /\ ~(Connecting /\ OpenFailing)' /\ (Connecting' => pending' # 0)
    BY <1>1, <2>2, <2>3 DEF Ended, Connecting, OpenFailing, FailedAt, ClosedInv
  <2> QED BY <2>6, <2>7, <2>8 DEF ClosedInv
<1>10. CASE \E o \in opens : AttemptFailed(o)
  <2>1. PICK o \in opens : AttemptFailed(o)
    BY <1>10
  <2> DEFINE m == [type |-> "PortOpenFailed", kind |-> o.kind]
  <2>2. /\ o.stage = "opening" /\ Current(o) /\ OpenUnderWay
        /\ UNCHANGED <<session, pending, runtime, idents>> /\ Queues(0, m)
        /\ opens' = opens \ {o} /\ m.type = "PortOpenFailed"
    BY <2>1 DEF AttemptFailed, OpenUnderWay
  <2> HIDE DEF m
  <2>3. runtime.bus = 0 /\ NoReal /\ ~Ended
    BY <1>1, <2>2 DEF ClosedInv
  <2>4. \A p \in opens : p.stage = "opening" /\ p.generation = o.generation => p = o
    BY <1>1, <2>2 DEF GenerationInv
  <2>5. ~OpenUnderWay'
    BY <2>2, <2>4 DEF OpenUnderWay, Current
  <2>6. IdentsOnBus' /\ ~Ended' /\ (Connecting' => pending' # 0)
    BY <1>1, <2>2, <2>3 DEF IdentsOnBus, Current, Ended, Connecting, ClosedInv
  <2> QED BY <2>2, <2>3, <2>5, <2>6 DEF ClosedInv
<1>11. CASE \E o \in opens : Withdrawn(o) \/ Published(o) \/ Announced(o)
  <2>1. PICK o \in opens : Withdrawn(o) \/ Published(o) \/ Announced(o)
    BY <1>11
  <2>2. /\ UNCHANGED <<session, pending, runtime, idents>> /\ o \in OpenTasks
        /\ o.kind \in Kinds
    BY <1>1, <2>1 DEF Withdrawn, Published, Announced, StepTypes, OpenTasks
  <2>3. [o EXCEPT !.stage = "published"].stage = "published"
    BY <2>2 DEF OpenTasks
  <2>4. OpenUnderWay' => OpenUnderWay
    BY <2>1, <2>2, <2>3 DEF OpenUnderWay, Current, Withdrawn, Published, Announced
  <2>5. /\ Ended' <=> Ended
        /\ Connecting' <=> Connecting
        /\ IdentsOnBus'
    BY <1>1, <2>2 DEF Ended, Connecting, IdentsOnBus, Current
  <2>6. /\ NoReal => NoReal'
        /\ OpenFailing' => OpenFailing
    <3>1. CASE UNCHANGED inbox
      BY <3>1, InboxTaken, DropsShift, <1>1
    <3>2. CASE Announced(o)
      <4> DEFINE m == [type |-> "PortOpened", kind |-> o.kind]
      <4>1. Queues(0, m) /\ m.type = "PortOpened"
        BY <3>2 DEF Announced
      <4> HIDE DEF m
      <4> QED BY <1>1, <4>1, QueuesQuietly
    <3> QED BY <2>1, <3>1, <3>2 DEF Withdrawn, Published
  <2> QED BY <2>2, <2>4, <2>5, <2>6, ClosedFrame
<1>12. CASE \E t \in idents : Verified(t) \/ Reported(t)
  <2>1. PICK t \in idents : Verified(t) \/ Reported(t)
    BY <1>12
  <2>2. /\ UNCHANGED <<session, pending, runtime, opens>> /\ t \in IdentifyTasks
    BY <1>1, <2>1 DEF Verified, Reported, StepTypes
  <2>3. \A d : /\ [t EXCEPT !.done = TRUE, !.verified = d].generation = t.generation
               /\ [t EXCEPT !.done = TRUE, !.verified = d].bus = t.bus
    BY <2>2 DEF IdentifyTasks
  <2>4. IdentsOnBus'
    BY <1>1, <2>1, <2>2, <2>3 DEF IdentsOnBus, Current, Verified, Reported
  <2>5. /\ OpenUnderWay' <=> OpenUnderWay
        /\ Ended' <=> Ended
        /\ Connecting' <=> Connecting
    BY <2>2 DEF Ended, Connecting, OpenUnderWay, Current
  <2>6. CASE UNCHANGED inbox
    BY <1>1, <2>2, <2>4, <2>5, <2>6, InboxTaken, DropsShift, ClosedFrame
  <2>7. CASE Current(t) /\ Queues(0, Finished(t.kind, t.verified))
    <3>1. runtime.bus # 0 /\ ~OpenUnderWay /\ ~Ended /\ ~(Connecting /\ OpenFailing)
      BY <1>1, <2>7 DEF IdentsOnBus, ClosedInv
    <3> DEFINE m == Finished(t.kind, t.verified)
    <3>2. m.type = "IdentificationFinished"
      BY DEF Finished
    <3> HIDE DEF m
    <3>3. \A i \in DOMAIN inbox' : FailedAt(i)' => i + 0 \in DOMAIN inbox /\ FailedAt(i + 0)
      BY <1>1, <2>7, <3>2, QueuesShift DEF FailedAt, m
    <3>4. OpenFailing' => OpenFailing
      BY <3>3 DEF OpenFailing
    <3> QED BY <1>1, <2>2, <2>4, <2>5, <3>1, <3>4 DEF ClosedInv
  <2> QED BY <2>1, <2>6, <2>7 DEF Verified, Reported
<1>13. CASE Notes \/ Woken \/ Listens \/ Waits
  <2>1. UNCHANGED <<session, pending, runtime, opens, idents>>
    BY <1>13 DEF Notes, Woken, Listens, Waits
  <2>2. /\ OpenUnderWay' <=> OpenUnderWay
        /\ Ended' <=> Ended
        /\ Connecting' <=> Connecting
        /\ IdentsOnBus'
    BY <1>1, <2>1 DEF Ended, Connecting, OpenUnderWay, Current, IdentsOnBus
  <2>3. /\ NoReal => NoReal'
        /\ OpenFailing' => OpenFailing
    <3>1. CASE UNCHANGED inbox
      BY <3>1, InboxTaken, DropsShift, <1>1
    <3>2. CASE Notes
      <4>1. PICK m : m.type \in {"PortsRefreshed", "TransportLost"} /\ Queues(0, m)
        BY <3>2 DEF Notes
      <4> QED BY <1>1, <4>1, QueuesQuietly
    <3>3. CASE Queues(0, [type |-> "ReconnectTimerElapsed", stamp |-> timer])
      <4> DEFINE m == [type |-> "ReconnectTimerElapsed", stamp |-> timer]
      <4>1. Queues(0, m) /\ m.type = "ReconnectTimerElapsed"
        BY <3>3
      <4> HIDE DEF m
      <4> QED BY <1>1, <4>1, QueuesQuietly
    <3> QED BY <1>13, <3>1, <3>2, <3>3 DEF Woken, Listens, Waits
  <2> QED BY <2>1, <2>2, <2>3, ClosedFrame
<1> QED BY <1>2, <1>3, <1>4, <1>5, <1>6, <1>7, <1>8, <1>9, <1>10, <1>11, <1>12, <1>13
        DEF Step, TaskOutcome

-----------------------------------------------------------------------------
DueClosed == runtime.bus = 0 /\ ~OpenUnderWay

\* What was taken, and a message that is neither a timer nor a real verdict
\* unless the port is open, leave the timer as it was.
LEMMA TimerFrame ==
    ASSUME FlowHolds, Step, NEW d \in {0, 1},
           Drops(d) \/ (\E m : /\ Queues(d, m) /\ m.type # "ReconnectTimerElapsed"
                               /\ m.type = "IdentificationFinished" /\ m.verified # NoDevice
                                     => runtime.bus # 0),
           runtime'.reconnect >= runtime.reconnect,
           UNCHANGED <<timer, retryAt>>,
           TimerLive' => IsActive(session') /\ DueClosed',
           (\E i \in DOMAIN inbox : DueAt(i)) => DueClosed'
    PROVE  TimerInv'
<1>1. /\ TimerInv /\ retryAt \in Nat /\ inbox \in Seq(Messages) /\ Len(inbox) \in Nat
      /\ runtime.reconnect \in Nat /\ runtime'.reconnect \in Nat
      /\ inbox' \in Seq(Messages)
  BY FlowTypes DEF FlowHolds, StepTypes
<1>2. retryAt' <= runtime'.reconnect /\ timer' \in {0, retryAt'}
  BY <1>1 DEF TimerInv
<1>3. \A i \in DOMAIN inbox' :
          /\ i \in Nat
          /\ DueAt(i)' => i + d \in DOMAIN inbox /\ DueAt(i + d)
          /\ inbox'[i].type = "ReconnectTimerElapsed" =>
                i + d \in DOMAIN inbox /\ inbox'[i] = inbox[i + d]
          /\ RealAt(i)' => \/ i + d \in DOMAIN inbox /\ RealAt(i + d)
                           \/ runtime.bus # 0
  <2>1. CASE Drops(d)
    BY <2>1, DropsShift DEF Drops
  <2>2. CASE \E m : /\ Queues(d, m) /\ m.type # "ReconnectTimerElapsed"
                    /\ m.type = "IdentificationFinished" /\ m.verified # NoDevice
                          => runtime.bus # 0
    <3>1. PICK m : /\ Queues(d, m) /\ m.type # "ReconnectTimerElapsed"
                   /\ m.type = "IdentificationFinished" /\ m.verified # NoDevice
                         => runtime.bus # 0
      BY <2>2
    <3>2. \A i \in DOMAIN inbox' :
              \/ i + d \in DOMAIN inbox /\ inbox'[i] = inbox[i + d]
              \/ inbox'[i] = m
      BY <3>1 DEF Queues
    <3> QED BY <1>1, <3>1, <3>2, QueuesShift DEF DueAt, RealAt, VerdictAt
  <2> QED BY <2>1, <2>2
<1>4. \A i \in DOMAIN inbox' :
          inbox'[i].type = "ReconnectTimerElapsed" => inbox'[i].stamp <= retryAt'
  BY <1>1, <1>3 DEF TimerInv
<1>5. timer' # 0 => \A i \in DOMAIN inbox' : ~DueAt(i)'
  BY <1>1, <1>3 DEF TimerInv
<1>6. \A i, j \in DOMAIN inbox' : DueAt(i)' /\ DueAt(j)' => i = j
  <2>1. \A i, j \in DOMAIN inbox' : i \in Nat /\ j \in Nat /\ (i + d = j + d => i = j)
    BY <1>3
  <2> QED BY <1>1, <1>3, <2>1 DEF TimerInv
<1>7. \A i \in DOMAIN inbox' : DueAt(i)' =>
          /\ DueClosed'
          /\ \A j \in DOMAIN inbox' : j > i => ~RealAt(j)'
  <2>1. TAKE i \in DOMAIN inbox'
  <2>2. HAVE DueAt(i)'
  <2>3. i + d \in DOMAIN inbox /\ DueAt(i + d)
    BY <1>3, <2>2
  <2>4. runtime.bus = 0 /\ \A j \in DOMAIN inbox : j > i + d => ~RealAt(j)
    BY <1>1, <2>3 DEF TimerInv
  <2>5. \A j \in DOMAIN inbox' : j > i => ~RealAt(j)'
    <3>1. \A j \in DOMAIN inbox' : j > i => j + d > i + d
      BY <1>3
    <3> QED BY <1>3, <2>4, <3>1
  <2> QED BY <2>3, <2>5
<1> QED BY <1>2, <1>4, <1>5, <1>6, <1>7 DEF TimerInv, DueClosed

LEMMA TimerStep == ASSUME FlowHolds, Step PROVE TimerInv'
<1>1. /\ ClosedInv /\ TimerInv /\ GenerationInv /\ inbox \in Seq(Messages)
      /\ StepTypes /\ Shaped(session) /\ Shaped(session')
      /\ runtime.reconnect \in Nat /\ retryAt \in Nat /\ timer \in Nat
      /\ runtime'.reconnect \in Nat
  BY FlowTypes DEF FlowHolds, StepTypes
<1>2. TimerLive \/ (\E i \in DOMAIN inbox : DueAt(i)) => DueClosed
  BY <1>1 DEF TimerInv, DueClosed
<1>3. ASSUME runtime'.bus = runtime.bus, runtime'.generation = runtime.generation,
             OpenUnderWay' => OpenUnderWay
      PROVE  DueClosed => DueClosed'
  BY <1>3 DEF DueClosed
<1>4. CASE Idles
  <2>1. PICK d \in {0, 1} : Drops(d)
    BY <1>4 DEF Idles
  <2>2. UNCHANGED <<session, runtime, opens, timer, retryAt>>
    BY <1>4 DEF Idles
  <2>3. /\ TimerLive' <=> TimerLive
        /\ DueClosed' <=> DueClosed
    BY <2>2 DEF TimerLive, DueClosed, OpenUnderWay, Current
  <2>4. TimerLive => IsActive(session')
    BY <1>1, <2>2 DEF TimerInv
  <2> QED BY <1>1, <1>2, <2>1, <2>2, <2>3, <2>4, TimerFrame
<1>5. CASE Shuts \/ Discards
  <2>1. PICK d \in {0, 1} : Drops(d)
    BY <1>5 DEF Shuts, Discards
  <2>2. PortShut /\ UNCHANGED <<opens, timer, retryAt>>
    BY <1>5 DEF Shuts, Discards
  <2>3. DueClosed'
    BY <2>2, NoneUnderWay DEF DueClosed, PortShut
  <2>4. runtime'.reconnect > runtime.reconnect /\ runtime'.reconnect >= runtime.reconnect
    BY <1>1, <2>2 DEF PortShut
  <2>5. ~TimerLive'
    BY <1>1, <2>2, <2>4 DEF TimerLive, TimerInv
  <2> QED BY <2>1, <2>2, <2>3, <2>4, <2>5, TimerFrame
<1>6. CASE Loses
  <2>1. PICK d \in {0, 1} : Drops(d)
    BY <1>6 DEF Loses
  <2>2. /\ PortShut /\ UNCHANGED opens
        /\ timer' = runtime'.reconnect /\ retryAt' = runtime'.reconnect
        /\ IsActive(session')
    BY <1>6 DEF Loses, Lost, IsActive
  <2>3. DueClosed'
    BY <2>2, NoneUnderWay DEF DueClosed, PortShut
  <2>4. runtime'.reconnect > retryAt
    BY <1>1, <2>2 DEF PortShut, TimerInv
  <2>5. \A i \in DOMAIN inbox' : inbox'[i].type = "ReconnectTimerElapsed" =>
            /\ inbox'[i].stamp \in Nat
            /\ inbox'[i].stamp <= retryAt
    <3>1. \A i \in DOMAIN inbox' : i + d \in DOMAIN inbox /\ inbox'[i] = inbox[i + d]
      BY <2>1 DEF Drops
    <3>2. \A j \in DOMAIN inbox : inbox[j].type = "ReconnectTimerElapsed" =>
              inbox[j].stamp <= retryAt /\ inbox[j].stamp \in Nat
      <4>1. \A j \in DOMAIN inbox : inbox[j] \in Messages
        BY <1>1
      <4> QED BY <1>1, <4>1 DEF TimerInv, Messages
    <3> QED BY <3>1, <3>2
  <2>6. \A i \in DOMAIN inbox' : inbox'[i].type = "ReconnectTimerElapsed" =>
            inbox'[i].stamp # retryAt' /\ inbox'[i].stamp <= retryAt'
    BY <1>1, <2>2, <2>4, <2>5
  <2>7. \A i \in DOMAIN inbox' : ~DueAt(i)'
    BY <2>6 DEF DueAt
  <2>8. retryAt' <= runtime'.reconnect
    BY <1>1, <2>2
  <2> QED BY <2>2, <2>3, <2>6, <2>7, <2>8 DEF TimerInv, DueClosed
<1>7. CASE Retries
  <2>1. /\ Drops(1) /\ 1 \in DOMAIN inbox /\ DueAt(1)
        /\ runtime'.reconnect = runtime.reconnect + 1
        /\ UNCHANGED <<timer, retryAt>>
    BY <1>7 DEF Retries, Drops
  <2>2. \A i \in DOMAIN inbox' : ~DueAt(i)'
    <3>1. \A i \in DOMAIN inbox' : i + 1 \in DOMAIN inbox /\ i + 1 # 1
                                   /\ (DueAt(i)' => DueAt(i + 1))
      BY <2>1, DropsShift DEF Drops
    <3> QED BY <1>1, <2>1, <3>1 DEF TimerInv
  <2>3. retryAt' <= runtime'.reconnect /\ timer' \in {0, retryAt'} /\ ~TimerLive'
    <3>1. retryAt <= runtime.reconnect /\ timer \in {0, retryAt}
      BY <1>1 DEF TimerInv
    <3>2. retryAt <= runtime.reconnect + 1 /\ retryAt # runtime.reconnect + 1
      BY <1>1, <3>1
    <3> QED BY <2>1, <3>1, <3>2 DEF TimerLive
  <2>4. \A i \in DOMAIN inbox' :
            inbox'[i].type = "ReconnectTimerElapsed" => inbox'[i].stamp <= retryAt'
    BY <1>1, <2>1 DEF TimerInv, Drops
  <2> QED BY <2>2, <2>3, <2>4 DEF TimerInv
<1>8. CASE Joins \/ Rejoins \/ FailsToOpen
  <2>1. Drops(1) /\ UNCHANGED <<runtime, opens, timer, retryAt>>
    BY <1>8 DEF Joins, Rejoins, FailsToOpen
  <2>2. /\ TimerLive' <=> TimerLive
        /\ DueClosed' <=> DueClosed
    BY <2>1 DEF TimerLive, DueClosed, OpenUnderWay, Current
  <2>3. TimerLive => IsActive(session')
    <3>1. TimerLive => IsActive(session)
      BY <1>1 DEF TimerInv
    <3>2. IsActive(session) => ~FailsToOpen
      BY DEF FailsToOpen, Connecting, IsActive
    <3>3. Joins \/ Rejoins => IsActive(session')
      BY DEF Joins, Rejoins, ActiveSession, IsActive
    <3> QED BY <1>8, <3>1, <3>2, <3>3
  <2> QED BY <1>1, <1>2, <2>1, <2>2, <2>3, TimerFrame
<1>9. CASE Identifies
  <2>1. PICK kind \in Kinds : Identify(kind)
    BY <1>9 DEF Identifies, Kinds
  <2>2. UNCHANGED <<runtime, opens, timer, retryAt>> /\ inbox # <<>>
    BY <1>9 DEF Identifies
  <2>3. /\ TimerLive' <=> TimerLive
        /\ DueClosed' <=> DueClosed
    BY <2>2 DEF TimerLive, DueClosed, OpenUnderWay, Current
  <2>4. TimerLive => IsActive(session')
    <3>1. TimerLive => session.phase = "Active"
      BY <1>1 DEF TimerInv, IsActive
    <3>2. session.phase = "Active" => UNCHANGED session
      BY <1>9 DEF Identifies, Connecting
    <3> QED BY <3>1, <3>2 DEF IsActive
  <2>5. Drops(1) \/ Queues(1, Finished(kind, NoDevice))
    BY <2>1, <2>2, IdentifyQueues DEF FlowHolds
  <2>6. /\ Finished(kind, NoDevice).type = "IdentificationFinished"
        /\ Finished(kind, NoDevice).verified = NoDevice
    BY DEF Finished
  <2>7. runtime'.reconnect >= runtime.reconnect
    BY <1>1, <2>2
  <2> QED BY <1>2, <2>2, <2>3, <2>4, <2>5, <2>6, <2>7, TimerFrame
<1>10. CASE UserConnects
  <2>1. /\ inbox' = <<>> /\ UNCHANGED <<timer, retryAt>>
        /\ runtime'.reconnect = runtime.reconnect /\ session.phase = "Disconnected"
    BY <1>1, <1>10 DEF UserConnects, StepTypes, Runtimes
  <2>2. ~TimerLive'
    BY <1>1, <2>1 DEF TimerLive, TimerInv, IsActive
  <2>3. retryAt' <= runtime'.reconnect /\ timer' \in {0, retryAt'}
    BY <1>1, <2>1 DEF TimerInv
  <2> QED BY <2>1, <2>2, <2>3 DEF TimerInv
<1>11. CASE \E o \in opens : Accepted(o)
  <2>1. PICK o \in opens : Accepted(o)
    BY <1>11
  <2>2. /\ OpenUnderWay /\ UNCHANGED <<inbox, timer, retryAt>>
        /\ runtime'.reconnect = runtime.reconnect
    BY <1>1, <2>1 DEF Accepted, OpenUnderWay, StepTypes, Runtimes
  <2>3. ~TimerLive /\ \A i \in DOMAIN inbox : ~DueAt(i)
    BY <1>1, <2>2 DEF TimerInv
  <2>4. ~TimerLive' /\ \A i \in DOMAIN inbox' : ~DueAt(i)'
    BY <2>2, <2>3 DEF TimerLive, DueAt
  <2> QED BY <1>1, <2>2, <2>4 DEF TimerInv
<1>12. CASE \E o \in opens : Withdrawn(o) \/ AttemptFailed(o) \/ Published(o) \/ Announced(o)
  <2>1. PICK o \in opens : Withdrawn(o) \/ AttemptFailed(o) \/ Published(o) \/ Announced(o)
    BY <1>12
  <2>2. /\ UNCHANGED <<session, runtime, timer, retryAt>> /\ o \in OpenTasks
    BY <1>1, <2>1 DEF Withdrawn, AttemptFailed, Published, Announced, StepTypes
  <2>3. [o EXCEPT !.stage = "published"].stage = "published"
    BY <2>2 DEF OpenTasks
  <2>4. OpenUnderWay' => OpenUnderWay
    BY <2>1, <2>2, <2>3 DEF OpenUnderWay, Current, Withdrawn, AttemptFailed, Published, Announced
  <2>5. /\ TimerLive' <=> TimerLive
        /\ DueClosed => DueClosed'
        /\ TimerLive => IsActive(session')
    BY <1>1, <2>2, <2>4 DEF TimerLive, DueClosed, TimerInv
  <2>6. Drops(0) \/ \E m : /\ Queues(0, m) /\ m.type \in {"PortOpenFailed", "PortOpened"}
    BY <1>1, <2>1, InboxTaken DEF Withdrawn, AttemptFailed, Published, Announced
  <2>7. runtime'.reconnect >= runtime.reconnect
    BY <1>1, <2>2
  <2> QED BY <1>2, <2>2, <2>5, <2>6, <2>7, TimerFrame
<1>13. CASE \E t \in idents : Verified(t) \/ Reported(t)
  <2>1. PICK t \in idents : Verified(t) \/ Reported(t)
    BY <1>13
  <2>2. /\ UNCHANGED <<session, runtime, opens, timer, retryAt>>
    BY <1>1, <2>1 DEF Verified, Reported
  <2>3. /\ TimerLive' <=> TimerLive
        /\ DueClosed => DueClosed'
        /\ TimerLive => IsActive(session')
    BY <1>1, <2>2 DEF TimerLive, DueClosed, TimerInv, OpenUnderWay, Current
  <2>4. \/ Drops(0)
        \/ Current(t) /\ Queues(0, Finished(t.kind, t.verified))
    BY <1>1, <2>1, InboxTaken DEF Verified, Reported
  <2>5. Current(t) => runtime.bus # 0
    BY <1>1 DEF ClosedInv, IdentsOnBus
  <2>6. Finished(t.kind, t.verified).type = "IdentificationFinished"
    BY DEF Finished
  <2>7. runtime'.reconnect >= runtime.reconnect
    BY <1>1, <2>2
  <2> QED BY <1>2, <2>2, <2>3, <2>4, <2>5, <2>6, <2>7, TimerFrame
<1>14. CASE Woken
  <2>1. UNCHANGED <<session, retryAt, runtime, opens>> /\ timer # 0 /\ timer' = 0
    BY <1>14 DEF Woken
  <2>2. timer = retryAt /\ \A i \in DOMAIN inbox : ~DueAt(i)
    BY <1>1, <2>1 DEF TimerInv
  <2>3. ~TimerLive' /\ timer' \in {0, retryAt'} /\ retryAt' <= runtime'.reconnect
    BY <1>1, <2>1 DEF TimerLive, TimerInv
  <2>4. CASE timer # runtime.reconnect /\ UNCHANGED inbox
    BY <1>1, <2>1, <2>2, <2>3, <2>4 DEF TimerInv, DueAt
  <2>5. CASE /\ timer = runtime.reconnect
             /\ Queues(0, [type |-> "ReconnectTimerElapsed", stamp |-> timer])
    <3> DEFINE m == [type |-> "ReconnectTimerElapsed", stamp |-> timer]
    <3>1. Queues(0, m) /\ m.type = "ReconnectTimerElapsed" /\ m.stamp = retryAt
      BY <2>2, <2>5
    <3>2. DueClosed'
      <4>1. TimerLive
        BY <2>1, <2>5 DEF TimerLive
      <4> QED BY <1>2, <2>1, <4>1 DEF DueClosed, OpenUnderWay, Current
    <3> HIDE DEF m
    <3>3. \A i \in DOMAIN inbox' :
             \/ i \in DOMAIN inbox /\ inbox'[i] = inbox[i] /\ ~DueAt(i)'
             \/ i = Len(inbox) + 1 /\ inbox'[i] = m
      <4>1. \A i \in DOMAIN inbox' : i \in Nat /\ i + 0 = i
        BY <3>1 DEF Queues
      <4>2. Len(inbox) + 1 - 0 = Len(inbox) + 1
        BY FlowTypes
      <4> QED BY <2>1, <2>2, <3>1, <4>1, <4>2 DEF Queues, DueAt
    <3>4. \A i \in DOMAIN inbox' : DueAt(i)' => i = Len(inbox) + 1
      BY <3>3
    <3>5. \A j \in DOMAIN inbox' : ~(j > Len(inbox) + 1)
      BY <3>3, <1>1
    <3>6. \A i \in DOMAIN inbox' :
              inbox'[i].type = "ReconnectTimerElapsed" => inbox'[i].stamp <= retryAt'
      BY <1>1, <2>1, <3>1, <3>3 DEF TimerInv
    <3> QED BY <2>1, <2>3, <3>2, <3>4, <3>5, <3>6 DEF TimerInv, DueClosed
  <2> QED BY <1>14, <2>4, <2>5 DEF Woken
<1>15. CASE Notes \/ Listens \/ Waits
  <2>1. UNCHANGED <<session, runtime, opens, timer, retryAt>>
    BY <1>15 DEF Notes, Listens, Waits
  <2>2. /\ TimerLive' <=> TimerLive
        /\ DueClosed => DueClosed'
        /\ TimerLive => IsActive(session')
    BY <1>1, <2>1 DEF TimerLive, DueClosed, TimerInv, OpenUnderWay, Current
  <2>3. Drops(0) \/ \E m : Queues(0, m) /\ m.type \in {"PortsRefreshed", "TransportLost"}
    BY <1>1, <1>15, InboxTaken DEF Notes, Listens, Waits
  <2>4. runtime'.reconnect >= runtime.reconnect
    BY <1>1, <2>1
  <2> QED BY <1>2, <2>1, <2>2, <2>3, <2>4, TimerFrame
<1> QED BY <1>4, <1>5, <1>6, <1>7, <1>8, <1>9, <1>10, <1>11, <1>12, <1>13, <1>14, <1>15
        DEF Step, TaskOutcome

-----------------------------------------------------------------------------
NoInitial == \A i \in DOMAIN inbox : ~InitialAt(i)

OneInitial == \A i, j \in DOMAIN inbox : InitialAt(i) /\ InitialAt(j) => i = j

Identifying == \E t \in idents : InitialTask(t)

OneTask == \A t, u \in idents : InitialTask(t) /\ InitialTask(u) => u = t

\* The parts of VerdictInv, without its nested quantifiers.
LEMMA VerdictParts ==
    VerdictInv <=>
        /\ session.phase \in {"Connecting", "Active"} => NoInitial
        /\ session.phase = "Identifying" => OneInitial
        /\ Identifying => session.phase = "Identifying" /\ NoInitial
        /\ OneTask
BY DEF VerdictInv, NoStaleVerdict, NoInitial, OneInitial, Identifying, OneTask

LEMMA VerdictPartsNext ==
    ASSUME session'.phase \in {"Connecting", "Active"} => NoInitial',
           session'.phase = "Identifying" => OneInitial',
           Identifying' => session'.phase = "Identifying" /\ NoInitial',
           OneTask'
    PROVE  VerdictInv'
BY DEF VerdictInv, NoStaleVerdict, NoInitial, OneInitial, Identifying, OneTask

\* A message that is not the verdict of an initial attempt.
Plain(m) == ~(m.type = "IdentificationFinished" /\ m.kind = "Initial")

LEMMA InitialKept ==
    ASSUME inbox \in Seq(Messages), NEW d \in {0, 1},
           Drops(d) \/ \E m : Queues(d, m) /\ Plain(m)
    PROVE  /\ NoInitial => NoInitial'
           /\ OneInitial => OneInitial'
           /\ 1 \in DOMAIN inbox /\ InitialAt(1) /\ OneInitial /\ d = 1 => NoInitial'
<1>1. \A i \in DOMAIN inbox' :
          i \in Nat /\ (InitialAt(i)' => i + d \in DOMAIN inbox /\ InitialAt(i + d))
  <2>1. CASE Drops(d)
    BY <2>1, DropsShift
  <2>2. CASE \E m : Queues(d, m) /\ Plain(m)
    <3>1. PICK m : Queues(d, m) /\ Plain(m)
      BY <2>2
    <3>2. \A i \in DOMAIN inbox' :
              /\ i \in Nat
              /\ (i + d \in DOMAIN inbox /\ inbox'[i] = inbox[i + d]) \/ inbox'[i] = m
      BY <3>1 DEF Queues
    <3> QED BY <3>1, <3>2 DEF Plain, InitialAt, VerdictAt
  <2> QED BY <2>1, <2>2
<1>2. \A i, j \in DOMAIN inbox' : i + d = j + d => i = j
  BY <1>1
<1>3. d = 1 => \A i \in DOMAIN inbox' : i \in Nat \ {0} /\ i + d # 1
  <2>1. inbox' \in Seq(Messages)
    BY DEF Drops, Queues
  <2> QED BY <2>1
<1> QED BY <1>1, <1>2, <1>3 DEF NoInitial, OneInitial

LEMMA VerdictFrame ==
    ASSUME FlowHolds, NEW d \in {0, 1}, Drops(d) \/ \E m : Queues(d, m) /\ Plain(m),
           session'.phase = session.phase,
           Identifying' => Identifying, OneTask'
    PROVE  VerdictInv'
<1>1. inbox \in Seq(Messages)
  BY DEF FlowHolds, ConnectionTypeOK
<1>2. /\ NoInitial => NoInitial'
      /\ OneInitial => OneInitial'
  BY <1>1, InitialKept
<1>3. /\ session.phase \in {"Connecting", "Active"} => NoInitial
      /\ session.phase = "Identifying" => OneInitial
      /\ Identifying => session.phase = "Identifying" /\ NoInitial
  BY VerdictParts DEF FlowHolds
<1> QED BY <1>2, <1>3, VerdictPartsNext

LEMMA VerdictStep == ASSUME FlowHolds, Step PROVE VerdictInv'
<1>1. /\ inbox \in Seq(Messages) /\ StepTypes /\ GenerationInv
      /\ session.phase \in {"Connecting", "Active"} => NoInitial
      /\ session.phase = "Identifying" => OneInitial
      /\ Identifying => session.phase = "Identifying" /\ NoInitial
      /\ OneTask
  BY FlowTypes, VerdictParts DEF FlowHolds, StepTypes
<1>2. ASSUME UNCHANGED idents, runtime'.generation = runtime.generation
      PROVE  (Identifying' <=> Identifying) /\ OneTask'
  BY <1>1, <1>2 DEF Identifying, OneTask, InitialTask, Current
<1>3. ASSUME UNCHANGED idents, \A t \in idents' : ~Current(t)'
      PROVE  ~Identifying' /\ OneTask'
  BY <1>3 DEF Identifying, OneTask, InitialTask
<1>4. CASE Idles
  BY <1>2, <1>4, VerdictFrame DEF Idles
<1>5. CASE Shuts \/ Loses \/ Discards
  <2>1. PICK d \in {0, 1} : Drops(d)
    BY <1>5 DEF Shuts, Loses, Discards
  <2>2. ~Identifying' /\ OneTask'
    BY <1>3, <1>5, NoneUnderWay DEF Shuts, Loses, Discards
  <2>3. \/ session'.phase = session.phase
        \/ session'.phase \in {"Disconnected", "ShuttingDown"}
    BY <1>5 DEF Shuts, Loses, Discards, Lost, IsActive
  <2>4. CASE session'.phase = session.phase
    BY <2>1, <2>2, <2>4, VerdictFrame
  <2>5. CASE session'.phase \in {"Disconnected", "ShuttingDown"}
    BY <2>2, <2>5, VerdictPartsNext
  <2> QED BY <2>3, <2>4, <2>5
<1>6. CASE Retries
  <2>1. Drops(1) /\ UNCHANGED idents /\ session.phase = "Active" /\ session'.phase = "Active"
    BY <1>6 DEF Retries, Lost, IsActive
  <2>2. ~Identifying' /\ OneTask'
    <3>1. runtime'.generation \in {runtime.generation, runtime.generation + 1}
      BY <1>6 DEF Retries
    <3>2. CASE runtime'.generation = runtime.generation
      BY <1>1, <1>2, <2>1, <3>2
    <3>3. CASE runtime'.generation = runtime.generation + 1
      <4>1. \A t \in idents : t.generation \in Nat /\ t.generation <= runtime.generation
        BY <1>1 DEF StepTypes, IdentifyTasks, GenerationInv
      <4>2. runtime.generation \in Nat
        BY FlowTypes
      <4>3. \A t \in idents : t.generation # runtime'.generation
        BY <3>3, <4>1, <4>2
      <4> QED BY <1>3, <2>1, <4>3 DEF Current
    <3> QED BY <3>1, <3>2, <3>3
  <2> QED BY <2>1, <2>2, VerdictFrame
<1>7. CASE Joins
  <2>1. /\ Drops(1) /\ 1 \in DOMAIN inbox /\ InitialAt(1) /\ session.phase = "Identifying"
        /\ UNCHANGED <<idents, runtime>> /\ session'.phase = "Active"
    BY <1>7 DEF Joins, Drops, ActiveSession
  <2>2. NoInitial' /\ ~Identifying
    BY <1>1, <2>1, InitialKept DEF NoInitial
  <2> QED BY <1>2, <2>1, <2>2, VerdictPartsNext
<1>8. CASE Rejoins
  BY <1>2, <1>8, VerdictFrame DEF Rejoins, IsActive
<1>9. CASE FailsToOpen
  <2>1. session'.phase = "Disconnected" /\ session.phase = "Connecting"
        /\ UNCHANGED <<idents, runtime>>
    BY <1>9 DEF FailsToOpen, NewSession, Inactive, Connecting
  <2> QED BY <1>1, <1>2, <2>1, VerdictPartsNext
<1>10. CASE Identifies
  <2>1. inbox # <<>> /\ UNCHANGED runtime
    BY <1>10 DEF Identifies
  <2>2. CASE Connecting /\ session' = Inactive("Identifying") /\ Identify("Initial")
    <3>1. session.phase = "Connecting" /\ session'.phase = "Identifying"
      BY <2>2 DEF Connecting, Inactive
    <3>2. NoInitial /\ ~Identifying
      BY <1>1, <3>1
    <3>3. CASE Queues(1, Finished("Initial", NoDevice)) /\ UNCHANGED idents
      <4>1. \A i \in DOMAIN inbox' : InitialAt(i)' => i = Len(inbox)
        <5>1. Len(inbox) + 1 - 1 = Len(inbox)
          BY FlowTypes
        <5> QED BY <1>1, <3>2, <3>3, <5>1, QueuesShift DEF NoInitial
      <4>2. OneInitial'
        BY <4>1 DEF OneInitial
      <4> QED BY <1>2, <2>1, <3>1, <3>2, <3>3, <4>2, VerdictPartsNext
    <3>4. ASSUME NEW n, n.kind = "Initial", Drops(1), idents' = idents \cup {n}
          PROVE  VerdictInv'
      <4>1. \A t \in idents' : InitialTask(t)' => t = n
        BY <2>1, <3>2, <3>4 DEF Identifying, InitialTask, Current
      <4>2. NoInitial' /\ OneInitial'
        BY <1>1, <3>2, <3>4, InitialKept DEF NoInitial, OneInitial
      <4> QED BY <3>1, <4>1, <4>2, VerdictPartsNext DEF OneTask
    <3>5. [generation |-> runtime.generation, kind |-> "Initial",
           bus |-> runtime.bus, done |-> FALSE, verified |-> NoDevice].kind = "Initial"
      OBVIOUS
    <3> QED BY <2>1, <2>2, <3>3, <3>4, <3>5, IdentifyQueues DEF Kinds, FlowHolds
  <2>3. CASE Lost /\ UNCHANGED session /\ Identify("Reconnect")
    <3>1. Drops(1) \/ Queues(1, Finished("Reconnect", NoDevice))
      BY <2>1, <2>3, IdentifyQueues DEF Kinds, FlowHolds
    <3>2. Plain(Finished("Reconnect", NoDevice))
      BY DEF Plain, Finished
    <3>3. (Identifying' => Identifying) /\ OneTask'
      <4>1. CASE UNCHANGED idents
        BY <1>2, <2>1, <4>1
      <4>2. ASSUME NEW n, n.kind = "Reconnect", idents' = idents \cup {n}
            PROVE  (Identifying' => Identifying) /\ OneTask'
        BY <1>1, <2>1, <4>2 DEF Identifying, OneTask, InitialTask, Current
      <4>3. [generation |-> runtime.generation, kind |-> "Reconnect",
             bus |-> runtime.bus, done |-> FALSE, verified |-> NoDevice].kind = "Reconnect"
        OBVIOUS
      <4> QED BY <2>1, <2>3, <4>1, <4>2, <4>3, IdentifyQueues DEF Kinds, FlowHolds
    <3> QED BY <2>3, <3>1, <3>2, <3>3, VerdictFrame
  <2> QED BY <1>10, <2>2, <2>3 DEF Identifies
<1>11. CASE UserConnects
  <2>1. /\ inbox' = <<>> /\ UNCHANGED idents
        /\ runtime'.generation = runtime.generation + 1
    BY <1>1, <1>11 DEF UserConnects, StepTypes, Runtimes
  <2>2. \A t \in idents : t.generation # runtime'.generation
    <3>1. \A t \in idents : t.generation \in Nat /\ t.generation <= runtime.generation
      BY <1>1 DEF StepTypes, IdentifyTasks, GenerationInv
    <3>2. runtime.generation \in Nat
      BY FlowTypes
    <3> QED BY <2>1, <3>1, <3>2
  <2>3. ~Identifying' /\ OneTask' /\ NoInitial' /\ OneInitial'
    BY <1>3, <2>1, <2>2 DEF Current, NoInitial, OneInitial
  <2> QED BY <2>3, VerdictPartsNext
<1>12. CASE \E o \in opens : \/ Accepted(o) \/ Withdrawn(o) \/ AttemptFailed(o)
                             \/ Published(o) \/ Announced(o)
  <2>1. PICK o \in opens : \/ Accepted(o) \/ Withdrawn(o) \/ AttemptFailed(o)
                           \/ Published(o) \/ Announced(o)
    BY <1>12
  <2>2. UNCHANGED <<session, idents>> /\ runtime'.generation = runtime.generation
    BY <1>1, <2>1
       DEF Accepted, Withdrawn, AttemptFailed, Published, Announced, StepTypes, Runtimes
  <2>3. Drops(0) \/ \E m : Queues(0, m) /\ m.type \in {"PortOpenFailed", "PortOpened"}
    BY <1>1, <2>1, InboxTaken DEF Accepted, Withdrawn, AttemptFailed, Published, Announced
  <2>4. Drops(0) \/ \E m : Queues(0, m) /\ Plain(m)
    BY <2>3 DEF Plain
  <2> QED BY <1>2, <2>2, <2>4, VerdictFrame
<1>13. CASE \E t \in idents : Verified(t)
  <2>1. PICK t \in idents : Verified(t)
    BY <1>13
  <2>2. PICK n : /\ idents' = (idents \ {t}) \cup {n}
                 /\ n.generation = t.generation /\ n.kind = t.kind
    <3>1. t \in IdentifyTasks
      BY <1>1 DEF StepTypes
    <3>2. \A d : /\ [t EXCEPT !.done = TRUE, !.verified = d].generation = t.generation
                 /\ [t EXCEPT !.done = TRUE, !.verified = d].kind = t.kind
      BY <3>1 DEF IdentifyTasks
    <3> QED BY <2>1, <3>2 DEF Verified
  <2>3. UNCHANGED <<session, runtime, inbox>>
    BY <2>1 DEF Verified
  <2>4. (Identifying' => Identifying) /\ OneTask'
    BY <1>1, <2>2, <2>3 DEF Identifying, OneTask, InitialTask, Current
  <2> QED BY <1>1, <2>3, <2>4, InboxTaken, VerdictFrame
<1>14. CASE \E t \in idents : Reported(t)
  <2>1. PICK t \in idents : Reported(t)
    BY <1>14
  <2>2. UNCHANGED <<session, runtime>> /\ idents' = idents \ {t}
    BY <2>1 DEF Reported
  <2>3. (Identifying' => Identifying) /\ OneTask'
    BY <1>1, <2>2 DEF Identifying, OneTask, InitialTask, Current
  <2>4. CASE UNCHANGED inbox
    BY <1>1, <2>2, <2>3, <2>4, InboxTaken, VerdictFrame
  <2>5. CASE Current(t) /\ Queues(0, Finished(t.kind, t.verified))
    <3> DEFINE m == Finished(t.kind, t.verified)
    <3>1. m.kind = t.kind
      BY DEF Finished
    <3> HIDE DEF m
    <3>2. Queues(0, m)
      BY <2>5 DEF m
    <3>3. CASE t.kind # "Initial"
      BY <2>2, <2>3, <3>1, <3>2, <3>3, VerdictFrame DEF Plain
    <3>4. CASE t.kind = "Initial"
      <4>1. InitialTask(t) /\ Identifying
        BY <2>5, <3>4 DEF InitialTask, Identifying
      <4>2. NoInitial /\ session.phase = "Identifying"
        BY <1>1, <4>1
      <4>3. ~Identifying'
        BY <1>1, <2>2, <4>1 DEF Identifying, OneTask, InitialTask, Current
      <4>4. \A i \in DOMAIN inbox' : InitialAt(i)' => i = Len(inbox) + 1 - 0
        BY <1>1, <3>2, <4>2, QueuesShift DEF NoInitial
      <4>5. OneInitial'
        BY <4>4 DEF OneInitial
      <4> QED BY <2>2, <2>3, <4>2, <4>3, <4>5, VerdictPartsNext
    <3> QED BY <3>3, <3>4
  <2> QED BY <2>1, <2>4, <2>5 DEF Reported
<1>15. CASE Notes \/ Woken \/ Listens \/ Waits
  <2>1. UNCHANGED <<session, runtime, idents>>
    BY <1>15 DEF Notes, Woken, Listens, Waits
  <2>2. Drops(0) \/ \E m : /\ Queues(0, m)
                           /\ m.type \in {"PortsRefreshed", "TransportLost",
                                          "ReconnectTimerElapsed"}
    <3>1. [type |-> "ReconnectTimerElapsed", stamp |-> timer].type = "ReconnectTimerElapsed"
      OBVIOUS
    <3> QED BY <1>1, <1>15, <3>1, InboxTaken DEF Notes, Woken, Listens, Waits
  <2>3. Drops(0) \/ \E m : Queues(0, m) /\ Plain(m)
    BY <2>2 DEF Plain
  <2> QED BY <1>2, <2>1, <2>3, VerdictFrame
<1> QED BY <1>4, <1>5, <1>6, <1>7, <1>8, <1>9, <1>10, <1>11, <1>12, <1>13, <1>14, <1>15
        DEF Step, TaskOutcome

-----------------------------------------------------------------------------
(***************************************************************************)
(* The gate, the reads behind it, and what was read on the bus.            *)
(***************************************************************************)
VerdictRead ==
    /\ runtime.bus # 0 =>
          \A i \in DOMAIN inbox : RealAt(i) => <<runtime.bus, inbox[i].verified>> \in identified
    /\ \A t \in idents : Current(t) /\ t.done /\ t.verified # NoDevice =>
          <<t.bus, t.verified>> \in identified

LEMMA VerdictReadFrame ==
    ASSUME FlowHolds, VerdictRead, NEW d \in {0, 1},
           Drops(d) \/ \E m : /\ Queues(d, m)
                              /\ m.type = "IdentificationFinished" /\ m.verified # NoDevice
                                    => <<runtime.bus, m.verified>> \in identified,
           runtime'.generation = runtime.generation, runtime'.bus = runtime.bus,
           identified \subseteq identified',
           \A t \in idents' : t \in idents \/
              (t.done /\ t.verified # NoDevice => <<t.bus, t.verified>> \in identified')
    PROVE  VerdictRead'
<1>1. ASSUME runtime.bus # 0
      PROVE  \A i \in DOMAIN inbox' :
                RealAt(i)' => <<runtime.bus, inbox'[i].verified>> \in identified
  <2>1. CASE Drops(d)
    BY <1>1, <2>1 DEF VerdictRead, Drops, RealAt, VerdictAt
  <2>2. CASE \E m : /\ Queues(d, m)
                    /\ m.type = "IdentificationFinished" /\ m.verified # NoDevice
                          => <<runtime.bus, m.verified>> \in identified
    <3>1. PICK m : /\ Queues(d, m)
                   /\ m.type = "IdentificationFinished" /\ m.verified # NoDevice
                         => <<runtime.bus, m.verified>> \in identified
      BY <2>2
    <3>2. ASSUME NEW i \in DOMAIN inbox', RealAt(i)'
          PROVE  <<runtime.bus, inbox'[i].verified>> \in identified
      <4>1. CASE i + d \in DOMAIN inbox /\ inbox'[i] = inbox[i + d]
        BY <1>1, <3>2, <4>1 DEF VerdictRead, RealAt, VerdictAt
      <4>2. CASE inbox'[i] = m
        BY <3>1, <3>2, <4>2 DEF RealAt, VerdictAt
      <4> QED BY <3>1, <4>1, <4>2 DEF Queues
    <3> QED BY <3>2
  <2> QED BY <2>1, <2>2
<1>2. \A t \in idents' : Current(t)' /\ t.done /\ t.verified # NoDevice =>
          <<t.bus, t.verified>> \in identified'
  BY DEF VerdictRead, Current
<1> QED BY <1>1, <1>2 DEF VerdictRead

LEMMA VerdictReadStep == ASSUME FlowHolds, VerdictRead, Step PROVE VerdictRead'
<1>1. /\ inbox \in Seq(Messages) /\ StepTypes /\ GenerationInv /\ ClosedInv /\ TimerInv
  BY FlowTypes DEF FlowHolds, StepTypes
<1>2. CASE Idles
  BY <1>2, VerdictReadFrame DEF Idles
<1>3. CASE Shuts \/ Loses \/ Discards
  <2>1. PortShut /\ UNCHANGED idents
    BY <1>3 DEF Shuts, Loses, Discards
  <2>2. runtime'.bus = 0 /\ \A t \in idents' : ~Current(t)'
    BY <2>1, NoneUnderWay DEF PortShut
  <2> QED BY <2>2 DEF VerdictRead
<1>4. CASE Retries
  <2>1. DueAt(1) /\ 1 \in DOMAIN inbox /\ runtime'.bus = runtime.bus /\ UNCHANGED idents
    BY <1>4 DEF Retries, Drops
  <2>2. runtime'.bus = 0
    BY <1>1, <2>1 DEF TimerInv
  <2>3. IdentsOnBus'
    BY ClosedStep DEF ClosedInv
  <2> QED BY <2>2, <2>3 DEF VerdictRead, IdentsOnBus
<1>5. CASE Joins \/ Rejoins \/ FailsToOpen
  BY <1>5, VerdictReadFrame DEF Joins, Rejoins, FailsToOpen
<1>6. CASE Identifies
  <2>1. PICK kind \in Kinds : Identify(kind)
    BY <1>6 DEF Identifies, Kinds
  <2>2. inbox # <<>> /\ UNCHANGED <<runtime, identified>>
    BY <1>6 DEF Identifies
  <2>3. /\ Drops(1) \/ (Queues(1, Finished(kind, NoDevice)))
        /\ \A t \in idents' : t \in idents \/ t.verified = NoDevice
    BY <2>1, <2>2, IdentifyQueues DEF FlowHolds
  <2>4. Finished(kind, NoDevice).verified = NoDevice
    BY DEF Finished
  <2> QED BY <2>2, <2>3, <2>4, VerdictReadFrame
<1>7. CASE UserConnects
  <2>1. inbox' = <<>> /\ UNCHANGED idents /\ runtime'.generation = runtime.generation + 1
    BY <1>1, <1>7 DEF UserConnects, StepTypes, Runtimes
  <2>2. \A t \in idents : t.generation # runtime'.generation
    <3>1. \A t \in idents : t.generation \in Nat /\ t.generation <= runtime.generation
      BY <1>1 DEF StepTypes, IdentifyTasks, GenerationInv
    <3>2. runtime.generation \in Nat
      BY FlowTypes
    <3> QED BY <2>1, <3>1, <3>2
  <2> QED BY <2>1, <2>2 DEF VerdictRead, Current
<1>8. CASE \E o \in opens : Accepted(o)
  <2>1. PICK o \in opens : Accepted(o)
    BY <1>8
  <2>2. /\ OpenUnderWay /\ UNCHANGED <<inbox, idents>>
        /\ runtime'.generation = runtime.generation
    BY <1>1, <2>1 DEF Accepted, OpenUnderWay, StepTypes, Runtimes
  <2>3. NoReal /\ \A t \in idents : ~Current(t)
    BY <1>1, <2>2 DEF ClosedInv, IdentsOnBus
  <2> QED BY <2>2, <2>3 DEF VerdictRead, NoReal, RealAt, VerdictAt, Current
<1>9. CASE \E o \in opens : Withdrawn(o) \/ AttemptFailed(o) \/ Published(o) \/ Announced(o)
  <2>1. PICK o \in opens : Withdrawn(o) \/ AttemptFailed(o) \/ Published(o) \/ Announced(o)
    BY <1>9
  <2>2. UNCHANGED <<runtime, idents, identified>>
    BY <2>1 DEF Withdrawn, AttemptFailed, Published, Announced
  <2>3. Drops(0) \/ \E m : Queues(0, m) /\ m.type \in {"PortOpenFailed", "PortOpened"}
    BY <1>1, <2>1, InboxTaken DEF Withdrawn, AttemptFailed, Published, Announced
  <2> QED BY <2>2, <2>3, VerdictReadFrame
<1>10. CASE \E t \in idents : Verified(t)
  <2>1. PICK t \in idents : Verified(t)
    BY <1>10
  <2>2. PICK d : /\ identified' = identified \cup {<<t.bus, d>>}
                 /\ idents' = (idents \ {t}) \cup {[t EXCEPT !.done = TRUE, !.verified = d]}
    BY <2>1 DEF Verified
  <2>3. /\ [t EXCEPT !.done = TRUE, !.verified = d].bus = t.bus
        /\ [t EXCEPT !.done = TRUE, !.verified = d].verified = d
    <3>1. t \in IdentifyTasks
      BY <1>1 DEF StepTypes
    <3> QED BY <3>1 DEF IdentifyTasks
  <2>4. UNCHANGED <<runtime, inbox>>
    BY <2>1 DEF Verified
  <2> QED BY <1>1, <2>2, <2>3, <2>4, InboxTaken, VerdictReadFrame
<1>11. CASE \E t \in idents : Reported(t)
  <2>1. PICK t \in idents : Reported(t)
    BY <1>11
  <2>2. UNCHANGED <<runtime, identified>> /\ idents' \subseteq idents
    BY <2>1 DEF Reported
  <2>3. CASE UNCHANGED inbox
    BY <1>1, <2>2, <2>3, InboxTaken, VerdictReadFrame
  <2>4. CASE t.done /\ Current(t) /\ Queues(0, Finished(t.kind, t.verified))
    <3>1. t.bus = runtime.bus
      BY <1>1, <2>4 DEF ClosedInv, IdentsOnBus
    <3>2. t.verified # NoDevice => <<runtime.bus, t.verified>> \in identified
      BY <2>4, <3>1 DEF VerdictRead
    <3>3. Finished(t.kind, t.verified).verified = t.verified
      BY DEF Finished
    <3> QED BY <2>2, <2>4, <3>2, <3>3, VerdictReadFrame
  <2> QED BY <2>1, <2>3, <2>4 DEF Reported
<1>12. CASE Notes \/ Woken \/ Listens \/ Waits
  <2>1. UNCHANGED <<runtime, idents, identified>>
    BY <1>12 DEF Notes, Woken, Listens, Waits
  <2>2. Drops(0) \/ \E m : /\ Queues(0, m)
                           /\ m.type \in {"PortsRefreshed", "TransportLost",
                                          "ReconnectTimerElapsed"}
    <3>1. [type |-> "ReconnectTimerElapsed", stamp |-> timer].type = "ReconnectTimerElapsed"
      OBVIOUS
    <3> QED BY <1>1, <1>12, <3>1, InboxTaken DEF Notes, Woken, Listens, Waits
  <2> QED BY <2>1, <2>2, VerdictReadFrame
<1> QED BY <1>2, <1>3, <1>4, <1>5, <1>6, <1>7, <1>8, <1>9, <1>10, <1>11, <1>12
        DEF Step, TaskOutcome

GateHolds ==
    /\ monitor.verified # 0 => monitor.bus # 0
    /\ reader.stage # "none" => reader.session # 0
    /\ reader.stage = "send" => reader.bus # 0
    /\ GateFollowsSession /\ OnlyVerifiedBusRead /\ NoLostWakeup

\* The gate is not touched, and an open one keeps its session.
LEMMA GateFrame ==
    ASSUME GateHolds, UNCHANGED <<monitor, reader>>, identified \subseteq identified',
           monitor.verified # 0 => UNCHANGED session,
           \/ runtime'.bus = runtime.bus
           \/ runtime'.bus # monitor.bus /\ runtime'.bus # reader.bus
    PROVE  GateHolds'
<1>1. GateFollowsSession'
  BY DEF GateHolds, GateFollowsSession, IsActive
<1>2. OnlyVerifiedBusRead'
  BY DEF GateHolds, OnlyVerifiedBusRead
<1>3. NoLostWakeup'
  BY DEF GateHolds, NoLostWakeup, GateOpen
<1> QED BY <1>1, <1>2, <1>3 DEF GateHolds

\* A gate that was closed hides the bus from every read to come.
LEMMA GateShut ==
    ASSUME GateHolds, monitor'.verified = 0, ReaderNotified \/ ReaderGone,
           identified \subseteq identified',
           runtime'.bus = 0 \/ UNCHANGED runtime
    PROVE  GateHolds'
<1>1. GateFollowsSession'
  BY DEF GateFollowsSession
<1>2. reader'.stage = "send" => reader'.bus = reader.bus /\ reader.stage = "send"
  BY DEF ReaderNotified, ReaderGone
<1>3. OnlyVerifiedBusRead'
  BY <1>2 DEF GateHolds, OnlyVerifiedBusRead
<1>4. NoLostWakeup'
  BY DEF GateHolds, NoLostWakeup, ReaderNotified, ReaderGone
<1> QED BY <1>1, <1>3, <1>4 DEF GateHolds, ReaderNotified, ReaderGone

LEMMA GateStep ==
    ASSUME FlowHolds, VerdictRead, GateHolds, Step
    PROVE  GateHolds'
<1>1. /\ StepTypes /\ MonitorTypes /\ GenerationInv /\ Shaped(session)
      /\ pending \in Nat /\ session.id \in Nat /\ ClosedInv
  BY FlowTypes DEF FlowHolds, StepTypes, Shaped, Sessions
<1>2. monitor.verified # 0 =>
          /\ session.phase = "Active" /\ session.connectivity = "Connected"
          /\ monitor.verified = session.id
  BY DEF GateHolds, GateFollowsSession, IsActive
<1>3. CASE Idles
  BY <1>3, GateFrame DEF Idles
<1>4. CASE Shuts \/ Loses \/ Discards
  <2>1. GateCloses /\ PortShut /\ UNCHANGED identified
    BY <1>4 DEF Shuts, Loses, Discards, GateCloses
  <2>2. monitor'.verified = 0 /\ (ReaderNotified \/ ReaderGone) /\ runtime'.bus = 0
    BY <1>1, <2>1, GateMoves DEF PortShut
  <2> QED BY <2>1, <2>2, GateShut
<1>5. CASE Retries
  <2>1. monitor.verified = 0
    BY <1>2, <1>5 DEF Retries, Lost, Reconnecting
  <2> QED BY <1>5, <2>1, GateFrame DEF Retries
<1>6. CASE Joins
  <2>1. /\ UNCHANGED <<runtime, identified>> /\ pending # 0 /\ StartMonitoring(pending)
        /\ session'.phase = "Active" /\ session'.connectivity = "Connected"
        /\ session'.id = pending /\ session'.device = inbox[1].verified
        /\ 1 \in DOMAIN inbox /\ RealAt(1)
    BY <1>6 DEF Joins, ActiveSession, Drops
  <2>2. CASE monitor.bus = 0 /\ monitor'.verified = 0 /\ ReaderGone
    BY <2>1, <2>2, GateShut
  <2>3. CASE /\ monitor.bus # 0 /\ monitor'.verified = pending /\ monitor'.bus = monitor.bus
             /\ reader'.stage = "check" /\ reader'.session = pending /\ reader'.bus = 0
    <3>1. GateFollowsSession'
      BY <2>1, <2>3 DEF GateFollowsSession, IsActive
    <3>2. monitor'.bus = runtime'.bus => <<monitor'.bus, session'.device>> \in identified'
      BY <2>1, <2>3 DEF VerdictRead
    <3>3. OnlyVerifiedBusRead' /\ NoLostWakeup'
      BY <2>3, <3>2 DEF OnlyVerifiedBusRead, NoLostWakeup
    <3> QED BY <2>1, <2>3, <3>1, <3>3 DEF GateHolds
  <2> QED BY <1>1, <2>1, <2>2, <2>3, GateMoves
<1>7. CASE Rejoins
  <2>1. /\ UNCHANGED <<runtime, identified>> /\ ResumeMonitoring(session.id)
        /\ session'.phase = "Active" /\ session'.connectivity = "Connected"
        /\ session'.id = session.id /\ session'.device = session.device
        /\ 1 \in DOMAIN inbox /\ RealAt(1) /\ inbox[1].verified = session.device
    BY <1>7 DEF Rejoins, Drops, IsActive
  <2>2. CASE monitor' = monitor /\ reader' = reader
    <3>1. GateFollowsSession'
      BY <1>2, <2>1, <2>2 DEF GateFollowsSession, IsActive
    <3>2. OnlyVerifiedBusRead' /\ NoLostWakeup'
      BY <2>1, <2>2 DEF GateHolds, OnlyVerifiedBusRead, NoLostWakeup, GateOpen
    <3> QED BY <2>2, <3>1, <3>2 DEF GateHolds
  <2>3. CASE /\ monitor.bus # 0 /\ monitor'.bus = monitor.bus
             /\ monitor'.verified = session.id /\ ReaderNotified
    <3>1. GateFollowsSession'
      BY <2>1, <2>3 DEF GateFollowsSession, IsActive
    <3>2. monitor'.bus = runtime'.bus => <<monitor'.bus, session'.device>> \in identified'
      BY <2>1, <2>3 DEF VerdictRead
    <3>3. OnlyVerifiedBusRead'
      BY <2>1, <2>3, <3>2 DEF GateHolds, OnlyVerifiedBusRead, ReaderNotified
    <3>4. NoLostWakeup'
      BY <2>3 DEF NoLostWakeup, ReaderNotified
    <3> QED BY <2>3, <3>1, <3>3, <3>4 DEF GateHolds, ReaderNotified
  <2> QED BY <1>1, <2>1, <2>2, <2>3, GateMoves
<1>8. CASE FailsToOpen
  <2>1. monitor.verified = 0
    BY <1>2, <1>8 DEF FailsToOpen, Connecting
  <2> QED BY <1>8, <2>1, GateFrame DEF FailsToOpen
<1>9. CASE Identifies
  <2>1. monitor.verified # 0 => UNCHANGED session
    BY <1>2, <1>9 DEF Identifies, Connecting
  <2> QED BY <1>9, <2>1, GateFrame DEF Identifies
<1>10. CASE UserConnects
  <2>1. monitor.verified = 0 /\ UNCHANGED <<monitor, reader, identified>>
        /\ runtime'.bus = runtime.bus
    BY <1>1, <1>2, <1>10 DEF UserConnects, StepTypes, Runtimes
  <2> QED BY <2>1, GateFrame
<1>11. CASE \E o \in opens : Accepted(o)
  <2>1. PICK o \in opens : Accepted(o)
    BY <1>11
  <2>2. runtime'.bus = o.generation /\ UNCHANGED <<session, monitor, reader, identified>>
    BY <1>1, <2>1 DEF Accepted, StepTypes, Runtimes
  <2>3. o.generation # monitor.bus /\ o.generation # reader.bus
    BY <1>1, <2>1 DEF GenerationInv, Accepted
  <2> QED BY <2>2, <2>3, GateFrame
<1>12. CASE \E o \in opens : Published(o)
  <2>1. PICK o \in opens : Published(o)
    BY <1>12
  <2>2. BusOpened(o.generation) /\ UNCHANGED <<runtime, identified>>
    BY <2>1 DEF Published
  <2>3. o.generation \in Nat
    BY <1>1 DEF StepTypes, OpenTasks
  <2>4. monitor'.verified = 0 /\ ReaderNotified
    BY <1>1, <2>2, <2>3, GateMoves
  <2> QED BY <2>2, <2>4, GateShut
<1>13. CASE \E o \in opens : Withdrawn(o) \/ AttemptFailed(o) \/ Announced(o)
  BY <1>13, GateFrame DEF Withdrawn, AttemptFailed, Announced
<1>14. CASE \E t \in idents : Verified(t) \/ Reported(t)
  <2>1. UNCHANGED <<session, runtime, monitor, reader>> /\ identified \subseteq identified'
    BY <1>14 DEF Verified, Reported
  <2> QED BY <2>1, GateFrame
<1>15. CASE Listens
  <2>1. UNCHANGED <<session, runtime, monitor, identified>>
    BY <1>15 DEF Listens
  <2>2. GateFollowsSession'
    BY <2>1 DEF GateHolds, GateFollowsSession, IsActive
  <2>3. CASE /\ GateOpen /\ reader.stage = "check"
             /\ ReaderWaits("send") /\ reader'.bus = monitor.bus
    <3>1. monitor.verified # 0 /\ monitor.bus # 0
      BY <2>3 DEF GateOpen, GateHolds
    <3>2. session.device \in Devices
      BY <1>1, <1>2, <3>1 DEF Shaped, IsActive
    <3>3. monitor.bus = runtime.bus => <<monitor.bus, session.device>> \in identified
      BY <3>1 DEF GateHolds, OnlyVerifiedBusRead
    <3>4. OnlyVerifiedBusRead'
      BY <2>1, <2>3, <3>2, <3>3 DEF OnlyVerifiedBusRead
    <3>5. NoLostWakeup'
      BY <2>3 DEF NoLostWakeup, ReaderWaits
    <3> QED BY <2>1, <2>2, <2>3, <3>1, <3>4, <3>5 DEF GateHolds, ReaderWaits
  <2>4. CASE /\ reader'.stage \in {"listen", "recheck", "check"} /\ reader.stage # "none"
             /\ reader'.session = reader.session
    <3>1. OnlyVerifiedBusRead' /\ NoLostWakeup'
      BY <2>1, <2>4 DEF GateHolds, OnlyVerifiedBusRead, NoLostWakeup
    <3> QED BY <2>1, <2>2, <2>4, <3>1 DEF GateHolds
  <2>5. CASE ReaderWaits("waiting") /\ ~GateOpen /\ reader.stage = "recheck"
    <3>1. OnlyVerifiedBusRead' /\ NoLostWakeup'
      BY <2>1, <2>5 DEF GateHolds, OnlyVerifiedBusRead, NoLostWakeup, GateOpen, ReaderWaits
    <3> QED BY <2>1, <2>2, <2>5, <3>1 DEF GateHolds, ReaderWaits
  <2> QED BY <1>1, <1>15, <2>3, <2>4, <2>5, ReaderMoves DEF ReaderWaits
<1>16. CASE Notes \/ Woken \/ Waits
  <2>1. UNCHANGED <<session, runtime, monitor, reader, identified>>
    BY <1>16 DEF Notes, Woken, Waits
  <2> QED BY <2>1, GateFrame
<1> QED BY <1>3, <1>4, <1>5, <1>6, <1>7, <1>8, <1>9, <1>10, <1>11, <1>12, <1>13, <1>14,
           <1>15, <1>16 DEF Step, TaskOutcome

-----------------------------------------------------------------------------
(***************************************************************************)
(* A retry is refused only of a port that udev reported removed, which is  *)
(* then no longer the path that was typed.                                 *)
(***************************************************************************)
RefusalInv ==
    /\ manual => present
    /\ ~known => manual /\ events = <<>>
    /\ refused => known /\ ~manual

LEMMA RefusalStep == ASSUME ConnectionTypeOK, RefusalInv, [Next]_vars PROVE RefusalInv'
<1>1. known' = known
  BY DEF Next, LoopNext, TaskNext, UserConnects, UserCancels, UserRefreshes, UserShutsDown,
     Receive, PortEvent, OpenStep, IdentifyStep, TimerWakes, WatchTicks, ReaderStep,
     PlugChanges, vars
<1>2. CASE UserConnects
  BY <1>1, <1>2 DEF UserConnects, RefusalInv
<1>3. CASE PortEvent
  <2>1. events # <<>> /\ manual' = FALSE
    BY <1>3 DEF PortEvent
  <2>2. known
    BY <2>1 DEF RefusalInv
  <2> QED BY <1>1, <2>1, <2>2, Zenon DEF RefusalInv
<1>4. CASE ~UserConnects /\ ~PortEvent
  <2>1. refused' => refused \/ ~present
    <3>1. \A in : Transition(in) => (refused' => refused \/ ~present)
      BY Zenon DEF Transition
    <3> QED BY <1>4, <3>1, RefusalMoves, Zenon
  <2>2. /\ manual' = manual
        /\ ~known => events' = events
        /\ present => present'
    <3>1. CASE UserCancels \/ UserShutsDown
      BY <3>1 DEF UserCancels, UserShutsDown
    <3>2. CASE UserRefreshes \/ TaskNext \/ UNCHANGED vars
      BY <3>2 DEF UserRefreshes, TaskNext, OpenStep, IdentifyStep, TimerWakes, WatchTicks,
         ReaderStep, vars, app
    <3>3. CASE PlugChanges
      BY <3>3 DEF PlugChanges, app
    <3>4. CASE Receive
      <4>1. manual' = manual /\ events' = events
        BY <3>4 DEF Receive
      <4>2. \/ present' = present
            \/ \E m : present' = (present \/ m.listed)
        BY <3>4 DEF Receive, PortOpened, PortOpenFailed, InitialIdentificationFinished,
           ReconnectIdentificationFinished, TransportLostReported, ReconnectTimerElapsed,
           PortsRefreshed
      <4>3. present => present'
        BY <4>2, Zenon
      <4> QED BY <4>1, <4>3
    <3> QED BY <1>4, <3>1, <3>2, <3>3, <3>4 DEF Next, LoopNext
  <2> QED BY <1>1, <2>1, <2>2, Zenon DEF RefusalInv
<1> QED BY <1>2, <1>3, <1>4

RetryOpens == \E o \in opens : o.kind = "Reconnect" /\ Current(o)

RetryIdentifies == \E t \in idents : t.kind = "Reconnect" /\ Current(t)

RetryMessage == \E i \in DOMAIN inbox : RetryAt(i)

LEMMA RetryParts ==
    ASSUME inbox \in Seq(Messages)
    PROVE  RetryUnderWay <=> TimerLive \/ RetryOpens \/ RetryIdentifies \/ RetryMessage
BY DEF RetryUnderWay, TimerLive, RetryOpens, RetryIdentifies, RetryMessage, RetryAt, DueAt,
   Current

LEMMA RetryPartsNext ==
    ASSUME inbox' \in Seq(Messages)
    PROVE  RetryUnderWay' <=>
              TimerLive' \/ RetryOpens' \/ RetryIdentifies' \/ RetryMessage'
BY DEF RetryUnderWay, TimerLive, RetryOpens, RetryIdentifies, RetryMessage, RetryAt, DueAt,
   Current

LEMMA RetryKept ==
    ASSUME NEW d \in {0, 1}, inbox \in Seq(Messages), UNCHANGED retryAt,
           Drops(d) \/ \E m : Queues(d, m),
           d = 1 => ~RetryAt(1),
           RetryMessage
    PROVE  RetryMessage'
<1>1. PICK i \in DOMAIN inbox : RetryAt(i)
  BY DEF RetryMessage
<1>2. i > d
  <2>1. i \in Nat /\ i > 0
    OBVIOUS
  <2>2. d = 1 => i # 1
    BY <1>1
  <2> QED BY <2>1, <2>2
<1>3. i - d \in DOMAIN inbox' /\ inbox'[i - d] = inbox[i]
  BY <1>2 DEF Drops, Queues
<1>4. RetryAt(i - d)'
  BY <1>1, <1>3 DEF RetryAt, DueAt
<1> QED BY <1>3, <1>4 DEF RetryMessage

LEMMA RetryQueued ==
    ASSUME NEW d \in {0, 1}, NEW m, Queues(d, m), UNCHANGED retryAt,
           \/ /\ m.type \in {"PortOpened", "PortOpenFailed", "IdentificationFinished"}
              /\ m.kind = "Reconnect"
           \/ m.type = "ReconnectTimerElapsed" /\ m.stamp = retryAt
    PROVE  RetryMessage'
BY DEF Queues, RetryMessage, RetryAt, DueAt

LEMMA RetryStep ==
    ASSUME FlowHolds, Step, Reconnecting => RetryUnderWay
    PROVE  Reconnecting' => RetryUnderWay' \/ refused'
<1>1. /\ inbox \in Seq(Messages) /\ inbox' \in Seq(Messages) /\ StepTypes
      /\ Shaped(session) /\ Shaped(session') /\ TimerInv
  BY FlowTypes DEF FlowHolds, StepTypes
<1>2. /\ ~IsActive(session) => ~Reconnecting
      /\ ~IsActive(session') => ~Reconnecting'
  BY <1>1 DEF Shaped, Inactive, Reconnecting
<1>3. Reconnecting => TimerLive \/ RetryOpens \/ RetryIdentifies \/ RetryMessage
  BY <1>1, RetryParts
<1>4. SUFFICES ASSUME Reconnecting', ~refused'
               PROVE  TimerLive' \/ RetryOpens' \/ RetryIdentifies' \/ RetryMessage'
  BY <1>1, RetryPartsNext
<1>5. CASE Idles
  <2>1. PICK d \in {0, 1} : Drops(d) /\ (d = 1 /\ Lost => ~RetryAt(1))
    BY <1>5 DEF Idles
  <2>2. UNCHANGED <<session, runtime, timer, retryAt, opens, idents>>
    BY <1>5 DEF Idles
  <2>3. Reconnecting /\ Lost
    BY <1>2, <1>4, <2>2 DEF Reconnecting, Lost
  <2>4. RetryMessage => RetryMessage'
    BY <1>1, <2>1, <2>2, <2>3, RetryKept
  <2> QED BY <1>3, <2>2, <2>3, <2>4
          DEF TimerLive, RetryOpens, RetryIdentifies, Current
<1>6. CASE Shuts \/ Joins \/ Rejoins \/ FailsToOpen \/ UserConnects
  <2>1. ~IsActive(session') \/ session'.connectivity \in {"Connected", "Faulted"}
    <3>1. CASE Shuts
      BY <3>1 DEF Shuts, IsActive
    <3>2. CASE Joins \/ Rejoins
      BY <3>2 DEF Joins, Rejoins, ActiveSession
    <3>3. CASE FailsToOpen
      BY <3>3 DEF FailsToOpen, NewSession, Inactive, IsActive
    <3>4. CASE UserConnects
      BY <3>4 DEF UserConnects, Reduce, Input, Inactive, IsActive
    <3> QED BY <1>6, <3>1, <3>2, <3>3, <3>4
  <2> QED BY <1>2, <1>4, <2>1 DEF Reconnecting
<1>7. CASE Discards
  <2>1. UNCHANGED session /\ 1 \in DOMAIN inbox /\ InitialAt(1)
    BY <1>7 DEF Discards, Drops
  <2>2. ~IsActive(session)
    BY <2>1 DEF FlowHolds, VerdictInv, NoStaleVerdict, IsActive
  <2> QED BY <1>2, <1>4, <2>1, <2>2 DEF Reconnecting
<1>8. CASE Loses
  <2>1. timer' = runtime'.reconnect /\ runtime'.reconnect > runtime.reconnect
    BY <1>8 DEF Loses, PortShut
  <2>2. timer' # 0
    BY <2>1, FlowTypes
  <2> QED BY <2>1, <2>2 DEF TimerLive
<1>9. CASE Retries
  <2>1. /\ opens' = opens \cup {OpenTask(runtime.generation + 1, "Reconnect", manual)}
        /\ runtime'.generation = runtime.generation + 1
    BY <1>4, <1>9 DEF Retries
  <2>2. /\ OpenTask(runtime.generation + 1, "Reconnect", manual).kind = "Reconnect"
        /\ OpenTask(runtime.generation + 1, "Reconnect", manual).generation = runtime.generation + 1
    BY DEF OpenTask
  <2> QED BY <2>1, <2>2 DEF RetryOpens, Current
<1>10. CASE Identifies
  <2>1. CASE session' = Inactive("Identifying")
    BY <1>4, <2>1 DEF Inactive, Reconnecting
  <2>2. CASE Lost /\ Identify("Reconnect")
    <3>1. inbox # <<>> /\ UNCHANGED <<runtime, retryAt>>
      BY <1>10 DEF Identifies
    <3>2. CASE Queues(1, Finished("Reconnect", NoDevice))
      <4>1. /\ Finished("Reconnect", NoDevice).type = "IdentificationFinished"
            /\ Finished("Reconnect", NoDevice).kind = "Reconnect"
        BY DEF Finished
      <4> QED BY <3>1, <3>2, <4>1, RetryQueued
    <3>3. ASSUME NEW n, idents' = idents \cup {n}, n.kind = "Reconnect",
                 n.generation = runtime.generation
          PROVE  RetryIdentifies'
      BY <3>1, <3>3 DEF RetryIdentifies, Current
    <3>4. /\ [generation |-> runtime.generation, kind |-> "Reconnect", bus |-> runtime.bus,
              done |-> FALSE, verified |-> NoDevice].kind = "Reconnect"
          /\ [generation |-> runtime.generation, kind |-> "Reconnect", bus |-> runtime.bus,
              done |-> FALSE, verified |-> NoDevice].generation = runtime.generation
      OBVIOUS
    <3> QED BY <2>2, <3>1, <3>2, <3>3, <3>4, IdentifyQueues DEF Kinds, FlowHolds
  <2> QED BY <1>10, <2>1, <2>2 DEF Identifies
<1>11. CASE TaskOutcome
  <2>1. UNCHANGED <<session, retryAt>> /\ Reconnecting
        /\ runtime'.generation = runtime.generation /\ runtime'.reconnect = runtime.reconnect
    <3>1. UNCHANGED <<session, retryAt>>
      BY <1>11 DEF TaskOutcome, Accepted, Withdrawn, AttemptFailed, Published, Announced, Verified,
         Reported, Notes, Woken, Listens, Waits
    <3>2. UNCHANGED runtime \/ \E o \in opens : Accepted(o)
      BY <1>11 DEF TaskOutcome, Withdrawn, AttemptFailed, Published, Announced, Verified,
         Reported, Notes, Woken, Listens, Waits
    <3>3. runtime'.generation = runtime.generation /\ runtime'.reconnect = runtime.reconnect
      BY <1>1, <3>2 DEF Accepted, StepTypes, Runtimes
    <3> QED BY <1>4, <3>1, <3>3 DEF Reconnecting
  <2>2. Drops(0) \/ \E m : Queues(0, m)
    <3>1. UNCHANGED inbox \/ \E m : Queues(0, m)
      BY <1>11 DEF TaskOutcome, Accepted, Withdrawn, AttemptFailed, Published, Announced, Verified,
         Reported, Notes, Woken, Listens, Waits
    <3> QED BY <1>1, <3>1, InboxTaken
  <2>3. RetryMessage => RetryMessage'
    BY <1>1, <2>1, <2>2, RetryKept
  <2>4. TimerLive => TimerLive' \/ RetryMessage'
    <3>1. CASE UNCHANGED timer
      BY <2>1, <3>1 DEF TimerLive
    <3>2. CASE Woken
      <4> DEFINE m == [type |-> "ReconnectTimerElapsed", stamp |-> timer]
      <4>1. m.type = "ReconnectTimerElapsed" /\ m.stamp = timer
        OBVIOUS
      <4>2. TimerLive => Queues(0, m)
        BY <3>2 DEF Woken, TimerLive
      <4>3. timer = retryAt
        BY <1>1, <3>2 DEF Woken, TimerInv
      <4> HIDE DEF m
      <4> QED BY <2>1, <4>1, <4>2, <4>3, RetryQueued
    <3> QED BY <1>11, <3>1, <3>2 DEF TaskOutcome, Accepted, Withdrawn, AttemptFailed, Published,
               Announced, Verified, Reported, Notes, Listens, Waits
  <2>5. RetryOpens => RetryOpens' \/ RetryMessage'
    <3>1. CASE UNCHANGED opens
      BY <2>1, <3>1 DEF RetryOpens, Current
    <3>2. CASE \E o \in opens : Accepted(o) \/ Published(o)
      <4>1. PICK o \in opens : Accepted(o) \/ Published(o)
        BY <3>2
      <4>2. PICK n : /\ opens' = (opens \ {o}) \cup {n}
                     /\ n.generation = o.generation /\ n.kind = o.kind
        <5>1. /\ [o EXCEPT !.stage = "accepted"].generation = o.generation
              /\ [o EXCEPT !.stage = "accepted"].kind = o.kind
              /\ [o EXCEPT !.stage = "published"].generation = o.generation
              /\ [o EXCEPT !.stage = "published"].kind = o.kind
          BY <1>1 DEF StepTypes, OpenTasks
        <5> QED BY <4>1, <5>1 DEF Accepted, Published
      <4> QED BY <2>1, <4>2 DEF RetryOpens, Current
    <3>3. CASE \E o \in opens : AttemptFailed(o) \/ Announced(o) \/ Withdrawn(o)
      <4>1. PICK o \in opens : AttemptFailed(o) \/ Announced(o) \/ Withdrawn(o)
        BY <3>3
      <4>2. opens' = opens \ {o}
        BY <4>1 DEF AttemptFailed, Announced, Withdrawn
      <4>3. CASE o.kind = "Reconnect" /\ Current(o)
        <5>1. \E m : /\ Queues(0, m) /\ m.type \in {"PortOpened", "PortOpenFailed"}
                     /\ m.kind = "Reconnect"
          BY <4>1, <4>3 DEF AttemptFailed, Announced, Withdrawn
        <5> QED BY <2>1, <5>1, RetryQueued
      <4>4. CASE ~(o.kind = "Reconnect" /\ Current(o))
        BY <2>1, <4>2, <4>4 DEF RetryOpens, Current
      <4> QED BY <4>3, <4>4
    <3> QED BY <1>11, <3>1, <3>2, <3>3 DEF TaskOutcome, Verified, Reported, Notes, Woken,
               Listens, Waits
  <2>6. RetryIdentifies => RetryIdentifies' \/ RetryMessage'
    <3>1. CASE UNCHANGED idents
      BY <2>1, <3>1 DEF RetryIdentifies, Current
    <3>2. CASE \E t \in idents : Verified(t)
      <4>1. PICK t \in idents : Verified(t)
        BY <3>2
      <4>2. PICK n : /\ idents' = (idents \ {t}) \cup {n}
                     /\ n.generation = t.generation /\ n.kind = t.kind
        <5>1. \A d : /\ [t EXCEPT !.done = TRUE, !.verified = d].generation = t.generation
                     /\ [t EXCEPT !.done = TRUE, !.verified = d].kind = t.kind
          BY <1>1 DEF StepTypes, IdentifyTasks
        <5> QED BY <4>1, <5>1 DEF Verified
      <4> QED BY <2>1, <4>2 DEF RetryIdentifies, Current
    <3>3. CASE \E t \in idents : Reported(t)
      <4>1. PICK t \in idents : Reported(t)
        BY <3>3
      <4>2. CASE t.kind = "Reconnect" /\ Current(t)
        <5>1. Queues(0, Finished(t.kind, t.verified))
          BY <4>1, <4>2 DEF Reported
        <5>2. /\ Finished(t.kind, t.verified).type = "IdentificationFinished"
              /\ Finished(t.kind, t.verified).kind = t.kind
          BY DEF Finished
        <5> QED BY <2>1, <4>2, <5>1, <5>2, RetryQueued
      <4>3. CASE ~(t.kind = "Reconnect" /\ Current(t))
        BY <2>1, <4>1, <4>3 DEF Reported, RetryIdentifies, Current
      <4> QED BY <4>2, <4>3
    <3> QED BY <1>11, <3>1, <3>2, <3>3 DEF TaskOutcome, Accepted, Withdrawn, AttemptFailed, Published,
               Announced, Notes, Woken, Listens, Waits
  <2> QED BY <1>3, <2>1, <2>3, <2>4, <2>5, <2>6
<1> QED BY <1>5, <1>6, <1>7, <1>8, <1>9, <1>10, <1>11 DEF Step

(***************************************************************************)
(* A refusal is lifted by the retry that is opened, or by the timer of the *)
(* loss or failure that comes after it.                                    *)
(***************************************************************************)
LEMMA RefusalLifted ==
    ASSUME FlowHolds, [Next]_vars, refused, Reconnecting'
    PROVE  RetryUnderWay' \/ refused'
<1>1. /\ inbox' \in Seq(Messages) /\ runtime \in Runtimes
      /\ ConnectionTypeOK /\ Shaped(session) /\ StepTypes'
  <2>1. ConnectionTypeOK /\ Shaped(session) /\ Step
    BY Steps DEF FlowHolds, VerdictInv, LoopHolds
  <2> QED BY <2>1, StepTypesStep DEF StepTypes, ConnectionTypeOK, Runtimes
<1>2. CASE UserConnects
  <2>1. session'.connectivity = "None"
    BY <1>2 DEF UserConnects, Reduce, Input, Inactive
  <2> QED BY <2>1 DEF Reconnecting
<1>3. ASSUME NEW in, Transition(in)
      PROVE  RetryUnderWay' \/ refused'
  <2>1. CASE Asks(in) /\ present
    <3>1. OpenTask(runtime'.generation, "Reconnect", manual) \in opens'
      BY <1>3, <2>1 DEF Transition, Reopens
    <3>2. /\ OpenTask(runtime'.generation, "Reconnect", manual).kind = "Reconnect"
          /\ OpenTask(runtime'.generation, "Reconnect", manual).generation = runtime'.generation
      BY DEF OpenTask
    <3>3. RetryOpens'
      BY <3>1, <3>2 DEF RetryOpens, Current
    <3> QED BY <1>1, <3>3, RetryPartsNext
  <2>2. CASE Schedules(in)
    <3>1. timer' = runtime'.reconnect
      BY <1>3, <2>2 DEF Transition
    <3>2. timer' # 0
      BY <1>1, <1>3, <2>2, <3>1, TransitionMoves DEF Runtimes, Count
    <3>3. TimerLive'
      BY <3>1, <3>2 DEF TimerLive
    <3> QED BY <1>1, <3>3, RetryPartsNext
  <2>3. CASE Asks(in) /\ ~present
    <3>1. refused' = ~present
      BY <1>3, <2>3 DEF Transition
    <3> QED BY <2>3, <3>1
  <2>4. CASE ~Asks(in) /\ ~Schedules(in)
    <3>1. refused' = (refused /\ ~Schedules(in))
      BY <1>3, <2>4 DEF Transition
    <3> QED BY <2>4, <3>1, Zenon
  <2> QED BY <2>1, <2>2, <2>3, <2>4
<1> QED BY <1>2, <1>3, RefusalMoves, Zenon

-----------------------------------------------------------------------------
(***************************************************************************)
(* The invariant, and what follows from it.                                *)
(***************************************************************************)
PortInv == FlowHolds /\ VerdictRead /\ GateHolds

LEMMA InitHolds == ASSUME Init PROVE PortInv /\ RefusalInv
<1> USE SessionAssumption, ConnectionAssumption DEF Init
<1>1. /\ session = NewSession /\ session.phase = "Disconnected"
      /\ session.connectivity = "None" /\ Shaped(session)
  BY InactiveShaped DEF NewSession, Inactive, Phases
<1>2. /\ runtime.generation = 0 /\ runtime.reconnect = 0 /\ runtime.bus = 0
      /\ monitor.bus = 0 /\ monitor.verified = 0 /\ reader.stage = "none"
      /\ reader.bus = 0 /\ runtime \in Runtimes
      /\ monitor \in [bus : Nat, verified : Nat, active : Nat]
      /\ reader \in [stage : {"none", "check", "send", "listen", "recheck", "waiting"},
                     session : Nat, bus : Nat, woken : BOOLEAN]
  BY DEF NoReader, Runtimes
<1>3. OtherTypes
  <2>1. known \in BOOLEAN /\ manual \in BOOLEAN /\ refused \in BOOLEAN
    OBVIOUS
  <2> QED BY <2>1 DEF OtherTypes, PlugTypes
<1>4. StepTypes
  BY <1>2 DEF StepTypes, MonitorTypes
<1>5. ConnectionTypeOK
  BY <1>1, <1>3, <1>4, TypesSplit
<1>6. GenerationInv
  BY <1>2 DEF GenerationInv
<1>7. ClosedInv
  BY <1>1, <1>2 DEF ClosedInv, OpenUnderWay, NoReal, OpenFailing, IdentsOnBus, Connecting
<1>8. TimerInv
  BY <1>1, <1>2 DEF TimerInv, TimerLive
<1>9. VerdictInv
  BY <1>1 DEF VerdictInv, NoStaleVerdict
<1>10. VerdictRead
  BY <1>2 DEF VerdictRead
<1>11. GateHolds
  BY <1>2 DEF GateHolds, GateFollowsSession, OnlyVerifiedBusRead, NoLostWakeup
<1>12. RefusalInv
  BY DEF RefusalInv
<1> QED BY <1>1, <1>5, <1>6, <1>7, <1>8, <1>9, <1>10, <1>11, <1>12 DEF FlowHolds, PortInv

LEMMA InvStep ==
    ASSUME PortInv, [Next]_vars
    PROVE  PortInv' /\ (RefusalInv => RefusalInv')
<1>1. FlowHolds /\ LoopHolds
  BY DEF PortInv, FlowHolds, VerdictInv, LoopHolds
<1>2. Step
  BY <1>1, Steps
<1>3. Shaped(session') /\ StepTypes' /\ OtherTypes'
  BY <1>1, <1>2, StepTypesStep, OtherTypesStep DEF FlowHolds
<1>4. Shaped(session)' /\ ConnectionTypeOK'
  BY <1>3 DEF ConnectionTypeOK, StepTypes, OtherTypes, PlugTypes, MonitorTypes, Runtimes, Shaped
<1>5. GenerationInv' /\ ClosedInv' /\ TimerInv' /\ VerdictInv'
  BY <1>1, <1>2, FlowTypes, ClosedStep, TimerStep, VerdictStep
<1>6. VerdictRead' /\ GateHolds'
  BY <1>1, <1>2, VerdictReadStep, GateStep DEF PortInv
<1>7. RefusalInv => RefusalInv'
  BY <1>1, RefusalStep DEF FlowHolds
<1> QED BY <1>4, <1>5, <1>6, <1>7 DEF PortInv, FlowHolds

(***************************************************************************)
(* An ended or faulted session holds no serial port, the gate is open for  *)
(* the connected session only, and no read reaches a bus on which no       *)
(* device was identified (connection_runtime.rs, the generation compared   *)
(* on accept; monitoring_runtime.rs, verified_session).                    *)
(***************************************************************************)
THEOREM PortIsSafe == Spec => []PortFollowsSession
<1>1. Init => PortInv
  BY InitHolds
<1>2. PortInv /\ [Next]_vars => PortInv'
  BY InvStep
<1>3. PortInv => PortFollowsSession
  <2>1. PortInv => EndedIsClosed
    BY DEF PortInv, FlowHolds, ClosedInv, Ended, EndedIsClosed
  <2> QED BY <2>1 DEF PortInv, FlowHolds, GateHolds, PortFollowsSession
<1> QED BY <1>1, <1>2, <1>3, PTL DEF Spec

(***************************************************************************)
(* A read that waits has been woken when the gate is open for it           *)
(* (VerifiedMonitoringBus::read, the Notified future created before the    *)
(* second check).                                                          *)
(***************************************************************************)
THEOREM WakeupIsKept == Spec => []NoLostWakeup
<1>1. Init => PortInv
  BY InitHolds
<1>2. PortInv /\ [Next]_vars => PortInv'
  BY InvStep
<1>3. PortInv => NoLostWakeup
  BY DEF PortInv, GateHolds
<1> QED BY <1>1, <1>2, <1>3, PTL DEF Spec

RetryInv == PortInv /\ RefusalInv /\ RetriesUntilRefused

LEMMA RetryInvStep ==
    ASSUME RetryInv, [Next]_vars
    PROVE  RetryInv'
<1>1. FlowHolds /\ Step /\ PortInv' /\ RefusalInv'
  BY InvStep, Steps DEF RetryInv, PortInv, FlowHolds, VerdictInv, LoopHolds
<1>2. Reconnecting => RetryUnderWay \/ refused
  BY DEF RetryInv, RetriesUntilRefused
<1>3. CASE refused
  BY <1>1, <1>3, RefusalLifted DEF RetryInv, RefusalInv, RetriesUntilRefused
<1>4. CASE ~refused
  BY <1>1, <1>2, <1>4, RetryStep DEF RetryInv, RefusalInv, RetriesUntilRefused
<1> QED BY <1>3, <1>4

(***************************************************************************)
(* A reconnecting session has a retry under way until one is refused: what *)
(* consumes one (a failed open, a verdict, a due timer) starts the next or *)
(* ends the loss (session.rs, transport_lost and reconnect_failed), but    *)
(* for open_effect's refusal, of a port that udev reported removed.        *)
(***************************************************************************)
THEOREM RetriesStopOnlyWhenRefused == Spec => []RetriesUntilRefused
<1>1. Init => RetryInv
  <2>1. Init => ~Reconnecting
    BY DEF Init, NewSession, Inactive, Reconnecting
  <2> QED BY <2>1, InitHolds DEF RetryInv, RefusalInv, RetriesUntilRefused
<1>2. RetryInv /\ [Next]_vars => RetryInv'
  BY RetryInvStep
<1>3. RetryInv => RetriesUntilRefused
  BY DEF RetryInv
<1> QED BY <1>1, <1>2, <1>3, PTL DEF Spec

-----------------------------------------------------------------------------
(***************************************************************************)
(* The invariant of the serial ports.                                      *)
(***************************************************************************)
DescriptorType ==
    [stable : Nat, node : Nat, serial : Nat, present : BOOLEAN, detected : {TRUE}, of : Adapters]

\* what discovery says of an adapter that has a link is that link
Descriptors == {d \in DescriptorType : naming[d.of] # 0 => d.stable = naming[d.of]}

Paths == Descriptors \cup {Manual(n) : n \in Nat}

RecordType == [of : Adapters, node : Nodes, present : BOOLEAN]

\* a map of links that a task has read
IsLinkMap(links) == \A n \in DOMAIN links : links[n] \in Nat

KernelInv ==
    /\ naming \in Namings /\ plugs \in Nat
    /\ devices \in [Nodes -> SUBSET Adapters] /\ \A n \in Nodes : \A a, b \in devices[n] : a = b
    /\ inodes \in [Nodes -> Nat] /\ \A n \in Nodes : inodes[n] <= plugs
    /\ socket \in Seq(RecordType)

ListsInv ==
    /\ batch \in Seq(Descriptors) /\ channel \in Seq(Descriptors)
    /\ \A links \in scan : IsLinkMap(links)
    /\ replies \in Seq(Seq(Descriptors)) /\ ports \in Seq(Descriptors)

AllNamed == \A a \in Adapters : naming[a] # 0

\* what is selected, and what is being opened, has the link of the chosen adapter
SelectionInv ==
    /\ selected \subseteq Paths /\ (selected # {} => chosen # "none")
    /\ chosen \in Adapters /\ AllNamed => \A d \in selected : d.stable = naming[chosen]

OpenStates == {"none", "failed", "resolve", "stat", "verify", "open", "reverify", "hardware", "opened"}
IsOpening == opening.at \notin {"none", "failed"}
HasStream == opening.at \in {"reverify", "hardware", "opened"}

OpeningInv ==
    /\ opening \in [at : OpenStates, path : Paths, node : Nat, inode : Nat,
                    stream : Adapters \cup {"none"}, streamNode : Nat, streamInode : Nat]
    /\ IsOpening =>
          chosen # "none" /\ (chosen \in Adapters /\ AllNamed => opening.path.stable = naming[chosen])
    /\ IsOpening /\ opening.at # "resolve" => opening.node \in Nodes

\* the device that was opened is still there
Alive == devices[opening.streamNode] # {} /\ inodes[opening.streamNode] = opening.streamInode

\* A device file with the inode of the stream is that of the adapter that was
\* opened: another one that is plugged in at the node gets an inode of its own.
\* So what a later look finds there is true of the stream, or the stream is gone.
StreamInv ==
    HasStream =>
        /\ opening.streamNode = opening.node /\ opening.stream \in Adapters
        /\ opening.streamInode <= plugs
        /\ Alive => devices[opening.streamNode] = {opening.stream}
        /\ opening.at # "reverify" /\ opening.path.stable # 0 /\ Alive =>
              naming[opening.stream] = opening.path.stable
        /\ opening.at = "opened" /\ opening.path.serial # 0 /\ Alive =>
              SerialOf[opening.stream] = opening.path.serial

PortsInv == KernelInv /\ ListsInv /\ SelectionInv /\ OpeningInv /\ StreamInv

-----------------------------------------------------------------------------
(***************************************************************************)
(* What discovery and the searches of the lists give.                      *)
(***************************************************************************)
LEMMA LeastNatural ==
    ASSUME NEW S \in SUBSET Nat, S # {}
    PROVE  \E i \in S : \A j \in S : i <= j
<1> DEFINE R == OpToRel(<, Nat)
<1>1. \A x, y \in Nat : y < x => <<y, x>> \in R
  BY Zenon DEF OpToRel
<1>2. IsWellFoundedOn(R, Nat)
  BY NatLessThanWellFounded
<1> HIDE DEF R
<1>3. PICK x \in S : \A y \in S : <<y, x>> \notin R
  BY <1>2, WFMin
<1>4. ASSUME NEW y \in S PROVE x <= y
  <2>1. y < x => <<y, x>> \in R
    BY <1>1
  <2> QED BY <1>3, <2>1
<1> QED BY <1>3, <1>4

\* the adapter at a device node that is there
LEMMA PluggedIn ==
    ASSUME KernelInv, NEW n \in Nodes, devices[n] # {}
    PROVE  (CHOOSE a \in devices[n] : TRUE) \in Adapters /\ devices[n] = {CHOOSE a \in devices[n] : TRUE}
<1> DEFINE x == CHOOSE a \in devices[n] : TRUE
<1>1. x \in devices[n]
  OBVIOUS
<1> HIDE DEF x
<1>2. x \in Adapters /\ devices[n] = {x}
  BY <1>1 DEF KernelInv
<1> QED BY <1>2 DEF x

LEMMA NamingTyped ==
    ASSUME KernelInv
    PROVE  /\ naming \in [Adapters -> Nat]
           /\ \A a, b \in Adapters : naming[a] # 0 /\ naming[a] = naming[b] => a = b
BY SerialAssumption DEF KernelInv

LEMMA LinkMapTyped == ASSUME KernelInv PROVE IsLinkMap(LinkMap)
<1>1. ASSUME NEW n \in DOMAIN LinkMap PROVE LinkMap[n] \in Nat
  <2> DEFINE x == CHOOSE a \in devices[n] : TRUE
  <2>1. n \in Nodes /\ devices[n] # {} /\ LinkMap[n] = naming[x]
    BY DEF LinkMap
  <2>2. x \in Adapters
    BY <2>1, PluggedIn
  <2> HIDE DEF x
  <2> QED BY <2>1, <2>2, NamingTyped
<1> QED BY <1>1 DEF IsLinkMap

LEMMA DescribedTyped ==
    ASSUME KernelInv, NEW a \in Adapters, NEW node \in Nodes, NEW here \in BOOLEAN,
           NEW links, IsLinkMap(links)
    PROVE  Described(a, node, here, links) \in Descriptors
<1> DEFINE stable == IF naming[a] # 0 THEN naming[a] ELSE IF node \in DOMAIN links THEN links[node] ELSE 0
           serial == SerialOf[a]
<1>1. stable \in Nat /\ (naming[a] # 0 => stable = naming[a])
  BY NamingTyped DEF IsLinkMap
<1>2. serial \in Nat /\ node \in Nat
  BY SerialAssumption
<1>3. Described(a, node, here, links) =
          [stable |-> stable, node |-> node, serial |-> serial, present |-> here, detected |-> TRUE, of |-> a]
  BY DEF Described, Descriptor
<1> HIDE DEF stable, serial
<1>4. Described(a, node, here, links) \in DescriptorType /\ Described(a, node, here, links).of = a
      /\ Described(a, node, here, links).stable = stable
  BY <1>1, <1>2, <1>3 DEF DescriptorType
<1> QED BY <1>1, <1>4 DEF Descriptors

LEMMA ManualTyped ==
    ASSUME NEW n
    PROVE  Manual(n).stable = 0 /\ Manual(n).serial = 0 /\ Manual(n).detected = FALSE
BY DEF Manual, Descriptor

\* the search for a port that is the same
LEMMA SameFound ==
    ASSUME NEW list \in Seq(Descriptors), NEW d, PlaceOf(d, list) # 0
    PROVE  PlaceOf(d, list) \in DOMAIN list /\ SamePort(list[PlaceOf(d, list)], d)
<1> DEFINE I == {i \in 1 .. Len(list) : SamePort(list[i], d)}
<1>1. PlaceOf(d, list) = IF I # {} THEN Min(I) ELSE 0
  BY DEF PlaceOf, SelectInSeq
<1>2. I \in SUBSET Nat /\ I \subseteq DOMAIN list
  OBVIOUS
<1>3. I # {} /\ PlaceOf(d, list) = Min(I)
  BY <1>1
<1>4. PlaceOf(d, list) \in I
  BY <1>2, <1>3, LeastNatural DEF Min
<1> QED BY <1>2, <1>4

-----------------------------------------------------------------------------
(***************************************************************************)
(* The kernel, discovery and the lists.                                    *)
(***************************************************************************)
DiscoverySteps ==
    MonitorReads \/ MonitorSends \/ MonitorEnds \/ RefreshReadsLinks
      \/ (\E links \in scan : RefreshScans(links)) \/ RefreshFails

ReducerSteps ==
    ReceiveEvent \/ ReceiveSnapshot \/ (\E i \in DOMAIN ports : SelectDetected(i))
      \/ (\E n \in Nodes : SelectManual(n)) \/ (\E d \in selected : Open(d))

LookSteps ==
    Resolve \/ Stat \/ Verify \/ Reverify \/ (\E good \in BOOLEAN : OpenNative(good) \/ Opened(good))

LEMMA KernelPlug ==
    ASSUME KernelInv, NEW a \in Adapters, NEW n \in Nodes, Plug(a, n) PROVE KernelInv'
<1>1. /\ devices' = [devices EXCEPT ![n] = {a}] /\ inodes' = [inodes EXCEPT ![n] = plugs + 1]
      /\ plugs' = plugs + 1 /\ naming' = naming /\ socket' = Append(socket, Record(a, n, TRUE))
  BY DEF Plug
<1>2. devices' \in [Nodes -> SUBSET Adapters] /\ \A m \in Nodes : \A b, c \in devices'[m] : b = c
  BY <1>1 DEF KernelInv
<1>3. inodes' \in [Nodes -> Nat] /\ \A m \in Nodes : inodes'[m] <= plugs'
  <2> SUFFICES ASSUME NEW m \in Nodes PROVE inodes'[m] \in Nat /\ inodes'[m] <= plugs'
    BY <1>1 DEF KernelInv
  <2>1. inodes[m] \in Nat /\ inodes[m] <= plugs /\ plugs \in Nat
    BY DEF KernelInv
  <2>2. inodes'[m] = IF m = n THEN plugs + 1 ELSE inodes[m]
    BY <1>1 DEF KernelInv
  <2> QED BY <1>1, <2>1, <2>2
<1>4. socket' \in Seq(RecordType)
  <2> DEFINE r == Record(a, n, TRUE)
  <2>1. r \in RecordType
    BY DEF Record, RecordType
  <2>2. socket' = Append(socket, r)
    BY <1>1
  <2> HIDE DEF r
  <2> QED BY <2>1, <2>2 DEF KernelInv
<1>5. plugs' \in Nat
  BY <1>1 DEF KernelInv
<1> QED BY <1>1, <1>2, <1>3, <1>4, <1>5 DEF KernelInv

LEMMA KernelUnplug ==
    ASSUME KernelInv, NEW n \in Nodes, Unplug(n) PROVE KernelInv'
<1>1. /\ devices' = [devices EXCEPT ![n] = {}] /\ UNCHANGED <<naming, inodes, plugs>>
      /\ \E a \in devices[n] : socket' = Append(socket, Record(a, n, FALSE))
  BY DEF Unplug
<1>2. devices' \in [Nodes -> SUBSET Adapters] /\ \A m \in Nodes : \A b, c \in devices'[m] : b = c
  BY <1>1 DEF KernelInv
<1>3. socket' \in Seq(RecordType)
  <2>1. PICK a \in devices[n] : socket' = Append(socket, Record(a, n, FALSE))
    BY <1>1
  <2> DEFINE r == Record(a, n, FALSE)
  <2>2. r \in RecordType
    BY DEF Record, RecordType, KernelInv
  <2>3. socket' = Append(socket, r)
    BY <2>1
  <2> HIDE DEF r
  <2> QED BY <2>2, <2>3 DEF KernelInv
<1> QED BY <1>1, <1>2, <1>3 DEF KernelInv

LEMMA KernelDiscovery == ASSUME KernelInv, DiscoverySteps PROVE KernelInv'
<1>1. UNCHANGED <<naming, devices, inodes, plugs>>
  BY DEF DiscoverySteps, MonitorReads, MonitorSends, MonitorEnds, RefreshReadsLinks, RefreshScans, RefreshFails
<1>2. socket' \in Seq(RecordType)
  <2>1. CASE MonitorReads
    <3> DEFINE n == IF Len(socket) < EventsPerWake THEN Len(socket) ELSE EventsPerWake
    <3>1. socket \in Seq(RecordType) /\ n \in Nat /\ n <= Len(socket)
      BY SerialAssumption DEF KernelInv
    <3>2. socket' = SubSeq(socket, n + 1, Len(socket))
      BY <2>1 DEF MonitorReads
    <3> HIDE DEF n
    <3> QED BY <3>1, <3>2
  <2>2. CASE ~MonitorReads
    <3>1. socket' = socket
      BY <2>2 DEF DiscoverySteps, MonitorSends, MonitorEnds, RefreshReadsLinks, RefreshScans, RefreshFails
    <3> QED BY <3>1 DEF KernelInv
  <2> QED BY <2>1, <2>2
<1> QED BY <1>1, <1>2 DEF KernelInv

LEMMA KernelKept ==
    ASSUME KernelInv, UNCHANGED <<naming, devices, inodes, plugs, socket>> PROVE KernelInv'
BY DEF KernelInv

LEMMA KernelStep == ASSUME KernelInv, PortsNext PROVE KernelInv'
<1>1. CASE ReducerSteps
  BY <1>1, KernelKept DEF ReducerSteps, ReceiveEvent, ReceiveSnapshot, SelectDetected, SelectManual, Open
<1>2. CASE LookSteps
  BY <1>2, KernelKept DEF LookSteps, LookStep, Resolve, Stat, Verify, Reverify, OpenNative, Opened
<1> QED BY <1>1, <1>2, KernelPlug, KernelUnplug, KernelDiscovery
        DEF PortsNext, DiscoverySteps, ReducerSteps, LookSteps

-----------------------------------------------------------------------------
\* the links that are known are those the adapters have
LEMMA DescriptorsKept == ASSUME naming' = naming PROVE Descriptors' = Descriptors /\ Paths' = Paths
BY DEF Descriptors, Paths

LEMMA ListsKept ==
    ASSUME ListsInv, naming' = naming, UNCHANGED <<batch, channel, scan, replies, ports>>
    PROVE  ListsInv'
BY DescriptorsKept DEF ListsInv

LEMMA ListsMonitorReads == ASSUME KernelInv, ListsInv, MonitorReads PROVE ListsInv'
<1>1. PICK n \in Nat :
          /\ n <= Len(socket)
          /\ batch' = [i \in 1 .. n |-> Described(socket[i].of, socket[i].node, socket[i].present, LinkMap)]
  BY SerialAssumption DEF MonitorReads, KernelInv
<1>2. ASSUME NEW i \in 1 .. n PROVE batch'[i] \in Descriptors
  <2>1. socket[i] \in RecordType
    BY <1>1 DEF KernelInv
  <2>2. socket[i].of \in Adapters /\ socket[i].node \in Nodes /\ socket[i].present \in BOOLEAN
    BY <2>1 DEF RecordType
  <2> QED BY <1>1, <2>2, DescribedTyped, LinkMapTyped
<1>3. batch' \in Seq(Descriptors)
  <2>1. batch' \in [1 .. n -> Descriptors]
    BY <1>1, <1>2
  <2> QED BY <2>1
<1>4. naming' = naming /\ UNCHANGED <<channel, scan, replies, ports>>
  BY DEF MonitorReads
<1> QED BY <1>3, <1>4, DescriptorsKept DEF ListsInv

LEMMA ListsMonitorSends == ASSUME ListsInv, MonitorSends PROVE ListsInv'
<1>1. /\ batch # <<>> /\ channel' = Append(channel, Head(batch)) /\ batch' = Tail(batch)
      /\ naming' = naming /\ UNCHANGED <<scan, replies, ports>>
  BY DEF MonitorSends
<1>2. batch \in Seq(Descriptors) /\ channel \in Seq(Descriptors)
  BY DEF ListsInv
<1>3. channel' \in Seq(Descriptors) /\ batch' \in Seq(Descriptors)
  BY <1>1, <1>2
<1> QED BY <1>1, <1>3, DescriptorsKept DEF ListsInv

LEMMA ListsMonitorEnds == ASSUME ListsInv, MonitorEnds PROVE ListsInv'
<1>1. naming' = naming /\ UNCHANGED <<channel, scan, replies, ports>> /\ batch' \in Seq(Descriptors)
  BY DEF MonitorEnds
<1> QED BY <1>1, DescriptorsKept DEF ListsInv

LEMMA ListsRefreshReads == ASSUME KernelInv, ListsInv, RefreshReadsLinks PROVE ListsInv'
<1>1. naming' = naming /\ UNCHANGED <<batch, channel, replies, ports>> /\ scan' = {LinkMap}
  BY DEF RefreshReadsLinks
<1>2. \A links \in scan' : IsLinkMap(links)
  BY <1>1, LinkMapTyped
<1> QED BY <1>1, <1>2, DescriptorsKept DEF ListsInv, IsLinkMap

LEMMA ListsRefreshScans ==
    ASSUME KernelInv, ListsInv, NEW links \in scan, RefreshScans(links) PROVE ListsInv'
<1> DEFINE M == {m \in Nodes : devices[m] # {}}
           F(n) == Described(CHOOSE a \in devices[n] : TRUE, n, TRUE, links)
           f == [n \in M |-> F(n)]
           found == {F(n) : n \in M}
<1>1. PICK list \in Bijection(1 .. Cardinality(found), found) : replies' = Append(replies, list)
  BY DEF RefreshScans
<1>2. ASSUME NEW n \in M PROVE F(n) \in Descriptors
  <2>1. IsLinkMap(links) /\ (CHOOSE a \in devices[n] : TRUE) \in Adapters
    BY PluggedIn DEF ListsInv
  <2> QED BY <2>1, DescribedTyped
<1>3. found \subseteq Descriptors
  BY <1>2
<1>4. IsFiniteSet(M)
  BY SerialAssumption, FS_Subset
<1>5. f \in Surjection(M, found)
  BY DEF Surjection
<1> HIDE DEF M, f, found
<1>6. IsFiniteSet(found)
  BY <1>4, <1>5, FS_Surjection
<1>7. Cardinality(found) \in Nat
  BY <1>6, FS_CardinalityType
<1>8. list \in [1 .. Cardinality(found) -> Descriptors]
  BY <1>1, <1>3 DEF Bijection, Injection
<1>9. list \in Seq(Descriptors)
  BY <1>7, <1>8
<1>10. replies' \in Seq(Seq(Descriptors))
  <2> DEFINE S == Seq(Descriptors)
  <2>1. replies \in Seq(S) /\ list \in S
    BY <1>9 DEF ListsInv
  <2> HIDE DEF S
  <2>2. replies' \in Seq(S)
    BY <1>1, <2>1
  <2> QED BY <2>2 DEF S
<1>11. naming' = naming /\ UNCHANGED <<batch, channel, ports>> /\ scan' = {}
  BY DEF RefreshScans
<1> QED BY <1>10, <1>11, DescriptorsKept DEF ListsInv

LEMMA ListsRefreshFails == ASSUME ListsInv, RefreshFails PROVE ListsInv'
<1>1. naming' = naming /\ UNCHANGED <<batch, channel, replies, ports>> /\ scan' = {}
  BY DEF RefreshFails
<1> QED BY <1>1, DescriptorsKept DEF ListsInv

LEMMA ListsReceiveEvent == ASSUME ListsInv, ReceiveEvent PROVE ListsInv'
<1> DEFINE d == Head(channel)
           i == PlaceOf(d, ports)
           more == Append(ports, d)
<1>1. channel \in Seq(Descriptors) /\ channel # <<>> /\ channel' = Tail(channel) /\ ports \in Seq(Descriptors)
  BY DEF ListsInv, ReceiveEvent
<1>2. d \in Descriptors /\ channel' \in Seq(Descriptors)
  BY <1>1
<1>3. naming' = naming /\ UNCHANGED <<batch, scan, replies>>
  BY DEF ReceiveEvent
<1>4. ports' \in Seq(Descriptors)
  <2>1. CASE i # 0 /\ ports' = [ports EXCEPT ![i] = d]
    <3>1. i \in DOMAIN ports
      BY <1>1, <2>1, SameFound
    <3> HIDE DEF i, d
    <3> QED BY <1>1, <1>2, <2>1, <3>1
  <2>2. ASSUME NEW order \in Bijection(DOMAIN more, DOMAIN more), ports' = [k \in DOMAIN more |-> more[order[k]]]
        PROVE  ports' \in Seq(Descriptors)
    <3>1. more \in Seq(Descriptors)
      BY <1>1, <1>2
    <3> HIDE DEF more
    <3>2. order \in [DOMAIN more -> DOMAIN more]
      BY <2>2 DEF Bijection, Injection
    <3>3. DOMAIN more = 1 .. Len(more) /\ Len(more) \in Nat /\ \A k \in DOMAIN more : more[k] \in Descriptors
      BY <3>1
    <3>4. ports' \in [1 .. Len(more) -> Descriptors]
      BY <2>2, <3>2, <3>3
    <3> QED BY <3>3, <3>4
  <2> QED BY <2>1, <2>2 DEF ReceiveEvent
<1> QED BY <1>2, <1>3, <1>4, DescriptorsKept DEF ListsInv

LEMMA ListsReceiveSnapshot == ASSUME ListsInv, ReceiveSnapshot PROVE ListsInv'
<1>1. /\ replies # <<>> /\ replies' = Tail(replies) /\ ports' = Head(replies)
      /\ naming' = naming /\ UNCHANGED <<batch, channel, scan>>
  BY DEF ReceiveSnapshot
<1> DEFINE S == Seq(Descriptors)
<1>2. replies \in Seq(S)
  BY DEF ListsInv
<1> HIDE DEF S
<1>3. replies' \in Seq(S) /\ ports' \in S
  BY <1>1, <1>2
<1> QED BY <1>1, <1>3, DescriptorsKept DEF ListsInv, S

LEMMA ListsStep == ASSUME KernelInv, ListsInv, PortsNext PROVE ListsInv'
<1>1. CASE \E a \in Adapters, n \in Nodes : Plug(a, n) \/ Unplug(n)
  BY <1>1, ListsKept DEF Plug, Unplug
<1>2. CASE \/ \E i \in DOMAIN ports : SelectDetected(i)
           \/ \E n \in Nodes : SelectManual(n)
           \/ \E d \in selected : Open(d)
  BY <1>2, ListsKept DEF SelectDetected, SelectManual, Open
<1>3. CASE LookSteps
  BY <1>3, ListsKept DEF LookSteps, LookStep, Resolve, Stat, Verify, Reverify, OpenNative, Opened
<1>4. CASE \E n \in Nodes : Unplug(n)
  BY <1>4, ListsKept DEF Unplug
<1> QED BY <1>1, <1>2, <1>3, <1>4, ListsMonitorReads, ListsMonitorSends, ListsMonitorEnds, ListsRefreshReads,
           ListsRefreshScans, ListsRefreshFails, ListsReceiveEvent, ListsReceiveSnapshot
        DEF PortsNext, LookSteps

-----------------------------------------------------------------------------
(***************************************************************************)
(* The selection follows the adapter.                                      *)
(***************************************************************************)
LEMMA SelectionKept ==
    ASSUME SelectionInv, UNCHANGED <<naming, selected, chosen>> PROVE SelectionInv'
BY DescriptorsKept DEF SelectionInv, AllNamed

\* of two adapters that have links, the same one has the same link
LEMMA SameIsSame ==
    ASSUME KernelInv, AllNamed, NEW a \in Adapters, NEW s, s.stable = naming[a],
           NEW d \in Descriptors, SamePort(s, d) \/ SamePort(d, s)
    PROVE  d.stable = naming[a]
<1>1. d.of \in Adapters
  BY DEF Descriptors, DescriptorType
<1>2. naming[a] # 0 /\ naming[d.of] # 0
  BY <1>1 DEF AllNamed
<1>3. d.stable = naming[d.of]
  BY <1>2 DEF Descriptors
<1> QED BY <1>2, <1>3 DEF SamePort

LEMMA SelectionReceiveEvent ==
    ASSUME KernelInv, ListsInv, SelectionInv, ReceiveEvent PROVE SelectionInv'
<1> DEFINE d == Head(channel)
<1>1. naming' = naming /\ chosen' = chosen
      /\ selected' = IF \E s \in selected : SamePort(s, d) THEN {d} ELSE selected
  BY DEF ReceiveEvent
<1>2. d \in Descriptors
  BY DEF ListsInv, ReceiveEvent
<1> HIDE DEF d
<1>3. CASE \E s \in selected : SamePort(s, d)
  <2>1. PICK s \in selected : SamePort(s, d)
    BY <1>3
  <2>2. selected' = {d} /\ chosen # "none"
    BY <1>1, <1>3 DEF SelectionInv
  <2>3. chosen \in Adapters /\ AllNamed => d.stable = naming[chosen]
    BY <1>2, <2>1, SameIsSame DEF SelectionInv
  <2>4. selected' \subseteq Paths'
    BY <1>1, <1>2, <2>2, DescriptorsKept DEF Paths
  <2> QED BY <1>1, <2>2, <2>3, <2>4 DEF SelectionInv, AllNamed
<1>4. CASE ~\E s \in selected : SamePort(s, d)
  BY <1>1, <1>4, SelectionKept
<1> QED BY <1>3, <1>4

LEMMA SelectionReceiveSnapshot ==
    ASSUME KernelInv, ListsInv, SelectionInv, ReceiveSnapshot PROVE SelectionInv'
<1> DEFINE list == Head(replies)
           New(s) == IF s.detected /\ PlaceOf(s, list) # 0 THEN list[PlaceOf(s, list)] ELSE s
<1>1. naming' = naming /\ chosen' = chosen /\ selected' = {New(s) : s \in selected}
  BY DEF ReceiveSnapshot
<1>2. list \in Seq(Descriptors)
  <2> DEFINE S == Seq(Descriptors)
  <2>1. replies \in Seq(S) /\ replies # <<>>
    BY DEF ListsInv, ReceiveSnapshot
  <2> HIDE DEF S
  <2>2. Head(replies) \in S
    BY <2>1
  <2> QED BY <2>2 DEF S
<1> HIDE DEF list
<1>3. ASSUME NEW s \in selected
      PROVE  New(s) \in Paths /\ (chosen \in Adapters /\ AllNamed => New(s).stable = naming[chosen])
  <2>1. CASE s.detected /\ PlaceOf(s, list) # 0
    <3> DEFINE d == list[PlaceOf(s, list)]
    <3>1. PlaceOf(s, list) \in DOMAIN list /\ SamePort(d, s)
      BY <1>2, <2>1, SameFound
    <3>2. d \in Descriptors
      BY <1>2, <3>1
    <3>3. New(s) = d
      BY <2>1
    <3> HIDE DEF d
    <3>4. chosen \in Adapters /\ AllNamed => d.stable = naming[chosen]
      BY <3>1, <3>2, SameIsSame DEF SelectionInv
    <3> QED BY <3>2, <3>3, <3>4 DEF Paths
  <2>2. CASE ~(s.detected /\ PlaceOf(s, list) # 0)
    BY <2>2 DEF SelectionInv
  <2> QED BY <2>1, <2>2
<1>4. selected' \subseteq Paths'
  BY <1>1, <1>3, DescriptorsKept
<1>5. selected' # {} => chosen' # "none"
  BY <1>1 DEF SelectionInv
<1> HIDE DEF New
<1> QED BY <1>1, <1>3, <1>4, <1>5 DEF SelectionInv, AllNamed

LEMMA SelectionSelectDetected ==
    ASSUME KernelInv, ListsInv, NEW i \in DOMAIN ports, SelectDetected(i) PROVE SelectionInv'
<1> DEFINE j == SelectInSeq(ports, LAMBDA p : SelectionMatches(ports[i], p))
           d == ports[j]
           I == {k \in 1 .. Len(ports) : SelectionMatches(ports[i], ports[k])}
<1>1. naming' = naming /\ selected' = {d} /\ chosen' = d.of
  BY DEF SelectDetected
<1>2. j = IF I # {} THEN Min(I) ELSE 0
  BY DEF SelectInSeq
<1>3. ports \in Seq(Descriptors)
  BY DEF ListsInv
<1>4. I \in SUBSET Nat /\ I \subseteq DOMAIN ports /\ i \in I
  BY <1>3 DEF SelectionMatches
<1>5. j = Min(I)
  BY <1>2, <1>4
<1> HIDE DEF j
<1>6. j \in I
  BY <1>4, <1>5, LeastNatural DEF Min
<1>7. d \in Descriptors
  BY <1>3, <1>4, <1>6
<1> HIDE DEF d
<1>8. d.of \in Adapters /\ d.of # "none"
  BY <1>7, SerialAssumption DEF Descriptors, DescriptorType
<1>9. AllNamed => d.stable = naming[d.of]
  BY <1>7, <1>8 DEF AllNamed, Descriptors
<1>10. selected' \subseteq Paths'
  BY <1>1, <1>7, DescriptorsKept DEF Paths
<1> QED BY <1>1, <1>8, <1>9, <1>10 DEF SelectionInv, AllNamed

LEMMA SelectionSelectManual ==
    ASSUME NEW n \in Nodes, SelectManual(n) PROVE SelectionInv'
<1>1. naming' = naming /\ selected' = {Manual(n)} /\ chosen' = "manual"
  BY DEF SelectManual
<1>2. "manual" \notin Adapters /\ "manual" # "none" /\ n \in Nat
  BY SerialAssumption
<1>3. selected' \subseteq Paths'
  BY <1>1, <1>2, DescriptorsKept DEF Paths
<1> QED BY <1>1, <1>2, <1>3 DEF SelectionInv

LEMMA SelectionStep == ASSUME KernelInv, ListsInv, SelectionInv, PortsNext PROVE SelectionInv'
<1>1. CASE \E n \in Nodes : Unplug(n) \/ \E a \in Adapters : Plug(a, n)
  BY <1>1, SelectionKept DEF Plug, Unplug
<1>2. CASE DiscoverySteps
  BY <1>2, SelectionKept
     DEF DiscoverySteps, MonitorReads, MonitorSends, MonitorEnds, RefreshReadsLinks, RefreshScans, RefreshFails
<1>3. CASE LookSteps \/ \E d \in selected : Open(d)
  BY <1>3, SelectionKept DEF LookSteps, LookStep, Resolve, Stat, Verify, Reverify, OpenNative, Opened, Open
<1> QED BY <1>1, <1>2, <1>3, SelectionReceiveEvent, SelectionReceiveSnapshot, SelectionSelectDetected,
           SelectionSelectManual
        DEF PortsNext, DiscoverySteps, LookSteps

-----------------------------------------------------------------------------
(***************************************************************************)
(* The open task.                                                          *)
(***************************************************************************)
OpeningType ==
    [at : OpenStates, path : Paths, node : Nat, inode : Nat,
     stream : Adapters \cup {"none"}, streamNode : Nat, streamInode : Nat]

\* the choice stands while a port is opened
LEMMA ChoiceStands ==
    ASSUME PortsNext, OpeningInv, IsOpening PROVE chosen' = chosen
<1>1. chosen # "none"
  BY DEF OpeningInv
<1> QED BY <1>1 DEF PortsNext, Plug, Unplug, MonitorReads, MonitorSends, MonitorEnds, RefreshReadsLinks,
           RefreshScans, RefreshFails, ReceiveEvent, ReceiveSnapshot, SelectDetected, SelectManual, Open,
           LookStep, Resolve, Stat, Verify, Reverify, OpenNative, Opened

LEMMA OpeningKept ==
    ASSUME PortsNext, OpeningInv, UNCHANGED <<naming, opening>> PROVE OpeningInv'
<1>1. IsOpening => chosen' = chosen
  BY ChoiceStands
<1>2. opening' \in OpeningType'
  BY DescriptorsKept DEF OpeningInv, OpeningType
<1> QED BY <1>1, <1>2 DEF OpeningInv, OpeningType, IsOpening, AllNamed

\* a stream that is alive has been so
LEMMA StreamKept ==
    ASSUME StreamInv, UNCHANGED <<naming, opening, devices, inodes, plugs>> PROVE StreamInv'
BY DEF StreamInv, HasStream, Alive

LEMMA StreamPlug ==
    ASSUME KernelInv, OpeningInv, StreamInv, NEW a \in Adapters, NEW n \in Nodes, Plug(a, n)
    PROVE  StreamInv'
<1> SUFFICES ASSUME HasStream PROVE StreamInv'
  BY DEF StreamInv, HasStream, Plug
<1>1. /\ devices' = [devices EXCEPT ![n] = {a}] /\ inodes' = [inodes EXCEPT ![n] = plugs + 1]
      /\ plugs' = plugs + 1 /\ UNCHANGED <<naming, opening>>
  BY DEF Plug
<1> DEFINE m == opening.streamNode
<1>2. m \in Nodes /\ opening.streamInode \in Nat /\ opening.streamInode <= plugs
  BY DEF StreamInv, OpeningInv, HasStream, IsOpening
<1>3. plugs \in Nat /\ devices \in [Nodes -> SUBSET Adapters] /\ inodes \in [Nodes -> Nat]
  BY DEF KernelInv
<1>4. m # n => devices'[m] = devices[m] /\ inodes'[m] = inodes[m]
  BY <1>1, <1>2, <1>3
<1>5. m = n => inodes'[m] # opening.streamInode
  BY <1>1, <1>2, <1>3
<1>6. Alive' => Alive /\ devices'[m] = devices[m]
  BY <1>1, <1>4, <1>5 DEF Alive
<1>7. opening.streamInode <= plugs'
  BY <1>1, <1>2, <1>3
<1> QED BY <1>1, <1>6, <1>7 DEF StreamInv, HasStream

LEMMA StreamUnplug ==
    ASSUME KernelInv, OpeningInv, StreamInv, NEW n \in Nodes, Unplug(n) PROVE StreamInv'
<1> SUFFICES ASSUME HasStream PROVE StreamInv'
  BY DEF StreamInv, HasStream, Unplug
<1>1. devices' = [devices EXCEPT ![n] = {}] /\ UNCHANGED <<naming, inodes, plugs, opening>>
  BY DEF Unplug
<1> DEFINE m == opening.streamNode
<1>2. m \in Nodes
  BY DEF StreamInv, OpeningInv, HasStream, IsOpening
<1>3. Alive' => Alive /\ devices'[m] = devices[m]
  BY <1>1, <1>2 DEF Alive, KernelInv
<1> QED BY <1>1, <1>3 DEF StreamInv, HasStream

LEMMA FailedTyped == Failed \in OpeningType /\ Failed.at = "failed"
<1> DEFINE d == Manual(0)
<1>1. d \in Paths
  BY DEF Paths
<1> HIDE DEF d
<1>2. NoTask = [at |-> "none", path |-> d, node |-> 0, inode |-> 0, stream |-> "none", streamNode |-> 0,
                streamInode |-> 0]
  BY DEF NoTask, d
<1>3. NoTask \in OpeningType
  BY <1>1, <1>2 DEF OpeningType, OpenStates
<1> QED BY <1>3 DEF Failed, OpeningType, OpenStates

\* a look of the open task: it fails, or goes on with the same request
LEMMA OpeningLook ==
    ASSUME OpeningInv, IsOpening, NEW next, opening' = next, UNCHANGED <<naming, chosen>>,
           next = Failed \/ (next \in OpeningType /\ next.path = opening.path /\ next.node \in Nodes)
    PROVE  OpeningInv'
<1>1. CASE next = Failed
  <2>1. opening' \in OpeningType' /\ opening'.at = "failed"
    BY <1>1, FailedTyped, DescriptorsKept DEF OpeningType
  <2> QED BY <2>1 DEF OpeningInv, OpeningType, IsOpening
<1>2. CASE next \in OpeningType /\ next.path = opening.path /\ next.node \in Nodes
  <2>1. opening' \in OpeningType'
    BY <1>2, DescriptorsKept DEF OpeningType
  <2>2. /\ opening'.path = opening.path /\ opening'.node \in Nodes /\ chosen' # "none"
        /\ chosen' \in Adapters /\ AllNamed' => opening'.path.stable = naming'[chosen']
    BY <1>2 DEF OpeningInv, AllNamed
  <2> QED BY <2>1, <2>2 DEF OpeningInv, OpeningType
<1> QED BY <1>1, <1>2

LEMMA NoStreamYet ==
    ASSUME opening' = Failed \/ opening'.at \in {"resolve", "stat", "verify", "open"} PROVE StreamInv'
BY FailedTyped DEF StreamInv, HasStream

LEMMA SelectedOpens ==
    ASSUME SelectionInv, OpeningInv, NEW d \in selected, Open(d) PROVE OpeningInv' /\ StreamInv'
<1>1. opening' = [NoTask EXCEPT !.at = "resolve", !.path = d] /\ UNCHANGED <<naming, selected, chosen>>
  BY DEF Open
<1>2. d \in Paths /\ chosen # "none" /\ (chosen \in Adapters /\ AllNamed => d.stable = naming[chosen])
  BY DEF SelectionInv
<1>3. opening' = [at |-> "resolve", path |-> d, node |-> 0, inode |-> 0, stream |-> "none", streamNode |-> 0,
                  streamInode |-> 0]
  BY <1>1 DEF NoTask
<1>4. opening' \in OpeningType /\ opening'.at = "resolve" /\ opening'.path = d
  BY <1>2, <1>3 DEF OpeningType, OpenStates
<1>5. opening' \in OpeningType'
  BY <1>1, <1>4, DescriptorsKept DEF OpeningType
<1> QED BY <1>1, <1>2, <1>4, <1>5, NoStreamYet DEF OpeningInv, OpeningType, AllNamed

LEMMA ResolveStep == ASSUME OpeningInv, Resolve PROVE OpeningInv' /\ StreamInv'
<1> DEFINE found == IF Requested.stable # 0 THEN Target(Requested.stable)
                    ELSE {n \in Nodes : n = Requested.node /\ devices[n] # {}}
           x == CHOOSE n \in found : TRUE
<1>1. opening.at = "resolve" /\ UNCHANGED <<naming, chosen>> /\ opening \in OpeningType
      /\ opening' = IF found = {} THEN Failed ELSE [opening EXCEPT !.at = "stat", !.node = x]
  BY DEF Resolve, LookStep, OpeningInv, OpeningType
<1>2. IsOpening
  BY <1>1 DEF IsOpening
<1>3. CASE found = {}
  BY <1>1, <1>2, <1>3, OpeningLook, NoStreamYet
<1>4. CASE found # {}
  <2>1. found \subseteq Nodes
    BY DEF Target
  <2>2. x \in Nodes /\ x \in Nat
    BY <1>4, <2>1, SerialAssumption
  <2> HIDE DEF found, x
  <2>3. opening' \in OpeningType /\ opening'.path = opening.path /\ opening'.node = x /\ opening'.at = "stat"
    BY <1>1, <1>4, <2>2 DEF OpeningType, OpenStates
  <2> QED BY <1>1, <1>2, <2>2, <2>3, OpeningLook, NoStreamYet
<1> QED BY <1>3, <1>4

LEMMA StatStep == ASSUME KernelInv, OpeningInv, Stat PROVE OpeningInv' /\ StreamInv'
<1> DEFINE x == inodes[opening.node]
<1>1. opening.at = "stat" /\ UNCHANGED <<naming, chosen>> /\ opening \in OpeningType /\ opening.node \in Nodes
      /\ (opening' = Failed \/ opening' = [opening EXCEPT !.at = "verify", !.inode = x])
  BY DEF Stat, LookStep, OpeningInv, OpeningType, IsOpening
<1>2. IsOpening /\ x \in Nat
  BY <1>1 DEF IsOpening, KernelInv
<1>3. CASE opening' = Failed
  BY <1>1, <1>2, <1>3, OpeningLook, NoStreamYet
<1>4. CASE opening' = [opening EXCEPT !.at = "verify", !.inode = x]
  <2> HIDE DEF x
  <2>1. opening' \in OpeningType /\ opening'.path = opening.path /\ opening'.node = opening.node
        /\ opening'.at = "verify"
    BY <1>1, <1>2, <1>4 DEF OpeningType, OpenStates
  <2> QED BY <1>1, <1>2, <2>1, OpeningLook, NoStreamYet
<1> QED BY <1>1, <1>3, <1>4

\* a look that only lets the task go on
LEMMA OpeningGoesOn ==
    ASSUME OpeningInv, IsOpening, opening.at # "resolve", UNCHANGED <<naming, chosen>>,
           NEW at \in OpenStates, opening' = Failed \/ opening' = [opening EXCEPT !.at = at]
    PROVE  OpeningInv'
<1>1. opening \in OpeningType /\ opening.node \in Nodes
  BY DEF OpeningInv, OpeningType
<1>2. CASE opening' = Failed
  BY <1>2, OpeningLook
<1>3. CASE opening' = [opening EXCEPT !.at = at]
  <2>1. opening' \in OpeningType /\ opening'.path = opening.path /\ opening'.node = opening.node
    BY <1>1, <1>3 DEF OpeningType
  <2> QED BY <1>1, <2>1, OpeningLook
<1> QED BY <1>2, <1>3

LEMMA VerifyStep == ASSUME OpeningInv, Verify PROVE OpeningInv' /\ StreamInv'
<1>1. opening.at = "verify" /\ UNCHANGED <<naming, chosen>>
      /\ (opening' = Failed \/ opening' = [opening EXCEPT !.at = "open"])
  BY DEF Verify, LookStep
<1>2. IsOpening /\ "open" \in OpenStates
  BY <1>1 DEF IsOpening, OpenStates
<1>3. OpeningInv'
  BY <1>1, <1>2, OpeningGoesOn
<1>4. opening' = Failed \/ opening'.at = "open"
  BY <1>1 DEF OpeningInv
<1> QED BY <1>3, <1>4, NoStreamYet

LEMMA OpenNativeStep ==
    ASSUME KernelInv, OpeningInv, NEW granted, OpenNative(granted) PROVE OpeningInv' /\ StreamInv'
<1> DEFINE x == CHOOSE a \in devices[opening.node] : TRUE
           n == opening.node
           i == inodes[opening.node]
<1>1. opening.at = "open" /\ UNCHANGED <<naming, chosen, devices, inodes, plugs>>
      /\ opening \in OpeningType /\ n \in Nodes
  BY DEF OpenNative, LookStep, OpeningInv, OpeningType, IsOpening
<1>2. IsOpening
  BY <1>1 DEF IsOpening
<1>3. CASE opening' = Failed
  BY <1>1, <1>2, <1>3, OpeningLook, NoStreamYet
<1>4. CASE opening' # Failed
  <2>1. devices[n] # {}
        /\ opening' = [opening EXCEPT !.at = "reverify", !.stream = x, !.streamNode = n, !.streamInode = i]
    BY <1>4 DEF OpenNative, LookStep, SameDevice
  <2>2. x \in Adapters /\ devices[n] = {x}
    BY <1>1, <2>1, PluggedIn
  <2>3. i \in Nat /\ i <= plugs /\ n \in Nat
    BY <1>1, SerialAssumption DEF KernelInv
  <2> HIDE DEF x, i, n
  <2>4. /\ opening' \in OpeningType /\ opening'.path = opening.path /\ opening'.node = opening.node
        /\ opening'.at = "reverify" /\ opening'.stream = x /\ opening'.streamNode = n /\ opening'.streamInode = i
    BY <1>1, <2>1, <2>2, <2>3 DEF OpeningType, OpenStates
  <2>5. OpeningInv'
    BY <1>1, <1>2, <2>4, OpeningLook DEF n
  <2>6. StreamInv'
    BY <1>1, <2>2, <2>3, <2>4 DEF StreamInv, n
  <2> QED BY <2>5, <2>6
<1> QED BY <1>3, <1>4

\* what was selected names a link, or a serial number, only if it was detected
LEMMA OnlyDetectedNames ==
    ASSUME OpeningInv
    PROVE  opening.path.stable # 0 \/ opening.path.serial # 0 => opening.path.detected
<1>1. opening.path \in Paths
  BY DEF OpeningInv
<1>2. CASE opening.path \in Descriptors
  BY <1>2 DEF Descriptors, DescriptorType
<1>3. CASE opening.path \notin Descriptors
  <2>1. PICK n \in Nat : opening.path = Manual(n)
    BY <1>1, <1>3 DEF Paths
  <2> QED BY <2>1, ManualTyped
<1> QED BY <1>2, <1>3

\* the link leads to the stream, or to another device in its place
LEMMA ReverifyStep ==
    ASSUME KernelInv, OpeningInv, StreamInv, Reverify PROVE OpeningInv' /\ StreamInv'
<1>1. opening.at = "reverify" /\ UNCHANGED <<naming, chosen, devices, inodes, plugs>>
      /\ opening' = IF ExpectedIdentity THEN [opening EXCEPT !.at = "hardware"] ELSE Failed
  BY DEF Reverify, LookStep
<1>2. IsOpening /\ HasStream /\ "hardware" \in OpenStates
  BY <1>1 DEF IsOpening, HasStream, OpenStates
<1>3. OpeningInv'
  BY <1>1, <1>2, OpeningGoesOn
<1>4. CASE ~ExpectedIdentity
  BY <1>1, <1>3, <1>4, NoStreamYet
<1>5. CASE ExpectedIdentity
  <2>1. opening' = [opening EXCEPT !.at = "hardware"] /\ opening \in OpeningType
    BY <1>1, <1>5 DEF OpeningInv, OpeningType
  <2>2. /\ opening'.at = "hardware" /\ opening'.path = opening.path /\ opening'.node = opening.node
        /\ opening'.stream = opening.stream /\ opening'.streamNode = opening.streamNode
        /\ opening'.streamInode = opening.streamInode
    BY <2>1 DEF OpeningType
  <2>3. ASSUME opening.path.stable # 0, Alive PROVE naming[opening.stream] = opening.path.stable
    <3>1. Target(opening.path.stable) = {opening.node}
      BY <1>5, <2>3, OnlyDetectedNames DEF ExpectedIdentity, Requested
    <3>2. \E a \in devices[opening.node] : naming[a] = opening.path.stable
      BY <3>1 DEF Target
    <3>3. devices[opening.node] = {opening.stream}
      BY <1>2, <2>3 DEF StreamInv
    <3> QED BY <3>2, <3>3
  <2>4. Alive' = Alive
    BY <1>1, <2>2 DEF Alive
  <2>5. StreamInv'
    BY <1>1, <1>2, <2>2, <2>3, <2>4 DEF StreamInv
  <2> QED BY <1>3, <2>5
<1> QED BY <1>4, <1>5

LEMMA OpenedStep ==
    ASSUME KernelInv, OpeningInv, StreamInv, NEW configured, Opened(configured) PROVE OpeningInv' /\ StreamInv'
<1>1. opening.at = "hardware" /\ UNCHANGED <<naming, chosen, devices, inodes, plugs>>
      /\ (opening' = Failed \/ (HardwareIdentity /\ opening' = [opening EXCEPT !.at = "opened"]))
  BY DEF Opened, LookStep
<1>2. IsOpening /\ HasStream /\ "opened" \in OpenStates
  BY <1>1 DEF IsOpening, HasStream, OpenStates
<1>3. OpeningInv'
  BY <1>1, <1>2, OpeningGoesOn
<1>4. CASE opening' = Failed
  BY <1>3, <1>4, NoStreamYet
<1>5. CASE HardwareIdentity /\ opening' = [opening EXCEPT !.at = "opened"]
  <2>1. opening \in OpeningType
    BY DEF OpeningInv, OpeningType
  <2>2. /\ opening'.at = "opened" /\ opening'.path = opening.path /\ opening'.node = opening.node
        /\ opening'.stream = opening.stream /\ opening'.streamNode = opening.streamNode
        /\ opening'.streamInode = opening.streamInode
    BY <1>5, <2>1 DEF OpeningType
  <2>3. ASSUME opening.path.serial # 0, Alive PROVE SerialOf[opening.stream] = opening.path.serial
    <3>1. \E a \in devices[opening.node] : SerialOf[a] = opening.path.serial
      BY <1>5, <2>3, OnlyDetectedNames DEF HardwareIdentity, Requested
    <3>2. devices[opening.node] = {opening.stream}
      BY <1>2, <2>3 DEF StreamInv
    <3> QED BY <3>1, <3>2
  <2>4. Alive' = Alive
    BY <1>1, <2>2 DEF Alive
  <2>5. opening.path.stable # 0 /\ Alive => naming[opening.stream] = opening.path.stable
    BY <1>1, <1>2 DEF StreamInv
  <2>6. StreamInv'
    BY <1>1, <1>2, <2>2, <2>3, <2>4, <2>5 DEF StreamInv
  <2> QED BY <1>3, <2>6
<1> QED BY <1>1, <1>4, <1>5

LEMMA OpeningStep == ASSUME PortsInv, PortsNext PROVE OpeningInv' /\ StreamInv'
<1> USE DEF PortsInv
<1>1. CASE \E a \in Adapters, n \in Nodes : Plug(a, n)
  <2>1. UNCHANGED <<naming, opening>>
    BY <1>1 DEF Plug
  <2> QED BY <1>1, <2>1, OpeningKept, StreamPlug
<1>2. CASE \E n \in Nodes : Unplug(n)
  <2>1. UNCHANGED <<naming, opening>>
    BY <1>2 DEF Unplug
  <2> QED BY <1>2, <2>1, OpeningKept, StreamUnplug
<1>3. CASE DiscoverySteps
  <2>1. UNCHANGED <<naming, opening, devices, inodes, plugs>>
    BY <1>3 DEF DiscoverySteps, MonitorReads, MonitorSends, MonitorEnds, RefreshReadsLinks, RefreshScans,
            RefreshFails
  <2> QED BY <2>1, OpeningKept, StreamKept
<1>4. CASE \/ ReceiveEvent \/ ReceiveSnapshot \/ \E i \in DOMAIN ports : SelectDetected(i)
           \/ \E n \in Nodes : SelectManual(n)
  <2>1. UNCHANGED <<naming, opening, devices, inodes, plugs>>
    BY <1>4 DEF ReceiveEvent, ReceiveSnapshot, SelectDetected, SelectManual
  <2> QED BY <2>1, OpeningKept, StreamKept
<1>5. CASE \E d \in selected : Open(d)
  BY <1>5, SelectedOpens
<1>6. CASE LookSteps
  BY <1>6, ResolveStep, StatStep, VerifyStep, ReverifyStep, OpenNativeStep, OpenedStep DEF LookSteps
<1> QED BY <1>1, <1>2, <1>3, <1>4, <1>5, <1>6 DEF PortsNext, DiscoverySteps, LookSteps

\* The lists, the selection and the open task keep the invariant, whatever
\* adapters come and go and in whatever order their events arrive (discovery.rs,
\* connection.rs, serial_open.rs).
THEOREM PortsInvHolds == PortsSpec => []PortsInv
<1>1. PortsInit => PortsInv
  <2> SUFFICES ASSUME PortsInit PROVE PortsInv
    OBVIOUS
  <2> USE DEF PortsInit, PortsWith
  <2>1. KernelInv
    BY DEF KernelInv
  <2>2. ListsInv
    BY DEF ListsInv
  <2>3. SelectionInv
    BY SerialAssumption DEF SelectionInv
  <2>4. opening \in OpeningType /\ opening.at = "none"
    <3> DEFINE d == Manual(0)
    <3>1. d \in Paths
      BY DEF Paths
    <3> HIDE DEF d
    <3>2. opening = [at |-> "none", path |-> d, node |-> 0, inode |-> 0, stream |-> "none", streamNode |-> 0,
                     streamInode |-> 0]
      BY DEF NoTask, d
    <3> QED BY <3>1, <3>2 DEF OpeningType, OpenStates
  <2>5. OpeningInv /\ StreamInv
    BY <2>4 DEF OpeningInv, StreamInv, OpeningType, IsOpening, HasStream
  <2> QED BY <2>1, <2>2, <2>3, <2>5 DEF PortsInv
<1>2. PortsInv /\ [PortsNext]_portVars => PortsInv'
  <2> SUFFICES ASSUME PortsInv, [PortsNext]_portVars PROVE PortsInv'
    OBVIOUS
  <2>1. CASE PortsNext
    BY <2>1, KernelStep, ListsStep, SelectionStep, OpeningStep DEF PortsInv
  <2>2. CASE UNCHANGED portVars
    <3>1. KernelInv' /\ ListsInv' /\ SelectionInv' /\ StreamInv'
      BY <2>2, KernelKept, ListsKept, SelectionKept, StreamKept DEF PortsInv, portVars
    <3>2. opening' \in OpeningType'
      BY <2>2, DescriptorsKept DEF PortsInv, OpeningInv, OpeningType, portVars
    <3>3. OpeningInv'
      BY <2>2, <3>2 DEF PortsInv, OpeningInv, OpeningType, IsOpening, AllNamed, portVars
    <3> QED BY <3>1, <3>3 DEF PortsInv
  <2> QED BY <2>1, <2>2
<1> QED BY <1>1, <1>2, PTL DEF PortsSpec

LEMMA OpenedIsSelectedHere == PortsInv => OpenedIsSelected
<1> SUFFICES ASSUME PortsInv, StreamIsAlive
             PROVE  /\ Requested.stable # 0 => naming[opening.stream] = Requested.stable
                    /\ Requested.serial # 0 => SerialOf[opening.stream] = Requested.serial
                    /\ chosen \in Adapters /\ (\A a \in Adapters : naming[a] # 0) => opening.stream = chosen
  BY DEF OpenedIsSelected
<1>1. opening.at = "opened" /\ HasStream /\ IsOpening /\ Alive
  BY DEF StreamIsAlive, Alive, HasStream, IsOpening
<1>2. /\ opening.path.stable # 0 => naming[opening.stream] = opening.path.stable
      /\ opening.path.serial # 0 => SerialOf[opening.stream] = opening.path.serial
      /\ opening.stream \in Adapters
  BY <1>1 DEF PortsInv, StreamInv
<1>3. ASSUME chosen \in Adapters, AllNamed PROVE opening.stream = chosen
  <2>1. opening.path.stable = naming[chosen] /\ naming[chosen] # 0
    BY <1>1, <1>3 DEF PortsInv, OpeningInv, AllNamed
  <2>2. naming[opening.stream] = naming[chosen]
    BY <1>2, <2>1
  <2> QED BY <1>2, <1>3, <2>1, <2>2, NamingTyped DEF PortsInv
<1> QED BY <1>2, <1>3 DEF Requested, AllNamed

\* A port that was opened and is still plugged in has the link and the serial
\* number that were asked for, and when every adapter has a link it is the one that
\* the operator selected, for any number of adapters, nodes, events and snapshots
\* and however adapters change places between the looks of open_blocking.
THEOREM OpenedPortIsSelected == PortsSpec => []OpenedIsSelected
BY PortsInvHolds, OpenedIsSelectedHere, PTL

=============================================================================

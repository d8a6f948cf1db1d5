------------------------------ MODULE Connection ------------------------------
(***************************************************************************)
(* The life of a serial connection: the connection flow of the application *)
(* (lantern-app/src/application/connection.rs), the tasks that open,       *)
(* identify, watch and retry (vfd-lantern/src/connection_runtime.rs), and  *)
(* the gate in front of the monitoring reads (monitoring_runtime.rs).      *)
(*                                                                         *)
(* The main loop takes one action at a time from three sources it selects  *)
(* between freely: the operator, the channel the tasks send to (inbox) and *)
(* the udev channel (events).  A task is bound to the generation it was    *)
(* spawned for and compares it, under the runtime lock, before it acts;    *)
(* what it has already sent is not recalled.                               *)
(*                                                                         *)
(* Abstractions.  A bus is named by the generation of the task that opened *)
(* it.  The adapter is selected from the detected ones or by a path that   *)
(* was typed, which a task polls.  udev reports what happens to it unless  *)
(* the path is not the device node itself: a typed link, or a terminal     *)
(* udev does not know, matches no event.  Its attribute changes, which the *)
(* application takes for an arrival, are left out.  The wizard is walked   *)
(* in one step, and the profile's poll plan can be built.                  *)
(***************************************************************************)
EXTENDS Session, FiniteSets

CONSTANTS
    MaxSessions,    \* bound: connections the operator asks for
    MaxUnplugs,     \* bound: times the adapter is removed
    MaxGeneration   \* bound: no port is opened at or above this generation

ASSUME ConnectionAssumption ==
    /\ MaxSessions \in Nat
    /\ MaxUnplugs \in Nat
    /\ MaxGeneration \in Nat

VARIABLES
    known,          \* udev reports the selected node, under the path selected
    manual,         \* selected_port.origin is Manual: the path was typed
    plugged,        \* the device node exists
    unplugs,        \* how often it was removed
    present,        \* selected_port.presence is Present
    refused,        \* history: open_effect refused the last retry, none since
    session,        \* ApplicationState.session
    pending,        \* connection.pending_session_id, 0 when None
    lastId,         \* the last session id allocated
    retryAt,        \* next_retry_at: which ScheduleReconnect it was set with
    inbox,          \* action_rx, in order
    events,         \* udev events of the selected port: present or not
    runtime,        \* RuntimeState: generation, reconnect_generation and bus
    opens,          \* OpenPort tasks
    idents,         \* Identify tasks
    timer,          \* reconnect generation of the sleeping timer, 0 for none
    watch,          \* generation of the manual path watch, 0 for none
    monitor,        \* MonitoringState: bus, verified_session, active session
    reader,         \* one VerifiedMonitoringBus::read of the poll executor
    identified      \* history: which device was read on which bus

app == <<session, pending, lastId, retryAt, present, refused>>
tasks == <<opens, idents, timer, watch>>
vars == <<known, manual, plugged, unplugs, app, inbox, events, runtime, tasks,
          monitor, reader, identified>>

Kinds == {"Initial", "Reconnect"}

Messages ==
    [type : {"PortOpened", "PortOpenFailed"}, kind : Kinds]
        \cup [type : {"IdentificationFinished"}, kind : Kinds,
              verified : Devices \cup {NoDevice}]
        \cup [type : {"ReconnectTimerElapsed"}, stamp : Nat]
        \cup [type : {"TransportLost"}]
        \cup [type : {"PortsRefreshed"}, listed : BOOLEAN]

OpenTasks ==
    [generation : Nat, kind : Kinds, watched : BOOLEAN,
     stage : {"opening", "accepted", "published"}]

IdentifyTasks ==
    [generation : Nat, kind : Kinds, bus : Nat, done : BOOLEAN,
     verified : Devices \cup {NoDevice}]

NoReader == [stage |-> "none", session |-> 0, bus |-> 0, woken |-> FALSE]

NewReader(id) == [stage |-> "check", session |-> id, bus |-> 0, woken |-> FALSE]

Init ==
    /\ known \in BOOLEAN
    /\ manual \in BOOLEAN
    /\ manual \/ known
    /\ plugged = TRUE
    /\ unplugs = 0
    /\ present = TRUE
    /\ refused = FALSE
    /\ session = NewSession
    /\ pending = 0
    /\ lastId = 0
    /\ retryAt = 0
    /\ inbox = <<>>
    /\ events = <<>>
    /\ runtime = [generation |-> 0, reconnect |-> 0, bus |-> 0]
    /\ opens = {}
    /\ idents = {}
    /\ timer = 0
    /\ watch = 0
    /\ monitor = [bus |-> 0, verified |-> 0, active |-> 0]
    /\ reader = NoReader
    /\ identified = {}

(***************************************************************************)
(* MonitoringRuntime.  notify_waiters wakes the read that has already      *)
(* created its Notified future; stop aborts the poll task and its read.    *)
(***************************************************************************)
Notified ==
    IF reader.stage \in {"recheck", "waiting"}
    THEN [reader EXCEPT !.woken = TRUE] ELSE reader

BusOpened(bus) ==
    /\ monitor' = [monitor EXCEPT !.bus = bus, !.verified = 0]
    /\ reader' = Notified

BusClosed ==
    /\ monitor' = [monitor EXCEPT !.bus = 0, !.verified = 0]
    /\ reader' = Notified

StopAndClose ==
    /\ monitor' = [bus |-> 0, verified |-> 0, active |-> 0]
    /\ reader' = NoReader

StartMonitoring(id) ==
    IF monitor.bus = 0
    THEN /\ monitor' = [monitor EXCEPT !.verified = 0, !.active = 0]
         /\ reader' = NoReader
    ELSE /\ monitor' = [monitor EXCEPT !.verified = id, !.active = id]
         /\ reader' = NewReader(id)

\* Mutant: resume opens the gate without waking the read behind it.
ResumeMonitoring_Silent(id) ==
    /\ monitor' = IF monitor.active = id /\ monitor.bus # 0
                  THEN [monitor EXCEPT !.verified = id] ELSE monitor
    /\ UNCHANGED reader

ResumeMonitoring(id) ==
    IF monitor.active = id /\ monitor.bus # 0
    THEN /\ monitor' = [monitor EXCEPT !.verified = id]
         /\ reader' = Notified
    ELSE UNCHANGED <<monitor, reader>>

(***************************************************************************)
(* The effects of a session input, as translate_session_effects hands them *)
(* to the runner and the runner executes them.  A port is closed before a  *)
(* retry is scheduled, and never closed and opened by the same input.  The *)
(* OpenPort of a retry is built by open_effect, which refuses an adapter   *)
(* it knows to be removed: the refusal is shown and nothing else follows.  *)
(* A path that was typed is opened without an expected identity, and       *)
(* watched by a task.                                                      *)
(***************************************************************************)
Count(b) == IF b THEN 1 ELSE 0

Closes(in) ==
    Emits("ClosePort", session, in) \/ Emits("ShutdownBusActor", session, in)

Cancels(in) == Emits("CancelReconnect", session, in)

\* Mutant: only the loss of a connected transport schedules a retry.
Schedules_FirstLossOnly(in) ==
    Emits("ScheduleReconnect", session, in) /\ in.type # "ReconnectFailed"

Schedules(in) == Emits("ScheduleReconnect", session, in)

Stops(in) == Emits("StopPlanner", session, in)

Asks(in) == Emits("OpenPort", session, in)

Reopens(in) == Asks(in) /\ present

CloseRuntimeBus ==
    [generation |-> runtime.generation + 1,
     reconnect  |-> runtime.reconnect + 1,
     bus        |-> 0]

OpenTask(generation, kind, typed) ==
    [generation |-> generation, kind |-> kind, watched |-> typed,
     stage |-> "opening"]

Transition(in) ==
    /\ session' = Reduce(session, in)
    /\ LET r == IF Closes(in) THEN CloseRuntimeBus ELSE runtime
       IN  runtime' =
               [r EXCEPT !.generation = @ + Count(Reopens(in)),
                         !.reconnect  = @ + Count(Cancels(in)) + Count(Schedules(in))]
    /\ timer' = IF Schedules(in) THEN runtime'.reconnect ELSE timer
    /\ retryAt' = IF Schedules(in) THEN runtime'.reconnect ELSE retryAt
    /\ opens' = IF Reopens(in)
                THEN opens \cup {OpenTask(runtime'.generation, "Reconnect", manual)}
                ELSE opens
    /\ refused' = IF Asks(in) THEN ~ present ELSE refused /\ ~ Schedules(in)

GateEffects(in) ==
    IF Stops(in) THEN StopAndClose
    ELSE IF Closes(in) THEN BusClosed
    ELSE UNCHANGED <<monitor, reader>>

(***************************************************************************)
(* ConnectionEffect::Identify.  Without a bus the answer is sent at once.  *)
(***************************************************************************)
Finished(kind, verified) ==
    [type |-> "IdentificationFinished", kind |-> kind, verified |-> verified]

Identify(kind) ==
    IF runtime.bus = 0
    THEN /\ inbox' = Append(Tail(inbox), Finished(kind, NoDevice))
         /\ UNCHANGED idents
    ELSE /\ inbox' = Tail(inbox)
         /\ idents' = idents \cup
               {[generation |-> runtime.generation, kind |-> kind,
                 bus |-> runtime.bus, done |-> FALSE, verified |-> NoDevice]}

(***************************************************************************)
(* The operator.  Between two attempts the wizard asks for a port, a       *)
(* profile and a confirmation, and the loop goes on taking messages: what  *)
(* the previous attempt had sent is handled by then.  The port is the one  *)
(* selected, or its path is typed again.                                   *)
(***************************************************************************)
Running == session.phase # "ShuttingDown"

UserConnects ==
    /\ session.phase = "Disconnected"
    /\ \/ present /\ UNCHANGED <<manual, present>>
       \/ manual' = TRUE /\ present' = TRUE
    /\ inbox = <<>>
    /\ lastId < MaxSessions
    /\ runtime.generation < MaxGeneration
    /\ lastId' = lastId + 1
    /\ pending' = lastId + 1
    /\ session' = Reduce(session, Input("Connect"))
    /\ runtime' = [runtime EXCEPT !.generation = @ + 1]
    /\ opens' = opens \cup {OpenTask(runtime.generation + 1, "Initial", manual')}
    /\ refused' = FALSE
    /\ UNCHANGED <<known, plugged, unplugs, retryAt, inbox, events, idents, timer,
                   watch, monitor, reader, identified>>

UserCancels ==
    /\ Running
    /\ LET in == Input(IF IsActive(session) THEN "Disconnect" ELSE "CancelConnect")
       IN  Transition(in) /\ GateEffects(in)
    /\ pending' = 0
    /\ UNCHANGED <<known, manual, plugged, unplugs, present, lastId, inbox,
                   events, idents, watch, identified>>

UserRefreshes ==
    /\ Running
    /\ \A i \in 1 .. Len(inbox) : inbox[i].type # "PortsRefreshed"
    /\ inbox' = Append(inbox, [type |-> "PortsRefreshed", listed |-> plugged /\ known])
    /\ UNCHANGED <<known, manual, plugged, unplugs, app, events, runtime, tasks,
                   monitor, reader, identified>>

UserShutsDown ==
    /\ Running
    /\ LET in == Input("Shutdown") IN Transition(in) /\ GateEffects(in)
    /\ UNCHANGED <<known, manual, plugged, unplugs, present, pending, lastId,
                   inbox, events, idents, watch, identified>>

(***************************************************************************)
(* A message of a task, taken from action_rx.                              *)
(***************************************************************************)
PortOpened(m) ==
    /\ m.type = "PortOpened"
    /\ LET in == Input(IF m.kind = "Initial" THEN "PortOpened"
                       ELSE "ReconnectPortOpened")
       IN  /\ session' = Reduce(session, in)
           /\ IF \/ Emits("StartIdentification", session, in)
                 \/ Emits("StartReconnectIdentification", session, in)
              THEN Identify(m.kind)
              ELSE inbox' = Tail(inbox) /\ UNCHANGED idents
    /\ UNCHANGED <<pending, lastId, retryAt, present, refused, runtime, opens,
                   timer, monitor, reader>>

PortOpenFailed(m) ==
    /\ m.type = "PortOpenFailed"
    /\ LET in == Input(IF m.kind = "Initial" THEN "PortOpenFailed"
                       ELSE "ReconnectFailed")
       IN  Transition(in) /\ GateEffects(in)
    /\ pending' = IF m.kind = "Initial" THEN 0 ELSE pending
    /\ inbox' = Tail(inbox)
    /\ UNCHANGED <<lastId, present, idents>>

InitialIdentificationFinished(m) ==
    /\ m.type = "IdentificationFinished" /\ m.kind = "Initial"
    /\ IF pending = 0
       THEN /\ runtime' = CloseRuntimeBus
            /\ BusClosed
            /\ UNCHANGED <<session, timer, retryAt, refused, opens>>
       ELSE LET in == [type |-> "IdentificationFinished", id |-> pending,
                       verified |-> m.verified]
            IN  /\ Transition(in)
                /\ IF m.verified # NoDevice /\ IsActive(session')
                   THEN StartMonitoring(pending)
                   ELSE GateEffects(in)
    /\ inbox' = Tail(inbox)
    /\ UNCHANGED <<pending, lastId, present, idents>>

ReconnectIdentificationFinished(m) ==
    /\ m.type = "IdentificationFinished" /\ m.kind = "Reconnect"
    /\ LET in == [type |-> "ReconnectIdentificationFinished",
                  verified |-> m.verified]
       IN  /\ Transition(in)
           /\ IF session'.connectivity = "Connected"
              THEN ResumeMonitoring(session'.id)
              ELSE GateEffects(in)
    /\ inbox' = Tail(inbox)
    /\ UNCHANGED <<pending, lastId, present, idents>>

TransportLostReported(m) ==
    /\ m.type = "TransportLost"
    /\ LET in == Input("TransportLost") IN Transition(in) /\ GateEffects(in)
    /\ inbox' = Tail(inbox)
    /\ UNCHANGED <<pending, lastId, present, idents>>

ReconnectTimerElapsed(m) ==
    /\ m.type = "ReconnectTimerElapsed"
    /\ runtime.generation < MaxGeneration
    /\ LET in == [type |-> "ReconnectTimerElapsed", due |-> m.stamp = retryAt]
       IN  Transition(in) /\ GateEffects(in)
    /\ inbox' = Tail(inbox)
    /\ UNCHANGED <<pending, lastId, present, idents>>

PortsRefreshed(m) ==
    /\ m.type = "PortsRefreshed"
    /\ present' = (present \/ m.listed)
    /\ inbox' = Tail(inbox)
    /\ UNCHANGED <<session, pending, lastId, retryAt, refused, runtime, opens,
                   idents, timer, monitor, reader>>

Receive ==
    /\ Running
    /\ inbox # <<>>
    /\ LET m == Head(inbox)
       IN  \/ PortOpened(m)
           \/ PortOpenFailed(m)
           \/ InitialIdentificationFinished(m)
           \/ ReconnectIdentificationFinished(m)
           \/ TransportLostReported(m)
           \/ ReconnectTimerElapsed(m)
           \/ PortsRefreshed(m)
    /\ UNCHANGED <<known, manual, plugged, unplugs, events, watch, identified>>

(***************************************************************************)
(* A udev event of the selected adapter, matched by its device node when   *)
(* it has no stable link: the descriptor udev gives takes the place of the *)
(* selected one, a typed path's too.  An arrival is only recorded.         *)
(***************************************************************************)
PortEvent ==
    /\ Running
    /\ events # <<>>
    /\ events' = Tail(events)
    /\ present' = Head(events)
    /\ manual' = FALSE
    /\ LET in == IF session.phase = "Identifying"
                 THEN [type |-> "IdentificationFinished", id |-> pending,
                       verified |-> NoDevice]
                 ELSE Input("PortRemoved")
       IN  IF Head(events)
           THEN UNCHANGED <<session, retryAt, refused, runtime, opens, timer,
                            monitor, reader>>
           ELSE Transition(in) /\ GateEffects(in)
    /\ UNCHANGED <<known, plugged, unplugs, pending, lastId, inbox, idents,
                   watch, identified>>

(***************************************************************************)
(* The OpenPort task.  The opened bus is accepted when no later open or    *)
(* close has moved the generation; it is then attached to the write        *)
(* runtime, which waits for the coordinator and serves in order of         *)
(* arrival, handed to the monitoring runtime, and reported.                *)
(***************************************************************************)
Accepts(o) == o.generation = runtime.generation

PortOpens(o) ==
    /\ o.stage = "opening"
    /\ plugged
    /\ IF Accepts(o)
       THEN /\ runtime' = [runtime EXCEPT !.bus = o.generation]
            /\ opens' = (opens \ {o}) \cup {[o EXCEPT !.stage = "accepted"]}
       ELSE /\ opens' = opens \ {o}
            /\ UNCHANGED runtime
    /\ UNCHANGED <<inbox, watch, monitor, reader>>

OpenFails(o) ==
    /\ o.stage = "opening"
    /\ opens' = opens \ {o}
    /\ inbox' = IF o.generation = runtime.generation
                THEN Append(inbox, [type |-> "PortOpenFailed", kind |-> o.kind])
                ELSE inbox
    /\ UNCHANGED <<runtime, watch, monitor, reader>>

PublishBus(o) ==
    /\ o.stage = "accepted"
    /\ \A p \in opens : p.stage = "accepted" => o.generation <= p.generation
    /\ opens' = (opens \ {o}) \cup {[o EXCEPT !.stage = "published"]}
    /\ BusOpened(o.generation)
    /\ UNCHANGED <<runtime, inbox, watch>>

AnnounceBus(o) ==
    /\ o.stage = "published"
    /\ opens' = opens \ {o}
    /\ inbox' = Append(inbox, [type |-> "PortOpened", kind |-> o.kind])
    /\ watch' = IF o.watched THEN o.generation ELSE watch
    /\ UNCHANGED <<runtime, monitor, reader>>

OpenStep ==
    /\ \E o \in opens :
          PortOpens(o) \/ OpenFails(o) \/ PublishBus(o) \/ AnnounceBus(o)
    /\ UNCHANGED <<known, manual, plugged, unplugs, app, events, idents, timer, identified>>

(***************************************************************************)
(* The Identify task.  A bus that was closed or unplugged answers nothing. *)
(* The verdict of a task of an older generation is dropped.                *)
(***************************************************************************)
\* Mutant: the verdict is sent whatever happened to the bus meanwhile.
StillCurrent_Always(t) == TRUE

StillCurrent(t) == t.generation = runtime.generation

IdentifyReads(t) ==
    /\ ~ t.done
    /\ \E d \in Devices \cup {NoDevice} :
          /\ d # NoDevice => plugged /\ runtime.bus = t.bus
          /\ idents' = (idents \ {t}) \cup {[t EXCEPT !.done = TRUE, !.verified = d]}
          /\ identified' = identified \cup {<<t.bus, d>>}
    /\ UNCHANGED inbox

IdentifyReports(t) ==
    /\ t.done
    /\ idents' = idents \ {t}
    /\ inbox' = IF StillCurrent(t) THEN Append(inbox, Finished(t.kind, t.verified))
                ELSE inbox
    /\ UNCHANGED identified

IdentifyStep ==
    /\ \E t \in idents : IdentifyReads(t) \/ IdentifyReports(t)
    /\ UNCHANGED <<known, manual, plugged, unplugs, app, events, runtime, opens,
                   timer, watch, monitor, reader>>

(***************************************************************************)
(* The reconnect timer.  One of an earlier schedule finds a later          *)
(* reconnect generation and sends nothing, so the last one is kept.        *)
(***************************************************************************)
TimerWakes ==
    /\ timer # 0
    /\ timer' = 0
    /\ inbox' = IF timer = runtime.reconnect
                THEN Append(inbox, [type |-> "ReconnectTimerElapsed", stamp |-> timer])
                ELSE inbox
    /\ UNCHANGED <<known, manual, plugged, unplugs, app, events, runtime, opens,
                   idents, watch, monitor, reader, identified>>

WatchTicks ==
    /\ watch # 0
    /\ watch # runtime.generation \/ ~ plugged
    /\ watch' = 0
    /\ inbox' = IF watch = runtime.generation
                THEN Append(inbox, [type |-> "TransportLost"]) ELSE inbox
    /\ UNCHANGED <<known, manual, plugged, unplugs, app, events, runtime, opens,
                   idents, timer, monitor, reader, identified>>

(***************************************************************************)
(* VerifiedMonitoringBus::read.  The gate is checked under the lock; when  *)
(* it is closed the read creates its Notified future, checks again and     *)
(* only then waits.                                                        *)
(***************************************************************************)
GateOpen == monitor.verified = reader.session /\ monitor.bus # 0

ReaderChecks ==
    /\ reader.stage = "check"
    /\ reader' = IF GateOpen THEN [reader EXCEPT !.stage = "send", !.bus = monitor.bus]
                 ELSE [reader EXCEPT !.stage = "listen"]

ReaderListens ==
    /\ reader.stage = "listen"
    /\ reader' = [reader EXCEPT !.stage = "recheck", !.woken = FALSE]

ReaderRechecks ==
    /\ reader.stage = "recheck"
    /\ reader' = [reader EXCEPT !.stage = IF GateOpen THEN "check" ELSE "waiting"]

ReaderWakes ==
    /\ reader.stage = "waiting"
    /\ reader.woken
    /\ reader' = [reader EXCEPT !.stage = "check"]

ReaderReads ==
    /\ reader.stage = "send"
    /\ reader' = [reader EXCEPT !.stage = "check", !.bus = 0]

ReaderStep ==
    /\ ReaderChecks \/ ReaderListens \/ ReaderRechecks \/ ReaderWakes \/ ReaderReads
    /\ UNCHANGED <<known, manual, plugged, unplugs, app, inbox, events, runtime, tasks,
                   monitor, identified>>

(***************************************************************************)
(* The adapter is removed and comes back, and udev reports it when it      *)
(* knows it under the path selected.                                       *)
(***************************************************************************)
PlugChanges ==
    /\ \/ plugged /\ unplugs < MaxUnplugs /\ unplugs' = unplugs + 1
       \/ ~ plugged /\ UNCHANGED unplugs
    /\ plugged' = ~ plugged
    /\ events' = IF known THEN Append(events, plugged') ELSE events
    /\ UNCHANGED <<known, manual, app, inbox, runtime, tasks, monitor, reader,
                   identified>>

LoopNext ==
    \/ UserConnects \/ UserCancels \/ UserRefreshes \/ UserShutsDown
    \/ Receive \/ PortEvent

TaskNext == OpenStep \/ IdentifyStep \/ TimerWakes \/ WatchTicks \/ ReaderStep

Next == LoopNext \/ TaskNext \/ PlugChanges

Spec == Init /\ [][Next]_vars

----------------------------------------------------------------------------
(***************************************************************************)
(* Type invariant: the connection flow, the runtime state and the          *)
(* monitoring gate hold values of the types the code declares for them.    *)
(***************************************************************************)
ConnectionTypeOK ==
    /\ known \in BOOLEAN /\ manual \in BOOLEAN /\ plugged \in BOOLEAN
    /\ present \in BOOLEAN /\ refused \in BOOLEAN
    /\ unplugs \in 0 .. MaxUnplugs
    /\ session \in Sessions
    /\ pending \in Nat /\ lastId \in Nat /\ retryAt \in Nat
    /\ inbox \in Seq(Messages)
    /\ events \in Seq(BOOLEAN)
    /\ runtime \in [generation : Nat, reconnect : Nat, bus : Nat]
    /\ opens \subseteq OpenTasks
    /\ idents \subseteq IdentifyTasks
    /\ timer \in Nat /\ watch \in Nat
    /\ monitor \in [bus : Nat, verified : Nat, active : Nat]
    /\ reader \in [stage : {"none", "check", "send", "listen", "recheck", "waiting"},
                   session : Nat, bus : Nat, woken : BOOLEAN]
    /\ identified \subseteq Nat \X (Devices \cup {NoDevice})

(***************************************************************************)
(* A session that was ended, or faulted by a changed identity, holds no    *)
(* serial port: an open that is still under way when the operator cancels  *)
(* (connection_runtime.rs, the generation compared on accept) must not     *)
(* leave a bus nobody will close.                                          *)
(***************************************************************************)
EndedIsClosed ==
    \/ session.phase \in {"Disconnected", "ShuttingDown"}
    \/ session.connectivity = "Faulted"
    => runtime.bus = 0

(***************************************************************************)
(* The monitoring gate (monitoring_runtime.rs, verified_session) is open   *)
(* only for the session the application shows as connected, whatever       *)
(* order bus_opened, bus_closed, start and resume arrive in.               *)
(***************************************************************************)
GateFollowsSession ==
    monitor.verified # 0 =>
        /\ IsActive(session)
        /\ session.connectivity = "Connected"
        /\ monitor.verified = session.id

(***************************************************************************)
(* No monitoring read reaches an open bus on which the device of the       *)
(* session has not been identified (VerifiedMonitoringBus::read): a bus    *)
(* opened by a retry is not read on the strength of the previous one.      *)
(***************************************************************************)
OnlyVerifiedBusRead ==
    /\ monitor.verified # 0 /\ monitor.bus = runtime.bus =>
          <<monitor.bus, session.device>> \in identified
    /\ reader.stage = "send" /\ reader.bus = runtime.bus =>
          \E d \in Devices : <<reader.bus, d>> \in identified

(***************************************************************************)
(* The port and the monitoring gate follow the session, with values of the *)
(* types the code declares.                                                *)
(***************************************************************************)
PortFollowsSession ==
    ConnectionTypeOK /\ EndedIsClosed /\ GateFollowsSession /\ OnlyVerifiedBusRead

(***************************************************************************)
(* A read that waits behind the gate has been woken when the gate is open  *)
(* for it: no notify_waiters falls between its check and its wait.         *)
(***************************************************************************)
NoLostWakeup ==
    reader.stage = "waiting" /\ GateOpen => reader.woken

(***************************************************************************)
(* What can still move a reconnecting session: a sleeping timer, a task of *)
(* the current generation, or a message that no later schedule outdates.   *)
(***************************************************************************)
RetryUnderWay ==
    \/ timer # 0 /\ timer = runtime.reconnect
    \/ \E o \in opens : o.kind = "Reconnect" /\ o.generation = runtime.generation
    \/ \E t \in idents : t.kind = "Reconnect" /\ t.generation = runtime.generation
    \/ \E i \in 1 .. Len(inbox) :
          \/ inbox[i].type \in {"PortOpened", "PortOpenFailed", "IdentificationFinished"}
                /\ inbox[i].kind = "Reconnect"
          \/ inbox[i].type = "ReconnectTimerElapsed" /\ inbox[i].stamp = retryAt

Reconnecting == session.connectivity = "Reconnecting"

(***************************************************************************)
(* A reconnecting session has a retry under way until one is refused:      *)
(* every attempt that fails schedules the next one (session.rs,            *)
(* transport_lost and reconnect_failed), and no generation change silences *)
(* the last.  Only open_effect's refusal ends them, of a port that udev    *)
(* reported removed, and a port it does not report is never refused.       *)
(***************************************************************************)
RetriesUntilRefused ==
    /\ Reconnecting => RetryUnderWay \/ refused
    /\ refused => known /\ ~ manual

(***************************************************************************)
(* Every session that lost its port has a retry under way: session.rs owns *)
(* the backoff and the reopen (docs/development/tui.md).                   *)
(***************************************************************************)
KeepsRetrying == Reconnecting => RetryUnderWay
=============================================================================

------------------------------- MODULE BusActor -------------------------------
(***************************************************************************)
(* run_actor of lantern-transport/src/bus_actor.rs: the single task that   *)
(* owns the serial line.  Clients put requests into one bounded channel    *)
(* per class; the actor drains the channels into unbounded pending queues, *)
(* selects by class and deadline, keeps the line silent for t3.5 between   *)
(* frames, retries reads, and answers.  Shutdown cancels the loop at its   *)
(* top and aborts the task at an await.                                    *)
(*                                                                         *)
(* Clients, the actor, the device and the clock interleave freely; the     *)
(* clock moves between any two steps, so no step is on time by itself.     *)
(* At MaxTime, past every deadline, the clock stands still and sleepers    *)
(* wake, so that every run can come to its end.                            *)
(***************************************************************************)
EXTENDS BusSchedule, FiniteSets

CONSTANTS
    Reads, Writes,          \* requests, each submitted once
    ReadAttempts,           \* 1 + the two retries of execute_read
    Class,                  \* RequestClass of a request
    Deadline,               \* BusRequestContext.deadline
    Operation,              \* BusRequestContext.operation_id
    Capacity,               \* RequestClass::capacity
    SafetyOperationLimit,   \* SAFETY_OPERATION_LIMIT, 8 in the code
    T35,                    \* BusActorConfig::t35
    HardWindow,             \* the 5 ms of select_next
    MaxTime                 \* bound: the clock

Requests == Reads \cup Writes

ASSUME BusActorAssumption ==
    /\ Reads \cap Writes = {}
    /\ ReadAttempts \in Nat \ {0}
    /\ Class \in [Requests -> Classes]
    /\ Deadline \in [Requests -> Nat]
    /\ Capacity \in [Classes -> Nat]
    /\ SafetyOperationLimit \in Nat
    /\ T35 \in Nat /\ HardWindow \in Nat /\ MaxTime \in Nat
    /\ \A r \in Requests : Deadline[r] <= MaxTime

VARIABLES
    now,            \* MonotonicClock
    answer, sent,   \* BusPort: the answer of each request, its transmissions
    channel,        \* the five bounded channels
    pending,        \* PendingQueues
    burst, wrr,     \* safety_burst, wrr_index
    pc,             \* where run_actor stands
    drained,        \* classes drain_receivers has still to empty
    command,        \* the request being served
    retries,        \* retries of execute_read
    wake,           \* when the current sleep ends
    quiet,          \* last_transmission_end + t35
    cancelled,      \* CancellationToken
    lineFree        \* history: when the next frame may start

portVars == <<answer, sent>>
queueVars == <<channel, pending>>
serveVars == <<command, retries, wake>>
vars == <<now, portVars, queueVars, burst, wrr, pc, drained, serveVars, quiet,
          cancelled, lineFree>>

NoCommand == "none"

Port == INSTANCE BusPort WITH answer <- answer, sent <- sent

(***************************************************************************)
(* The actor can be aborted where it awaits.                               *)
(***************************************************************************)
Awaits == {"idle", "t35", "io", "retry"}

DrainOrder ==
    <<Safety, "Interactive", "TelemetryCritical", "Telemetry", "Background">>

TypeOK ==
    /\ now \in 0 .. MaxTime
    /\ answer \in [Requests -> Port!Answers]
    /\ sent \in [Requests -> 0 .. ReadAttempts]
    /\ channel \in [Classes -> Seq(Requests)]
    /\ pending \in [Classes -> Seq(Requests)]
    /\ \A c \in Classes : Len(channel[c]) <= Capacity[c]
    /\ burst \in 0 .. SafetyBurstLimit /\ wrr \in 0 .. ScheduleLength - 1
    /\ pc \in Awaits \cup {"drain", "top", "stopped"}
    /\ drained \in 0 .. Len(DrainOrder)
    /\ command \in Requests \cup {NoCommand}
    /\ retries \in 0 .. ReadAttempts - 1
    /\ wake \in Nat /\ quiet \in Nat /\ lineFree \in Nat
    /\ cancelled \in BOOLEAN

Init ==
    /\ now = 0
    /\ Port!PortInit
    /\ channel = [c \in Classes |-> <<>>]
    /\ pending = [c \in Classes |-> <<>>]
    /\ burst = 0 /\ wrr = 0
    /\ pc = "drain" /\ drained = 0
    /\ command = NoCommand /\ retries = 0 /\ wake = 0
    /\ quiet = 0 /\ lineFree = 0
    /\ cancelled = FALSE

Elapsed(t) == now >= t \/ now = MaxTime

Expired(r) == Deadline[r] <= now

-----------------------------------------------------------------------------
(***************************************************************************)
(* The environment: the clock, the clients and close_runtime_bus.          *)
(***************************************************************************)
Tick ==
    /\ now < MaxTime
    /\ now' = now + 1
    /\ UNCHANGED <<portVars, queueVars, burst, wrr, pc, drained, serveVars, quiet,
                   cancelled, lineFree>>

(***************************************************************************)
(* try_send: the receivers are gone once the actor has stopped.            *)
(***************************************************************************)
Submit(r) ==
    LET c == Class[r]
        full == Len(channel[c]) >= Capacity[c]
    IN  /\ answer[r] = "new"
        /\ answer' = [answer EXCEPT ![r] = IF pc = "stopped" THEN "Shutdown"
                                           ELSE IF full THEN "QueueFull" ELSE "waiting"]
        /\ channel' = IF pc = "stopped" \/ full THEN channel
                      ELSE [channel EXCEPT ![c] = Append(@, r)]
        /\ UNCHANGED <<now, sent, pending, burst, wrr, pc, drained, serveVars, quiet,
                       cancelled, lineFree>>

Shutdown ==
    /\ ~cancelled
    /\ cancelled' = TRUE
    /\ UNCHANGED <<now, portVars, queueVars, burst, wrr, pc, drained, serveVars, quiet,
                   lineFree>>

-----------------------------------------------------------------------------
(***************************************************************************)
(* Draining.  A safety request beyond the limit of its operation is        *)
(* refused; pending queues are otherwise unbounded.                        *)
(***************************************************************************)
OverLimit(r) ==
    /\ Class[r] = Safety
    /\ Cardinality({i \in DOMAIN pending[Safety] :
                        Operation[pending[Safety][i]] = Operation[r]})
          >= SafetyOperationLimit

Push(c) ==
    LET r == Head(channel[c])
    IN  /\ channel[c] # <<>>
        /\ channel' = [channel EXCEPT ![c] = Tail(@)]
        /\ pending' = IF OverLimit(r) THEN pending ELSE [pending EXCEPT ![c] = Append(@, r)]
        /\ answer' = IF OverLimit(r) THEN [answer EXCEPT ![r] = "QueueFull"] ELSE answer

DrainOne ==
    /\ pc = "drain" /\ drained < Len(DrainOrder)
    /\ Push(DrainOrder[drained + 1])
    /\ UNCHANGED <<now, sent, burst, wrr, pc, drained, serveVars, quiet, cancelled, lineFree>>

DrainNext ==
    /\ pc = "drain"
    /\ IF drained < Len(DrainOrder)
       THEN /\ channel[DrainOrder[drained + 1]] = <<>>
            /\ drained' = drained + 1 /\ pc' = pc
       ELSE drained' = 0 /\ pc' = "top"
    /\ UNCHANGED <<now, portVars, queueVars, burst, wrr, serveVars, quiet, cancelled,
                   lineFree>>

(***************************************************************************)
(* Cancelled: reject_all, drain_and_reject, and the receivers are dropped. *)
(* An aborted task drops its queues and its command: every caller that     *)
(* still waits reads the closed reply channel as Shutdown.                 *)
(***************************************************************************)
Stop ==
    /\ cancelled
    /\ pc = "top" \/ pc \in Awaits
    /\ Port!Abandon
    /\ channel' = [c \in Classes |-> <<>>]
    /\ pending' = [c \in Classes |-> <<>>]
    /\ pc' = "stopped"
    /\ command' = NoCommand
    /\ UNCHANGED <<now, burst, wrr, drained, retries, wake, quiet, cancelled, lineFree>>

Idle ==
    /\ pc = "top" /\ ~cancelled
    /\ \A c \in Classes : pending[c] = <<>>
    /\ pc' = "idle"
    /\ UNCHANGED <<now, portVars, queueVars, burst, wrr, drained, serveVars, quiet,
                   cancelled, lineFree>>

(***************************************************************************)
(* The select! of the idle actor: cancellation or any channel.             *)
(***************************************************************************)
WakeCancelled ==
    /\ pc = "idle" /\ cancelled
    /\ pc' = "drain"
    /\ UNCHANGED <<now, portVars, queueVars, burst, wrr, drained, serveVars, quiet,
                   cancelled, lineFree>>

\* Mutant: the background channel has no arm in the select!.
WakeReceived_NoBackground ==
    /\ pc = "idle"
    /\ \E c \in Classes \ {"Background"} : Push(c)
    /\ pc' = "drain"
    /\ UNCHANGED <<now, sent, burst, wrr, drained, serveVars, quiet, cancelled, lineFree>>

WakeReceived ==
    /\ pc = "idle"
    /\ \E c \in Classes : Push(c)
    /\ pc' = "drain"
    /\ UNCHANGED <<now, sent, burst, wrr, drained, serveVars, quiet, cancelled, lineFree>>

-----------------------------------------------------------------------------
(***************************************************************************)
(* select_next: a class, and in it the earliest deadline, first come first *)
(* served among equal deadlines.                                           *)
(***************************************************************************)
Waiting == {c \in Classes : pending[c] # <<>>}

Hard ==
    \E i \in DOMAIN pending[Safety] : Deadline[pending[Safety][i]] <= now + HardWindow

IsEarliest(c, i) ==
    /\ i \in DOMAIN pending[c]
    /\ \A j \in DOMAIN pending[c] :
          \/ Deadline[pending[c][i]] < Deadline[pending[c][j]]
          \/ Deadline[pending[c][i]] = Deadline[pending[c][j]] /\ i <= j

Without(s, i) == SubSeq(s, 1, i - 1) \o SubSeq(s, i + 1, Len(s))

(***************************************************************************)
(* An expired request is answered without being sent.                      *)
(***************************************************************************)
Serve(c) ==
    \E i \in DOMAIN pending[c] :
        LET r == pending[c][i]
        IN  /\ IsEarliest(c, i)
            /\ pending' = [pending EXCEPT ![c] = Without(@, i)]
            /\ answer' = IF Expired(r) THEN [answer EXCEPT ![r] = "TimeoutBeforeSend"]
                         ELSE answer
            /\ command' = IF Expired(r) THEN NoCommand ELSE r
            /\ pc' = IF Expired(r) THEN "drain" ELSE "t35"

SelectSafety ==
    /\ pc = "top" /\ ~cancelled
    /\ PicksSafety(Waiting, Hard, burst)
    /\ Serve(Safety)
    /\ burst' = NextBurst(burst)
    /\ UNCHANGED <<now, sent, channel, wrr, drained, retries, wake, quiet, cancelled,
                   lineFree>>

SelectNonSafety ==
    /\ pc = "top" /\ ~cancelled
    /\ ~PicksSafety(Waiting, Hard, burst)
    /\ \E k \in 0 .. ScheduleLength - 1 :
          /\ PicksSlot(Waiting, wrr, k)
          /\ Serve(SlotAfter(wrr, k))
          /\ wrr' = NextSlot(wrr, k)
    /\ burst' = 0
    /\ UNCHANGED <<now, sent, channel, drained, retries, wake, quiet, cancelled, lineFree>>

-----------------------------------------------------------------------------
(***************************************************************************)
(* enforce_t35, the second look at the deadline, and the transmission.     *)
(***************************************************************************)
AfterSilence ==
    /\ pc = "t35" /\ Elapsed(quiet)
    /\ IF Expired(command)
       THEN /\ answer' = [answer EXCEPT ![command] = "TimeoutBeforeSend"]
            /\ pc' = "drain" /\ command' = NoCommand /\ UNCHANGED sent
       ELSE /\ sent' = [sent EXCEPT ![command] = @ + 1]
            /\ pc' = "io" /\ UNCHANGED <<answer, command>>
    /\ retries' = 0
    /\ UNCHANGED <<now, queueVars, burst, wrr, drained, wake, quiet, cancelled, lineFree>>

(***************************************************************************)
(* The exchange ends with a result: answer, and start the next silence.    *)
(***************************************************************************)
Finish(result) ==
    /\ answer' = [answer EXCEPT ![command] = result]
    /\ quiet' = now + T35
    /\ pc' = "drain"
    /\ command' = NoCommand
    /\ UNCHANGED <<now, sent, queueVars, burst, wrr, drained, retries, wake, cancelled>>

ReadReturns ==
    /\ pc = "io" /\ command \in Reads
    /\ \E result \in Port!ReadResults : Finish(result)
    /\ lineFree' = now + T35

(***************************************************************************)
(* A transient read error with retries left whose retry can still be sent  *)
(* before the deadline.                                                    *)
(***************************************************************************)
ReadFails ==
    /\ pc = "io" /\ command \in Reads
    /\ retries < ReadAttempts - 1 /\ now + T35 < Deadline[command]
    /\ wake' = now + T35
    /\ pc' = "retry"
    /\ lineFree' = now + T35
    /\ UNCHANGED <<now, portVars, queueVars, burst, wrr, drained, command, retries, quiet,
                   cancelled>>

\* Mutant: the retry does not wait for the line to fall silent.
Retry_AtOnce ==
    /\ pc = "retry" /\ ~Expired(command)
    /\ sent' = [sent EXCEPT ![command] = @ + 1]
    /\ retries' = retries + 1
    /\ pc' = "io"
    /\ UNCHANGED <<now, answer, queueVars, burst, wrr, drained, command, wake, quiet,
                   cancelled, lineFree>>

Retry ==
    /\ pc = "retry" /\ Elapsed(wake)
    /\ ~Expired(command)
    /\ sent' = [sent EXCEPT ![command] = @ + 1]
    /\ retries' = retries + 1
    /\ pc' = "io"
    /\ UNCHANGED <<now, answer, queueVars, burst, wrr, drained, command, wake, quiet,
                   cancelled, lineFree>>

RetryExpired ==
    /\ pc = "retry" /\ Elapsed(wake)
    /\ Expired(command)
    /\ Finish("ReadError")
    /\ UNCHANGED lineFree

(***************************************************************************)
(* A write has one exchange; whatever is not a reply of the device leaves  *)
(* its outcome unknown.                                                    *)
(***************************************************************************)
\* Mutant: a write without a reply is sent again.
WriteReturns_Retries ==
    /\ pc = "io" /\ command \in Writes
    /\ lineFree' = now + T35
    /\ \/ \E result \in {"Ok", "ProtocolException"} : Finish(result)
       \/ /\ pc' = "t35"
          /\ quiet' = now + T35
          /\ UNCHANGED <<now, portVars, queueVars, burst, wrr, drained, serveVars, cancelled>>

WriteReturns ==
    /\ pc = "io" /\ command \in Writes
    /\ \E result \in Port!WriteResults : Finish(result)
    /\ lineFree' = now + T35

-----------------------------------------------------------------------------
ActorNext ==
    \/ DrainOne \/ DrainNext \/ Stop \/ Idle \/ WakeCancelled \/ WakeReceived
    \/ SelectSafety \/ SelectNonSafety \/ AfterSilence
    \/ ReadReturns \/ ReadFails \/ Retry \/ RetryExpired \/ WriteReturns

Next == Tick \/ Shutdown \/ (\E r \in Requests : Submit(r)) \/ ActorNext

(***************************************************************************)
(* The runtime schedules the actor and the clock advances.  The backend    *)
(* returns because every call to it has a response timeout.                *)
(***************************************************************************)
Fairness == WF_vars(ActorNext) /\ WF_vars(Tick)

Spec == Init /\ [][Next]_vars /\ Fairness

-----------------------------------------------------------------------------
\* The actor keeps the contract of BusPort: no request is answered twice, a refusal
\* is never given to a request that was transmitted, a write is put on the wire at
\* most once and a read at most three times, under any interleaving of clients,
\* shutdown and abort.
PortContract == Port!PortSpec

Transmits == pc' = "io" /\ pc # "io"

\* Every frame, retries included, starts at least t3.5 after the line fell silent
\* and before the request's deadline, however long the wait for silence took.
FramesKeepTime ==
    []TypeOK /\ [][Transmits => now >= lineFree /\ now < Deadline[command]]_vars

\* A request that was accepted is answered, whatever is submitted beside it and
\* whenever the bus is shut down.
EventuallyAnswered == \A r \in Requests : answer[r] = "waiting" ~> answer[r] # "waiting"
=============================================================================

------------------------------- MODULE Telemetry -------------------------------
(***************************************************************************)
(* From a poll plan to the values on the screen: the poll executor         *)
(* (run_executor of lantern-app/src/poll.rs), the bounded result queue and *)
(* the telemetry pipeline (lantern-app/src/telemetry), under plan changes, *)
(* lost results, disconnects and a stop.  The executor, the pipeline task  *)
(* and the monitoring runtime that holds their handles run on threads of   *)
(* their own; time may pass between any two of their steps.                *)
(***************************************************************************)
EXTENDS Naturals, Sequences, SequencesExt, FiniteSets, FiniteSetsExt, Functions

CONSTANTS
    Plans,              \* Plans[v]: the blocks of plan version v; a block has a
                        \* period, a phase and slices: parameter -> age, history
    BusErrors,          \* the errors a read can end with
    Undecodable,        \* parameters whose registers may fail to decode
    ResultCapacity,     \* results between executor and pipeline
    RetainedPlans,      \* MAX_RETAINED_PLAN_VERSIONS, 8 in the code
    HistorySamples, HistoryRetention, HistoryBudget,    \* TelemetryPipelineConfig
    SampleBytes, GapBytes,  \* estimated_bytes of a point
    MaxTime, MaxHandleOps   \* bounds: clock, mark_disconnected and clear_histories

\* validate() of the pipeline, spawn() of the executor, no empty period
ASSUME TelemetryAssumption ==
    /\ ResultCapacity > 0 /\ RetainedPlans > 0
    /\ HistorySamples > 0 /\ HistoryRetention > 0 /\ HistoryBudget > 0
    /\ Len(Plans) \in Nat \ {0} /\ DOMAIN Plans = 1 .. Len(Plans)
    /\ \A v \in DOMAIN Plans :
          /\ Len(Plans[v]) \in Nat /\ DOMAIN Plans[v] = 1 .. Len(Plans[v])
          /\ \A i \in DOMAIN Plans[v] :
                /\ Plans[v][i].period \in Nat \ {0} /\ Plans[v][i].phase \in Nat
                /\ \A p \in DOMAIN Plans[v][i].slices :
                      Plans[v][i].slices[p] \in [age : Nat \ {0}, history : BOOLEAN]

VARIABLES
    now,        \* the monotonic clock; 0 means "never"
    exec,       \* the executor: version, next_due per block, what it does
    cell,       \* the watch cell with the newest plan, version 0 for None
    queue,      \* results on their way
    task,       \* the pipeline task: where its loop is, its timer, its result
    pipe,       \* PipelineState
    notified,   \* the permit of Notify `changed`
    caller,     \* the monitoring runtime: a plan handed to the pipeline only
    handleOps,
    turns       \* history: the first due time of each block, the end of its last
                \* turn, and the blocks that had a turn while it was overdue

telemetryVars == <<now, exec, cell, queue, task, pipe, notified, caller, handleOps, turns>>

-----------------------------------------------------------------------------
(***************************************************************************)
(* Plans and the executor.                                                 *)
(***************************************************************************)
NoVersion == 0

\* the age of a block: the strictest of its parameters
BlockAge(b) == Min({b.slices[p].age : p \in DOMAIN b.slices})

\* RuntimePlan::from_plan
Dues(plan) == [i \in DOMAIN Plans[plan.version] |-> plan.created + Plans[plan.version][i].phase]

RuntimePlan(plan) == [version |-> plan.version, dues |-> Dues(plan), at |-> "wait", block |-> 0]

NoTurns(plan) == [i \in DOMAIN Plans[plan.version] |-> [first |-> Dues(plan)[i], last |-> 0, ahead |-> <<>>]]

\* mutant: the first overdue block is served, however long others wait
EarliestIndex_First ==
    LET due == {i \in DOMAIN exec.dues : now >= exec.dues[i]}
    IN  IF due = {} THEN CHOOSE i \in DOMAIN exec.dues : TRUE ELSE Min(due)

\* earliest_index: the earliest due, the lowest index among equals
EarliestIndex ==
    CHOOSE i \in DOMAIN exec.dues : \A j \in DOMAIN exec.dues \ {i} :
        exec.dues[i] < exec.dues[j] \/ (exec.dues[i] = exec.dues[j] /\ i < j)

\* advance_without_burst: the next multiple of the period after now
AdvanceWithoutBurst(due, period) ==
    IF now < due THEN due ELSE due + period * ((now - due) \div period + 1)

BlockOf(version, i) == Plans[version][i]

\* publish_result: a full queue drops the result
PublishResult(i, outcome) ==
    queue' = IF Len(queue) < ResultCapacity
             THEN Append(queue, [version |-> exec.version, block |-> i, at |-> now, outcome |-> outcome])
             ELSE queue

Advance(i) == [exec EXCEPT !.dues[i] = AdvanceWithoutBurst(exec.dues[i], BlockOf(exec.version, i).period),
                           !.at = "wait", !.block = 0]

\* the loop takes a changed plan, whenever it is not in a read
TakePlan ==
    /\ exec.at = "wait" /\ cell.version # exec.version
    /\ IF cell.version = NoVersion
       THEN exec' = [exec EXCEPT !.at = "down"] /\ UNCHANGED turns
       ELSE exec' = RuntimePlan(cell) /\ turns' = NoTurns(cell)
    /\ UNCHANGED <<now, cell, queue, task, pipe, notified, caller, handleOps>>

Due(i) == /\ exec.at = "wait" /\ cell.version = exec.version /\ exec.dues # <<>>
          /\ i = EarliestIndex /\ now >= exec.dues[i]

\* history: block i has its turn
Turn(i) ==
    [j \in DOMAIN turns |->
        IF j = i THEN [turns[j] EXCEPT !.ahead = <<>>]
        ELSE IF now >= exec.dues[j] THEN [turns[j] EXCEPT !.ahead = Append(@, i)] ELSE turns[j]]

EndTurn(t, i) == [t EXCEPT ![i].last = now]

\* the deadline has passed: the read is skipped and reported
SkipDeadline(i) ==
    /\ Due(i) /\ now >= exec.dues[i] + BlockAge(BlockOf(exec.version, i))
    /\ PublishResult(i, [kind |-> "SkippedDeadline"])
    /\ exec' = Advance(i) /\ turns' = EndTurn(Turn(i), i)
    /\ UNCHANGED <<now, cell, task, pipe, notified, caller, handleOps>>

StartRead(i) ==
    /\ Due(i) /\ now < exec.dues[i] + BlockAge(BlockOf(exec.version, i))
    /\ exec' = [exec EXCEPT !.at = "read", !.block = i] /\ turns' = Turn(i)
    /\ UNCHANGED <<now, cell, queue, task, pipe, notified, caller, handleOps>>

\* what bus.read can return: an error, or registers some of which do not decode
Outcomes(i) ==
    {[kind |-> e] : e \in BusErrors}
      \cup {[kind |-> "Ok", bad |-> B] : B \in SUBSET (Undecodable \cap DOMAIN BlockOf(exec.version, i).slices)}

EndRead(outcome) ==
    /\ exec.at = "read"
    /\ PublishResult(exec.block, outcome)
    /\ exec' = Advance(exec.block) /\ turns' = EndTurn(turns, exec.block)
    /\ UNCHANGED <<now, cell, task, pipe, notified, caller, handleOps>>

-----------------------------------------------------------------------------
(***************************************************************************)
(* PipelineState.                                                          *)
(***************************************************************************)

\* quality_for_bus_error
QualityFor(error) ==
    CASE error \in {"TimeoutBeforeSend", "ResponseTimeout", "SkippedDeadline"} -> "Timeout"
      [] error = "ProtocolException" -> "ProtocolException"
      [] error \in {"PortRemoved", "Shutdown"} -> "Disconnected"
      [] error \in {"InvalidFrameOrTransport", "InvalidResponse"} -> "DecodeError"
      [] OTHER -> "Unavailable"

Bytes(point) == IF point.quality = "Good" THEN SampleBytes ELSE GapBytes

SeqBytes(h) == FoldLeft(LAMBDA n, point : n + Bytes(point), 0, h)

\* recalculate_history_bytes
HistoryBytes(hs) == FoldSet(LAMBDA p, n : n + SeqBytes(hs[p]), 0, DOMAIN hs)

\* the parameters of a plan with their age, and whether they keep a history
Planned(v) ==
    LET bs == Range(Plans[v])
    IN  [p \in UNION {DOMAIN b.slices : b \in bs} |->
            LET mine == {b \in bs : p \in DOMAIN b.slices}
            IN  [age |-> Min({b.slices[p].age : b \in mine}),
                 history |-> \E b \in mine : b.slices[p].history]]

NoState == [active |-> 0, plans |-> {}, values |-> <<>>, histories |-> <<>>, bytes |-> 0]

Unavailable(a) == [good |-> 0, quality |-> "Unavailable", age |-> a.age, history |-> a.history]

\* the oldest plans go first, never the active one
Retain(versions, v) ==
    LET excess == Cardinality(versions) - RetainedPlans
        others == SetToSortSeq(versions \ {v}, LAMBDA a, b : a < b)
    IN  IF Cardinality(versions) <= RetainedPlans THEN versions
        ELSE versions \ Range(SubSeq(others, 1, excess))

\* install_plan: values and histories of parameters that go are dropped, those
\* that stay are kept with their new age
InstallPlan(s, v) ==
    LET planned == Planned(v)
        kept == {p \in DOMAIN planned : planned[p].history}
        hs == [p \in kept |-> IF p \in DOMAIN s.histories THEN s.histories[p] ELSE <<>>]
    IN  [active |-> v,
         plans |-> Retain(s.plans \cup {v}, v),
         values |-> [p \in DOMAIN planned |->
            IF p \in DOMAIN s.values
            THEN [s.values[p] EXCEPT !.age = planned[p].age, !.history = planned[p].history]
            ELSE Unavailable(planned[p])],
         histories |-> hs,
         bytes |-> HistoryBytes(hs)]

SampledBytes(points) == FoldSet(LAMBDA p, n : n + Bytes(points[p]), 0, DOMAIN points)

\* record_good and record_failure of one value
Recorded(value, at, quality) ==
    [value EXCEPT !.quality = quality, !.good = IF quality = "Good" THEN at ELSE value.good]

\* record_good, record_failure and push_history for each of the parameters; one
\* that is no longer planned is left alone
RecordAll(s, at, quality) ==
    LET seen == DOMAIN quality \cap DOMAIN s.values
        points == [p \in {q \in seen : s.values[q].history} |-> [at |-> at, quality |-> quality[p]]]
    IN  [s EXCEPT
            !.values = [p \in DOMAIN s.values |->
                IF p \in seen THEN Recorded(s.values[p], at, quality[p]) ELSE s.values[p]],
            !.histories = [p \in DOMAIN s.histories |->
                IF p \in DOMAIN points THEN Append(s.histories[p], points[p]) ELSE s.histories[p]],
            !.bytes = s.bytes + SampledBytes(points)]

\* a channel within its retention and its number of samples: only the front
\* is looked at
Trimmed(h, at) ==
    LET fresh == {i \in DOMAIN h : h[i].at + HistoryRetention >= at}
        first == IF fresh = {} THEN Len(h) + 1 ELSE Min(fresh)
    IN  SubSeq(h, Max({first, Len(h) - HistorySamples + 1}), Len(h))

\* the channel whose front is the oldest, the lowest id among equals
OldestChannel(hs) ==
    LET some == {p \in DOMAIN hs : hs[p] # <<>>}
    IN  CHOOSE p \in some : \A q \in some \ {p} :
            hs[p][1].at < hs[q][1].at \/ (hs[p][1].at = hs[q][1].at /\ p < q)

\* prune_histories
PrunedHistories(histories, at) ==
    LET short == [p \in DOMAIN histories |-> Trimmed(histories[p], at)]
        points == FoldSet(LAMBDA p, n : n + Len(short[p]), 0, DOMAIN short)
        Drop(hs, i) == IF HistoryBytes(hs) <= HistoryBudget THEN hs
                       ELSE [hs EXCEPT ![OldestChannel(hs)] = Tail(@)]
    IN  FoldLeft(Drop, short, [i \in 1 .. points |-> i])

Pruned(s, at) ==
    LET hs == PrunedHistories(s.histories, at)
    IN  [s EXCEPT !.histories = hs, !.bytes = (@ + HistoryBytes(hs)) - HistoryBytes(s.histories)]

\* mark_all_disconnected
Disconnected(s, at) == Pruned(RecordAll(s, at, [p \in DOMAIN s.values |-> "Disconnected"]), at)

\* process_parts, the second critical section
Processed(s, r) ==
    LET params == DOMAIN BlockOf(r.version, r.block).slices
        Decoded(p) == IF p \in r.outcome.bad THEN "DecodeError" ELSE "Good"
        recorded ==
            IF r.outcome.kind = "Ok" THEN RecordAll(s, r.at, [p \in params |-> Decoded(p)])
            ELSE IF QualityFor(r.outcome.kind) = "Disconnected" THEN Disconnected(s, r.at)
            ELSE RecordAll(s, r.at, [p \in params |-> QualityFor(r.outcome.kind)])
    IN  Pruned(recorded, r.at)

Expired(s) == {p \in DOMAIN s.values : /\ s.values[p].quality = "Good"
                                       /\ now >= s.values[p].good + s.values[p].age}

\* mutant: the change of quality leaves no gap in the history
RefreshStale_Silently(s) ==
    Pruned([s EXCEPT !.values = [p \in DOMAIN @ |->
                IF p \in Expired(s) THEN [@[p] EXCEPT !.quality = "Stale"] ELSE @[p]]], now)

\* refresh_stale; record_failure does the same to a value that is Good
RefreshStale(s) == Pruned(RecordAll(s, now, [p \in Expired(s) |-> "Stale"]), now)

\* next_stale_deadline, 0 when there is none
NextStaleDeadline(s) ==
    LET ds == {s.values[p].good + s.values[p].age : p \in {q \in DOMAIN s.values : s.values[q].quality = "Good"}}
    IN  IF ds = {} THEN 0 ELSE Min(ds)

-----------------------------------------------------------------------------
(***************************************************************************)
(* The pipeline task and the handles.                                      *)
(***************************************************************************)
\* the top of the loop: the shutdown flag, then the next deadline.  A change
\* between the end of a turn and this look is seen by the look, or leaves a
\* permit like any later one.
Wait(s) == [at |-> "wait", timer |-> NextStaleDeadline(s), result |-> <<>>]

\* process_parts, the first critical section: the plan of the result may be gone
Receive ==
    /\ task.at = "wait" /\ queue # <<>>
    /\ queue' = Tail(queue)
    /\ task' = IF Head(queue).version \in pipe.plans
               THEN [task EXCEPT !.at = "apply", !.result = Head(queue)] ELSE Wait(pipe)
    /\ UNCHANGED <<now, exec, cell, pipe, notified, caller, handleOps, turns>>

Apply ==
    /\ task.at = "apply"
    /\ pipe' = Processed(pipe, task.result)
    /\ task' = Wait(pipe') /\ notified' = TRUE
    /\ UNCHANGED <<now, exec, cell, queue, caller, handleOps, turns>>

Refresh ==
    /\ task.at = "wait" /\ task.timer # 0 /\ now >= task.timer
    /\ pipe' = RefreshStale(pipe)
    /\ task' = Wait(pipe')
    /\ UNCHANGED <<now, exec, cell, queue, notified, caller, handleOps, turns>>

Wake ==
    /\ task.at = "wait" /\ notified
    /\ notified' = FALSE /\ task' = Wait(pipe)
    /\ UNCHANGED <<now, exec, cell, queue, pipe, caller, handleOps, turns>>

\* mutant: the pipeline task is not told that an age may have become shorter
UpdatePipeline_Quietly ==
    /\ caller.at = "idle" /\ pipe.active < Len(Plans)
    /\ pipe' = InstallPlan(pipe, pipe.active + 1)
    /\ caller' = [at |-> "poll", created |-> now]
    /\ UNCHANGED <<now, exec, cell, queue, task, notified, handleOps, turns>>

\* reconfigure_all: the plan goes to the pipeline first ...
UpdatePipeline ==
    /\ caller.at = "idle" /\ pipe.active < Len(Plans)
    /\ pipe' = InstallPlan(pipe, pipe.active + 1)
    /\ notified' = TRUE
    /\ caller' = [at |-> "poll", created |-> now]
    /\ UNCHANGED <<now, exec, cell, queue, task, handleOps, turns>>

\* ... and then to the executor
UpdatePoll ==
    /\ caller.at = "poll"
    /\ cell' = [version |-> pipe.active, created |-> caller.created]
    /\ caller' = [at |-> "idle", created |-> 0]
    /\ UNCHANGED <<now, exec, queue, task, pipe, notified, handleOps, turns>>

HandleOp == caller.at = "idle" /\ handleOps < MaxHandleOps /\ handleOps' = handleOps + 1

MarkDisconnected ==
    /\ HandleOp
    /\ pipe' = Disconnected(pipe, now)
    /\ notified' = TRUE
    /\ UNCHANGED <<now, exec, cell, queue, task, caller, turns>>

ClearHistories(p) ==
    /\ HandleOp
    /\ p \in DOMAIN pipe.histories
    /\ LET hs == [pipe.histories EXCEPT ![p] = <<>>]
       IN  pipe' = [pipe EXCEPT !.histories = hs, !.bytes = HistoryBytes(hs)]
    /\ notified' = TRUE
    /\ UNCHANGED <<now, exec, cell, queue, task, caller, turns>>

\* MonitoringRuntime::stop: both are shut down, their tasks aborted and their
\* handles dropped
StopMonitoring ==
    /\ caller.at = "idle"
    /\ caller' = [at |-> "stopped", created |-> 0]
    /\ cell' = [version |-> NoVersion, created |-> 0]
    /\ exec' = [version |-> NoVersion, dues |-> <<>>, at |-> "down", block |-> 0] /\ turns' = <<>>
    /\ task' = [task EXCEPT !.at = "down", !.timer = 0, !.result = <<>>] /\ queue' = <<>> /\ pipe' = NoState /\ notified' = FALSE
    /\ UNCHANGED <<now, handleOps>>

\* bound: the clock stands while the pipeline task holds a result, where nothing
\* reads it
Tick ==
    /\ now < MaxTime /\ task.at = "wait"
    /\ now' = now + 1
    /\ UNCHANGED <<exec, cell, queue, task, pipe, notified, caller, handleOps, turns>>

\* MonitoringRuntime::start with plan 1
TelemetryInit ==
    /\ now = 1
    /\ cell = [version |-> 1, created |-> 1]
    /\ exec = RuntimePlan(cell) /\ turns = NoTurns(cell)
    /\ queue = <<>> /\ notified = FALSE
    /\ pipe = InstallPlan(NoState, 1) /\ task = Wait(pipe)
    /\ caller = [at |-> "idle", created |-> 0] /\ handleOps = 0

ExecutorNext ==
    \/ TakePlan
    \/ \E i \in DOMAIN exec.dues : SkipDeadline(i) \/ StartRead(i)
    \/ exec.at = "read" /\ \E o \in Outcomes(exec.block) : EndRead(o)

PipelineNext == Receive \/ Apply \/ Refresh \/ Wake

HandleNext ==
    \/ UpdatePipeline \/ UpdatePoll \/ MarkDisconnected \/ StopMonitoring
    \/ \E p \in DOMAIN pipe.histories : ClearHistories(p)

TelemetryNext == ExecutorNext \/ PipelineNext \/ HandleNext \/ Tick

TelemetrySpec == TelemetryInit /\ [][TelemetryNext]_telemetryVars

-----------------------------------------------------------------------------
(***************************************************************************)
(* Properties.                                                             *)
(***************************************************************************)

\* However late the executor wakes and however long a read takes, a block that
\* had its turn waits for the next of its periods instead of catching up with
\* the ones it missed, and a block that is overdue is passed by every other
\* block at most once (earliest_index, advance_without_burst).
BusIsShared ==
    exec.at = "wait" =>
        \A i \in DOMAIN turns :
            LET Slot(t) == (t - turns[i].first) \div BlockOf(exec.version, i).period
            IN  /\ turns[i].last # 0 => Slot(exec.dues[i]) > Slot(turns[i].last)
                /\ Cardinality(Range(turns[i].ahead)) = Len(turns[i].ahead)

HistoryIsAccounted ==
    /\ pipe.bytes = HistoryBytes(pipe.histories) /\ pipe.bytes <= HistoryBudget
    /\ \A p \in DOMAIN pipe.histories :
          Len(pipe.histories[p]) <= HistorySamples /\ p \in DOMAIN pipe.values /\ pipe.values[p].history

HistoryEndsWithQuality ==
    \A p \in DOMAIN pipe.histories :
        pipe.histories[p] # <<>> => Last(pipe.histories[p]).quality = pipe.values[p].quality

\* A history that is not empty ends with the quality the value has now: a chart
\* never continues a line over a value that went stale, failed or was
\* disconnected, whoever noticed it.  The memory the histories take is counted
\* exactly, through pushes, prunes, cleared channels and parameters that leave the
\* plan, and stays within the budget (pipeline/state.rs).
HistoryIsHonest == HistoryEndsWithQuality /\ HistoryIsAccounted

\* A value does not stay Good past its maximum age unnoticed: whoever wrote the
\* value or shortened its age, the pipeline task sleeps at most until the first
\* value expires or has a permit that makes it look again (update_plan and
\* process_parts notify, run_pipeline re-arms its timer).
StaleTimerIsArmed ==
    task.at = "wait" /\ NextStaleDeadline(pipe) # 0 =>
        notified \/ (task.timer # 0 /\ task.timer <= NextStaleDeadline(pipe))
===============================================================================

----------------------------- MODULE FaultTimeline -----------------------------
(***************************************************************************)
(* Fault diagnostics: the FaultTracker of lantern-app/src/faults.rs, the   *)
(* reducer's part (application/faults.rs), the task that reads a freeze    *)
(* frame (vfd-lantern/src/fault_runtime.rs) and the export of an event.    *)
(* The drive changes its fault word whenever it likes; samples reach the   *)
(* reducer through a bounded queue, some of them failed reads; freeze      *)
(* frames of several events are read at the same time.                     *)
(*                                                                         *)
(* A fault word is a set of bits; no_fault is the empty set.  A scalar     *)
(* source is a word that is looked at as a whole.                          *)
(***************************************************************************)
EXTENDS Naturals, Sequences, SequencesExt, FiniteSets, FiniteSetsExt

CONSTANTS
    Words,              \* values of the fault word
    FrameOf,            \* freeze-frame parameters of a defined fault word
    FrameBlock,         \* the block of the freeze-frame plan a parameter is in
    SourceParam,        \* the parameter of the fault source
    MaxFaultEvents,     \* MAX_FAULT_EVENTS, 256 in the code
    FaultQueue,         \* fault_capacity of the telemetry pipeline
    MaxChanges, MaxFaultKeys    \* bounds: changes of the fault word, keys

ASSUME FaultAssumption ==
    /\ MaxFaultEvents \in Nat \ {0} /\ FaultQueue \in Nat \ {0}
    /\ SourceParam \in DOMAIN FrameBlock

VARIABLES
    faultKind,      \* FaultSourceKind of the profile
    word,           \* the fault word of the drive
    changes,
    observed,       \* fault-source telemetry on its way to the reducer
    lastRaw,        \* {} or {word}: FaultTracker.last_raw
    activeEvent,    \* FaultTracker.active_event_id, 0 for None
    timeline,       \* FaultTracker.events
    evicted,
    nextEvent,
    frames,         \* freeze-frame tasks that have not reported
    exports,        \* events whose report is being written
    faultKeys

faultVars == <<faultKind, word, changes, observed, lastRaw, activeEvent, timeline, evicted, nextEvent,
               frames, exports, faultKeys>>

-----------------------------------------------------------------------------
\* scalar_transition and bitset_transition: what of the word is reported as
\* gone and as come
Transition(previous, current) ==
    IF faultKind = "ScalarCode" THEN [gone |-> {previous} \ {{}}, come |-> {current} \ {{}}]
    ELSE [gone |-> {{b} : b \in previous \ current}, come |-> {{b} : b \in current \ previous}]

\* FaultMeaning::is_known: the profile defines the word
Known(meaning) == meaning \in DOMAIN FrameOf

\* freeze_frame_parameters
FrameParams(t) ==
    {SourceParam} \cup UNION {FrameOf[m] : m \in {n \in t.gone \cup t.come : Known(n)}}

\* FaultEvent and its FreezeFrame
Event(id, t) ==
    [id |-> id, transition |-> t, expected |-> FrameParams(t), captured |-> {},
     completeness |-> "Pending", acknowledged |-> FALSE]

\* spawn_freeze_frame_capture: a task that has the blocks of the plan to read
Capture(id, params) ==
    [id |-> id, left |-> {FrameBlock[p] : p \in params}, params |-> params, good |-> {}, errors |-> FALSE]

IndexOf(id) == {i \in DOMAIN timeline : timeline[i].id = id}

FaultInit ==
    /\ faultKind \in {"ScalarCode", "BitSet"}
    /\ word \in Words /\ changes = 0 /\ observed = <<>>
    /\ lastRaw = {} /\ activeEvent = 0 /\ timeline = <<>> /\ evicted = 0 /\ nextEvent = 1
    /\ frames = {} /\ exports = {} /\ faultKeys = 0

FaultIdle ==
    /\ faultKind = "None"
    /\ word = {} /\ changes = MaxChanges /\ observed = <<>>
    /\ lastRaw = {} /\ activeEvent = 0 /\ timeline = <<>> /\ evicted = 0 /\ nextEvent = 1
    /\ frames = {} /\ exports = {} /\ faultKeys = MaxFaultKeys

-----------------------------------------------------------------------------
(***************************************************************************)
(* The drive, the pipeline and the reducer.                                *)
(***************************************************************************)

\* the drive sets its fault word, and may do so again before it is read
DriveChanges(w) ==
    /\ changes < MaxChanges /\ w # word
    /\ word' = w /\ changes' = changes + 1
    /\ UNCHANGED <<faultKind, observed, lastRaw, activeEvent, timeline, evicted, nextEvent, frames, exports, faultKeys>>

\* a poll of the source, good or failed; forward_faults passes it on
PollSource(good) ==
    /\ faultKind # "None" /\ Len(observed) < FaultQueue
    /\ observed' = Append(observed, [good |-> good, raw |-> IF good THEN word ELSE {}])
    /\ UNCHANGED <<faultKind, word, changes, lastRaw, activeEvent, timeline, evicted, nextEvent, frames, exports, faultKeys>>

\* the reported word differs from the last one: an event and a freeze frame,
\* and the oldest event leaves a full timeline
Detect(raw) ==
    LET previous == IF lastRaw = {} THEN {} ELSE CHOOSE w \in lastRaw : TRUE
        event == Event(nextEvent, Transition(previous, raw))
        all == Append(timeline, event)
        excess == IF Len(all) > MaxFaultEvents THEN 1 ELSE 0
    IN  /\ timeline' = SubSeq(all, 1 + excess, Len(all))
        /\ evicted' = evicted + excess
        /\ nextEvent' = nextEvent + 1
        /\ lastRaw' = {raw}
        /\ activeEvent' = IF raw = {} THEN 0 ELSE nextEvent
        /\ frames' = frames \cup {Capture(nextEvent, event.expected)}

\* touch: only the time of the active event's last observation moves
Touch == UNCHANGED <<lastRaw, activeEvent, timeline, evicted, nextEvent, frames>>

\* observe: only a Good sample counts, the first one is compared with no_fault
ObserveTelemetry ==
    /\ observed # <<>>
    /\ observed' = Tail(observed)
    /\ LET s == Head(observed)
       IN  IF ~s.good THEN UNCHANGED <<lastRaw, activeEvent, timeline, evicted, nextEvent, frames>>
           ELSE IF lastRaw = {} /\ s.raw = {}
           THEN lastRaw' = {s.raw} /\ UNCHANGED <<activeEvent, timeline, evicted, nextEvent, frames>>
           ELSE IF lastRaw = {s.raw} THEN Touch
           ELSE Detect(s.raw)
    /\ UNCHANGED <<faultKind, word, changes, exports, faultKeys>>

-----------------------------------------------------------------------------
(***************************************************************************)
(* Freeze frames and the operator.                                         *)
(***************************************************************************)

\* one block is read: it fails as a whole, or some of its parameters do
CaptureBlock(f, b, good) ==
    /\ f \in frames /\ b \in f.left
    /\ frames' = (frames \ {f}) \cup
          {[f EXCEPT !.left = @ \ {b}, !.good = @ \cup good,
                     !.errors = @ \/ good # {p \in f.params : FrameBlock[p] = b}]}
    /\ UNCHANGED <<faultKind, word, changes, observed, lastRaw, activeEvent, timeline, evicted, nextEvent, exports, faultKeys>>

\* the bus or the slave id is missing: the task reports at once
NoBus(f) ==
    /\ f \in frames /\ f.good = {} /\ ~f.errors /\ f.left # {}
    /\ frames' = (frames \ {f}) \cup {[f EXCEPT !.left = {}, !.errors = TRUE]}
    /\ UNCHANGED <<faultKind, word, changes, observed, lastRaw, activeEvent, timeline, evicted, nextEvent, exports, faultKeys>>

Completeness(f, event) ==
    IF ~f.errors /\ Cardinality(f.good) = Cardinality(event.expected) THEN "Complete"
    ELSE IF f.good = {} THEN "Unavailable" ELSE "Partial"

\* mutant: the frame is taken for the newest event's
FreezeFrameCompleted_Newest(f) ==
    /\ f \in frames /\ f.left = {}
    /\ frames' = frames \ {f}
    /\ timeline' = [timeline EXCEPT ![Len(timeline)].captured = f.good, ![Len(timeline)].completeness = Completeness(f, Last(timeline))]
    /\ UNCHANGED <<faultKind, word, changes, observed, lastRaw, activeEvent, evicted, nextEvent, exports, faultKeys>>

\* complete_freeze_frame: the event may have left the timeline
FreezeFrameCompleted(f) ==
    /\ f \in frames /\ f.left = {}
    /\ frames' = frames \ {f}
    /\ timeline' = [i \in DOMAIN timeline |->
            IF i \in IndexOf(f.id)
            THEN [timeline[i] EXCEPT !.captured = f.good, !.completeness = Completeness(f, timeline[i])]
            ELSE timeline[i]]
    /\ UNCHANGED <<faultKind, word, changes, observed, lastRaw, activeEvent, evicted, nextEvent, exports, faultKeys>>

FaultKey == faultKeys < MaxFaultKeys /\ faultKeys' = faultKeys + 1

\* acknowledge: an event that is shown may be gone by now
Acknowledge(id) ==
    /\ FaultKey
    /\ timeline' = [i \in DOMAIN timeline |->
            IF i \in IndexOf(id) THEN [timeline[i] EXCEPT !.acknowledged = TRUE] ELSE timeline[i]]
    /\ UNCHANGED <<faultKind, word, changes, observed, lastRaw, activeEvent, evicted, nextEvent, frames, exports>>

\* export_event: an event that has left the timeline is refused
Export(id) ==
    /\ FaultKey /\ IndexOf(id) # {}
    /\ exports' = exports \cup {id}
    /\ UNCHANGED <<faultKind, word, changes, observed, lastRaw, activeEvent, timeline, evicted, nextEvent, frames>>

\* ExportFinished, with the path or the error of write_fault_report
ExportFinished(e) ==
    /\ e \in exports
    /\ exports' = exports \ {e}
    /\ UNCHANGED <<faultKind, word, changes, observed, lastRaw, activeEvent, timeline, evicted, nextEvent, frames, faultKeys>>

FrameNext ==
    \E f \in frames :
        \/ NoBus(f) \/ FreezeFrameCompleted(f)
        \/ \E b \in f.left : \E good \in SUBSET {p \in f.params : FrameBlock[p] = b} : CaptureBlock(f, b, good)

FaultNext ==
    \/ \E w \in Words : DriveChanges(w)
    \/ \E good \in BOOLEAN : PollSource(good)
    \/ ObserveTelemetry
    \/ FrameNext
    \/ \E id \in 1 .. nextEvent - 1 : Acknowledge(id) \/ Export(id)
    \/ \E e \in exports : ExportFinished(e)

FaultSpec == FaultInit /\ [][FaultNext]_faultVars

-----------------------------------------------------------------------------
(***************************************************************************)
(* Properties.                                                             *)
(***************************************************************************)

\* replayed on the word v, the event leads to the word w
Leads(e, v, w) ==
    LET gone == e.transition.gone
        come == e.transition.come
    IN  IF faultKind = "ScalarCode" THEN gone = {v} \ {{}} /\ w = UNION come
        ELSE /\ UNION gone \subseteq v /\ (UNION come) \cap v = {}
             /\ w = (v \ UNION gone) \cup UNION come

\* a history of the fault word that the events tell, up to the last word
Tells(way) ==
    /\ evicted = 0 => way[0] = {}
    /\ evicted > 0 => way[0] \in Words
    /\ \A i \in DOMAIN timeline : way[i] \in Words /\ Leads(timeline[i], way[i - 1], way[i])
    /\ lastRaw \subseteq {way[Len(timeline)]}

TransitionsJoin ==
    /\ \E way \in [0 .. Len(timeline) -> Words \cup {{}}] : Tells(way)
    /\ activeEvent # 0 <=> (lastRaw # {} /\ lastRaw # {{}})
    /\ activeEvent # 0 => timeline # <<>> /\ Last(timeline).id = activeEvent

FramesBelong ==
    \A i \in DOMAIN timeline :
        LET e == timeline[i]
        IN  /\ e.captured \subseteq e.expected
            /\ e.completeness = "Complete" => e.captured = e.expected
            /\ e.completeness = "Pending" <=> \E f \in frames : f.id = e.id

\* The timeline is a history: replayed from no fault, or from some word once
\* events were evicted, its transitions join without a gap and end at the last
\* word that was read, whatever reads failed and whatever changes of the drive
\* went unread, and the newest event is the active one exactly while that word is
\* a fault.  A freeze frame belongs to its event, however the tasks that read the
\* frames overtake each other: it has values of that event's parameters only, is
\* complete only when it has all of them, and is missing while its task is still
\* reading (observe, complete_freeze_frame, faults.rs:118).
TimelineReplays == TransitionsJoin /\ FramesBelong
================================================================================

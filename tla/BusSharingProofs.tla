-------------------------- MODULE BusSharingProofs --------------------------
(***************************************************************************)
(* How the bus is shared: between the classes of requests by select_next   *)
(* of the scheduler, and between the blocks of a poll plan by the poll     *)
(* executor; and what is kept of the fault words that the polls bring.     *)
(*                                                                         *)
(* Bounded overtaking and bounded bursts of select_next hold for every     *)
(* burst limit, every depth of the queues and every sequence of arrivals.  *)
(* BoundedOvertaking is not inductive: how often a class may still be      *)
(* passed over depends on how far the schedule is from its next slot.  The *)
(* invariant Distance says that the two together stay within the gap.      *)
(*                                                                         *)
(* BusIsShared and StaleTimerIsArmed hold for every plan, every period and *)
(* age and every behaviour of the bus.  BusIsShared speaks of the executor *)
(* between two turns only; the invariant TurnsInv says of every state that *)
(* a block is due in a slot of its period after its last turn, and that    *)
(* those which passed it while it was overdue are due later than it.       *)
(*                                                                         *)
(* TimelineReplays holds for every fault map, every budget of events and   *)
(* of frame tasks, and every order in which they finish: the invariant     *)
(* FaultInv says how the words between two events are told by the events   *)
(* that are kept, and what each frame task has read.                       *)
(***************************************************************************)
EXTENDS BusFairness, Telemetry, FaultTimeline, FiniteSetTheorems, WellFoundedInduction, TLAPS

(***************************************************************************)
(* From any slot, the next slot of a class is at most its gap away.        *)
(***************************************************************************)
LEMMA SlotWithinGap ==
    ASSUME NEW c \in NonSafety, NEW i \in 0 .. ScheduleLength - 1
    PROVE  \E k \in 0 .. Gap(c) : SlotAfter(i, k) = c
<1>1. CASE c = "TelemetryCritical"
  <2>1. \/ i \in {0, 2, 4, 6} /\ SlotAfter(i, 0) = c
        \/ i \in {1, 3, 5, 10} /\ SlotAfter(i, 1) = c
        \/ i = 9 /\ SlotAfter(i, 2) = c
        \/ i = 8 /\ SlotAfter(i, 3) = c
        \/ i = 7 /\ SlotAfter(i, 4) = c
    BY <1>1 DEF SlotAfter, Slot, ScheduleLength
  <2>2. Gap(c) = 4
    BY <1>1 DEF Gap
  <2> QED
    BY <2>1, <2>2
<1>2. CASE c = "Interactive"
  <2>1. \/ i \in {1, 3, 5, 7} /\ SlotAfter(i, 0) = c
        \/ i \in {0, 2, 4, 6} /\ SlotAfter(i, 1) = c
        \/ i = 10 /\ SlotAfter(i, 2) = c
        \/ i = 9 /\ SlotAfter(i, 3) = c
        \/ i = 8 /\ SlotAfter(i, 4) = c
    BY <1>2 DEF SlotAfter, Slot, ScheduleLength
  <2>2. Gap(c) = 4
    BY <1>2 DEF Gap
  <2> QED
    BY <2>1, <2>2
<1>3. CASE c = "Telemetry"
  <2>1. \/ i \in 0 .. 8 /\ SlotAfter(i, 8 - i) = c
        \/ i = 9 /\ SlotAfter(i, 0) = c
        \/ i = 10 /\ SlotAfter(i, 9) = c
    BY <1>3 DEF SlotAfter, Slot, ScheduleLength
  <2>2. Gap(c) = 9
    BY <1>3 DEF Gap
  <2> QED
    BY <2>1, <2>2
<1>4. CASE c = "Background"
  <2>1. SlotAfter(i, 10 - i) = c /\ 10 - i \in 0 .. 10
    BY <1>4 DEF SlotAfter, Slot, ScheduleLength
  <2>2. Gap(c) = 10
    BY <1>4 DEF Gap
  <2> QED
    BY <2>1, <2>2
<1> QED
  BY <1>1, <1>2, <1>3, <1>4 DEF NonSafety

(***************************************************************************)
(* After k slots were skipped, a later slot is k + 1 slots nearer.         *)
(***************************************************************************)
LEMMA SlotNearer ==
    ASSUME NEW i \in 0 .. ScheduleLength - 1,
           NEW k \in 0 .. ScheduleLength - 1,
           NEW m \in 0 .. ScheduleLength - 1, k < m
    PROVE  /\ m - k - 1 \in 0 .. ScheduleLength - 1
           /\ NextSlot(i, k) \in 0 .. ScheduleLength - 1
           /\ SlotAfter(NextSlot(i, k), m - k - 1) = SlotAfter(i, m)
<1>1. m - k - 1 \in 0 .. ScheduleLength - 1
  BY DEF ScheduleLength
<1>2. NextSlot(i, k) \in 0 .. ScheduleLength - 1
  BY DEF ScheduleLength, NextSlot
<1>3. (NextSlot(i, k) + (m - k - 1)) % ScheduleLength = (i + m) % ScheduleLength
  BY DEF ScheduleLength, NextSlot
<1> QED
  BY <1>1, <1>2, <1>3 DEF SlotAfter

\* How far a class is from its turn: a slot of the class comes within as many
\* positions as are left of the overtakings it can still suffer.
Distance ==
    \A c \in NonSafety :
        \E k \in 0 .. Gap(c) : SlotAfter(wrrIndex, k) = c /\ passed[c] + k <= Gap(c)

\* The actor's burst counter never lags behind the real run of safety requests.
BurstCounts == run <= safetyBurst

(***************************************************************************)
(* The types of the state of select_next are preserved.                    *)
(***************************************************************************)
LEMMA TypePreserved ==
    ASSUME SelectTypeOK, [SelectNext]_selectVars
    PROVE  SelectTypeOK'
<1> USE BusScheduleAssumption DEF SelectTypeOK
<1>1. CASE Arrive
  <2>1. PICK c \in Classes : /\ depth[c] < MaxDepth
                             /\ depth' = [depth EXCEPT ![c] = @ + 1]
    BY <1>1 DEF Arrive
  <2>2. depth' \in [Classes -> Nat]
    BY <2>1
  <2> QED
    BY <1>1, <2>2 DEF Arrive
<1>2. CASE DeadlinesMove
  BY <1>2 DEF DeadlinesMove
<1>3. CASE TakeSafety
  <2>1. depth[Safety] > 0 /\ Safety \in Classes
    BY <1>3 DEF TakeSafety, PicksSafety, Queued, Classes
  <2>2. depth' \in [Classes -> Nat]
    BY <1>3, <2>1 DEF TakeSafety
  <2>3. safetyBurst' \in 0 .. SafetyBurstLimit
    BY <1>3 DEF TakeSafety, NextBurst
  <2> QED
    BY <1>3, <2>1, <2>2, <2>3 DEF TakeSafety
<1>4. CASE TakeNonSafety
  <2>1. PICK k \in 0 .. ScheduleLength - 1 :
          /\ PicksSlot(Queued, wrrIndex, k)
          /\ depth' = [depth EXCEPT ![SlotAfter(wrrIndex, k)] = @ - 1]
          /\ wrrIndex' = NextSlot(wrrIndex, k)
          /\ served' = SlotAfter(wrrIndex, k)
          /\ passed' = [d \in NonSafety |->
                IF d = SlotAfter(wrrIndex, k) \/ d \notin Queued THEN 0 ELSE passed[d] + 1]
    BY <1>4 DEF TakeNonSafety
  <2>2. SlotAfter(wrrIndex, k) \in Classes /\ depth[SlotAfter(wrrIndex, k)] > 0
    BY <2>1 DEF PicksSlot, Queued
  <2>3. depth' \in [Classes -> Nat]
    BY <2>1, <2>2
  <2>4. wrrIndex' \in 0 .. ScheduleLength - 1
    BY <2>1 DEF NextSlot, ScheduleLength
  <2>5. passed' \in [NonSafety -> Nat]
    BY <2>1
  <2> QED
    BY <1>4, <2>1, <2>2, <2>3, <2>4, <2>5 DEF TakeNonSafety
<1>5. CASE UNCHANGED selectVars
  BY <1>5 DEF selectVars
<1> QED
  BY <1>1, <1>2, <1>3, <1>4, <1>5 DEF SelectNext

(***************************************************************************)
(* A selection that passes a waiting class over brings its slot nearer by  *)
(* at least as much; one that does not starts the count again.             *)
(***************************************************************************)
LEMMA DistancePreserved ==
    ASSUME SelectTypeOK, Distance, [SelectNext]_selectVars
    PROVE  Distance'
<1>1. CASE TakeNonSafety
  <2>1. PICK k \in 0 .. ScheduleLength - 1 :
          /\ PicksSlot(Queued, wrrIndex, k)
          /\ wrrIndex' = NextSlot(wrrIndex, k)
          /\ passed' = [d \in NonSafety |->
                IF d = SlotAfter(wrrIndex, k) \/ d \notin Queued THEN 0 ELSE passed[d] + 1]
    BY <1>1 DEF TakeNonSafety
  <2>2. wrrIndex \in 0 .. ScheduleLength - 1 /\ wrrIndex' \in 0 .. ScheduleLength - 1
    BY <2>1 DEF SelectTypeOK, NextSlot, ScheduleLength
  <2> SUFFICES ASSUME NEW c \in NonSafety
               PROVE  \E m \in 0 .. Gap(c) : SlotAfter(wrrIndex', m) = c /\ passed'[c] + m <= Gap(c)
    BY DEF Distance
  <2>3. Gap(c) \in 0 .. 10
    BY DEF Gap, NonSafety
  <2>4. CASE c = SlotAfter(wrrIndex, k) \/ c \notin Queued
    <3>1. passed'[c] = 0
      BY <2>1, <2>4
    <3>2. PICK m \in 0 .. Gap(c) : SlotAfter(wrrIndex', m) = c
      BY <2>2, SlotWithinGap
    <3> QED
      BY <2>3, <3>1, <3>2
  <2>5. CASE c # SlotAfter(wrrIndex, k) /\ c \in Queued
    <3>1. passed'[c] = passed[c] + 1 /\ passed[c] \in Nat
      BY <2>1, <2>5 DEF SelectTypeOK
    <3>2. PICK m \in 0 .. Gap(c) : SlotAfter(wrrIndex, m) = c /\ passed[c] + m <= Gap(c)
      BY DEF Distance
    <3>3. k < m
      <4>1. m # k
        BY <2>5, <3>2
      <4>2. ~(m \in 0 .. k - 1)
        BY <2>1, <2>5, <3>2 DEF PicksSlot
      <4> QED
        BY <2>1, <2>3, <3>2, <4>1, <4>2 DEF ScheduleLength
    <3>4. m \in 0 .. ScheduleLength - 1
      BY <2>3, <3>2 DEF ScheduleLength
    <3>5. SlotAfter(wrrIndex', m - k - 1) = c
      BY <2>1, <2>2, <3>2, <3>3, <3>4, SlotNearer
    <3>6. m - k - 1 \in 0 .. Gap(c) /\ passed'[c] + (m - k - 1) <= Gap(c)
      BY <2>1, <2>3, <3>1, <3>2, <3>3 DEF ScheduleLength
    <3> QED
      BY <3>5, <3>6
  <2> QED
    BY <2>4, <2>5
<1>2. CASE UNCHANGED <<wrrIndex, passed>>
  BY <1>2 DEF Distance
<1> QED
  BY <1>1, <1>2 DEF SelectNext, Arrive, DeadlinesMove, TakeSafety, selectVars

(***************************************************************************)
(* A safety selection over waiting requests counts in the burst.           *)
(***************************************************************************)
LEMMA BurstPreserved ==
    ASSUME SelectTypeOK, BurstCounts, [SelectNext]_selectVars
    PROVE  BurstCounts'
<1> USE BusScheduleAssumption DEF SelectTypeOK, BurstCounts
<1>1. CASE TakeSafety
  <2>1. CASE hard \/ Queued = {Safety}
    BY <1>1, <2>1 DEF TakeSafety, NextBurst
  <2>2. CASE ~hard /\ Queued # {Safety}
    <3>1. Queued \cap NonSafety # {}
      BY <1>1, <2>2 DEF TakeSafety, PicksSafety, Queued, Classes
    <3>2. safetyBurst < SafetyBurstLimit
      BY <1>1, <2>2, <3>1 DEF TakeSafety, PicksSafety
    <3> QED
      BY <1>1, <2>2, <3>2 DEF TakeSafety, NextBurst
  <2> QED
    BY <2>1, <2>2
<1>2. CASE TakeNonSafety
  BY <1>2 DEF TakeNonSafety
<1>3. CASE UNCHANGED <<safetyBurst, run>>
  BY <1>3
<1> QED
  BY <1>1, <1>2, <1>3 DEF SelectNext, Arrive, DeadlinesMove, selectVars

\* No class has been passed over when the actor starts.
LEMMA DistanceInitially == SelectInit => Distance
<1> SUFFICES ASSUME SelectInit, NEW c \in NonSafety
             PROVE  \E k \in 0 .. Gap(c) : SlotAfter(wrrIndex, k) = c /\ passed[c] + k <= Gap(c)
  BY DEF Distance
<1>1. wrrIndex \in 0 .. ScheduleLength - 1 /\ passed[c] = 0
  BY DEF SelectInit, ScheduleLength
<1>2. Gap(c) \in Nat
  BY DEF Gap, NonSafety
<1> QED
  BY <1>1, <1>2, SlotWithinGap

\* The actor starts with counters of the right type.
LEMMA TypesInitially == SelectInit => SelectTypeOK
<1> SUFFICES ASSUME SelectInit PROVE SelectTypeOK
  OBVIOUS
<1>1. hard \in BOOLEAN
  BY Zenon DEF SelectInit
<1>2. depth \in [Classes -> Nat] /\ passed \in [NonSafety -> Nat]
  BY DEF SelectInit
<1>3. safetyBurst \in 0 .. SafetyBurstLimit /\ wrrIndex \in 0 .. ScheduleLength - 1 /\ run \in Nat
  BY BusScheduleAssumption DEF SelectInit, ScheduleLength
<1>4. served \in Classes \cup {"none"}
  BY DEF SelectInit
<1> QED
  BY <1>1, <1>2, <1>3, <1>4 DEF SelectTypeOK

(***************************************************************************)
(* No mix of arrivals passes a waiting class over more often than its gap  *)
(* in NON_SAFETY_SCHEDULE.                                                 *)
(***************************************************************************)
THEOREM OvertakingBounded == SelectSpec => []BoundedOvertaking
<1>1. SelectInit => SelectTypeOK /\ Distance
  BY TypesInitially, DistanceInitially
<1>2. SelectTypeOK /\ Distance /\ [SelectNext]_selectVars => (SelectTypeOK /\ Distance)'
  BY TypePreserved, DistancePreserved
<1>3. SelectTypeOK /\ Distance => BoundedOvertaking
  <2> SUFFICES ASSUME SelectTypeOK, Distance, NEW c \in NonSafety
               PROVE  passed[c] <= Gap(c)
    BY DEF BoundedOvertaking
  <2>1. passed[c] \in Nat /\ Gap(c) \in Nat
    BY DEF SelectTypeOK, Gap, NonSafety
  <2> QED
    BY <2>1 DEF Distance
<1> QED
  BY <1>1, <1>2, <1>3, PTL DEF SelectSpec

(***************************************************************************)
(* Between two selections of other classes at most SAFETY_BURST_LIMIT      *)
(* safety requests that are not pressing overtake them.                    *)
(***************************************************************************)
THEOREM BurstsBounded == SelectSpec => []BurstBounded
<1>1. SelectInit => SelectTypeOK /\ BurstCounts
  BY TypesInitially DEF SelectInit, BurstCounts
<1>2. SelectTypeOK /\ BurstCounts /\ [SelectNext]_selectVars => (SelectTypeOK /\ BurstCounts)'
  BY TypePreserved, BurstPreserved
<1>3. SelectTypeOK /\ BurstCounts => BurstBounded
  BY BusScheduleAssumption DEF SelectTypeOK, BurstCounts, BurstBounded
<1> QED
  BY <1>1, <1>2, <1>3, PTL DEF SelectSpec

-----------------------------------------------------------------------------
(***************************************************************************)
(* The invariant.                                                          *)
(***************************************************************************)
Qualities == {"Good", "Stale", "Timeout", "ProtocolException", "Disconnected", "DecodeError", "Unavailable"}

ValueType == [good : Nat, quality : Qualities, age : Nat \ {0}, history : BOOLEAN]

OutcomeType == [kind : BusErrors \cup {"SkippedDeadline"}] \cup [kind : {"Ok"}, bad : SUBSET Undecodable]

ResultType == [version : Nat, block : Nat, at : Nat, outcome : OutcomeType]

\* a state of the pipeline; its histories are not looked into
PipeTyped(s) ==
    /\ s \in [active : 0 .. Len(Plans), plans : {s.plans}, values : {s.values}, histories : {s.histories},
              bytes : {s.bytes}]
    /\ \A p \in DOMAIN s.values : s.values[p] \in ValueType

PipelineInv ==
    /\ now \in Nat
    /\ queue \in Seq(ResultType)
    /\ task \in [at : {"wait", "apply", "down"}, timer : Nat, result : ResultType \cup {<<>>}]
    /\ task.at = "apply" => task.result \in ResultType
    /\ PipeTyped(pipe)
    /\ caller \in [at : {"idle", "poll", "stopped"}, created : Nat]
    /\ caller.at # "stopped" => pipe.active # 0
    /\ cell \in [version : 0 .. Len(Plans), created : Nat]

\* the pipeline task sleeps until the first value goes stale, or will be woken
TimerInv == task.at = "wait" => notified \/ task.timer = NextStaleDeadline(pipe)

ExecTyped ==
    /\ exec \in [version : 0 .. Len(Plans), dues : Seq(Nat), at : {"wait", "read", "down"}, block : Nat]
    /\ DOMAIN turns = DOMAIN exec.dues
    /\ exec.at # "down" => exec.version # 0 /\ Len(exec.dues) = Len(Plans[exec.version])
    /\ exec.at = "read" => exec.block \in DOMAIN exec.dues

\* the block that has its turn, 0 when none has
Served == IF exec.at = "read" THEN exec.block ELSE 0

\* Under plan version v, at time n, with turns t and next due times d: block i
\* comes due in the slots of its period, once in each, and a block that has
\* passed it while it was overdue is due later or is the one being served
TurnShape(v, n, t, d, i, serving) ==
    /\ t[i] \in [first : Nat, last : Nat, ahead : Seq(DOMAIN d)]
    /\ \E k \in Nat : d[i] = t[i].first + k * BlockOf(v, i).period
    /\ t[i].last # 0 => t[i].first <= t[i].last /\ t[i].last < d[i]
    /\ i = serving => d[i] <= n /\ t[i].ahead = <<>>
    /\ t[i].ahead # <<>> => d[i] <= n
    /\ \A j, k \in DOMAIN t[i].ahead : t[i].ahead[j] = t[i].ahead[k] => j = k
    /\ \A k \in DOMAIN t[i].ahead : d[t[i].ahead[k]] > d[i] \/ t[i].ahead[k] = serving

TurnsInv ==
    exec.at # "down" => \A i \in DOMAIN turns : TurnShape(exec.version, now, turns, exec.dues, i, Served)

TelemetryInv == PipelineInv /\ TimerInv /\ ExecTyped /\ TurnsInv

-----------------------------------------------------------------------------
(***************************************************************************)
(* Least elements.                                                         *)
(***************************************************************************)
LEMMA LeastNatural ==
    ASSUME NEW S \in SUBSET Nat, S # {}
    PROVE  \E i \in S : \A j \in S : i <= j
<1> DEFINE R == OpToRel(<, Nat)
<1>1. \A x, y \in Nat : y < x => <<y, x>> \in R
  BY Zenon DEF OpToRel
<1>2. IsWellFoundedOn(R, Nat)
  BY NatLessThanWellFounded
<1> HIDE DEF R
<1>3. PICK x \in S : \A y \in S : <<y, x>> \notin R
  BY <1>2, WFMin
<1>4. ASSUME NEW y \in S PROVE x <= y
  <2>1. y < x => <<y, x>> \in R
    BY <1>1
  <2> QED BY <1>3, <2>1
<1> QED BY <1>3, <1>4

LEMMA MinNatural == ASSUME NEW S \in SUBSET Nat, S # {} PROVE Min(S) \in S
BY LeastNatural DEF Min

\* earliest_index finds a block that is due first
LEMMA EarliestIsFirst ==
    ASSUME exec.dues \in Seq(Nat), exec.dues # <<>>
    PROVE  /\ EarliestIndex \in DOMAIN exec.dues
           /\ \A j \in DOMAIN exec.dues : exec.dues[EarliestIndex] <= exec.dues[j]
<1> DEFINE S == {exec.dues[i] : i \in DOMAIN exec.dues}
           I(m) == {i \in DOMAIN exec.dues : exec.dues[i] = m}
<1>1. S \in SUBSET Nat /\ S # {}
  <2>1. DOMAIN exec.dues = 1 .. Len(exec.dues) /\ Len(exec.dues) \in Nat /\ Len(exec.dues) # 0
    OBVIOUS
  <2>2. 1 \in DOMAIN exec.dues
    BY <2>1
  <2>3. \A i \in DOMAIN exec.dues : exec.dues[i] \in Nat
    OBVIOUS
  <2> QED BY <2>2, <2>3
<1>2. PICK m \in S : \A j \in S : m <= j
  BY <1>1, LeastNatural
<1>3. I(m) \in SUBSET Nat /\ I(m) # {}
  BY <1>2
<1>4. PICK i \in I(m) : \A j \in I(m) : i <= j
  BY <1>3, LeastNatural
<1>5. i \in DOMAIN exec.dues /\ exec.dues[i] = m
  BY <1>4
<1>6. \A j \in DOMAIN exec.dues \ {i} :
          exec.dues[i] < exec.dues[j] \/ (exec.dues[i] = exec.dues[j] /\ i < j)
  <2> SUFFICES ASSUME NEW j \in DOMAIN exec.dues \ {i}
               PROVE  exec.dues[i] < exec.dues[j] \/ (exec.dues[i] = exec.dues[j] /\ i < j)
    OBVIOUS
  <2>1. m <= exec.dues[j] /\ exec.dues[j] \in Nat /\ m \in Nat /\ j \in Nat /\ i \in Nat
    BY <1>1, <1>2, <1>5
  <2>2. CASE exec.dues[j] = m
    BY <1>4, <1>5, <2>1, <2>2
  <2>3. CASE exec.dues[j] # m
    BY <1>5, <2>1, <2>3
  <2> QED BY <2>2, <2>3
<1> HIDE DEF S, I
<1>7. /\ EarliestIndex \in DOMAIN exec.dues
      /\ \A j \in DOMAIN exec.dues \ {EarliestIndex} :
            \/ exec.dues[EarliestIndex] < exec.dues[j]
            \/ exec.dues[EarliestIndex] = exec.dues[j] /\ EarliestIndex < j
  BY <1>5, <1>6 DEF EarliestIndex
<1>8. ASSUME NEW j \in DOMAIN exec.dues PROVE exec.dues[EarliestIndex] <= exec.dues[j]
  <2>1. exec.dues[j] \in Nat /\ exec.dues[EarliestIndex] \in Nat
    BY <1>7
  <2> QED BY <1>7, <2>1
<1> QED BY <1>7, <1>8

-----------------------------------------------------------------------------
(***************************************************************************)
(* The slots of a period.                                                  *)
(***************************************************************************)
LEMMA Slots ==
    ASSUME NEW p \in Nat \ {0}, NEW k \in Nat, NEW a \in Nat
    PROVE  /\ (k * p) \div p = k
           /\ a < k * p => a \div p < k
           /\ a \div p \in Nat /\ p * (a \div p) <= a /\ a < p * (a \div p + 1)
OBVIOUS

-----------------------------------------------------------------------------
(***************************************************************************)
(* The pipeline's operators keep its values what they are.                 *)
(***************************************************************************)
LEMMA RecordedTyped ==
    ASSUME NEW value \in ValueType, NEW at \in Nat, NEW quality \in Qualities
    PROVE  Recorded(value, at, quality) \in ValueType
<1> DEFINE g == IF quality = "Good" THEN at ELSE value.good
<1>1. g \in Nat
  BY DEF ValueType
<1>2. Recorded(value, at, quality) = [value EXCEPT !.quality = quality, !.good = g]
  BY DEF Recorded
<1> HIDE DEF g
<1> QED BY <1>1, <1>2 DEF ValueType

LEMMA RecordKeeps ==
    ASSUME NEW s, PipeTyped(s), NEW at \in Nat, NEW quality,
           \A p \in DOMAIN quality : quality[p] \in Qualities
    PROVE  PipeTyped(RecordAll(s, at, quality)) /\ RecordAll(s, at, quality).active = s.active
<1> DEFINE seen == DOMAIN quality \cap DOMAIN s.values
           points == [p \in {q \in seen : s.values[q].history} |-> [at |-> at, quality |-> quality[p]]]
           vs == [p \in DOMAIN s.values |->
                    IF p \in seen THEN Recorded(s.values[p], at, quality[p]) ELSE s.values[p]]
           hs == [p \in DOMAIN s.histories |->
                    IF p \in DOMAIN points THEN Append(s.histories[p], points[p]) ELSE s.histories[p]]
           bs == s.bytes + SampledBytes(points)
           r == [s EXCEPT !.values = vs, !.histories = hs, !.bytes = bs]
<1>1. RecordAll(s, at, quality) = r
  BY Zenon DEF RecordAll
<1>2. \A p \in DOMAIN vs : vs[p] \in ValueType
  <2> SUFFICES ASSUME NEW p \in DOMAIN s.values PROVE vs[p] \in ValueType
    OBVIOUS
  <2>1. s.values[p] \in ValueType
    BY DEF PipeTyped
  <2>2. CASE p \notin seen
    BY <2>1, <2>2
  <2>3. CASE p \in seen
    BY <2>1, <2>3, RecordedTyped
  <2> QED BY <2>2, <2>3
<1> HIDE DEF vs, hs, bs
<1>3. r.values = vs /\ r.active = s.active
      /\ r \in [active : 0 .. Len(Plans), plans : {r.plans}, values : {r.values}, histories : {r.histories},
                bytes : {r.bytes}]
  BY DEF PipeTyped
<1> QED BY <1>1, <1>2, <1>3 DEF PipeTyped

LEMMA PrunedKeeps ==
    ASSUME NEW s, PipeTyped(s), NEW at
    PROVE  PipeTyped(Pruned(s, at)) /\ Pruned(s, at).active = s.active
<1> DEFINE hs == PrunedHistories(s.histories, at)
           bs == (s.bytes + HistoryBytes(hs)) - HistoryBytes(s.histories)
           r == [s EXCEPT !.histories = hs, !.bytes = bs]
<1>1. Pruned(s, at) = r
  BY DEF Pruned
<1> HIDE DEF hs, bs
<1>2. r.values = s.values /\ r.active = s.active
      /\ r \in [active : 0 .. Len(Plans), plans : {r.plans}, values : {r.values}, histories : {r.histories},
                bytes : {r.bytes}]
  BY DEF PipeTyped
<1> QED BY <1>1, <1>2 DEF PipeTyped

LEMMA DisconnectedKeeps ==
    ASSUME NEW s, PipeTyped(s), NEW at \in Nat
    PROVE  PipeTyped(Disconnected(s, at)) /\ Disconnected(s, at).active = s.active
<1> DEFINE q == [p \in DOMAIN s.values |-> "Disconnected"]
<1>1. \A p \in DOMAIN q : q[p] \in Qualities
  BY DEF Qualities
<1> HIDE DEF q
<1>2. PipeTyped(RecordAll(s, at, q)) /\ RecordAll(s, at, q).active = s.active
  BY <1>1, RecordKeeps
<1> QED BY <1>2, PrunedKeeps DEF Disconnected, q

LEMMA ProcessedKeeps ==
    ASSUME NEW s, PipeTyped(s), NEW r \in ResultType
    PROVE  PipeTyped(Processed(s, r)) /\ Processed(s, r).active = s.active
<1> DEFINE params == DOMAIN BlockOf(r.version, r.block).slices
           Decoded(p) == IF p \in r.outcome.bad THEN "DecodeError" ELSE "Good"
           good == [p \in params |-> Decoded(p)]
           bad == [p \in params |-> QualityFor(r.outcome.kind)]
           recorded == IF r.outcome.kind = "Ok" THEN RecordAll(s, r.at, good)
                       ELSE IF QualityFor(r.outcome.kind) = "Disconnected" THEN Disconnected(s, r.at)
                       ELSE RecordAll(s, r.at, bad)
<1>1. Processed(s, r) = Pruned(recorded, r.at)
  BY DEF Processed
<1>2. r.at \in Nat
  BY DEF ResultType
<1>3. \A p \in DOMAIN good : good[p] \in Qualities
  BY DEF Qualities
<1>4. \A p \in DOMAIN bad : bad[p] \in Qualities
  BY DEF Qualities, QualityFor
<1> HIDE DEF good, bad
<1>5. PipeTyped(recorded) /\ recorded.active = s.active
  <2>1. CASE r.outcome.kind = "Ok"
    BY <1>2, <1>3, <2>1, RecordKeeps
  <2>2. CASE r.outcome.kind # "Ok" /\ QualityFor(r.outcome.kind) = "Disconnected"
    BY <1>2, <2>2, DisconnectedKeeps
  <2>3. CASE r.outcome.kind # "Ok" /\ QualityFor(r.outcome.kind) # "Disconnected"
    BY <1>2, <1>4, <2>3, RecordKeeps
  <2> QED BY <2>1, <2>2, <2>3
<1> HIDE DEF recorded
<1> QED BY <1>1, <1>5, PrunedKeeps

LEMMA RefreshKeeps ==
    ASSUME NEW s, PipeTyped(s), now \in Nat
    PROVE  PipeTyped(RefreshStale(s)) /\ RefreshStale(s).active = s.active
<1> DEFINE q == [p \in Expired(s) |-> "Stale"]
<1>1. \A p \in DOMAIN q : q[p] \in Qualities
  BY DEF Qualities
<1> HIDE DEF q
<1>2. PipeTyped(RecordAll(s, now, q)) /\ RecordAll(s, now, q).active = s.active
  BY <1>1, RecordKeeps
<1> QED BY <1>2, PrunedKeeps DEF RefreshStale, q

LEMMA PlannedTyped ==
    ASSUME NEW v \in DOMAIN Plans, NEW p \in DOMAIN Planned(v)
    PROVE  Planned(v)[p].age \in Nat \ {0} /\ Planned(v)[p].history \in BOOLEAN
<1> DEFINE bs == Range(Plans[v])
           mine == {b \in bs : p \in DOMAIN b.slices}
           ages == {b.slices[p].age : b \in mine}
           h == \E b \in mine : b.slices[p].history
<1>1. p \in UNION {DOMAIN b.slices : b \in bs}
  BY DEF Planned
<1>2. \A b \in mine : b.slices[p] \in [age : Nat \ {0}, history : BOOLEAN]
  BY TelemetryAssumption DEF Range
<1>3. mine # {}
  BY <1>1
<1>4. ages \in SUBSET (Nat \ {0}) /\ ages # {}
  BY <1>2, <1>3
<1>5. Min(ages) \in ages
  BY <1>4, MinNatural
<1>6. Planned(v)[p] = [age |-> Min(ages), history |-> h]
  BY <1>1 DEF Planned
<1>7. h \in BOOLEAN
  OBVIOUS
<1>8. Planned(v)[p].age = Min(ages) /\ Planned(v)[p].history = h
  BY <1>6
<1> HIDE DEF ages, mine, h
<1>9. Planned(v)[p].age \in Nat \ {0}
  BY <1>4, <1>5, <1>8
<1> QED BY <1>7, <1>8, <1>9

LEMMA InstallKeeps ==
    ASSUME NEW s, \A p \in DOMAIN s.values : s.values[p] \in ValueType, NEW v \in DOMAIN Plans
    PROVE  PipeTyped(InstallPlan(s, v)) /\ InstallPlan(s, v).active = v
<1> DEFINE planned == Planned(v)
           kept == {p \in DOMAIN planned : planned[p].history}
           hs == [p \in kept |-> IF p \in DOMAIN s.histories THEN s.histories[p] ELSE <<>>]
           vs == [p \in DOMAIN planned |->
                    IF p \in DOMAIN s.values
                    THEN [s.values[p] EXCEPT !.age = planned[p].age, !.history = planned[p].history]
                    ELSE Unavailable(planned[p])]
           r == [active |-> v, plans |-> Retain(s.plans \cup {v}, v), values |-> vs, histories |-> hs,
                 bytes |-> HistoryBytes(hs)]
<1>1. InstallPlan(s, v) = r
  BY DEF InstallPlan
<1>2. \A p \in DOMAIN planned : planned[p].age \in Nat \ {0} /\ planned[p].history \in BOOLEAN
  BY PlannedTyped
<1> HIDE DEF planned
<1>3. \A p \in DOMAIN vs : vs[p] \in ValueType
  <2> SUFFICES ASSUME NEW p \in DOMAIN planned PROVE vs[p] \in ValueType
    OBVIOUS
  <2> DEFINE a == planned[p].age
             h == planned[p].history
  <2>1. a \in Nat \ {0} /\ h \in BOOLEAN
    BY <1>2
  <2>2. CASE p \in DOMAIN s.values
    <3>1. vs[p] = [s.values[p] EXCEPT !.age = a, !.history = h]
      BY <2>2
    <3>2. s.values[p] \in ValueType
      BY <2>2
    <3> HIDE DEF a, h, vs
    <3> QED BY <2>1, <3>1, <3>2 DEF ValueType
  <2>3. CASE p \notin DOMAIN s.values
    <3>1. vs[p] = [good |-> 0, quality |-> "Unavailable", age |-> a, history |-> h]
      BY <2>3 DEF Unavailable
    <3> HIDE DEF a, h, vs
    <3> QED BY <2>1, <3>1 DEF ValueType, Qualities
  <2> QED BY <2>2, <2>3
<1>4. v \in 0 .. Len(Plans)
  BY TelemetryAssumption
<1> HIDE DEF vs, hs
<1>5. r.values = vs /\ r.active = v
      /\ r \in [active : 0 .. Len(Plans), plans : {r.plans}, values : {r.values}, histories : {r.histories},
                bytes : {r.bytes}]
  BY <1>4
<1> QED BY <1>1, <1>3, <1>5 DEF PipeTyped

LEMMA DeadlineTyped == ASSUME NEW s, PipeTyped(s) PROVE NextStaleDeadline(s) \in Nat
<1> DEFINE good == {q \in DOMAIN s.values : s.values[q].quality = "Good"}
           ds == {s.values[p].good + s.values[p].age : p \in good}
<1>1. ds \in SUBSET Nat
  BY DEF PipeTyped, ValueType
<1>2. ds # {} => Min(ds) \in Nat
  BY <1>1, MinNatural
<1>3. NextStaleDeadline(s) = IF ds = {} THEN 0 ELSE Min(ds)
  BY DEF NextStaleDeadline
<1> HIDE DEF ds
<1> QED BY <1>2, <1>3

-----------------------------------------------------------------------------
(***************************************************************************)
(* The pipeline task and the handles keep the invariant.                   *)
(***************************************************************************)
TaskType == [at : {"wait", "apply", "down"}, timer : Nat, result : ResultType \cup {<<>>}]

LEMMA WaitTyped ==
    ASSUME NEW s, PipeTyped(s)
    PROVE  Wait(s) \in TaskType /\ Wait(s).at = "wait" /\ Wait(s).timer = NextStaleDeadline(s)
<1> DEFINE d == NextStaleDeadline(s)
<1>1. d \in Nat
  BY DeadlineTyped
<1>2. Wait(s) = [at |-> "wait", timer |-> d, result |-> <<>>]
  BY DEF Wait
<1> HIDE DEF d
<1>3. Wait(s) \in TaskType /\ Wait(s).at = "wait" /\ Wait(s).timer = d
  BY <1>1, <1>2 DEF TaskType
<1> QED BY <1>3 DEF d

\* a step that hands the pipeline task its next wait, or wakes it
LEMMA ArmedOrWoken ==
    ASSUME PipeTyped(pipe'), task' = Wait(pipe') \/ notified' = TRUE
    PROVE  TimerInv'
<1>1. CASE task' = Wait(pipe')
  BY <1>1, WaitTyped DEF TimerInv
<1>2. CASE notified' = TRUE
  BY <1>2 DEF TimerInv
<1> QED BY <1>1, <1>2

LEMMA PipelineInit == TelemetryInit => PipelineInv /\ TimerInv
<1> SUFFICES ASSUME TelemetryInit PROVE PipelineInv /\ TimerInv
  OBVIOUS
<1>1. 1 \in DOMAIN Plans /\ Len(Plans) \in Nat /\ 1 \in 0 .. Len(Plans)
  BY TelemetryAssumption
<1>2. pipe = InstallPlan(NoState, 1)
  BY DEF TelemetryInit
<1>3. PipeTyped(pipe) /\ pipe.active = 1
  <2>1. DOMAIN NoState.values = {}
    BY DEF NoState
  <2> QED BY <1>1, <1>2, <2>1, InstallKeeps
<1>4. task \in TaskType /\ task.at = "wait" /\ task.timer = NextStaleDeadline(pipe)
  BY <1>3, WaitTyped DEF TelemetryInit
<1>5. now \in Nat /\ queue \in Seq(ResultType)
  BY DEF TelemetryInit
<1>6. /\ caller \in [at : {"idle", "poll", "stopped"}, created : Nat]
      /\ cell \in [version : 0 .. Len(Plans), created : Nat]
  BY <1>1 DEF TelemetryInit
<1> QED BY <1>3, <1>4, <1>5, <1>6 DEF PipelineInv, TimerInv, TaskType

\* the steps of the executor only add a result to the queue
LEMMA PublishTyped ==
    ASSUME PipelineInv, ExecTyped, NEW i \in Nat, NEW o \in OutcomeType, PublishResult(i, o)
    PROVE  queue' \in Seq(ResultType)
<1> DEFINE r == [version |-> exec.version, block |-> i, at |-> now, outcome |-> o]
<1>1. exec.version \in Nat /\ now \in Nat /\ queue \in Seq(ResultType)
  BY TelemetryAssumption DEF ExecTyped, PipelineInv
<1>2. r \in ResultType
  BY <1>1 DEF ResultType
<1>3. queue' = IF Len(queue) < ResultCapacity THEN Append(queue, r) ELSE queue
  BY DEF PublishResult
<1> HIDE DEF r
<1> QED BY <1>1, <1>2, <1>3

LEMMA OutcomesTyped == ASSUME NEW i, NEW o \in Outcomes(i) PROVE o \in OutcomeType
<1>1. CASE o \in {[kind |-> e] : e \in BusErrors}
  BY <1>1 DEF OutcomeType
<1>2. CASE o \in {[kind |-> "Ok", bad |-> B] : B \in SUBSET (Undecodable \cap DOMAIN BlockOf(exec.version, i).slices)}
  BY <1>2 DEF OutcomeType
<1> QED BY <1>1, <1>2 DEF Outcomes

LEMMA ExecutorKeepsPipeline ==
    ASSUME PipelineInv, TimerInv, ExecTyped, ExecutorNext
    PROVE  PipelineInv' /\ TimerInv'
<1>1. UNCHANGED <<now, cell, task, pipe, notified, caller>>
  BY DEF ExecutorNext, TakePlan, SkipDeadline, StartRead, EndRead
<1>2. queue' \in Seq(ResultType)
  <2>1. CASE TakePlan
    BY <2>1 DEF TakePlan, PipelineInv
  <2>2. ASSUME NEW i \in DOMAIN exec.dues, SkipDeadline(i) PROVE queue' \in Seq(ResultType)
    <3>1. i \in Nat
      BY DEF ExecTyped
    <3> DEFINE o == [kind |-> "SkippedDeadline"]
    <3>2. o \in OutcomeType
      BY DEF OutcomeType
    <3>3. PublishResult(i, o)
      BY <2>2 DEF SkipDeadline
    <3> HIDE DEF o
    <3> QED BY <3>1, <3>2, <3>3, PublishTyped
  <2>3. ASSUME NEW i \in DOMAIN exec.dues, StartRead(i) PROVE queue' \in Seq(ResultType)
    BY <2>3 DEF StartRead, PipelineInv
  <2>4. ASSUME NEW o \in Outcomes(exec.block), EndRead(o) PROVE queue' \in Seq(ResultType)
    <3>1. exec.block \in Nat
      BY DEF ExecTyped
    <3>2. o \in OutcomeType
      BY OutcomesTyped
    <3>3. PublishResult(exec.block, o)
      BY <2>4 DEF EndRead
    <3> QED BY <3>1, <3>2, <3>3, PublishTyped
  <2> QED BY <2>1, <2>2, <2>3, <2>4 DEF ExecutorNext
<1>3. TimerInv'
  BY <1>1 DEF TimerInv, NextStaleDeadline
<1>4. PipeTyped(pipe')
  BY <1>1 DEF PipelineInv, PipeTyped
<1> QED BY <1>1, <1>2, <1>3, <1>4 DEF PipelineInv

LEMMA ReceiveStep == ASSUME PipelineInv, TimerInv, Receive PROVE PipelineInv' /\ TimerInv'
<1>1. UNCHANGED <<now, cell, pipe, notified, caller>>
  BY DEF Receive
<1>2. queue \in Seq(ResultType) /\ queue # <<>>
  BY DEF Receive, PipelineInv
<1>3. queue' \in Seq(ResultType) /\ Head(queue) \in ResultType
  BY <1>2 DEF Receive
<1>4. task \in TaskType /\ PipeTyped(pipe)
  BY DEF PipelineInv, TaskType
<1>5. task' \in TaskType /\ (task'.at = "apply" => task'.result \in ResultType)
      /\ (task'.at = "wait" => task'.timer = NextStaleDeadline(pipe))
  <2>1. CASE task' = Wait(pipe)
    BY <1>4, <2>1, WaitTyped
  <2>2. CASE task' = [task EXCEPT !.at = "apply", !.result = Head(queue)]
    <3> DEFINE r == Head(queue)
    <3>1. r \in ResultType
      BY <1>3
    <3>2. task' = [task EXCEPT !.at = "apply", !.result = r]
      BY <2>2
    <3> HIDE DEF r
    <3> QED BY <1>4, <3>1, <3>2 DEF TaskType
  <2> QED BY <2>1, <2>2 DEF Receive
<1>6. PipeTyped(pipe') /\ NextStaleDeadline(pipe') = NextStaleDeadline(pipe)
  BY <1>1, <1>4
<1> QED BY <1>1, <1>3, <1>5, <1>6 DEF PipelineInv, TimerInv, TaskType

\* a step after which the task waits on a pipeline of the same plan
LEMMA TurnEnds ==
    ASSUME PipelineInv, PipeTyped(pipe'), pipe'.active = pipe.active, task' = Wait(pipe'),
           UNCHANGED <<now, queue, caller, cell>>
    PROVE  PipelineInv' /\ TimerInv'
<1>1. task' \in TaskType /\ task'.at = "wait"
  BY WaitTyped
<1>2. TimerInv'
  BY ArmedOrWoken
<1> QED BY <1>1, <1>2 DEF PipelineInv, TaskType

LEMMA ApplyStep == ASSUME PipelineInv, Apply PROVE PipelineInv' /\ TimerInv'
<1>1. task.result \in ResultType /\ PipeTyped(pipe)
  BY DEF Apply, PipelineInv
<1>2. PipeTyped(pipe') /\ pipe'.active = pipe.active
  BY <1>1, ProcessedKeeps DEF Apply
<1> QED BY <1>2, TurnEnds DEF Apply

LEMMA RefreshStep == ASSUME PipelineInv, Refresh PROVE PipelineInv' /\ TimerInv'
<1>1. PipeTyped(pipe) /\ now \in Nat
  BY DEF PipelineInv
<1>2. PipeTyped(pipe') /\ pipe'.active = pipe.active
  BY <1>1, RefreshKeeps DEF Refresh
<1> QED BY <1>2, TurnEnds DEF Refresh

LEMMA WakeStep == ASSUME PipelineInv, Wake PROVE PipelineInv' /\ TimerInv'
<1>1. PipeTyped(pipe') /\ pipe' = pipe
  BY DEF PipelineInv, Wake
<1> QED BY <1>1, TurnEnds DEF Wake

\* a step of a handle that tells the pipeline task
LEMMA HandleTells ==
    ASSUME PipelineInv, PipeTyped(pipe'), pipe'.active # 0, notified' = TRUE,
           caller' \in [at : {"idle", "poll", "stopped"}, created : Nat],
           UNCHANGED <<now, queue, task, cell>>
    PROVE  PipelineInv' /\ TimerInv'
BY ArmedOrWoken DEF PipelineInv

LEMMA UpdatePipelineStep == ASSUME PipelineInv, UpdatePipeline PROVE PipelineInv' /\ TimerInv'
<1>1. PipeTyped(pipe) /\ now \in Nat
  BY DEF PipelineInv
<1> DEFINE v == pipe.active + 1
<1>2. v \in DOMAIN Plans /\ v # 0
  BY <1>1, TelemetryAssumption DEF UpdatePipeline, PipeTyped
<1>3. pipe' = InstallPlan(pipe, v)
  BY DEF UpdatePipeline
<1> HIDE DEF v
<1>4. PipeTyped(pipe') /\ pipe'.active = v
  BY <1>1, <1>2, <1>3, InstallKeeps DEF PipeTyped
<1>5. caller' \in [at : {"idle", "poll", "stopped"}, created : Nat]
  BY <1>1 DEF UpdatePipeline
<1> QED BY <1>2, <1>4, <1>5, HandleTells DEF UpdatePipeline

LEMMA UpdatePollStep == ASSUME PipelineInv, TimerInv, UpdatePoll PROVE PipelineInv' /\ TimerInv'
<1>1. PipeTyped(pipe) /\ caller \in [at : {"idle", "poll", "stopped"}, created : Nat]
  BY DEF PipelineInv
<1>2. cell' \in [version : 0 .. Len(Plans), created : Nat]
  <2> DEFINE a == pipe.active
             c == caller.created
  <2>1. a \in 0 .. Len(Plans) /\ c \in Nat
    BY <1>1 DEF PipeTyped
  <2>2. cell' = [version |-> a, created |-> c]
    BY DEF UpdatePoll
  <2> HIDE DEF a, c
  <2> QED BY <2>1, <2>2
<1>3. caller' \in [at : {"idle", "poll", "stopped"}, created : Nat] /\ pipe.active # 0
  BY DEF UpdatePoll, PipelineInv
<1>4. UNCHANGED <<now, queue, task, pipe, notified>>
  BY DEF UpdatePoll
<1>5. PipeTyped(pipe')
  BY <1>1, <1>4
<1>6. TimerInv'
  BY <1>4 DEF TimerInv
<1> QED BY <1>2, <1>3, <1>4, <1>5, <1>6 DEF PipelineInv

LEMMA MarkDisconnectedStep == ASSUME PipelineInv, MarkDisconnected PROVE PipelineInv' /\ TimerInv'
<1>1. PipeTyped(pipe) /\ now \in Nat /\ pipe.active # 0
  BY DEF PipelineInv, MarkDisconnected, HandleOp
<1>2. PipeTyped(pipe') /\ pipe'.active = pipe.active
  BY <1>1, DisconnectedKeeps DEF MarkDisconnected
<1> QED BY <1>1, <1>2, HandleTells DEF MarkDisconnected, PipelineInv

LEMMA ClearHistoriesStep ==
    ASSUME PipelineInv, NEW p, ClearHistories(p) PROVE PipelineInv' /\ TimerInv'
<1>1. PipeTyped(pipe) /\ pipe.active # 0
  BY DEF PipelineInv, ClearHistories, HandleOp
<1> DEFINE hs == [pipe.histories EXCEPT ![p] = <<>>]
           bs == HistoryBytes(hs)
<1>2. pipe' = [pipe EXCEPT !.histories = hs, !.bytes = bs]
  BY DEF ClearHistories
<1> HIDE DEF hs, bs
<1>3. /\ pipe'.values = pipe.values /\ pipe'.active = pipe.active
      /\ pipe' \in [active : 0 .. Len(Plans), plans : {pipe'.plans}, values : {pipe'.values},
                    histories : {pipe'.histories}, bytes : {pipe'.bytes}]
  BY <1>1, <1>2 DEF PipeTyped
<1>4. PipeTyped(pipe')
  BY <1>1, <1>3 DEF PipeTyped
<1> QED BY <1>1, <1>3, <1>4, HandleTells DEF ClearHistories, PipelineInv

LEMMA StopPipelineStep == ASSUME PipelineInv, StopMonitoring PROVE PipelineInv' /\ TimerInv'
<1>1. task \in TaskType
  BY DEF PipelineInv, TaskType
<1>2. task' \in TaskType /\ task'.at = "down"
  <2> DEFINE none == <<>>
  <2>1. none \in ResultType \cup {<<>>}
    OBVIOUS
  <2>2. task' = [task EXCEPT !.at = "down", !.timer = 0, !.result = none]
    BY DEF StopMonitoring
  <2> HIDE DEF none
  <2> QED BY <1>1, <2>1, <2>2 DEF TaskType
<1>3. PipeTyped(pipe')
  <2>1. pipe' = NoState
    BY DEF StopMonitoring
  <2>2. 0 \in 0 .. Len(Plans)
    BY TelemetryAssumption
  <2>3. PipeTyped(NoState)
    BY <2>2 DEF PipeTyped, NoState
  <2> QED BY <2>1, <2>3
<1>4. caller' \in [at : {"idle", "poll", "stopped"}, created : Nat] /\ caller'.at = "stopped"
  BY DEF StopMonitoring
<1>5. cell' \in [version : 0 .. Len(Plans), created : Nat]
  BY TelemetryAssumption DEF StopMonitoring, NoVersion
<1>6. queue' \in Seq(ResultType) /\ now' \in Nat
  BY DEF StopMonitoring, PipelineInv
<1> QED BY <1>2, <1>3, <1>4, <1>5, <1>6 DEF PipelineInv, TimerInv, TaskType

LEMMA TickPipelineStep == ASSUME PipelineInv, TimerInv, Tick PROVE PipelineInv' /\ TimerInv'
<1>1. PipeTyped(pipe')
  BY DEF PipelineInv, Tick
<1> QED BY <1>1 DEF PipelineInv, TimerInv, Tick

LEMMA PipelineStep ==
    ASSUME PipelineInv, TimerInv, ExecTyped, [TelemetryNext]_telemetryVars
    PROVE  PipelineInv' /\ TimerInv'
<1>1. CASE UNCHANGED telemetryVars
  <2>1. PipeTyped(pipe')
    BY <1>1 DEF PipelineInv, telemetryVars
  <2> QED BY <1>1, <2>1 DEF PipelineInv, TimerInv, telemetryVars
<1>2. CASE ExecutorNext
  BY <1>2, ExecutorKeepsPipeline
<1>3. CASE PipelineNext
  BY <1>3, ReceiveStep, ApplyStep, RefreshStep, WakeStep DEF PipelineNext
<1>4. CASE HandleNext
  BY <1>4, UpdatePipelineStep, UpdatePollStep, MarkDisconnectedStep, ClearHistoriesStep, StopPipelineStep
     DEF HandleNext
<1>5. CASE Tick
  BY <1>5, TickPipelineStep
<1> QED BY <1>1, <1>2, <1>3, <1>4, <1>5 DEF TelemetryNext

-----------------------------------------------------------------------------
(***************************************************************************)
(* The executor keeps the invariant.                                       *)
(***************************************************************************)
LEMMA BlocksTyped ==
    ASSUME NEW v \in DOMAIN Plans
    PROVE  /\ Len(Plans[v]) \in Nat /\ DOMAIN Plans[v] = 1 .. Len(Plans[v])
           /\ \A i \in DOMAIN Plans[v] :
                 BlockOf(v, i).period \in Nat \ {0} /\ Plans[v][i].phase \in Nat
BY TelemetryAssumption DEF BlockOf

\* a plan that the executor has just taken
Fresh ==
    \E v \in DOMAIN Plans, c \in Nat :
        LET plan == [version |-> v, created |-> c]
        IN  exec = RuntimePlan(plan) /\ turns = NoTurns(plan)

LEMMA FreshTurns == Fresh => ExecTyped /\ TurnsInv
<1> SUFFICES ASSUME NEW v \in DOMAIN Plans, NEW c \in Nat,
                    exec = RuntimePlan([version |-> v, created |-> c]),
                    turns = NoTurns([version |-> v, created |-> c])
             PROVE  ExecTyped /\ TurnsInv
  BY DEF Fresh
<1> DEFINE d == [i \in DOMAIN Plans[v] |-> c + Plans[v][i].phase]
           D == DOMAIN Plans[v]
           n == Len(Plans[v])
<1>1. n \in Nat /\ D = 1 .. n /\ v \in 0 .. Len(Plans) /\ v # 0
      /\ \A i \in D : BlockOf(v, i).period \in Nat \ {0} /\ Plans[v][i].phase \in Nat
  BY BlocksTyped, TelemetryAssumption
<1>2. d \in [D -> Nat]
  BY <1>1
<1>3. d \in Seq(Nat) /\ Len(d) = n /\ DOMAIN d = D
  BY <1>1, <1>2
<1>4. exec = [version |-> v, dues |-> d, at |-> "wait", block |-> 0]
  BY DEF RuntimePlan, Dues
<1>5. turns = [i \in D |-> [first |-> d[i], last |-> 0, ahead |-> <<>>]]
  BY DEF NoTurns, Dues
<1> HIDE DEF d
<1>6. ExecTyped
  BY <1>1, <1>3, <1>4, <1>5 DEF ExecTyped
<1>7. ASSUME NEW i \in D PROVE TurnShape(v, now, turns, d, i, 0)
  <2> DEFINE none == <<>>
  <2>1. turns[i] = [first |-> d[i], last |-> 0, ahead |-> none]
    BY <1>5
  <2>2. d[i] \in Nat /\ BlockOf(v, i).period \in Nat \ {0} /\ i # 0
    BY <1>1, <1>2
  <2>3. none \in Seq(DOMAIN d) /\ DOMAIN none = {} /\ none = <<>>
    OBVIOUS
  <2> HIDE DEF none
  <2>4. turns[i].first = d[i] /\ turns[i].last = 0 /\ turns[i].ahead = none
    BY <2>1
  <2>5. turns[i] \in [first : Nat, last : Nat, ahead : Seq(DOMAIN d)]
    <3> DEFINE x == d[i]
               S == Seq(DOMAIN d)
    <3>1. x \in Nat /\ none \in S /\ turns[i] = [first |-> x, last |-> 0, ahead |-> none]
      BY <2>1, <2>2, <2>3
    <3> HIDE DEF x, S
    <3>2. turns[i] \in [first : Nat, last : Nat, ahead : S]
      BY <3>1
    <3> QED BY <3>2 DEF S
  <2>6. d[i] = turns[i].first + 0 * BlockOf(v, i).period
    BY <2>2, <2>4
  <2> QED BY <2>2, <2>3, <2>4, <2>5, <2>6 DEF TurnShape
<1> QED BY <1>4, <1>5, <1>6, <1>7 DEF TurnsInv, Served

-----------------------------------------------------------------------------
(***************************************************************************)
(* A turn begins, and ends.                                                *)
(***************************************************************************)
\* advance_without_burst: the next slot of the period after now
LEMMA AdvanceIsNext ==
    ASSUME now \in Nat, NEW due \in Nat, NEW period \in Nat \ {0}, now >= due
    PROVE  /\ AdvanceWithoutBurst(due, period) \in Nat /\ AdvanceWithoutBurst(due, period) > now
           /\ \E q \in Nat : AdvanceWithoutBurst(due, period) = due + q * period
<1> DEFINE q == (now - due) \div period + 1
<1>1. now - due \in Nat
  OBVIOUS
<1>2. (now - due) \div period \in Nat /\ now - due < period * ((now - due) \div period + 1)
  BY <1>1, Slots
<1>3. q \in Nat /\ now - due < period * q
  BY <1>2
<1>4. AdvanceWithoutBurst(due, period) = due + period * q
  <2>1. ~(now < due)
    OBVIOUS
  <2> QED BY <2>1 DEF AdvanceWithoutBurst
<1> HIDE DEF q
<1>5. period * q = q * period /\ period * q \in Nat
  BY <1>3
<1> QED BY <1>3, <1>4, <1>5

\* the executor between two turns, or in a turn of `serving`
Shaped(v, t, d, serving) ==
    /\ v \in DOMAIN Plans /\ d \in Seq(Nat) /\ Len(d) = Len(Plans[v]) /\ DOMAIN t = DOMAIN d
    /\ \A i \in DOMAIN t : TurnShape(v, now, t, d, i, serving)

LEMMA IndexTyped ==
    ASSUME NEW v, NEW t, NEW d, NEW serving, Shaped(v, t, d, serving), NEW i \in DOMAIN t
    PROVE  /\ i \in Nat \ {0} /\ d[i] \in Nat /\ i \in DOMAIN d /\ i \in DOMAIN Plans[v]
           /\ BlockOf(v, i).period \in Nat \ {0}
<1>1. DOMAIN d = 1 .. Len(d) /\ Len(d) = Len(Plans[v])
  BY DEF Shaped
<1>2. DOMAIN Plans[v] = 1 .. Len(Plans[v])
  BY BlocksTyped DEF Shaped
<1>3. i \in DOMAIN d /\ i \in DOMAIN Plans[v]
  BY <1>1, <1>2 DEF Shaped
<1>4. BlockOf(v, i).period \in Nat \ {0}
  BY <1>3, BlocksTyped DEF Shaped
<1> QED BY <1>1, <1>3, <1>4 DEF Shaped

\* the block that is due first gets its turn: those that are overdue are passed
LEMMA TurnBegins ==
    ASSUME now \in Nat, NEW v, NEW d, Shaped(v, turns, d, 0), exec.dues = d,
           NEW i \in DOMAIN d, \A j \in DOMAIN d : d[i] <= d[j], now >= d[i]
    PROVE  Shaped(v, Turn(i), d, i)
<1>1. DOMAIN Turn(i) = DOMAIN d
  BY DEF Turn, Shaped
<1>2. ASSUME NEW j \in DOMAIN d PROVE TurnShape(v, now, Turn(i), d, j, i)
  <2> DEFINE a == turns[j].ahead
             t == Turn(i)[j]
  <2>1. TurnShape(v, now, turns, d, j, 0) /\ j \in DOMAIN turns /\ d[j] \in Nat /\ d[i] \in Nat
    BY DEF Shaped
  <2>2. a \in Seq(DOMAIN d) /\ turns[j] \in [first : Nat, last : Nat, ahead : Seq(DOMAIN d)]
    BY <2>1 DEF TurnShape
  <2>3. \A k \in DOMAIN a : a[k] \in DOMAIN d /\ d[a[k]] \in Nat
    BY <2>2 DEF Shaped
  <2>4. \A k \in DOMAIN a : a[k] # 0
    BY <2>3, IndexTyped DEF Shaped
  <2>5. \A k \in DOMAIN a : d[a[k]] > d[j]
    BY <2>1, <2>4 DEF TurnShape
  <2>6. CASE j = i
    <3> DEFINE none == <<>>
    <3>1. t = [turns[j] EXCEPT !.ahead = none]
      BY <2>1, <2>6 DEF Turn
    <3>2. none \in Seq(DOMAIN d) /\ DOMAIN none = {} /\ none = <<>>
      OBVIOUS
    <3> HIDE DEF none, t
    <3>3. t \in [first : Nat, last : Nat, ahead : Seq(DOMAIN d)] /\ t.ahead = none
          /\ t.first = turns[j].first /\ t.last = turns[j].last
      BY <2>2, <3>1, <3>2
    <3>4. d[j] <= now
      BY <2>6
    <3> HIDE DEF a
    <3> QED BY <2>1, <3>2, <3>3, <3>4 DEF TurnShape, t
  <2>7. CASE j # i /\ now >= d[j]
    <3> DEFINE b == Append(a, i)
    <3>1. t = [turns[j] EXCEPT !.ahead = b]
      BY <2>1, <2>7 DEF Turn
    <3>2. /\ b \in Seq(DOMAIN d) /\ Len(b) = Len(a) + 1 /\ Len(a) \in Nat
          /\ DOMAIN a = 1 .. Len(a) /\ DOMAIN b = 1 .. Len(a) + 1
          /\ b[Len(a) + 1] = i /\ \A k \in DOMAIN a : b[k] = a[k]
      BY <2>2
    <3>3. \A k \in DOMAIN a : a[k] # i
      <4> SUFFICES ASSUME NEW k \in DOMAIN a, a[k] = i PROVE FALSE
        OBVIOUS
      <4>1. d[i] > d[j] /\ d[i] <= d[j]
        BY <2>5
      <4> QED BY <2>1, <4>1
    <3>4. \A k \in DOMAIN b : k \in DOMAIN a \/ k = Len(a) + 1
      BY <3>2
    <3> HIDE DEF b, t
    <3>5. t \in [first : Nat, last : Nat, ahead : Seq(DOMAIN d)] /\ t.ahead = b
          /\ t.first = turns[j].first /\ t.last = turns[j].last
      BY <2>2, <3>1, <3>2
    <3>6. \A m, k \in DOMAIN a : a[m] = a[k] => m = k
      BY <2>1 DEF TurnShape
    <3> HIDE DEF a
    <3>7. \A m, k \in DOMAIN b : b[m] = b[k] => m = k
      BY <3>2, <3>3, <3>4, <3>6
    <3>8. \A k \in DOMAIN b : d[b[k]] > d[j] \/ b[k] = i
      BY <2>5, <3>2, <3>4
    <3>9. d[j] <= now
      BY <2>1, <2>7
    <3>10. /\ \E k \in Nat : d[j] = t.first + k * BlockOf(v, j).period
           /\ t.last # 0 => t.first <= t.last /\ t.last < d[j]
      BY <2>1, <3>5 DEF TurnShape
    <3> QED BY <2>7, <3>5, <3>7, <3>8, <3>9, <3>10 DEF TurnShape, t
  <2>8. CASE j # i /\ ~(now >= d[j])
    <3>1. t = turns[j]
      BY <2>1, <2>8 DEF Turn
    <3> HIDE DEF t
    <3> QED BY <2>1, <2>5, <2>8, <3>1 DEF TurnShape, t
  <2> QED BY <2>6, <2>7, <2>8
<1> QED BY <1>1, <1>2 DEF Shaped

\* the turn ends: the block is due in a later slot than any that has passed
LEMMA TurnEnded ==
    ASSUME now \in Nat, NEW v, NEW t, NEW d, NEW i \in DOMAIN d, Shaped(v, t, d, i)
    PROVE  Shaped(v, EndTurn(t, i), [d EXCEPT ![i] = AdvanceWithoutBurst(d[i], BlockOf(v, i).period)], 0)
<1> DEFINE due == AdvanceWithoutBurst(d[i], BlockOf(v, i).period)
           e == [d EXCEPT ![i] = due]
           u == EndTurn(t, i)
<1>1. i \in DOMAIN t /\ d[i] \in Nat /\ BlockOf(v, i).period \in Nat \ {0}
  BY IndexTyped DEF Shaped
<1>2. d[i] <= now /\ t[i].ahead = <<>> /\ TurnShape(v, now, t, d, i, i)
  BY <1>1 DEF Shaped, TurnShape
<1>3. due \in Nat /\ due > now /\ \E q \in Nat : due = d[i] + q * BlockOf(v, i).period
  BY <1>1, <1>2, AdvanceIsNext
<1> HIDE DEF due
<1>4. e \in Seq(Nat) /\ Len(e) = Len(d) /\ DOMAIN e = DOMAIN d /\ e[i] = due
      /\ \A j \in DOMAIN d : j # i => e[j] = d[j]
  BY <1>3 DEF Shaped
<1>5. DOMAIN u = DOMAIN t /\ u[i] = [t[i] EXCEPT !.last = now] /\ \A j \in DOMAIN t : j # i => u[j] = t[j]
  BY <1>1 DEF EndTurn
<1> HIDE DEF e, u
<1>6. TurnShape(v, now, u, e, i, 0)
  <2>1. t[i] \in [first : Nat, last : Nat, ahead : Seq(DOMAIN d)]
    BY <1>2 DEF TurnShape
  <2>2. u[i] \in [first : Nat, last : Nat, ahead : Seq(DOMAIN e)] /\ u[i].first = t[i].first
        /\ u[i].last = now /\ u[i].ahead = <<>>
    BY <1>2, <1>4, <1>5, <2>1
  <2>3. PICK k \in Nat : d[i] = t[i].first + k * BlockOf(v, i).period
    BY <1>2 DEF TurnShape
  <2>4. PICK q \in Nat : due = d[i] + q * BlockOf(v, i).period
    BY <1>3
  <2> DEFINE p == BlockOf(v, i).period
             f == t[i].first
             x == k * p
             y == q * p
             z == (k + q) * p
             w == d[i]
  <2>5. p \in Nat /\ f \in Nat /\ k + q \in Nat
    BY <1>1, <2>1
  <2> HIDE DEF p, f
  <2>6. x \in Nat /\ y \in Nat /\ z = x + y
    BY <2>5
  <2>7. w = f + x /\ due = w + y
    BY <2>3, <2>4 DEF p, f
  <2>8. w \in Nat /\ w <= now /\ e[i] = due
    BY <1>1, <1>2, <1>4
  <2> HIDE DEF x, y, z, w
  <2>9. e[i] = f + z /\ f <= now
    BY <2>5, <2>6, <2>7, <2>8
  <2>10. \E m \in Nat : e[i] = u[i].first + m * BlockOf(v, i).period
    BY <2>2, <2>5, <2>9 DEF p, f, z
  <2>11. u[i].first <= u[i].last /\ u[i].last < e[i]
    BY <1>3, <1>4, <2>2, <2>9 DEF f
  <2>12. i # 0 /\ DOMAIN u[i].ahead = {}
    BY <1>1, <2>2, IndexTyped
  <2> QED BY <2>2, <2>10, <2>11, <2>12 DEF TurnShape
<1>7. ASSUME NEW j \in DOMAIN d, j # i PROVE TurnShape(v, now, u, e, j, 0)
  <2>1. j \in DOMAIN t /\ j # 0 /\ d[j] \in Nat
    BY IndexTyped DEF Shaped
  <2>2. TurnShape(v, now, t, d, j, i) /\ u[j] = t[j] /\ e[j] = d[j]
    BY <1>4, <1>5, <1>7, <2>1 DEF Shaped
  <2> DEFINE a == t[j].ahead
  <2>3. a \in Seq(DOMAIN d)
    BY <2>2 DEF TurnShape
  <2>4. ASSUME NEW k \in DOMAIN a PROVE e[a[k]] > e[j]
    <3>1. a[k] \in DOMAIN d /\ d[a[k]] \in Nat
      <4>1. a[k] \in DOMAIN d
        BY <2>3
      <4>2. d \in Seq(Nat)
        BY DEF Shaped
      <4> QED BY <4>1, <4>2
    <3>2. d[j] <= now
      BY <2>2, <2>3 DEF TurnShape
    <3>3. CASE a[k] = i
      BY <1>3, <1>4, <2>1, <2>2, <3>2, <3>3
    <3>4. CASE a[k] # i
      <4>1. d[a[k]] > d[j]
        BY <2>2, <3>4 DEF TurnShape
      <4> QED BY <1>4, <2>2, <3>1, <3>4, <4>1
    <3> QED BY <3>3, <3>4
  <2> HIDE DEF a
  <2> QED BY <1>4, <2>1, <2>2, <2>4 DEF TurnShape, a
<1>8. \A j \in DOMAIN u : TurnShape(v, now, u, e, j, 0)
  BY <1>5, <1>6, <1>7 DEF Shaped
<1> QED BY <1>4, <1>5, <1>8 DEF Shaped, e, u, due

-----------------------------------------------------------------------------
(***************************************************************************)
(* The steps of the executor.                                              *)
(***************************************************************************)
LEMMA ShapedNow ==
    ASSUME ExecTyped, TurnsInv, exec.at # "down"
    PROVE  Shaped(exec.version, turns, exec.dues, Served)
<1>1. exec.version \in DOMAIN Plans
  BY TelemetryAssumption DEF ExecTyped
<1> QED BY <1>1 DEF ExecTyped, TurnsInv, Shaped

LEMMA ShapedNext ==
    ASSUME now' = now, Shaped(exec'.version, turns', exec'.dues, Served'),
           exec' \in [version : 0 .. Len(Plans), dues : Seq(Nat), at : {"wait", "read", "down"}, block : Nat],
           exec'.at = "read" => exec'.block \in DOMAIN exec'.dues
    PROVE  ExecTyped' /\ TurnsInv'
<1>1. exec'.version # 0
  BY TelemetryAssumption DEF Shaped
<1>2. ExecTyped'
  BY <1>1 DEF Shaped, ExecTyped
<1>3. TurnsInv'
  BY DEF Shaped, TurnsInv, TurnShape
<1> QED BY <1>2, <1>3

LEMMA TakePlanStep ==
    ASSUME PipelineInv, ExecTyped, TurnsInv, TakePlan PROVE ExecTyped' /\ TurnsInv'
<1>1. CASE cell.version = NoVersion
  <2>1. exec' = [exec EXCEPT !.at = "down"] /\ turns' = turns
    BY <1>1 DEF TakePlan
  <2> QED BY <2>1 DEF ExecTyped, TurnsInv
<1>2. CASE cell.version # NoVersion
  <2>1. cell.version \in DOMAIN Plans /\ cell.created \in Nat
        /\ cell = [version |-> cell.version, created |-> cell.created]
    BY <1>2, TelemetryAssumption DEF PipelineInv, NoVersion
  <2>2. exec' = RuntimePlan(cell) /\ turns' = NoTurns(cell)
    BY <1>2 DEF TakePlan
  <2>3. Fresh'
    BY <2>1, <2>2 DEF Fresh, RuntimePlan, NoTurns, Dues
  <2>4. Fresh' => ExecTyped' /\ TurnsInv'
    BY FreshTurns, PTL
  <2> QED BY <2>3, <2>4
<1> QED BY <1>1, <1>2

\* the block that is served is due, and due first
LEMMA DueIsFirst ==
    ASSUME PipelineInv, ExecTyped, TurnsInv, NEW i, Due(i)
    PROVE  /\ i \in DOMAIN exec.dues /\ \A j \in DOMAIN exec.dues : exec.dues[i] <= exec.dues[j]
           /\ now >= exec.dues[i] /\ now \in Nat
           /\ Shaped(exec.version, turns, exec.dues, 0)
           /\ Shaped(exec.version, Turn(i), exec.dues, i)
<1>1. exec.dues \in Seq(Nat) /\ exec.dues # <<>> /\ i = EarliestIndex
  BY DEF ExecTyped, Due
<1>2. /\ i \in DOMAIN exec.dues /\ \A j \in DOMAIN exec.dues : exec.dues[i] <= exec.dues[j]
      /\ now >= exec.dues[i] /\ now \in Nat
  BY <1>1, EarliestIsFirst DEF Due, PipelineInv
<1>3. exec.at = "wait" /\ Served = 0
  BY DEF Due, Served
<1>4. Shaped(exec.version, turns, exec.dues, 0)
  BY <1>3, ShapedNow
<1>5. Shaped(exec.version, Turn(i), exec.dues, i)
  BY <1>2, <1>4, TurnBegins
<1> QED BY <1>2, <1>4, <1>5

LEMMA StartReadStep ==
    ASSUME PipelineInv, ExecTyped, TurnsInv, NEW i, StartRead(i) PROVE ExecTyped' /\ TurnsInv'
<1>1. Due(i) /\ exec' = [exec EXCEPT !.at = "read", !.block = i] /\ turns' = Turn(i) /\ now' = now
  BY DEF StartRead
<1>2. i \in DOMAIN exec.dues /\ Shaped(exec.version, Turn(i), exec.dues, i)
  BY <1>1, DueIsFirst
<1>3. i \in Nat
  BY <1>2 DEF ExecTyped
<1>4. /\ exec' \in [version : 0 .. Len(Plans), dues : Seq(Nat), at : {"wait", "read", "down"}, block : Nat]
      /\ exec'.version = exec.version /\ exec'.dues = exec.dues /\ exec'.at = "read" /\ exec'.block = i
  BY <1>1, <1>3 DEF ExecTyped
<1>5. Served' = i
  BY <1>4 DEF Served
<1> QED BY <1>1, <1>2, <1>4, <1>5, ShapedNext

LEMMA ExecUpdated ==
    ASSUME NEW V, NEW S, NEW d \in S,
           NEW x \in [version : V, dues : S, at : {"wait", "read", "down"}, block : Nat], NEW y,
           y = [x EXCEPT !.dues = d, !.at = "wait", !.block = 0]
    PROVE  /\ y \in [version : V, dues : S, at : {"wait", "read", "down"}, block : Nat]
           /\ y.version = x.version /\ y.dues = d /\ y.at = "wait" /\ y.block = 0
OBVIOUS

\* a turn of block i has ended
LEMMA AdvanceStep ==
    ASSUME PipelineInv, ExecTyped, NEW i \in DOMAIN exec.dues, NEW t,
           Shaped(exec.version, t, exec.dues, i),
           exec' = Advance(i), turns' = EndTurn(t, i), now' = now
    PROVE  ExecTyped' /\ TurnsInv'
<1> DEFINE due == AdvanceWithoutBurst(exec.dues[i], BlockOf(exec.version, i).period)
           d == [exec.dues EXCEPT ![i] = due]
<1>1. now \in Nat
  BY DEF PipelineInv
<1>2. Shaped(exec.version, EndTurn(t, i), d, 0)
  BY <1>1, TurnEnded
<1>3. exec' = [exec EXCEPT !.dues = d, !.at = "wait", !.block = 0]
  BY DEF Advance, ExecTyped
<1> HIDE DEF d
<1>4. d \in Seq(Nat)
  BY <1>2 DEF Shaped
<1>5. exec \in [version : 0 .. Len(Plans), dues : Seq(Nat), at : {"wait", "read", "down"}, block : Nat]
  BY DEF ExecTyped
<1>6. /\ exec' \in [version : 0 .. Len(Plans), dues : Seq(Nat), at : {"wait", "read", "down"}, block : Nat]
      /\ exec'.version = exec.version /\ exec'.dues = d /\ exec'.at = "wait" /\ exec'.block = 0
  BY ONLY <1>3, <1>4, <1>5, ExecUpdated, Zenon
<1>7. Served' = 0
  BY <1>6 DEF Served
<1> QED BY <1>2, <1>6, <1>7, ShapedNext

LEMMA SkipDeadlineStep ==
    ASSUME PipelineInv, ExecTyped, TurnsInv, NEW i, SkipDeadline(i) PROVE ExecTyped' /\ TurnsInv'
<1>1. Due(i) /\ exec' = Advance(i) /\ turns' = EndTurn(Turn(i), i) /\ now' = now
  BY DEF SkipDeadline
<1>2. i \in DOMAIN exec.dues /\ Shaped(exec.version, Turn(i), exec.dues, i)
  BY <1>1, DueIsFirst
<1> QED BY <1>1, <1>2, AdvanceStep

LEMMA EndReadStep ==
    ASSUME PipelineInv, ExecTyped, TurnsInv, NEW o, EndRead(o) PROVE ExecTyped' /\ TurnsInv'
<1>1. exec.at = "read" /\ exec' = Advance(exec.block) /\ turns' = EndTurn(turns, exec.block) /\ now' = now
  BY DEF EndRead
<1>2. exec.block \in DOMAIN exec.dues /\ Served = exec.block
  BY <1>1 DEF ExecTyped, Served
<1>3. Shaped(exec.version, turns, exec.dues, exec.block)
  BY <1>1, <1>2, ShapedNow
<1> QED BY <1>1, <1>2, <1>3, AdvanceStep

LEMMA StopExecutorStep == ASSUME StopMonitoring PROVE ExecTyped' /\ TurnsInv'
<1> DEFINE none == <<>>
<1>1. exec' = [version |-> 0, dues |-> none, at |-> "down", block |-> 0] /\ turns' = none
  BY DEF StopMonitoring, NoVersion
<1>2. none \in Seq(Nat) /\ 0 \in 0 .. Len(Plans)
  BY TelemetryAssumption
<1> HIDE DEF none
<1>3. ExecTyped'
  BY <1>1, <1>2 DEF ExecTyped
<1>4. TurnsInv'
  BY <1>1 DEF TurnsInv
<1> QED BY <1>3, <1>4

LEMMA TickExecutorStep ==
    ASSUME PipelineInv, ExecTyped, TurnsInv, Tick PROVE ExecTyped' /\ TurnsInv'
<1>1. UNCHANGED <<exec, turns>> /\ now' = now + 1 /\ now \in Nat
  BY DEF Tick, PipelineInv
<1>2. ExecTyped'
  BY <1>1 DEF ExecTyped
<1>3. ASSUME exec.at # "down", NEW i \in DOMAIN turns
      PROVE  TurnShape(exec.version, now + 1, turns, exec.dues, i, Served)
  <2>1. TurnShape(exec.version, now, turns, exec.dues, i, Served)
    BY <1>3 DEF TurnsInv
  <2>2. exec.dues[i] \in Nat
    BY <1>3 DEF ExecTyped
  <2> QED BY <1>1, <2>1, <2>2 DEF TurnShape
<1>4. TurnsInv'
  BY <1>1, <1>3 DEF TurnsInv, Served
<1> QED BY <1>2, <1>4

LEMMA ExecutorStep ==
    ASSUME PipelineInv, ExecTyped, TurnsInv, [TelemetryNext]_telemetryVars
    PROVE  ExecTyped' /\ TurnsInv'
<1>1. CASE UNCHANGED <<exec, turns, now>>
  BY <1>1 DEF ExecTyped, TurnsInv, Served
<1>2. CASE ExecutorNext
  BY <1>2, TakePlanStep, SkipDeadlineStep, StartReadStep, EndReadStep DEF ExecutorNext
<1>3. CASE PipelineNext
  BY <1>1, <1>3 DEF PipelineNext, Receive, Apply, Refresh, Wake
<1>4. CASE HandleNext
  BY <1>1, <1>4, StopExecutorStep
     DEF HandleNext, UpdatePipeline, UpdatePoll, MarkDisconnected, ClearHistories, HandleOp
<1>5. CASE Tick
  BY <1>5, TickExecutorStep
<1>6. CASE UNCHANGED telemetryVars
  BY <1>1, <1>6 DEF telemetryVars
<1> QED BY <1>2, <1>3, <1>4, <1>5, <1>6 DEF TelemetryNext

\* The executor, the result queue and the pipeline task keep the invariant
\* whatever the plans, the bus and the clock do (poll.rs, telemetry/pipeline.rs).
THEOREM TelemetryInvHolds == TelemetrySpec => []TelemetryInv
<1>1. TelemetryInit => TelemetryInv
  <2> SUFFICES ASSUME TelemetryInit PROVE TelemetryInv
    OBVIOUS
  <2>1. Fresh
    <3>1. 1 \in DOMAIN Plans /\ cell = [version |-> 1, created |-> 1]
      BY TelemetryAssumption DEF TelemetryInit
    <3> QED BY <3>1 DEF TelemetryInit, Fresh
  <2> QED BY <2>1, FreshTurns, PipelineInit DEF TelemetryInv
<1>2. TelemetryInv /\ [TelemetryNext]_telemetryVars => TelemetryInv'
  BY PipelineStep, ExecutorStep DEF TelemetryInv
<1> QED BY <1>1, <1>2, PTL DEF TelemetrySpec

-----------------------------------------------------------------------------
(***************************************************************************)
(* What the invariant says.                                                *)
(***************************************************************************)
LEMMA EachOnce ==
    ASSUME NEW S, NEW q \in Seq(S), \A j, k \in DOMAIN q : q[j] = q[k] => j = k
    PROVE  Cardinality(Range(q)) = Len(q)
<1> DEFINE n == Len(q)
           D == 1 .. n
           T == Range(q)
<1>1. n \in Nat /\ DOMAIN q = D /\ q \in [D -> T]
  BY DEF Range
<1>2. IsFiniteSet(D) /\ Cardinality(D) = n
  BY <1>1, FS_Interval
<1>3. q \in Surjection(D, T)
  BY <1>1 DEF Surjection, Range
<1>4. q \in Injection(D, T)
  BY <1>1 DEF Injection, IsInjective
<1> HIDE DEF D, T
<1>5. Cardinality(T) = Cardinality(D)
  BY <1>2, <1>3, <1>4, FS_Surjection
<1> QED BY <1>2, <1>5 DEF T

LEMMA BusIsSharedHere == TelemetryInv => BusIsShared
<1> SUFFICES ASSUME TelemetryInv, exec.at = "wait", NEW i \in DOMAIN turns
             PROVE  /\ turns[i].last # 0 =>
                          (exec.dues[i] - turns[i].first) \div BlockOf(exec.version, i).period
                            > (turns[i].last - turns[i].first) \div BlockOf(exec.version, i).period
                    /\ Cardinality(Range(turns[i].ahead)) = Len(turns[i].ahead)
  BY DEF BusIsShared
<1>1. Shaped(exec.version, turns, exec.dues, Served)
  BY ShapedNow DEF TelemetryInv
<1>2. TurnShape(exec.version, now, turns, exec.dues, i, Served)
  BY <1>1 DEF Shaped
<1> DEFINE p == BlockOf(exec.version, i).period
           f == turns[i].first
           l == turns[i].last
           d == exec.dues[i]
           a == turns[i].ahead
<1>3. p \in Nat \ {0} /\ d \in Nat
  BY <1>1, IndexTyped
<1>4. f \in Nat /\ l \in Nat /\ a \in Seq(DOMAIN exec.dues)
  BY <1>2 DEF TurnShape
<1>5. l # 0 => (d - f) \div p > (l - f) \div p
  <2> SUFFICES ASSUME l # 0 PROVE (d - f) \div p > (l - f) \div p
    OBVIOUS
  <2>1. PICK k \in Nat : d = f + k * p
    BY <1>2 DEF TurnShape
  <2>2. f <= l /\ l < d
    BY <1>2 DEF TurnShape
  <2> DEFINE x == l - f
             y == k * p
  <2> HIDE DEF p, f, l, d
  <2>3. y \in Nat
    BY <1>3
  <2>4. d - f = y
    <3> HIDE DEF y
    <3> QED BY <1>4, <2>1, <2>3 DEF y
  <2>5. x \in Nat /\ x < y
    <3> HIDE DEF y
    <3> QED BY <1>3, <1>4, <2>2, <2>3, <2>4
  <2>6. y \div p = k /\ x \div p < k /\ x \div p \in Nat
    BY <1>3, <2>5, Slots
  <2> QED BY <2>4, <2>6
<1>6. Cardinality(Range(a)) = Len(a)
  <2>1. \A j, k \in DOMAIN a : a[j] = a[k] => j = k
    BY <1>2 DEF TurnShape
  <2> HIDE DEF a
  <2> QED BY <1>4, <2>1, EachOnce
<1> QED BY <1>5, <1>6

\* Whatever the plan's blocks, their periods and ages, and however late the
\* executor wakes: a block that had its turn waits for a later slot of its period,
\* and an overdue block is passed by every other block at most once
\* (earliest_index and advance_without_burst of poll.rs).
THEOREM BlocksShareTheBus == TelemetrySpec => []BusIsShared
BY TelemetryInvHolds, BusIsSharedHere, PTL

LEMMA TimerIsArmedHere == TelemetryInv => StaleTimerIsArmed
<1> SUFFICES ASSUME TelemetryInv, task.at = "wait", NextStaleDeadline(pipe) # 0
             PROVE  notified \/ (task.timer # 0 /\ task.timer <= NextStaleDeadline(pipe))
  BY DEF StaleTimerIsArmed
<1>1. notified \/ task.timer = NextStaleDeadline(pipe)
  BY DEF TelemetryInv, TimerInv
<1>2. NextStaleDeadline(pipe) \in Nat
  BY DeadlineTyped DEF TelemetryInv, PipelineInv
<1>3. task.timer = NextStaleDeadline(pipe) => task.timer # 0 /\ task.timer <= NextStaleDeadline(pipe)
  BY <1>2
<1> QED BY <1>1, <1>3

\* No value stays Good past its maximum age unnoticed: whichever steps wrote it or
\* shortened its age, the sleeping pipeline task has a timer for the first value
\* that expires or a permit that makes it look again (run_pipeline, update_plan).
THEOREM StaleTimerStaysArmed == TelemetrySpec => []StaleTimerIsArmed
BY TelemetryInvHolds, TimerIsArmedHere, PTL

-----------------------------------------------------------------------------
(***************************************************************************)
(* The invariant of the fault timeline.                                    *)
(***************************************************************************)
FrameUniverse == {SourceParam} \cup UNION {FrameOf[m] : m \in DOMAIN FrameOf}

Transitions == [gone : SUBSET SUBSET UNION Words, come : SUBSET SUBSET UNION Words]

EventType ==
    [id : Nat, transition : Transitions, expected : SUBSET FrameUniverse, captured : SUBSET FrameUniverse,
     completeness : {"Pending", "Complete", "Partial", "Unavailable"}, acknowledged : BOOLEAN]

FrameType ==
    [id : Nat, left : SUBSET {FrameBlock[p] : p \in FrameUniverse}, params : SUBSET FrameUniverse,
     good : SUBSET FrameUniverse, errors : BOOLEAN]

\* an observation on its way to the reducer; a failed one has no word
Observations == {s \in [good : BOOLEAN, raw : Words \cup {{}}] : s.good => s.raw \in Words}

TrackerInv ==
    /\ word \in Words /\ observed \in Seq(Observations)
    /\ lastRaw = {} \/ \E w \in Words : lastRaw = {w}
    /\ activeEvent \in Nat /\ nextEvent \in Nat \ {0} /\ evicted \in Nat

\* the events have numbers of their own, in order
EventsInv ==
    /\ timeline \in Seq(EventType)
    /\ \A i \in DOMAIN timeline : timeline[i].id < nextEvent
    /\ \A i, j \in DOMAIN timeline : i < j => timeline[i].id < timeline[j].id
    /\ lastRaw = {} => timeline = <<>> /\ evicted = 0

\* A task reads the frame of one event and no other task does; what it has read
\* is what it was asked for, and all of it unless a read failed.
FramesInv ==
    /\ frames \subseteq FrameType
    /\ \A f \in frames :
          /\ f.id < nextEvent
          /\ f.good \subseteq f.params
          /\ ~f.errors => f.good = {p \in f.params : FrameBlock[p] \notin f.left}
          /\ \A i \in DOMAIN timeline : timeline[i].id = f.id => timeline[i].expected = f.params
    /\ \A f, g \in frames : f.id = g.id => f = g

FaultInv == TrackerInv /\ EventsInv /\ FramesInv /\ TransitionsJoin /\ FramesBelong

-----------------------------------------------------------------------------
(***************************************************************************)
(* The words of the drive and the events they lead to.                     *)
(***************************************************************************)

\* what is reported of a change of the word leads from the one to the other
LEMMA TransitionLeads ==
    ASSUME NEW v \in Words \cup {{}}, NEW w \in Words, NEW e, e.transition = Transition(v, w)
    PROVE  Leads(e, v, w)
<1>1. UNION ({w} \ {{}}) = w
  OBVIOUS
<1>2. UNION {{b} : b \in v \ w} = v \ w /\ UNION {{b} : b \in w \ v} = w \ v
  OBVIOUS
<1>3. CASE faultKind = "ScalarCode"
  BY <1>1, <1>3 DEF Leads, Transition
<1>4. CASE faultKind # "ScalarCode"
  <2>1. e.transition.gone = {{b} : b \in v \ w} /\ e.transition.come = {{b} : b \in w \ v}
    BY <1>4 DEF Transition
  <2> QED BY <1>2, <1>4, <2>1 DEF Leads
<1> QED BY <1>3, <1>4

LEMMA TransitionTyped ==
    ASSUME NEW v \in Words \cup {{}}, NEW w \in Words
    PROVE  Transition(v, w) \in Transitions
<1>1. {v} \ {{}} \in SUBSET SUBSET UNION Words /\ {w} \ {{}} \in SUBSET SUBSET UNION Words
  OBVIOUS
<1>2. {{b} : b \in v \ w} \in SUBSET SUBSET UNION Words /\ {{b} : b \in w \ v} \in SUBSET SUBSET UNION Words
  OBVIOUS
<1> QED BY <1>1, <1>2 DEF Transition, Transitions

\* an event is made of parameters of the freeze frames
LEMMA EventTyped ==
    ASSUME NEW id \in Nat, NEW t \in Transitions
    PROVE  /\ Event(id, t) \in EventType /\ Event(id, t).id = id /\ Event(id, t).transition = t
           /\ Event(id, t).captured = {} /\ Event(id, t).completeness = "Pending"
           /\ Event(id, t).expected \in SUBSET FrameUniverse
<1> DEFINE params == FrameParams(t)
<1>1. params \in SUBSET FrameUniverse
  BY DEF FrameParams, FrameUniverse, Known
<1>2. Event(id, t) = [id |-> id, transition |-> t, expected |-> params, captured |-> {},
                      completeness |-> "Pending", acknowledged |-> FALSE]
  BY DEF Event
<1> HIDE DEF params
<1> QED BY <1>1, <1>2 DEF EventType

\* a new task has everything to read
LEMMA CaptureTyped ==
    ASSUME NEW id \in Nat, NEW params \in SUBSET FrameUniverse
    PROVE  LET f == Capture(id, params)
           IN  /\ f \in FrameType /\ f.id = id /\ f.params = params /\ f.good \subseteq f.params
               /\ ~f.errors => f.good = {p \in f.params : FrameBlock[p] \notin f.left}
<1> DEFINE left == {FrameBlock[p] : p \in params}
<1>1. left \in SUBSET {FrameBlock[p] : p \in FrameUniverse} /\ {p \in params : FrameBlock[p] \notin left} = {}
  OBVIOUS
<1>2. Capture(id, params) = [id |-> id, left |-> left, params |-> params, good |-> {}, errors |-> FALSE]
  BY DEF Capture
<1> HIDE DEF left
<1> QED BY <1>1, <1>2 DEF FrameType

LEMMA FaultInitOK == FaultInit => FaultInv
<1> SUFFICES ASSUME FaultInit PROVE FaultInv
  OBVIOUS
<1>1. TrackerInv /\ EventsInv /\ FramesInv /\ FramesBelong
  BY DEF FaultInit, TrackerInv, EventsInv, FramesInv, FramesBelong
<1>2. timeline = <<>> /\ Len(timeline) = 0 /\ DOMAIN timeline = {} /\ evicted = 0 /\ lastRaw = {} /\ activeEvent = 0
  BY DEF FaultInit
<1>3. [i \in 0 .. 0 |-> {}] \in [0 .. 0 -> Words \cup {{}}] /\ Tells([i \in 0 .. 0 |-> {}])
  BY <1>2 DEF Tells
<1>4. TransitionsJoin
  BY <1>2, <1>3 DEF TransitionsJoin
<1> QED BY <1>1, <1>4 DEF FaultInv

-----------------------------------------------------------------------------
(***************************************************************************)
(* The tracker.                                                            *)
(***************************************************************************)

\* what the properties speak of but the queue and the word of the drive
TrackerFrame == <<faultKind, lastRaw, activeEvent, timeline, evicted, nextEvent, frames>>

LEMMA FaultFrame ==
    ASSUME FaultInv, UNCHANGED TrackerFrame, word' \in Words, observed' \in Seq(Observations)
    PROVE  FaultInv'
<1>1. TrackerInv' /\ EventsInv' /\ FramesInv' /\ FramesBelong'
  BY DEF FaultInv, TrackerFrame, TrackerInv, EventsInv, FramesInv, FramesBelong, EventType, FrameType, Observations
<1>2. TransitionsJoin'
  <2>1. ASSUME NEW way PROVE Tells(way)' <=> Tells(way)
    BY DEF Tells, Leads, TrackerFrame
  <2> QED BY <2>1 DEF FaultInv, TrackerFrame, TransitionsJoin
<1> QED BY <1>1, <1>2 DEF FaultInv

LEMMA SourceStep ==
    ASSUME FaultInv,
           \/ \E w \in Words : DriveChanges(w)
           \/ \E good \in BOOLEAN : PollSource(good)
           \/ \E id \in 1 .. nextEvent - 1 : Export(id)
           \/ \E e \in exports : ExportFinished(e)
    PROVE  FaultInv'
<1>1. UNCHANGED TrackerFrame
  BY DEF DriveChanges, PollSource, Export, ExportFinished, TrackerFrame
<1>2. word' \in Words
  BY DEF DriveChanges, PollSource, Export, ExportFinished, FaultInv, TrackerInv
<1>3. observed' \in Seq(Observations)
  <2>1. ASSUME NEW good \in BOOLEAN PROVE [good |-> good, raw |-> IF good THEN word ELSE {}] \in Observations
    BY DEF Observations, FaultInv, TrackerInv
  <2>2. observed \in Seq(Observations)
    BY DEF FaultInv, TrackerInv
  <2>3. CASE \E good \in BOOLEAN : PollSource(good)
    BY <2>1, <2>2, <2>3 DEF PollSource
  <2>4. CASE observed' = observed
    BY <2>2, <2>4
  <2> QED BY <2>3, <2>4 DEF DriveChanges, Export, ExportFinished
<1> QED BY <1>1, <1>2, <1>3, FaultFrame

\* a reading that is no news
LEMMA NoNewsStep ==
    ASSUME FaultInv, ObserveTelemetry, ~Head(observed).good \/ lastRaw = {Head(observed).raw}
    PROVE  FaultInv'
<1>1. observed' \in Seq(Observations)
  BY DEF ObserveTelemetry, FaultInv, TrackerInv
<1>2. UNCHANGED TrackerFrame
  BY DEF ObserveTelemetry, Touch, TrackerFrame
<1>3. word' \in Words
  BY DEF ObserveTelemetry, FaultInv, TrackerInv
<1> QED BY <1>1, <1>2, <1>3, FaultFrame

\* the first reading is no fault
LEMMA FirstStep ==
    ASSUME FaultInv, ObserveTelemetry, Head(observed).good, lastRaw = {}, Head(observed).raw = {}
    PROVE  FaultInv'
<1>1. /\ lastRaw' = {{}} /\ UNCHANGED <<faultKind, word, activeEvent, timeline, evicted, nextEvent, frames>>
      /\ {} \in Words /\ observed' \in Seq(Observations)
  <2>1. observed \in Seq(Observations) /\ observed # <<>>
    BY DEF ObserveTelemetry, FaultInv, TrackerInv
  <2>2. Head(observed) \in Observations /\ Tail(observed) \in Seq(Observations)
    BY <2>1
  <2> QED BY <2>2 DEF ObserveTelemetry, Observations
<1>2. timeline = <<>> /\ evicted = 0 /\ activeEvent = 0
  BY DEF FaultInv, EventsInv, TransitionsJoin
<1>3. TrackerInv' /\ EventsInv' /\ FramesInv' /\ FramesBelong'
  BY <1>1 DEF FaultInv, TrackerInv, EventsInv, FramesInv, FramesBelong, EventType, FrameType, Observations
<1>4. [i \in 0 .. 0 |-> {}] \in [0 .. 0 -> Words \cup {{}}] /\ Tells([i \in 0 .. 0 |-> {}])'
  BY <1>1, <1>2 DEF Tells
<1>5. TransitionsJoin'
  BY <1>1, <1>2, <1>4 DEF TransitionsJoin
<1> QED BY <1>3, <1>5 DEF FaultInv

\* an event is added, and the oldest may leave
LEMMA OldestLeaves ==
    ASSUME NEW S, NEW q \in Seq(S), NEW e \in S, NEW k \in {0, 1}, NEW all, all = Append(q, e),
           NEW new, new = SubSeq(all, 1 + k, Len(all))
    PROVE  /\ new \in Seq(S) /\ Len(new) = Len(q) + 1 - k /\ DOMAIN new = 1 .. Len(q) + 1 - k
           /\ \A i \in DOMAIN new : i + k <= Len(q) => i + k \in DOMAIN q /\ new[i] = q[i + k]
           /\ \A i \in DOMAIN new : i + k > Len(q) => i = Len(q) + 1 - k /\ new[i] = e
           /\ new[Len(q) + 1 - k] = e \/ Len(q) + 1 - k = 0
<1>1. all \in Seq(S) /\ Len(all) = Len(q) + 1 /\ \A i \in 1 .. Len(q) : all[i] = q[i]
  OBVIOUS
<1>2. all[Len(q) + 1] = e /\ Len(q) \in Nat /\ DOMAIN q = 1 .. Len(q)
  OBVIOUS
<1>3. new \in Seq(S) /\ Len(new) = Len(q) + 1 - k /\ DOMAIN new = 1 .. Len(q) + 1 - k
  BY <1>1, <1>2
<1>4. \A i \in 1 .. Len(q) + 1 - k : new[i] = all[i + k]
  BY <1>1, <1>2
<1> QED BY <1>1, <1>2, <1>3, <1>4

LEMMA DetectStep ==
    ASSUME FaultInv, ObserveTelemetry, Head(observed).good, lastRaw # {Head(observed).raw},
           lastRaw # {} \/ Head(observed).raw # {}
    PROVE  FaultInv'
<1> DEFINE raw == Head(observed).raw
           previous == IF lastRaw = {} THEN {} ELSE CHOOSE w \in lastRaw : TRUE
           t == Transition(previous, raw)
           event == Event(nextEvent, t)
           all == Append(timeline, event)
           k == IF Len(all) > MaxFaultEvents THEN 1 ELSE 0
           capture == Capture(nextEvent, event.expected)
           n == Len(timeline)
<1>1. raw \in Words /\ observed' \in Seq(Observations)
  <2>1. observed \in Seq(Observations) /\ observed # <<>>
    BY DEF ObserveTelemetry, FaultInv, TrackerInv
  <2>2. Head(observed) \in Observations /\ Tail(observed) \in Seq(Observations)
    BY <2>1
  <2> QED BY <2>2 DEF ObserveTelemetry, Observations
<1>2. /\ timeline' = SubSeq(all, 1 + k, Len(all)) /\ evicted' = evicted + k
      /\ nextEvent' = nextEvent + 1 /\ lastRaw' = {raw}
      /\ activeEvent' = IF raw = {} THEN 0 ELSE nextEvent
      /\ frames' = frames \cup {capture} /\ UNCHANGED <<faultKind, word>>
  BY DEF ObserveTelemetry, Detect
<1>3. previous \in Words \cup {{}} /\ lastRaw \subseteq {previous} /\ (lastRaw = {} => previous = {})
  BY DEF FaultInv, TrackerInv
<1> HIDE DEF raw, previous
<1>4. t \in Transitions /\ nextEvent \in Nat \ {0}
  BY <1>1, <1>3, TransitionTyped DEF FaultInv, TrackerInv
<1> HIDE DEF t
<1>5. /\ event \in EventType /\ event.id = nextEvent /\ event.transition = t
      /\ event.captured = {} /\ event.completeness = "Pending" /\ event.expected \in SUBSET FrameUniverse
  BY <1>4, EventTyped
<1> HIDE DEF event
<1>6. /\ capture \in FrameType /\ capture.id = nextEvent /\ capture.params = event.expected /\ capture.good \subseteq capture.params
      /\ ~capture.errors => capture.good = {p \in capture.params : FrameBlock[p] \notin capture.left}
  BY <1>4, <1>5, CaptureTyped
<1> HIDE DEF capture
<1>7. timeline \in Seq(EventType) /\ n \in Nat /\ DOMAIN timeline = 1 .. n /\ evicted \in Nat
  BY DEF FaultInv, EventsInv, TrackerInv
<1>8. k \in {0, 1} /\ (k = 1 => n >= 1)
  <2>1. Len(all) = n + 1
    BY <1>5, <1>7
  <2> QED BY <2>1, <1>7, FaultAssumption
<1>9. /\ timeline' \in Seq(EventType) /\ Len(timeline') = n + 1 - k /\ DOMAIN timeline' = 1 .. n + 1 - k
      /\ \A i \in DOMAIN timeline' : i + k <= n => i + k \in DOMAIN timeline /\ timeline'[i] = timeline[i + k]
      /\ \A i \in DOMAIN timeline' : i + k > n => i = n + 1 - k /\ timeline'[i] = event
      /\ timeline'[n + 1 - k] = event
  <2>1. /\ timeline' \in Seq(EventType) /\ Len(timeline') = n + 1 - k /\ DOMAIN timeline' = 1 .. n + 1 - k
        /\ \A i \in DOMAIN timeline' : i + k <= n => i + k \in DOMAIN timeline /\ timeline'[i] = timeline[i + k]
        /\ \A i \in DOMAIN timeline' : i + k > n => i = n + 1 - k /\ timeline'[i] = event
        /\ timeline'[n + 1 - k] = event \/ n + 1 - k = 0
    <3> HIDE DEF k, n
    <3> QED BY <1>2, <1>5, <1>7, <1>8, OldestLeaves DEF n
  <2> HIDE DEF k, n
  <2> QED BY <2>1, <1>7, <1>8
<1> HIDE DEF k, n, all
<1>10. TrackerInv'
  <2>1. activeEvent' \in Nat /\ nextEvent' \in Nat \ {0} /\ evicted' \in Nat
    BY <1>2, <1>4, <1>7, <1>8
  <2> QED BY <1>1, <1>2, <2>1 DEF FaultInv, TrackerInv
<1>11. \A i \in DOMAIN timeline : timeline[i].id < nextEvent /\ timeline[i].id \in Nat
  <2>1. TAKE i \in DOMAIN timeline
  <2>2. timeline[i] \in EventType
    BY <1>7
  <2> QED BY <2>2 DEF FaultInv, EventsInv, EventType
<1>12. EventsInv'
  <2>1. \A i \in DOMAIN timeline' : timeline'[i].id < nextEvent'
    <3>1. TAKE i \in DOMAIN timeline'
    <3>2. CASE i + k <= n
      <4>1. timeline'[i].id < nextEvent /\ timeline'[i].id \in Nat
        BY <1>9, <1>11, <3>2
      <4>2. nextEvent' = nextEvent + 1 /\ nextEvent \in Nat
        BY <1>2, <1>4
      <4> QED BY <4>1, <4>2
    <3>3. CASE i + k > n
      BY <1>2, <1>4, <1>5, <1>9, <3>3
    <3> QED BY <3>2, <3>3, <1>7, <1>8, <1>9
  <2>2. \A i, j \in DOMAIN timeline' : i < j => timeline'[i].id < timeline'[j].id
    <3>1. TAKE i, j \in DOMAIN timeline'
    <3>2. HAVE i < j
    <3>3. i \in Nat /\ j \in Nat /\ j <= n + 1 - k /\ i + k <= n
      BY <1>7, <1>8, <1>9, <3>2
    <3>4. i + k \in DOMAIN timeline /\ timeline'[i] = timeline[i + k]
      BY <1>9, <3>3
    <3>5. CASE j + k <= n
      BY <1>8, <1>9, <3>2, <3>3, <3>4, <3>5 DEF FaultInv, EventsInv
    <3>6. CASE j + k > n
      BY <1>5, <1>9, <1>11, <3>4, <3>6
    <3> QED BY <3>3, <3>5, <3>6, <1>7, <1>8
  <2> QED BY <1>2, <1>9, <2>1, <2>2 DEF EventsInv
<1>13. \A f \in frames : f.id < nextEvent /\ f.id \in Nat /\ f # capture
  BY <1>4, <1>6 DEF FaultInv, FramesInv, FrameType
<1>14. FramesInv'
  <2>1. ASSUME NEW f \in frames' PROVE f.id < nextEvent'
    BY <1>2, <1>4, <1>6, <1>13
  <2>2. ASSUME NEW f \in frames'
        PROVE  f.good \subseteq f.params /\ (~f.errors => f.good = {p \in f.params : FrameBlock[p] \notin f.left})
    BY <1>2, <1>6 DEF FaultInv, FramesInv
  <2>3. ASSUME NEW f \in frames', NEW i \in DOMAIN timeline', timeline'[i].id = f.id
        PROVE  timeline'[i].expected = f.params
    <3>1. CASE i + k <= n
      <4>1. i + k \in DOMAIN timeline /\ timeline'[i] = timeline[i + k] /\ f # capture
        BY <1>4, <1>6, <1>9, <1>11, <2>3, <3>1
      <4>2. f \in frames /\ timeline[i + k].id = f.id
        BY <1>2, <2>3, <4>1
      <4>3. timeline[i + k].expected = f.params
        BY <4>1, <4>2 DEF FaultInv, FramesInv
      <4> QED BY <4>1, <4>3
    <3>2. CASE i + k > n
      <4>1. timeline'[i] = event /\ f = capture
        BY <1>2, <1>4, <1>5, <1>9, <1>13, <2>3, <3>2
      <4> QED BY <1>6, <4>1
    <3> QED BY <3>1, <3>2, <1>7, <1>8, <1>9
  <2>4. \A f, g \in frames' : f.id = g.id => f = g
    <3>1. TAKE f, g \in frames'
    <3>2. CASE f \in frames /\ g \in frames
      BY <3>2 DEF FaultInv, FramesInv
    <3>3. CASE f = capture \/ g = capture
      BY <1>2, <1>4, <1>6, <1>13, <3>3
    <3> QED BY <1>2, <3>2, <3>3
  <2>5. frames' \subseteq FrameType
    BY <1>2, <1>6 DEF FaultInv, FramesInv
  <2> QED BY <2>1, <2>2, <2>3, <2>4, <2>5 DEF FramesInv
<1>15. FramesBelong'
  <2> SUFFICES ASSUME NEW i \in DOMAIN timeline'
               PROVE  /\ timeline'[i].captured \subseteq timeline'[i].expected
                      /\ timeline'[i].completeness = "Complete" => timeline'[i].captured = timeline'[i].expected
                      /\ timeline'[i].completeness = "Pending" <=> \E f \in frames' : f.id = timeline'[i].id
    BY DEF FramesBelong
  <2>1. CASE i + k <= n
    <3>1. i + k \in DOMAIN timeline /\ timeline'[i] = timeline[i + k]
      BY <1>9, <2>1
    <3>2. capture.id # timeline[i + k].id
      BY <1>4, <1>6, <1>11, <3>1
    <3> QED BY <1>2, <3>1, <3>2 DEF FaultInv, FramesBelong
  <2>2. CASE i + k > n
    <3>1. timeline'[i] = event
      BY <1>9, <2>2
    <3> QED BY <1>2, <1>5, <1>6, <3>1
  <2> QED BY <2>1, <2>2, <1>7, <1>8, <1>9
<1>16. PICK way \in [0 .. n -> Words \cup {{}}] : Tells(way)
  BY DEF FaultInv, TransitionsJoin, n
<1> DEFINE longer == [i \in 0 .. n + 1 - k |-> IF i + k <= n THEN way[i + k] ELSE raw]
<1>17. way[n] = previous
  <2>1. CASE lastRaw = {}
    <3>1. n = 0 /\ evicted = 0
      BY <2>1 DEF FaultInv, EventsInv, n
    <3> QED BY <1>3, <1>16, <2>1, <3>1 DEF Tells
  <2>2. CASE lastRaw # {}
    BY <1>3, <1>16, <2>2 DEF Tells, n
  <2> QED BY <2>1, <2>2
<1>18. longer \in [0 .. n + 1 - k -> Words \cup {{}}]
  BY <1>1, <1>7, <1>8, <1>16
<1>19. longer[n + 1 - k] = raw
  BY <1>7, <1>8
<1>20. PICK told : told = longer
  OBVIOUS
<1>22. Tells(told)'
  <2>1. evicted' = 0 => told[0] = {}
    <3>1. SUFFICES ASSUME evicted' = 0 PROVE told[0] = {}
      OBVIOUS
    <3>2. k = 0 /\ evicted = 0
      BY <1>2, <1>7, <1>8, <3>1
    <3>3. told[0] = way[0]
      BY <1>7, <1>20, <3>2
    <3> QED BY <1>16, <3>2, <3>3 DEF Tells
  <2>2. evicted' > 0 => told[0] \in Words
    <3>1. SUFFICES ASSUME evicted' > 0 PROVE told[0] \in Words
      OBVIOUS
    <3>2. told[0] = way[k]
      BY <1>7, <1>8, <1>20
    <3>3. CASE k = 0
      BY <1>2, <1>7, <1>16, <3>1, <3>2, <3>3 DEF Tells
    <3>4. CASE k = 1
      <4>1. 1 \in DOMAIN timeline
        BY <1>7, <1>8, <3>4
      <4> QED BY <1>16, <3>2, <3>4, <4>1 DEF Tells
    <3> QED BY <1>8, <3>3, <3>4
  <2>3. ASSUME NEW i \in DOMAIN timeline'
        PROVE  told[i] \in Words /\ Leads(timeline[i], told[i - 1], told[i])'
    <3>1. i \in Nat /\ 1 <= i /\ i <= n + 1 - k /\ i - 1 \in 0 .. n + 1 - k /\ i - 1 + k <= n
      BY <1>7, <1>8, <1>9
    <3>2. told[i - 1] = way[i - 1 + k]
      BY <1>20, <3>1
    <3>3. CASE i + k <= n
      <4>1. i + k \in DOMAIN timeline /\ timeline'[i] = timeline[i + k] /\ told[i] = way[i + k]
        BY <1>9, <1>20, <3>1, <3>3
      <4>2. way[i + k] \in Words /\ Leads(timeline[i + k], way[(i + k) - 1], way[i + k])
        BY <1>16, <4>1 DEF Tells
      <4>3. (i + k) - 1 = i - 1 + k
        BY <3>1, <1>8
      <4>4. Leads(timeline'[i], told[i - 1], told[i])
        BY <3>2, <4>1, <4>2, <4>3
      <4> QED BY <1>2, <4>1, <4>2, <4>4 DEF Leads
    <3>4. CASE i + k > n
      <4>1. i = n + 1 - k /\ timeline'[i] = event /\ i - 1 + k = n
        BY <1>7, <1>8, <1>9, <3>1, <3>4
      <4>2. told[i] = raw /\ told[i - 1] = previous
        BY <1>17, <1>19, <1>20, <3>2, <4>1
      <4>3. Leads(event, previous, raw)
        BY <1>1, <1>3, <1>5, TransitionLeads DEF t
      <4> QED BY <1>1, <1>2, <4>1, <4>2, <4>3 DEF Leads
    <3> QED BY <3>1, <3>3, <3>4, <1>7, <1>8
  <2>4. lastRaw' \subseteq {told[Len(timeline')]}
    <3>1. told[Len(timeline')] = raw
      BY <1>9, <1>19, <1>20
    <3> QED BY <1>2, <3>1
  <2> QED BY <2>1, <2>2, <2>3, <2>4 DEF Tells
<1>21. TransitionsJoin'
  <2> HIDE DEF longer
  <2>1. \E w \in [0 .. Len(timeline') -> Words \cup {{}}] : Tells(w)'
    BY <1>9, <1>18, <1>20, <1>22
  <2>2. activeEvent' # 0 <=> (lastRaw' # {} /\ lastRaw' # {{}})
    BY <1>2, <1>4
  <2>3. activeEvent' # 0 => timeline' # <<>> /\ Last(timeline').id = activeEvent'
    <3>1. n + 1 - k \in Nat /\ n + 1 - k >= 1
      BY <1>7, <1>8
    <3>2. timeline' # <<>> /\ Last(timeline') = event
      BY <1>9, <3>1 DEF Last
    <3> QED BY <1>2, <1>5, <3>2
  <2> QED BY <2>1, <2>2, <2>3 DEF TransitionsJoin
<1> QED BY <1>10, <1>12, <1>14, <1>15, <1>21 DEF FaultInv

LEMMA ObserveStep == ASSUME FaultInv, ObserveTelemetry PROVE FaultInv'
BY NoNewsStep, FirstStep, DetectStep

-----------------------------------------------------------------------------
(***************************************************************************)
(* The tasks that read the frames, and the operator.                       *)
(***************************************************************************)

\* a task has read something more
LEMMA TaskGoesOn ==
    ASSUME FaultInv, NEW f \in frames, NEW g \in FrameType,
           g.id = f.id, g.params = f.params, g.good \subseteq g.params,
           ~g.errors => g.good = {p \in g.params : FrameBlock[p] \notin g.left},
           frames' = (frames \ {f}) \cup {g},
           UNCHANGED <<faultKind, word, observed, lastRaw, activeEvent, timeline, evicted, nextEvent>>
    PROVE  FaultInv'
<1>1. TrackerInv' /\ EventsInv'
  BY DEF FaultInv, TrackerInv, EventsInv, EventType, Observations
<1>2. FramesInv'
  <2>1. frames' \subseteq FrameType
    BY DEF FaultInv, FramesInv
  <2>2. ASSUME NEW h \in frames'
        PROVE  /\ h.id < nextEvent' /\ h.good \subseteq h.params
               /\ ~h.errors => h.good = {p \in h.params : FrameBlock[p] \notin h.left}
               /\ \A i \in DOMAIN timeline' : timeline'[i].id = h.id => timeline'[i].expected = h.params
    <3>1. CASE h \in frames
      BY <3>1 DEF FaultInv, FramesInv
    <3>2. CASE h = g
      BY <3>2 DEF FaultInv, FramesInv
    <3> QED BY <3>1, <3>2
  <2>3. ASSUME NEW h \in frames', NEW k \in frames', h.id = k.id PROVE h = k
    BY <2>3 DEF FaultInv, FramesInv
  <2> QED BY <2>1, <2>2, <2>3 DEF FramesInv
<1>3. FramesBelong'
  <2>1. \A id : (\E h \in frames' : h.id = id) <=> (\E h \in frames : h.id = id)
    OBVIOUS
  <2> QED BY <2>1 DEF FaultInv, FramesBelong
<1>4. TransitionsJoin'
  <2>1. ASSUME NEW way PROVE Tells(way)' <=> Tells(way)
    BY DEF Tells, Leads
  <2> QED BY <2>1 DEF FaultInv, TransitionsJoin
<1> QED BY <1>1, <1>2, <1>3, <1>4 DEF FaultInv

LEMMA FrameTaskStep ==
    ASSUME FaultInv, NEW f \in frames,
           \/ NoBus(f)
           \/ \E b \in f.left : \E good \in SUBSET {p \in f.params : FrameBlock[p] = b} : CaptureBlock(f, b, good)
    PROVE  FaultInv'
<1>1. /\ f \in FrameType /\ f.good \subseteq f.params
      /\ ~f.errors => f.good = {p \in f.params : FrameBlock[p] \notin f.left}
  BY DEF FaultInv, FramesInv
<1>2. CASE NoBus(f)
  <2> DEFINE g == [f EXCEPT !.left = {}, !.errors = TRUE]
  <2>1. g \in FrameType /\ g.id = f.id /\ g.params = f.params /\ g.good = f.good /\ g.errors
    BY <1>1 DEF FrameType
  <2>2. frames' = (frames \ {f}) \cup {g}
    BY <1>2 DEF NoBus
  <2> HIDE DEF g
  <2> QED BY <1>1, <1>2, <2>1, <2>2, TaskGoesOn DEF NoBus
<1>3. ASSUME NEW b \in f.left, NEW good \in SUBSET {p \in f.params : FrameBlock[p] = b}, CaptureBlock(f, b, good)
      PROVE  FaultInv'
  <2> DEFINE left == f.left \ {b}
             read == f.good \cup good
             errors == f.errors \/ good # {p \in f.params : FrameBlock[p] = b}
             g == [f EXCEPT !.left = left, !.good = read, !.errors = errors]
  <2>1. /\ left \in SUBSET {FrameBlock[p] : p \in FrameUniverse} /\ read \in SUBSET FrameUniverse
        /\ errors \in BOOLEAN /\ read \subseteq f.params
    BY <1>1 DEF FrameType
  <2>2. ~errors => read = {p \in f.params : FrameBlock[p] \notin left}
    BY <1>1
  <2>3. frames' = (frames \ {f}) \cup {g}
    BY <1>3 DEF CaptureBlock
  <2> HIDE DEF left, read, errors
  <2>4. /\ g \in FrameType /\ g.id = f.id /\ g.params = f.params
        /\ g.good = read /\ g.left = left /\ g.errors = errors
    BY <1>1, <2>1 DEF FrameType
  <2> HIDE DEF g
  <2>5. UNCHANGED <<faultKind, word, observed, lastRaw, activeEvent, timeline, evicted, nextEvent>>
    BY <1>3 DEF CaptureBlock
  <2> QED BY <2>1, <2>2, <2>3, <2>4, <2>5, TaskGoesOn
<1> QED BY <1>2, <1>3

\* what is noted on the events moves none of them
LEMMA EventsNoted ==
    ASSUME FaultInv, timeline' \in Seq(EventType), DOMAIN timeline' = DOMAIN timeline,
           \A i \in DOMAIN timeline :
               /\ timeline'[i].id = timeline[i].id /\ timeline'[i].expected = timeline[i].expected
               /\ timeline'[i].transition = timeline[i].transition,
           frames' \subseteq frames,
           UNCHANGED <<faultKind, word, observed, lastRaw, activeEvent, evicted, nextEvent>>
    PROVE  TrackerInv' /\ EventsInv' /\ FramesInv' /\ TransitionsJoin'
<1>1. timeline \in Seq(EventType) /\ Len(timeline') = Len(timeline) /\ Len(timeline) \in Nat
      /\ DOMAIN timeline = 1 .. Len(timeline)
  <2>1. timeline \in Seq(EventType)
    BY DEF FaultInv, EventsInv
  <2>2. DOMAIN timeline = 1 .. Len(timeline) /\ Len(timeline) \in Nat
        /\ DOMAIN timeline' = 1 .. Len(timeline') /\ Len(timeline') \in Nat
    BY <2>1
  <2> QED BY <2>1, <2>2
<1>2. TrackerInv'
  BY DEF FaultInv, TrackerInv, Observations
<1>3. EventsInv'
  <2>1. lastRaw' = {} => timeline' = <<>> /\ evicted' = 0
    <3>1. lastRaw = {} => Len(timeline) = 0 /\ evicted = 0
      BY DEF FaultInv, EventsInv
    <3> QED BY <1>1, <3>1
  <2> QED BY <2>1 DEF FaultInv, EventsInv
<1>4. FramesInv'
  BY DEF FaultInv, FramesInv, FrameType
<1>5. TransitionsJoin'
  <2>1. PICK way \in [0 .. Len(timeline) -> Words \cup {{}}] : Tells(way)
    BY DEF FaultInv, TransitionsJoin
  <2>2. \A i \in DOMAIN timeline' : way[i] \in Words /\ Leads(timeline[i], way[i - 1], way[i])'
    BY <2>1 DEF Tells, Leads
  <2>3. Tells(way)'
    BY <1>1, <2>1, <2>2 DEF Tells
  <2>4. activeEvent' # 0 => timeline' # <<>> /\ Last(timeline').id = activeEvent'
    <3>1. SUFFICES ASSUME activeEvent # 0
                   PROVE  timeline' # <<>> /\ Last(timeline').id = activeEvent
      OBVIOUS
    <3>2. timeline # <<>> /\ timeline[Len(timeline)].id = activeEvent
      BY <3>1 DEF FaultInv, TransitionsJoin, Last
    <3>3. Len(timeline) \in DOMAIN timeline
      BY <1>1, <3>2
    <3> QED BY <1>1, <3>2, <3>3 DEF Last
  <2>5. \E w \in [0 .. Len(timeline') -> Words \cup {{}}] : Tells(w)'
    BY <1>1, <2>1, <2>3
  <2> QED BY <2>4, <2>5 DEF FaultInv, TransitionsJoin
<1> QED BY <1>2, <1>3, <1>4, <1>5

LEMMA AcknowledgeStep ==
    ASSUME FaultInv, NEW id \in 1 .. nextEvent - 1, Acknowledge(id)
    PROVE  FaultInv'
<1> DEFINE Noted(i) == IF i \in IndexOf(id) THEN [timeline[i] EXCEPT !.acknowledged = TRUE] ELSE timeline[i]
<1>1. timeline' = [i \in DOMAIN timeline |-> Noted(i)]
  BY DEF Acknowledge
<1>2. timeline \in Seq(EventType)
  BY DEF FaultInv, EventsInv
<1>3. ASSUME NEW i \in DOMAIN timeline
      PROVE  /\ Noted(i) \in EventType /\ Noted(i).id = timeline[i].id /\ Noted(i).expected = timeline[i].expected
             /\ Noted(i).transition = timeline[i].transition /\ Noted(i).captured = timeline[i].captured
             /\ Noted(i).completeness = timeline[i].completeness
  <2>1. timeline[i] \in EventType
    BY <1>2
  <2> QED BY <2>1 DEF EventType
<1> HIDE DEF Noted
<1>4. timeline' \in Seq(EventType) /\ DOMAIN timeline' = DOMAIN timeline
  BY <1>1, <1>2, <1>3
<1>5. UNCHANGED <<faultKind, word, observed, lastRaw, activeEvent, evicted, nextEvent, frames>>
  BY DEF Acknowledge
<1>6. TrackerInv' /\ EventsInv' /\ FramesInv' /\ TransitionsJoin'
  BY <1>1, <1>3, <1>4, <1>5, EventsNoted
<1>7. FramesBelong'
  BY <1>1, <1>3, <1>5 DEF FaultInv, FramesBelong
<1> QED BY <1>6, <1>7 DEF FaultInv

LEMMA CompletedStep ==
    ASSUME FaultInv, NEW f \in frames, FreezeFrameCompleted(f)
    PROVE  FaultInv'
<1> DEFINE Read(i) == [timeline[i] EXCEPT !.captured = f.good, !.completeness = Completeness(f, timeline[i])]
           Noted(i) == IF i \in IndexOf(f.id) THEN Read(i) ELSE timeline[i]
<1>1. timeline' = [i \in DOMAIN timeline |-> Noted(i)] /\ f.left = {} /\ frames' = frames \ {f}
  BY DEF FreezeFrameCompleted
<1>2. timeline \in Seq(EventType)
  BY DEF FaultInv, EventsInv
<1>3. /\ f \in FrameType /\ f.good \subseteq f.params /\ (~f.errors => f.good = f.params)
  <2>1. /\ f \in FrameType /\ f.good \subseteq f.params
        /\ ~f.errors => f.good = {p \in f.params : FrameBlock[p] \notin f.left}
    BY DEF FaultInv, FramesInv
  <2> QED BY <1>1, <2>1
<1>4. ASSUME NEW i \in DOMAIN timeline, timeline[i].id = f.id
      PROVE  /\ Noted(i) \in EventType /\ Noted(i).id = timeline[i].id /\ Noted(i).expected = timeline[i].expected
             /\ Noted(i).transition = timeline[i].transition /\ Noted(i).captured = f.good
             /\ f.params = timeline[i].expected /\ Noted(i).completeness # "Pending"
             /\ Noted(i).completeness = "Complete" => ~f.errors
  <2> DEFINE how == Completeness(f, timeline[i])
  <2>1. timeline[i] \in EventType /\ f.good \in SUBSET FrameUniverse
    BY <1>2, <1>3 DEF FrameType
  <2>2. how \in {"Complete", "Partial", "Unavailable"} /\ (how = "Complete" => ~f.errors)
    BY DEF Completeness
  <2>3. Noted(i) = [timeline[i] EXCEPT !.captured = f.good, !.completeness = how]
    BY <1>4 DEF IndexOf
  <2>4. f.params = timeline[i].expected
    BY <1>4 DEF FaultInv, FramesInv
  <2> HIDE DEF how, Noted
  <2> QED BY <2>1, <2>2, <2>3, <2>4 DEF EventType
<1>5. ASSUME NEW i \in DOMAIN timeline, timeline[i].id # f.id
      PROVE  Noted(i) = timeline[i] /\ Noted(i) \in EventType
  BY <1>2, <1>5 DEF IndexOf
<1> HIDE DEF Noted
<1>6. timeline' \in Seq(EventType) /\ DOMAIN timeline' = DOMAIN timeline
  BY <1>1, <1>2, <1>4, <1>5
<1>7. UNCHANGED <<faultKind, word, observed, lastRaw, activeEvent, evicted, nextEvent>> /\ frames' \subseteq frames
  BY <1>1 DEF FreezeFrameCompleted
<1>8. TrackerInv' /\ EventsInv' /\ FramesInv' /\ TransitionsJoin'
  <2>1. \A i \in DOMAIN timeline :
            /\ timeline'[i].id = timeline[i].id /\ timeline'[i].expected = timeline[i].expected
            /\ timeline'[i].transition = timeline[i].transition
    BY <1>1, <1>4, <1>5
  <2> QED BY <1>6, <1>7, <2>1, EventsNoted
<1>9. FramesBelong'
  <2> SUFFICES ASSUME NEW i \in DOMAIN timeline
               PROVE  /\ timeline'[i].captured \subseteq timeline'[i].expected
                      /\ timeline'[i].completeness = "Complete" => timeline'[i].captured = timeline'[i].expected
                      /\ timeline'[i].completeness = "Pending" <=> \E g \in frames' : g.id = timeline'[i].id
    BY <1>6 DEF FramesBelong
  <2>1. CASE timeline[i].id = f.id
    <3>1. ~ \E g \in frames' : g.id = f.id
      BY <1>1 DEF FaultInv, FramesInv
    <3> QED BY <1>1, <1>3, <1>4, <2>1, <3>1
  <2>2. CASE timeline[i].id # f.id
    <3>1. timeline'[i] = timeline[i]
      BY <1>1, <1>5, <2>2
    <3>2. (\E g \in frames' : g.id = timeline[i].id) <=> (\E g \in frames : g.id = timeline[i].id)
      BY <1>1, <2>2
    <3> QED BY <3>1, <3>2 DEF FaultInv, FramesBelong
  <2> QED BY <2>1, <2>2
<1> QED BY <1>8, <1>9 DEF FaultInv

-----------------------------------------------------------------------------
(***************************************************************************)
(* Theorems.                                                               *)
(***************************************************************************)

LEMMA FaultStep == ASSUME FaultInv, FaultNext PROVE FaultInv'
<1>1. CASE \E f \in frames : \/ NoBus(f)
                             \/ \E b \in f.left : \E good \in SUBSET {p \in f.params : FrameBlock[p] = b} :
                                    CaptureBlock(f, b, good)
  BY <1>1, FrameTaskStep
<1>2. CASE \E f \in frames : FreezeFrameCompleted(f)
  BY <1>2, CompletedStep
<1>3. CASE \E id \in 1 .. nextEvent - 1 : Acknowledge(id)
  BY <1>3, AcknowledgeStep
<1>4. CASE ObserveTelemetry
  BY <1>4, ObserveStep
<1>5. CASE \/ \E w \in Words : DriveChanges(w)
           \/ \E good \in BOOLEAN : PollSource(good)
           \/ \E id \in 1 .. nextEvent - 1 : Export(id)
           \/ \E e \in exports : ExportFinished(e)
  BY <1>5, SourceStep
<1> QED BY <1>1, <1>2, <1>3, <1>4, <1>5 DEF FaultNext, FrameNext

\* The tracker, its timeline and the tasks that read freeze frames keep the
\* invariant, whatever reads fail, however the tasks overtake each other and
\* whatever events leave the timeline (faults.rs, fault_runtime.rs).
THEOREM FaultInvHolds == FaultSpec => []FaultInv
<1>1. FaultInv /\ [FaultNext]_faultVars => FaultInv'
  <2> SUFFICES ASSUME FaultInv, [FaultNext]_faultVars PROVE FaultInv'
    OBVIOUS
  <2>1. CASE UNCHANGED faultVars
    BY <2>1, FaultFrame DEF faultVars, TrackerFrame, FaultInv, TrackerInv
  <2> QED BY <2>1, FaultStep
<1> QED BY <1>1, FaultInitOK, PTL DEF FaultSpec

\* The events replay a history of the fault word that ends at the word that was
\* read last, and a freeze frame belongs to its event, for any words, any number of
\* changes and observations and timelines of any size (observe,
\* complete_freeze_frame, faults.rs:118).
THEOREM TimelineAlwaysReplays == FaultSpec => []TimelineReplays
<1>1. FaultInv => TimelineReplays
  BY DEF FaultInv, TimelineReplays
<1> QED BY <1>1, FaultInvHolds, PTL
==============================================================================

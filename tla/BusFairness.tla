----------------------------- MODULE BusFairness -----------------------------
(***************************************************************************)
(* How long a class of bus requests can wait: select_next driven by any    *)
(* sequence of arrivals.  Requests are counted, not named, so the runs of  *)
(* this specification never end; the clock is the environment's choice of  *)
(* hard, which tells whether a pending safety deadline is within 5 ms.     *)
(***************************************************************************)
EXTENDS BusSchedule

CONSTANT MaxDepth       \* bound: requests of one class pending at a time

VARIABLES
    depth,          \* PendingQueues: pending requests of every class
    hard,           \* the earliest safety deadline is within the hard window
    safetyBurst,    \* safety_burst
    wrrIndex,       \* wrr_index
    served,         \* history: the class selected last
    passed,         \* history: selections a waiting class has been passed over by
    run             \* history: safety selections, none of them hard, made over
                    \*          waiting requests since another class was selected

selectVars == <<depth, hard, safetyBurst, wrrIndex, served, passed, run>>

Queued == {c \in Classes : depth[c] > 0}

SelectTypeOK ==
    /\ depth \in [Classes -> Nat]
    /\ hard \in BOOLEAN
    /\ safetyBurst \in 0 .. SafetyBurstLimit
    /\ wrrIndex \in 0 .. ScheduleLength - 1
    /\ served \in Classes \cup {"none"}
    /\ passed \in [NonSafety -> Nat]
    /\ run \in Nat

SelectInit ==
    /\ depth = [c \in Classes |-> 0]
    /\ hard = FALSE
    /\ safetyBurst = 0
    /\ wrrIndex = 0
    /\ served = "none"
    /\ passed = [c \in NonSafety |-> 0]
    /\ run = 0

Arrive ==
    /\ \E c \in Classes : /\ depth[c] < MaxDepth
                          /\ depth' = [depth EXCEPT ![c] = @ + 1]
    /\ UNCHANGED <<hard, safetyBurst, wrrIndex, served, passed, run>>

DeadlinesMove ==
    /\ hard' = ~hard
    /\ UNCHANGED <<depth, safetyBurst, wrrIndex, served, passed, run>>

TakeSafety ==
    /\ PicksSafety(Queued, hard, safetyBurst)
    /\ depth' = [depth EXCEPT ![Safety] = @ - 1]
    /\ safetyBurst' = NextBurst(safetyBurst)
    /\ served' = Safety
    /\ run' = IF hard \/ Queued = {Safety} THEN run ELSE run + 1
    /\ UNCHANGED <<hard, wrrIndex, passed>>

\* Mutant: the burst is not over when another class has been served.
TakeNonSafety_KeepsBurst ==
    /\ ~PicksSafety(Queued, hard, safetyBurst)
    /\ \E k \in 0 .. ScheduleLength - 1 :
          LET c == SlotAfter(wrrIndex, k)
          IN  /\ PicksSlot(Queued, wrrIndex, k)
              /\ depth' = [depth EXCEPT ![c] = @ - 1]
              /\ wrrIndex' = NextSlot(wrrIndex, k)
              /\ served' = c
              /\ passed' = [d \in NonSafety |->
                              IF d = c \/ d \notin Queued THEN 0 ELSE passed[d] + 1]
    /\ run' = 0
    /\ UNCHANGED <<hard, safetyBurst>>

TakeNonSafety ==
    /\ ~PicksSafety(Queued, hard, safetyBurst)
    /\ \E k \in 0 .. ScheduleLength - 1 :
          LET c == SlotAfter(wrrIndex, k)
          IN  /\ PicksSlot(Queued, wrrIndex, k)
              /\ depth' = [depth EXCEPT ![c] = @ - 1]
              /\ wrrIndex' = NextSlot(wrrIndex, k)
              /\ served' = c
              /\ passed' = [d \in NonSafety |->
                              IF d = c \/ d \notin Queued THEN 0 ELSE passed[d] + 1]
    /\ safetyBurst' = 0
    /\ run' = 0
    /\ UNCHANGED hard

SelectNext == Arrive \/ DeadlinesMove \/ TakeSafety \/ TakeNonSafety

(***************************************************************************)
(* The actor's loop selects as long as anything is pending.                *)
(***************************************************************************)
SelectFairness == WF_selectVars(TakeSafety \/ TakeNonSafety)

SelectSpec == SelectInit /\ [][SelectNext]_selectVars /\ SelectFairness

-----------------------------------------------------------------------------
(***************************************************************************)
(* The longest way round the schedule from one slot of a class to the next.*)
(***************************************************************************)
Gap(c) ==
    CASE c \in {"TelemetryCritical", "Interactive"} -> 4
      [] c = "Telemetry"                            -> 9
      [] OTHER                                      -> 10

\* While a class waits, the schedule serves the others at most Gap(c) times before
\* it serves c, whatever arrives: no mix of polling and interactive requests keeps
\* a background request waiting longer than one turn of NON_SAFETY_SCHEDULE.
BoundedOvertaking == \A c \in NonSafety : passed[c] <= Gap(c)

\* At most SAFETY_BURST_LIMIT safety requests whose deadlines are not pressing
\* overtake a waiting request of another class between two such selections.
BurstBounded == run <= SafetyBurstLimit

\* If safety deadlines stop being pressing, every class that has something pending
\* is served: the burst limit and the schedule leave no class behind for ever.
NoClassStarves ==
    <>[]~hard => \A c \in Classes : c \in Queued ~> served = c
=============================================================================

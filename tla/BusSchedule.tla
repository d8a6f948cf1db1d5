----------------------------- MODULE BusSchedule -----------------------------
(***************************************************************************)
(* select_next of lantern-transport/src/bus_actor.rs: which request class  *)
(* the bus actor serves next.  Safety requests come first, in bursts of at *)
(* most SAFETY_BURST_LIMIT while anything else waits, unless one of them   *)
(* is about to miss its deadline; the other classes share a weighted       *)
(* round-robin schedule.                                                   *)
(***************************************************************************)
EXTENDS Naturals, Sequences

CONSTANT SafetyBurstLimit       \* SAFETY_BURST_LIMIT, 8 in the code

ASSUME BusScheduleAssumption == SafetyBurstLimit \in Nat

Safety == "SafetyOneShot"

NonSafety == {"Interactive", "TelemetryCritical", "Telemetry", "Background"}

Classes == NonSafety \cup {Safety}

(***************************************************************************)
(* NON_SAFETY_SCHEDULE, indexed from 0 as in the code.                     *)
(***************************************************************************)
ScheduleLength == 11

Slot(i) ==
    CASE i \in {0, 2, 4, 6} -> "TelemetryCritical"
      [] i \in {1, 3, 5, 7} -> "Interactive"
      [] i \in {8, 9}       -> "Telemetry"
      [] OTHER              -> "Background"

SlotAfter(i, k) == Slot((i + k) % ScheduleLength)

(***************************************************************************)
(* waiting is the set of classes with a pending request, hard whether the  *)
(* earliest safety deadline is within the hard window.                     *)
(***************************************************************************)
\* Mutant: a safety request is served whenever there is one.
PicksSafety_Always(waiting, hard, burst) == Safety \in waiting

PicksSafety(waiting, hard, burst) ==
    /\ Safety \in waiting
    /\ burst < SafetyBurstLimit \/ hard \/ waiting \cap NonSafety = {}

(***************************************************************************)
(* The schedule skips k slots whose class has nothing pending.             *)
(***************************************************************************)
PicksSlot(waiting, wrr, k) ==
    /\ k \in 0 .. ScheduleLength - 1
    /\ SlotAfter(wrr, k) \in waiting
    /\ \A j \in 0 .. k - 1 : SlotAfter(wrr, j) \notin waiting

\* Mutant: the schedule stays on the slot it has served.
NextSlot_Stays(wrr, k) == (wrr + k) % ScheduleLength

NextSlot(wrr, k) == (wrr + k + 1) % ScheduleLength

(***************************************************************************)
(* The burst counter is compared with the limit only, so it is kept capped.*)
(***************************************************************************)
NextBurst(burst) == IF burst < SafetyBurstLimit THEN burst + 1 ELSE burst
=============================================================================

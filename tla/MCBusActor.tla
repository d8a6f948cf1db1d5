------------------------------ MODULE MCBusActor ------------------------------
(***************************************************************************)
(* BusActor and BusFairness for TLC: two questions that share no state, so *)
(* that each behaviour asks one of them and leaves the other at rest.      *)
(*                                                                         *)
(* The actor serves a write and a read of one safety operation, which      *)
(* share the limit of the operation and the capacity of their channel, and *)
(* a background read that competes with them for the line.  The schedule   *)
(* has arrivals that go on for ever, one request of a class at a time.     *)
(***************************************************************************)
EXTENDS BusActor, BusFairness

CONSTANTS w1, r1, r2

MCReads == {r1, r2}

MCWrites == {w1}

MCClass == [r \in {w1, r1, r2} |-> IF r = r2 THEN "Background" ELSE Safety]

MCDeadline == [r \in {w1, r1, r2} |-> IF r = w1 THEN 3 ELSE 4]

MCOperation == [r \in {w1, r1, r2} |-> 1]

MCCapacity == [c \in Classes |-> 1]

-----------------------------------------------------------------------------
\* the clock has run out and the actor has stopped: nothing of it is enabled
ActorAtRest ==
    /\ now = MaxTime /\ cancelled = TRUE /\ pc = "stopped"
    /\ Port!PortInit
    /\ channel = [c \in Classes |-> <<>>] /\ pending = [c \in Classes |-> <<>>]
    /\ burst = 0 /\ wrr = 0 /\ drained = 0
    /\ command = NoCommand /\ retries = 0 /\ wake = 0
    /\ quiet = 0 /\ lineFree = 0

\* served tells which question is asked
ScheduleAtRest ==
    /\ depth = [c \in Classes |-> 0] /\ hard = FALSE /\ safetyBurst = 0 /\ wrrIndex = 0
    /\ served = "off" /\ passed = [c \in NonSafety |-> 0] /\ run = 0

MCInit ==
    \/ Init /\ ScheduleAtRest
    \/ SelectInit /\ ActorAtRest

MCNext ==
    \/ served = "off" /\ Next /\ UNCHANGED selectVars
    \/ served # "off" /\ SelectNext /\ UNCHANGED vars

MCSpec ==
    MCInit /\ [][MCNext]_<<vars, selectVars>> /\ Fairness /\ SelectFairness
===============================================================================

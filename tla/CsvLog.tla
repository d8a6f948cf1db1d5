-------------------------------- MODULE CsvLog --------------------------------
(***************************************************************************)
(* What CSV logging promises, without queues, tasks or files: while a log  *)
(* is open samples are offered to it, and a log that is reported Completed *)
(* accounts for each of them, as a row or in the count of a gap.  A log    *)
(* that failed promises nothing.  A process may end at any time.           *)
(***************************************************************************)
EXTENDS Naturals

VARIABLES
    phase,          \* idle, open, completed or failed
    offered,        \* samples offered to the log since it was opened
    account         \* what a completed log reports

vars == <<phase, offered, account>>

NoAccount == [samples |-> 0, dropped |-> 0]

Init == phase = "idle" /\ offered = 0 /\ account = NoAccount

Open ==
    /\ phase \in {"idle", "completed"}
    /\ phase' = "open" /\ offered' = 0 /\ account' = NoAccount

Offer == phase = "open" /\ offered' = offered + 1 /\ UNCHANGED <<phase, account>>

Complete ==
    /\ phase = "open"
    /\ phase' = "completed"
    /\ \E s \in 0 .. offered : account' = [samples |-> s, dropped |-> offered - s]
    /\ UNCHANGED offered

Fail == phase \in {"open", "idle", "completed"} /\ phase' = "failed" /\ account' = NoAccount /\ UNCHANGED offered

Restart == phase' = "idle" /\ offered' = 0 /\ account' = NoAccount

Next == Open \/ Offer \/ Complete \/ Fail \/ Restart

Spec == Init /\ [][Next]_vars
=============================================================================

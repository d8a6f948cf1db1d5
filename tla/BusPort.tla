------------------------------- MODULE BusPort -------------------------------
(***************************************************************************)
(* What ReadBusPort and WriteBusPort promise their callers, and what the   *)
(* write kernel relies on when it turns an error into an outcome: a        *)
(* request is answered once; an answer that says the request was refused   *)
(* before transmission is true; a write is put on the wire at most once;   *)
(* only Shutdown leaves open whether the request was transmitted.          *)
(***************************************************************************)
EXTENDS Naturals

CONSTANTS
    Reads, Writes,      \* the requests, by what they ask for
    ReadAttempts        \* transmissions of one read (3 in the code)

Requests == Reads \cup Writes

VARIABLES
    answer,     \* where each request stands, or how it was answered
    sent        \* how often each request was put on the wire

portVars == <<answer, sent>>

Refusals == {"QueueFull", "TimeoutBeforeSend"}

ReadResults == {"Ok", "ReadError"}

WriteResults == {"Ok", "ProtocolException", "OutcomeUnknown"}

Answers == {"new", "waiting", "Shutdown"} \cup Refusals \cup ReadResults \cup WriteResults

Attempts(r) == IF r \in Reads THEN ReadAttempts ELSE 1

Results(r) == IF r \in Reads THEN ReadResults ELSE WriteResults

PortInit ==
    /\ answer = [r \in Requests |-> "new"]
    /\ sent = [r \in Requests |-> 0]

Accept(r) ==
    /\ answer[r] = "new"
    /\ answer' = [answer EXCEPT ![r] = "waiting"]
    /\ UNCHANGED sent

Refuse(r) ==
    /\ answer[r] \in {"new", "waiting"} /\ sent[r] = 0
    /\ \E a \in Refusals \cup {"Shutdown"} : answer' = [answer EXCEPT ![r] = a]
    /\ UNCHANGED sent

Transmit(r) ==
    /\ answer[r] = "waiting" /\ sent[r] < Attempts(r)
    /\ sent' = [sent EXCEPT ![r] = @ + 1]
    /\ UNCHANGED answer

Complete(r) ==
    /\ answer[r] = "waiting" /\ sent[r] > 0
    /\ \E a \in Results(r) : answer' = [answer EXCEPT ![r] = a]
    /\ UNCHANGED sent

Abandon ==
    /\ answer' = [r \in Requests |-> IF answer[r] = "waiting" THEN "Shutdown" ELSE answer[r]]
    /\ UNCHANGED sent

PortNext ==
    \/ \E r \in Requests : Accept(r) \/ Refuse(r) \/ Transmit(r) \/ Complete(r)
    \/ Abandon

PortSpec == PortInit /\ [][PortNext]_portVars
=============================================================================

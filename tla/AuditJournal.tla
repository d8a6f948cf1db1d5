----------------------------- MODULE AuditJournal -----------------------------
(***************************************************************************)
(* The durable audit of one session id, lantern-storage/src/audit.rs: a    *)
(* journal file of hash-chained lines, a head file that names the last     *)
(* line, and the in-memory token bindings of the running process.          *)
(*                                                                         *)
(* append_record writes and syncs the journal line, then replaces the head *)
(* atomically; the process can die, and either write can fail, in between. *)
(* Session ids start at 1 in every process and the audit directory is      *)
(* fixed, so a restarted process continues the files it finds.             *)
(*                                                                         *)
(* The hash of a record is the record itself: SHA-256 of the canonical     *)
(* JSON is taken to be injective.  Schema versions and the times of        *)
(* records are constant and left out.                                      *)
(***************************************************************************)
EXTENDS Naturals, Sequences, FiniteSets

CONSTANTS
    MaxLines,       \* bound: lines of the journal
    MaxTokens,      \* bound: tokens one process allocates
    MaxCrashes      \* bound: crashes of the process

ASSUME AuditJournalAssumption ==
    MaxLines \in Nat /\ MaxTokens \in Nat /\ MaxCrashes \in Nat

VARIABLES
    file,       \* the journal file, line by line
    head,       \* the head file
    port,       \* AuditState: next_token_id, prepared, operations
    call,       \* the append_record in progress
    crashes,
    faulted,    \* history: an append failed or was interrupted
    acked       \* history: records whose append returned Ok

vars == <<file, head, port, call, crashes, faulted, acked>>

Kinds ==
    {"decision", "device_write_prepared", "device_write_finalized",
     "operation_started", "operation_finished"}

(***************************************************************************)
(* A record, its place in the chain and the token its body carries.  A     *)
(* torn line has no newline; what is appended to it makes one garbled line.*)
(***************************************************************************)
NoRecord == [sequence |-> 0]

Record(sequence, previous, kind, token) ==
    [sequence |-> sequence, previous |-> previous, kind |-> kind, token |-> token]

Line(record, text) == [record |-> record, text |-> text]

NoHead == [count |-> 0, last |-> NoRecord, open |-> FALSE, finalized |-> FALSE]

NewHead(record) ==
    [count |-> record.sequence, last |-> record, open |-> TRUE, finalized |-> FALSE]

FreshPort == [next |-> 1, prepared |-> {}, operations |-> {}]

NoCall == [stage |-> "none", record |-> NoRecord]

TypeOK ==
    /\ \A i \in DOMAIN file : /\ file[i].text \in {"whole", "torn", "garbled"}
                              /\ file[i].record.sequence \in 1 .. MaxLines
                              /\ file[i].record.kind \in Kinds
    /\ Len(file) <= MaxLines
    /\ head.count \in 0 .. MaxLines /\ {head.open, head.finalized} \subseteq BOOLEAN
    /\ port \in [next : 1 .. MaxTokens + 1, prepared : SUBSET (1 .. MaxTokens),
                 operations : SUBSET (1 .. MaxTokens)]
    /\ call.stage \in {"none", "write", "head"}
    /\ crashes \in 0 .. MaxCrashes
    /\ faulted \in BOOLEAN

Init ==
    /\ file = <<>>
    /\ head = NoHead
    /\ port = FreshPort
    /\ call = NoCall
    /\ crashes = 0
    /\ faulted = FALSE
    /\ acked = {}

-----------------------------------------------------------------------------
(***************************************************************************)
(* append_record, up to its first write: the guards on what is on disk and *)
(* the record that continues the chain the head names.                     *)
(***************************************************************************)
Appendable ==
    /\ head = NoHead => file = <<>>
    /\ head # NoHead => head.open /\ ~head.finalized

NextRecord(kind, token) == Record(head.count + 1, head.last, kind, token)

StartAppend(kind, token) ==
    call' = IF Appendable THEN [stage |-> "write", record |-> NextRecord(kind, token)]
            ELSE NoCall

CanCall == call = NoCall /\ Len(file) < MaxLines

AppendLine(record, text) ==
    IF file # <<>> /\ file[Len(file)].text = "torn"
    THEN [file EXCEPT ![Len(file)] = Line(record, IF text = "torn" THEN "torn" ELSE "garbled")]
    ELSE Append(file, Line(record, text))

(***************************************************************************)
(* The operations of AuditPort.  A token id is allocated before the append *)
(* and bound after it; a finalization consumes its binding before it       *)
(* appends, whatever the append returns.                                   *)
(***************************************************************************)
RecordDecision ==
    /\ CanCall
    /\ StartAppend("decision", 0)
    /\ UNCHANGED <<file, head, port, crashes, faulted, acked>>

PrepareDeviceWrite ==
    /\ CanCall /\ port.next <= MaxTokens
    /\ port' = [port EXCEPT !.next = @ + 1]
    /\ StartAppend("device_write_prepared", port.next)
    /\ UNCHANGED <<file, head, crashes, faulted, acked>>

\* Mutant: the finalization does not consume the binding.
FinalizeDeviceWrite_KeepsBinding ==
    /\ CanCall
    /\ \E token \in port.prepared : StartAppend("device_write_finalized", token)
    /\ UNCHANGED <<file, head, port, crashes, faulted, acked>>

FinalizeDeviceWrite ==
    /\ CanCall
    /\ \E token \in port.prepared :
          /\ port' = [port EXCEPT !.prepared = @ \ {token}]
          /\ StartAppend("device_write_finalized", token)
    /\ UNCHANGED <<file, head, crashes, faulted, acked>>

BeginOperation ==
    /\ CanCall /\ port.next <= MaxTokens
    /\ port' = [port EXCEPT !.next = @ + 1]
    /\ StartAppend("operation_started", port.next)
    /\ UNCHANGED <<file, head, crashes, faulted, acked>>

FinishOperation ==
    /\ CanCall
    /\ \E token \in port.operations :
          /\ port' = [port EXCEPT !.operations = @ \ {token}]
          /\ StartAppend("operation_finished", token)
    /\ UNCHANGED <<file, head, crashes, faulted, acked>>

(***************************************************************************)
(* The journal write: write_all, flush and sync_all, or an error after any *)
(* part of the line has reached the file.                                  *)
(***************************************************************************)
WriteJournal ==
    /\ call.stage = "write"
    /\ file' = AppendLine(call.record, "whole")
    /\ call' = [call EXCEPT !.stage = "head"]
    /\ UNCHANGED <<head, port, crashes, faulted, acked>>

PartialWrites(record) ==
    {file, AppendLine(record, "torn"), AppendLine(record, "whole")}

\* Mutant: the result of write_all is ignored and the head is written.
WriteJournalFails_Ignored ==
    /\ call.stage = "write"
    /\ file' \in PartialWrites(call.record)
    /\ call' = [call EXCEPT !.stage = "head"]
    /\ faulted' = TRUE
    /\ UNCHANGED <<head, port, crashes, acked>>

WriteJournalFails ==
    /\ call.stage = "write"
    /\ file' \in PartialWrites(call.record)
    /\ call' = NoCall
    /\ faulted' = TRUE
    /\ UNCHANGED <<head, port, crashes, acked>>

(***************************************************************************)
(* The head write.  When the directory sync is what fails, the new head is *)
(* in place although the append returns an error.                          *)
(***************************************************************************)
Bound(record) ==
    [port EXCEPT
        !.prepared   = IF record.kind = "device_write_prepared"
                       THEN @ \cup {record.token} ELSE @,
        !.operations = IF record.kind = "operation_started"
                       THEN @ \cup {record.token} ELSE @]

WriteHead ==
    /\ call.stage = "head"
    /\ head' = NewHead(call.record)
    /\ port' = Bound(call.record)
    /\ acked' = acked \cup {call.record}
    /\ call' = NoCall
    /\ UNCHANGED <<file, crashes, faulted>>

WriteHeadFails ==
    /\ call.stage = "head"
    /\ head' \in {head, NewHead(call.record)}
    /\ call' = NoCall
    /\ faulted' = TRUE
    /\ UNCHANGED <<file, port, crashes, acked>>

FinalizeSession ==
    /\ call = NoCall
    /\ head # NoHead
    /\ head' = [head EXCEPT !.open = FALSE, !.finalized = TRUE]
    /\ UNCHANGED <<file, port, call, crashes, faulted, acked>>

(***************************************************************************)
(* The process dies and is started again: what was being written may be on *)
(* disk in full, in part or not at all; the bindings are gone.             *)
(***************************************************************************)
Crash ==
    /\ crashes < MaxCrashes
    /\ crashes' = crashes + 1
    /\ file' \in (IF call.stage = "write" THEN PartialWrites(call.record) ELSE {file})
    /\ head' \in (IF call.stage = "head" THEN {head, NewHead(call.record)} ELSE {head})
    /\ faulted' = (faulted \/ call # NoCall)
    /\ port' = FreshPort
    /\ call' = NoCall
    /\ UNCHANGED acked

Next ==
    \/ RecordDecision \/ PrepareDeviceWrite \/ FinalizeDeviceWrite
    \/ BeginOperation \/ FinishOperation
    \/ WriteJournal \/ WriteJournalFails \/ WriteHead \/ WriteHeadFails
    \/ FinalizeSession \/ Crash

Spec == Init /\ [][Next]_vars

-----------------------------------------------------------------------------
(***************************************************************************)
(* verify_audit_session.  Lines are read in order; the first one that does *)
(* not continue the chain decides.                                         *)
(***************************************************************************)
Continues(i) ==
    /\ file[i].text = "whole"
    /\ file[i].record.sequence = i
    /\ file[i].record.previous = IF i = 1 THEN NoRecord ELSE file[i - 1].record

LineVerdict(i) ==
    IF file[i].text = "whole" /\ file[i].record.sequence # i THEN "RecordMissing"
    ELSE "RecordChanged"

FirstBroken ==
    CHOOSE i \in DOMAIN file : ~Continues(i) /\ \A j \in 1 .. i - 1 : Continues(j)

Verify ==
    IF head = NoHead THEN "HeadMissing"
    ELSE IF file = <<>> THEN "RecordMissing"
    ELSE IF file[Len(file)].text = "torn" THEN "TailTruncated"
    ELSE IF \E i \in DOMAIN file : ~Continues(i) THEN LineVerdict(FirstBroken)
    ELSE IF Len(file) < head.count THEN "RollbackDetected"
    ELSE IF file[head.count].record # head.last THEN "HeadMismatch"
    ELSE IF Len(file) > head.count THEN "Interrupted"
    ELSE IF head.finalized THEN "ValidFinalized"
    ELSE "ValidOpen"

CleanJournalVerifies ==
    ~faulted /\ call = NoCall /\ file # <<>>
        => Verify \in {"ValidOpen", "ValidFinalized"}

NoFalseRollback == Verify \notin {"RollbackDetected", "HeadMismatch"}

AcknowledgedIsKept ==
    \A record \in acked : \E i \in DOMAIN file : file[i].record = record

\* What the verifier says of a journal is true: one none of whose appends failed
\* or was interrupted verifies, whatever operations, finalizations and restarts
\* produced it; a crash or a failed write, at any point of append_record, never
\* looks like tampering with the head, because the line is durable before the
\* head names it; and no later append replaces a record that was acknowledged.
VerdictIsTrue == TypeOK /\ CleanJournalVerifies /\ NoFalseRollback /\ AcknowledgedIsKept

Written(kind, token) ==
    Cardinality({i \in DOMAIN file : /\ file[i].text # "torn"
                                     /\ file[i].record.kind = kind
                                     /\ file[i].record.token = token})

\* No token is finalized more often than it was prepared, nor an operation
\* finished more often than started, although a restart hands out the same
\* token ids again and a failed append consumes its token.
TokensAreSingleUse ==
    \A token \in 1 .. MaxTokens :
        /\ Written("device_write_finalized", token) <= Written("device_write_prepared", token)
        /\ Written("operation_finished", token) <= Written("operation_started", token)
=============================================================================

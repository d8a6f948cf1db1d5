---------------------------- MODULE OperatorProofs ----------------------------
(***************************************************************************)
(* What the operator may rely on: the journal of an audit session          *)
(* (AuditJournal), the profiles and the trust store (Profiles), the        *)
(* backups and the restore plans made of them (Backups), and the prompts   *)
(* of the terminal (Terminal).                                             *)
(*                                                                         *)
(* What the verifier of an audit session concludes is true, and a token is *)
(* used once, for journals of any length, any number of tokens and any     *)
(* number of crashes.  The verdict compares the journal with the head,     *)
(* which lag behind each other between the two writes of an append and     *)
(* forever after a failure of one of them.  The invariant says how far     *)
(* they can be apart, and that they agree on every journal whose chain is  *)
(* unbroken; a broken chain stays broken, so nothing has to be said of the *)
(* others.                                                                 *)
(*                                                                         *)
(* What a write may rely on when it asks for trust, and what a verified    *)
(* drive may be taken for, hold for every set of files, profiles, drives   *)
(* and approve commands, and for any number of edits and starts.           *)
(*                                                                         *)
(* A plan that is on offer restores its source, for every profile, set of  *)
(* files and order of captures, loads, losses and replies.  The invariant  *)
(* says what a capture that has not failed yet has read, and that a plan   *)
(* was made of two complete backups; what the plan does is then a fact     *)
(* about build_restore_plan.                                               *)
(*                                                                         *)
(* What is typed is submitted where it was typed, and what has the keys    *)
(* can be left, for every profile and page and every change of the session *)
(* between two keys: an editor is open on a parameter in view only, and    *)
(* the form has the text of what has the keys (TerminalInv).               *)
(***************************************************************************)
EXTENDS AuditJournal, Profiles, Backups, Terminal, FiniteSetTheorems, WellFoundedInduction, TLAPS

-----------------------------------------------------------------------------
(***************************************************************************)
(* The line an append leaves at the end of the file f: after the others,   *)
(* or in the place of a torn one.                                          *)
(***************************************************************************)
Lines(f) == {f[i] : i \in DOMAIN f}

Torn == file # <<>> /\ file[Len(file)].text = "torn"

Texts == {"whole", "torn", "garbled"}

Extended(f, record, text) ==
    /\ f \in Seq(Lines(f))
    /\ Len(f) = IF Torn THEN Len(file) ELSE Len(file) + 1
    /\ f[Len(f)] = Line(record, text)
    /\ \A i \in 1 .. Len(f) - 1 : f[i] = file[i]
    /\ Torn => text # "whole"

LEMMA LinesOf == ASSUME NEW S, NEW f \in Seq(S) PROVE f \in Seq(Lines(f))
<1>1. f \in [1 .. Len(f) -> Lines(f)] /\ Len(f) \in Nat
  BY DEF Lines
<1> QED BY <1>1

LEMMA AppendLineExtends ==
    ASSUME file \in Seq(Lines(file)), NEW record, NEW text \in {"whole", "torn"}
    PROVE  Extended(AppendLine(record, text), record,
                    IF Torn /\ text = "whole" THEN "garbled" ELSE text)
<1> DEFINE line == Line(record, IF Torn /\ text = "whole" THEN "garbled" ELSE text)
           S == Lines(file) \cup {line}
           f == AppendLine(record, text)
<1>1. file \in Seq(S) /\ line \in S
  <2>1. \A i \in DOMAIN file : file[i] \in S
    BY DEF Lines
  <2> QED BY <2>1
<1>2. CASE Torn
  <2>1. f = [file EXCEPT ![Len(file)] = line]
    BY <1>2 DEF AppendLine, Torn
  <2>2. file # <<>>
    BY <1>2 DEF Torn
  <2> HIDE DEF f, S, line
  <2>3. f \in Seq(S) /\ Len(f) = Len(file) /\ f[Len(f)] = line
        /\ \A i \in 1 .. Len(f) - 1 : f[i] = file[i]
    BY <1>1, <2>1, <2>2
  <2> QED BY <1>2, <2>3, LinesOf DEF Extended, f, line
<1>3. CASE ~Torn
  <2>1. f = Append(file, line)
    BY <1>3 DEF AppendLine, Torn
  <2> HIDE DEF f, S, line
  <2>2. f \in Seq(S) /\ Len(f) = Len(file) + 1 /\ f[Len(f)] = line
        /\ \A i \in 1 .. Len(f) - 1 : f[i] = file[i]
    BY <1>1, <2>1
  <2> QED BY <1>3, <2>2, LinesOf DEF Extended, f, line
<1> QED BY <1>2, <1>3

LEMMA ExtendedKeeps ==
    ASSUME file \in Seq(Lines(file)), NEW f, NEW record, NEW text, Extended(f, record, text)
    PROVE  /\ Len(file) \in Nat /\ DOMAIN file = 1 .. Len(file)
           /\ Len(f) \in Nat /\ DOMAIN f = 1 .. Len(f) /\ f # <<>> /\ Len(f) \in DOMAIN f
           /\ Len(file) <= Len(f) /\ Len(f) <= Len(file) + 1
           /\ \A i \in 1 .. Len(f) - 1 : i \in DOMAIN file /\ f[i] = file[i]
           /\ \A i \in DOMAIN file : file[i].text # "torn" => i \in 1 .. Len(f) - 1
           /\ f[Len(f)].record = record /\ f[Len(f)].text = text
<1>1. /\ f \in Seq(Lines(f)) /\ Len(f) = IF Torn THEN Len(file) ELSE Len(file) + 1
      /\ f[Len(f)] = Line(record, text)
      /\ \A i \in 1 .. Len(f) - 1 : f[i] = file[i]
  BY DEF Extended
<1>2. /\ Len(file) \in Nat /\ DOMAIN file = 1 .. Len(file)
      /\ Len(f) \in Nat /\ DOMAIN f = 1 .. Len(f)
  BY <1>1
<1>3. file # <<>> => Len(file) > 0
  OBVIOUS
<1>4. Torn => Len(file) > 0 /\ file[Len(file)].text = "torn"
  BY <1>3 DEF Torn
<1>5. /\ Len(f) > 0 /\ Len(file) <= Len(f) /\ Len(f) <= Len(file) + 1
      /\ \A i \in 1 .. Len(f) - 1 : i \in DOMAIN file
      /\ \A i \in DOMAIN file : file[i].text # "torn" => i \in 1 .. Len(f) - 1
  BY <1>1, <1>2, <1>4
<1>6. f # <<>> /\ Len(f) \in DOMAIN f
  BY <1>2, <1>5
<1>7. f[Len(f)].record = record /\ f[Len(f)].text = text
  BY <1>1 DEF Line
<1> QED BY <1>1, <1>2, <1>5, <1>6, <1>7

(***************************************************************************)
(* How often a kind of record is written of a token.                       *)
(***************************************************************************)
WrittenAt(f, kind, token) ==
    {i \in DOMAIN f : /\ f[i].text # "torn"
                      /\ f[i].record.kind = kind
                      /\ f[i].record.token = token}

One(b) == IF b THEN 1 ELSE 0

LEMMA WrittenType ==
    ASSUME NEW S, NEW f \in Seq(S), NEW kind, NEW token
    PROVE  /\ IsFiniteSet(WrittenAt(f, kind, token))
           /\ Cardinality(WrittenAt(f, kind, token)) \in Nat
<1>1. IsFiniteSet(1 .. Len(f)) /\ DOMAIN f = 1 .. Len(f)
  BY FS_Interval
<1>2. WrittenAt(f, kind, token) \subseteq 1 .. Len(f)
  BY <1>1 DEF WrittenAt
<1> QED BY <1>1, <1>2, FS_Subset, FS_CardinalityType

LEMMA WrittenGrows ==
    ASSUME file \in Seq(Lines(file)), NEW f, NEW record, NEW text, Extended(f, record, text),
           NEW kind, NEW token
    PROVE  Cardinality(WrittenAt(f, kind, token)) =
              Cardinality(WrittenAt(file, kind, token))
                + One(text # "torn" /\ record.kind = kind /\ record.token = token)
<1> DEFINE old == WrittenAt(file, kind, token)
           adds == text # "torn" /\ record.kind = kind /\ record.token = token
<1>1. IsFiniteSet(old)
  BY WrittenType
<1>2. \A i \in 1 .. Len(f) - 1 : i \in DOMAIN file /\ f[i] = file[i]
  BY ExtendedKeeps
<1>3. /\ DOMAIN f = 1 .. Len(f) /\ Len(f) \in DOMAIN f /\ Len(f) \in Nat
      /\ \A i \in DOMAIN file : file[i].text # "torn" => i \in 1 .. Len(f) - 1
      /\ f[Len(f)].record = record /\ f[Len(f)].text = text
  BY ExtendedKeeps
<1>4. Len(f) \notin old
  BY <1>3 DEF WrittenAt
<1>5. WrittenAt(f, kind, token) = IF adds THEN old \cup {Len(f)} ELSE old
  <2>1. ASSUME NEW i \in 1 .. Len(f) - 1
        PROVE  i \in WrittenAt(f, kind, token) <=> i \in old
    BY <1>2, <1>3 DEF WrittenAt
  <2>2. Len(f) \in WrittenAt(f, kind, token) <=> adds
    BY <1>3 DEF WrittenAt
  <2>3. WrittenAt(f, kind, token) \subseteq 1 .. Len(f) /\ old \subseteq 1 .. Len(f) - 1
    BY <1>3 DEF WrittenAt
  <2>4. 1 .. Len(f) = (1 .. Len(f) - 1) \cup {Len(f)}
    BY <1>3
  <2> HIDE DEF old
  <2>5. CASE adds
    <3>1. Len(f) \in WrittenAt(f, kind, token)
      BY <2>2, <2>5
    <3> QED BY <2>1, <2>3, <2>4, <2>5, <3>1
  <2>6. CASE ~adds
    <3>1. Len(f) \notin WrittenAt(f, kind, token)
      BY <2>2, <2>6
    <3>2. WrittenAt(f, kind, token) = old
      BY <2>1, <2>3, <2>4, <3>1, <1>4
    <3> QED BY <2>6, <3>2
  <2> QED BY <2>5, <2>6
<1> HIDE DEF old
<1>6. Cardinality(old \cup {Len(f)}) = Cardinality(old) + 1 /\ Cardinality(old) \in Nat
  BY <1>1, <1>4, FS_AddElement, FS_CardinalityType
<1> QED BY <1>5, <1>6 DEF One, old

-----------------------------------------------------------------------------
(***************************************************************************)
(* The inductive invariant.  The head names a line of the journal, and if  *)
(* the chain is unbroken it is the line the head was written for.          *)
(***************************************************************************)
Chained == \A i \in DOMAIN file : Continues(i)

HeadInv ==
    /\ head = [count |-> head.count, last |-> head.last,
               open |-> head.open, finalized |-> head.finalized]
    /\ head.count \in Nat /\ head.open \in BOOLEAN /\ head.finalized \in BOOLEAN
    /\ head # NoHead => head.count > 0

FileInv ==
    /\ file \in Seq(Lines(file)) /\ Len(file) <= MaxLines
    /\ \A i \in DOMAIN file : /\ file[i].text \in Texts
                              /\ file[i].record.sequence \in 1 .. MaxLines
                              /\ file[i].record.kind \in Kinds
    /\ head.count <= Len(file)
    /\ Torn => head.count < Len(file)
    /\ head # NoHead /\ Chained => file[head.count].record = head.last
    /\ \A record \in acked :
          \E i \in DOMAIN file : file[i].record = record /\ file[i].text # "torn"

(***************************************************************************)
(* The append in progress continues the chain of the head; once its line   *)
(* is written, that line is the last one.                                  *)
(***************************************************************************)
Starts == {"device_write_prepared", "operation_started"}

CallInv ==
    /\ call.stage \in {"none", "write", "head"}
    /\ call.stage = "none" => call = NoCall
    /\ call.stage # "none" =>
          /\ call = [stage |-> call.stage, record |-> call.record]
          /\ call.record = NextRecord(call.record.kind, call.record.token)
          /\ call.record.kind \in Kinds
          /\ call.record.kind \in Starts => call.record.token \in 1 .. MaxTokens
    /\ call.stage = "write" => Len(file) < MaxLines
    /\ call.stage = "head" => /\ head.count < Len(file) /\ ~Torn
                              /\ file[Len(file)].record = call.record

PortInv ==
    port \in [next : 1 .. MaxTokens + 1, prepared : SUBSET (1 .. MaxTokens),
              operations : SUBSET (1 .. MaxTokens)]

(***************************************************************************)
(* Until an append fails, journal and head are one line apart at most.     *)
(***************************************************************************)
CleanInv == ~faulted =>
    /\ Chained
    /\ Len(file) = IF call.stage = "head" THEN head.count + 1 ELSE head.count

(***************************************************************************)
(* A token that was prepared and not finalized is bound, or is about to be *)
(* bound or finalized by the append in progress; a restart forgets it.     *)
(***************************************************************************)
End(kind) ==
    IF kind = "device_write_prepared" THEN "device_write_finalized" ELSE "operation_finished"

Held(kind) == IF kind = "device_write_prepared" THEN port.prepared ELSE port.operations

BalanceInv == \A kind \in Starts : \A token \in 1 .. MaxTokens :
    Cardinality(WrittenAt(file, End(kind), token))
        + One(token \in Held(kind))
        + One(call.stage = "write" /\ call.record.kind = End(kind) /\ call.record.token = token)
        + One(call.stage = "head" /\ call.record.kind = kind /\ call.record.token = token)
      <= Cardinality(WrittenAt(file, kind, token))

AuditInv ==
    /\ HeadInv /\ FileInv /\ CallInv /\ PortInv /\ CleanInv /\ BalanceInv
    /\ crashes \in 0 .. MaxCrashes /\ faulted \in BOOLEAN

(***************************************************************************)
(* A line continues the chain or breaks it for good.                       *)
(***************************************************************************)
LEMMA ChainExtends ==
    ASSUME file \in Seq(Lines(file)), NEW record, NEW text, Extended(file', record, text)
    PROVE  /\ Chained' => Chained
           /\ Chained' <=> /\ Chained /\ text = "whole"
                           /\ record.sequence = Len(file) + 1
                           /\ record.previous = IF Len(file) = 0 THEN NoRecord
                                                ELSE file[Len(file)].record
<1>1. /\ Len(file) \in Nat /\ DOMAIN file = 1 .. Len(file)
      /\ Len(file') \in Nat /\ DOMAIN file' = 1 .. Len(file') /\ Len(file') \in DOMAIN file'
      /\ Len(file) <= Len(file') /\ Len(file') <= Len(file) + 1
      /\ \A i \in DOMAIN file : file[i].text # "torn" => i \in 1 .. Len(file') - 1
      /\ file'[Len(file')].record = record /\ file'[Len(file')].text = text
  BY ExtendedKeeps
<1>2. \A i \in 1 .. Len(file') - 1 : i \in DOMAIN file /\ file'[i] = file[i]
  BY ExtendedKeeps
<1>3. \A i \in 1 .. Len(file') - 1 : Continues(i)' <=> Continues(i)
  <2> TAKE i \in 1 .. Len(file') - 1
  <2>1. file'[i] = file[i]
    BY <1>2
  <2>2. i # 1 => file'[i - 1] = file[i - 1]
    <3> SUFFICES ASSUME i # 1 PROVE i - 1 \in 1 .. Len(file') - 1
      BY <1>2
    <3> QED BY <1>1
  <2> QED BY <2>1, <2>2 DEF Continues
<1>4. Chained <=> \A i \in DOMAIN file : Continues(i)
  BY DEF Chained
<1>5. Chained' <=> \A i \in DOMAIN file' : Continues(i)'
  BY DEF Chained
<1>0. PICK n : n = Len(file')
  OBVIOUS
<1>6. Continues(n)' <=>
         /\ text = "whole" /\ record.sequence = n
         /\ record.previous = IF n = 1 THEN NoRecord ELSE file[n - 1].record
  <2>1. n # 1 => file'[n - 1] = file[n - 1]
    <3> SUFFICES ASSUME n # 1 PROVE n - 1 \in 1 .. Len(file') - 1
      BY <1>2
    <3> QED BY <1>0, <1>1
  <2>2. file'[n].record = record /\ file'[n].text = text
    BY <1>0, <1>1
  <2> QED BY <2>1, <2>2 DEF Continues
<1>7. \A i \in DOMAIN file : Continues(i) => file[i].text # "torn"
  BY DEF Continues
<1>10. n \in DOMAIN file' /\ n \in Nat /\ DOMAIN file' = (1 .. n - 1) \cup {n}
  BY <1>0, <1>1
<1>8. CASE Torn
  <2>1. Len(file) \in DOMAIN file /\ file[Len(file)].text = "torn"
    <3>1. file # <<>> => Len(file) \in DOMAIN file
      BY <1>1
    <3> QED BY <1>8, <3>1 DEF Torn
  <2>2. ~Chained
    BY <1>7, <2>1 DEF Chained
  <2>3. text # "whole"
    BY <1>8 DEF Extended
  <2>4. ~Continues(n)'
    BY <1>6, <2>3
  <2>5. ~Chained'
    BY <1>5, <1>10, <2>4
  <2> QED BY <2>2, <2>3, <2>5
<1>9. CASE ~Torn
  <2>1. n = Len(file) + 1
    BY <1>0, <1>9 DEF Extended
  <2>2. DOMAIN file = 1 .. n - 1
    BY <1>1, <2>1
  <2>3. Chained <=> \A i \in 1 .. n - 1 : Continues(i)'
    <3>1. \A i \in 1 .. n - 1 : Continues(i)' <=> Continues(i)
      BY <1>0, <1>3
    <3> QED BY <1>4, <2>2, <3>1
  <2>4. Chained' <=> Chained /\ Continues(n)'
    <3>1. Chained' <=> (\A i \in 1 .. n - 1 : Continues(i)') /\ Continues(n)'
      BY <1>5, <1>10
    <3> QED BY <2>3, <3>1
  <2>5. (n = 1 <=> Len(file) = 0) /\ n - 1 = Len(file)
    BY <1>1, <2>1
  <2> QED BY <1>6, <2>1, <2>4, <2>5
<1> QED BY <1>8, <1>9

LEMMA AuditInit == Init => AuditInv
<1> SUFFICES ASSUME Init PROVE AuditInv
  OBVIOUS
<1> USE AuditJournalAssumption
<1>1. file = <<>> /\ Len(file) = 0 /\ DOMAIN file = {} /\ file \in Seq(Lines(file)) /\ ~Torn
  BY DEF Init, Torn
<1>2. head = NoHead /\ head.count = 0 /\ call = NoCall /\ acked = {} /\ port = FreshPort
  BY DEF Init, NoHead
<1>3. HeadInv /\ FileInv /\ CallInv /\ PortInv
  BY <1>1, <1>2 DEF HeadInv, NoHead, FileInv, CallInv, NoCall, PortInv, FreshPort
<1>4. CleanInv
  BY <1>1, <1>2 DEF CleanInv, Chained, NoCall
<1>5. BalanceInv
  <2> SUFFICES ASSUME NEW kind \in Starts, NEW token \in 1 .. MaxTokens
               PROVE  Cardinality(WrittenAt(file, End(kind), token)) + 0 + 0 + 0
                        <= Cardinality(WrittenAt(file, kind, token))
    BY <1>2 DEF BalanceInv, One, Held, FreshPort, NoCall
  <2>1. \A k : WrittenAt(file, k, token) = {}
    BY <1>1 DEF WrittenAt
  <2> QED BY <2>1, FS_EmptySet
<1>6. crashes \in 0 .. MaxCrashes /\ faulted \in BOOLEAN
  <2>1. crashes \in 0 .. MaxCrashes
    BY DEF Init
  <2>2. faulted \in BOOLEAN
    BY DEF Init
  <2> QED BY <2>1, <2>2
<1> QED BY <1>3, <1>4, <1>5, <1>6 DEF AuditInv

(***************************************************************************)
(* The journal write, in full or in part, with the head as it was.         *)
(***************************************************************************)
LEMMA PartialWritesExtend ==
    ASSUME FileInv, NEW record, file' \in PartialWrites(record)
    PROVE  file' = file \/ \E text \in Texts : Extended(file', record, text)
<1>1. file \in Seq(Lines(file))
  BY DEF FileInv
<1>2. file' = AppendLine(record, "torn") => \E text \in Texts : Extended(file', record, text)
  BY <1>1, AppendLineExtends DEF Texts
<1>3. file' = AppendLine(record, "whole") => \E text \in Texts : Extended(file', record, text)
  BY <1>1, AppendLineExtends DEF Texts
<1> QED BY <1>2, <1>3 DEF PartialWrites

LEMMA JournalGrows ==
    ASSUME HeadInv, FileInv, CallInv, call.stage = "write",
           NEW text \in Texts, Extended(file', call.record, text),
           UNCHANGED <<head, acked>>
    PROVE  FileInv' /\ (Torn' <=> text = "torn")
<1> USE AuditJournalAssumption
<1>1. /\ file \in Seq(Lines(file)) /\ Len(file) < MaxLines
      /\ head.count \in Nat /\ head.count <= Len(file)
  BY DEF FileInv, CallInv, HeadInv
<1>2. /\ Len(file) \in Nat /\ DOMAIN file = 1 .. Len(file)
      /\ Len(file') \in Nat /\ DOMAIN file' = 1 .. Len(file') /\ Len(file') \in DOMAIN file'
      /\ file' # <<>>
      /\ Len(file) <= Len(file') /\ Len(file') <= Len(file) + 1
      /\ \A i \in DOMAIN file : file[i].text # "torn" => i \in 1 .. Len(file') - 1
      /\ file'[Len(file')].record = call.record /\ file'[Len(file')].text = text
  BY <1>1, ExtendedKeeps
<1>3. \A i \in 1 .. Len(file') - 1 : i \in DOMAIN file /\ file'[i] = file[i]
  BY <1>1, ExtendedKeeps
<1>4. call.record.kind \in Kinds /\ call.record.sequence = head.count + 1
  BY DEF CallInv, NextRecord, Record
<1>5. Torn' <=> text = "torn"
  BY <1>2 DEF Torn
<1>6. file' \in Seq(Lines(file')) /\ Len(file') <= MaxLines
  BY <1>1, <1>2 DEF Extended
<1>7. \A i \in DOMAIN file' : /\ file'[i].text \in Texts
                              /\ file'[i].record.sequence \in 1 .. MaxLines
                              /\ file'[i].record.kind \in Kinds
  <2> TAKE i \in DOMAIN file'
  <2>1. CASE i = Len(file')
    <3>1. head.count + 1 \in 1 .. MaxLines
      BY <1>1, <1>2
    <3> QED BY <1>2, <1>4, <2>1, <3>1
  <2>2. CASE i # Len(file')
    <3>1. i \in 1 .. Len(file') - 1
      BY <1>2, <2>2
    <3> QED BY <1>3, <3>1 DEF FileInv
  <2> QED BY <2>1, <2>2
<1>8. head.count < Len(file')
  <2>1. CASE Torn
    BY <1>1, <1>2, <2>1 DEF FileInv
  <2>2. CASE ~Torn
    <3>1. Len(file') = Len(file) + 1
      BY <2>2 DEF Extended
    <3> QED BY <1>1, <1>2, <3>1
  <2> QED BY <2>1, <2>2
<1>9. head # NoHead /\ Chained' => file'[head.count].record = head.last
  <2> SUFFICES ASSUME head # NoHead, Chained' PROVE file'[head.count].record = head.last
    OBVIOUS
  <2>1. Chained
    BY <1>1, ChainExtends
  <2>2. file[head.count].record = head.last
    BY <2>1 DEF FileInv
  <2>3. head.count \in 1 .. Len(file') - 1
    BY <1>1, <1>2, <1>8 DEF HeadInv
  <2> QED BY <1>3, <2>2, <2>3
<1>10. \A record \in acked :
          \E i \in DOMAIN file' : file'[i].record = record /\ file'[i].text # "torn"
  <2> TAKE record \in acked
  <2>1. PICK i \in DOMAIN file : file[i].record = record /\ file[i].text # "torn"
    BY DEF FileInv
  <2>2. i \in 1 .. Len(file') - 1
    BY <1>2, <2>1
  <2>3. i \in DOMAIN file'
    BY <1>2, <2>2
  <2> QED BY <1>3, <2>1, <2>2, <2>3
<1>11. head' = head /\ acked' = acked
  OBVIOUS
<1>12. head'.count <= Len(file')
  BY <1>1, <1>2, <1>8, <1>11
<1> QED BY <1>5, <1>6, <1>7, <1>8, <1>9, <1>10, <1>11, <1>12 DEF FileInv

(***************************************************************************)
(* The head write names the line that was just written.                    *)
(***************************************************************************)
LEMMA HeadMoves ==
    ASSUME HeadInv, FileInv, CallInv, call.stage = "head",
           head' = NewHead(call.record), UNCHANGED file,
           acked' \in {acked, acked \cup {call.record}}
    PROVE  HeadInv' /\ FileInv' /\ head'.count = head.count + 1
<1> USE AuditJournalAssumption
<1>1. /\ file \in Seq(Lines(file)) /\ Len(file) <= MaxLines
      /\ head.count < Len(file) /\ ~Torn /\ file[Len(file)].record = call.record
      /\ call.record.sequence = head.count + 1
      /\ head.count \in Nat
  BY DEF FileInv, CallInv, HeadInv, NextRecord, Record
<1>2. Len(file) \in Nat /\ DOMAIN file = 1 .. Len(file) /\ Len(file) \in DOMAIN file
  BY <1>1
<1>3. /\ head'.count = head.count + 1 /\ head'.last = call.record
      /\ head'.open = TRUE /\ head'.finalized = FALSE
      /\ head' = [count |-> head'.count, last |-> head'.last,
                  open |-> head'.open, finalized |-> head'.finalized]
  BY <1>1 DEF NewHead
<1>4. HeadInv'
  <2>1. head.count + 1 \in Nat /\ head.count + 1 > 0
    BY <1>1
  <2> QED BY <1>3, <2>1 DEF HeadInv
<1>5. Chained => file[head.count + 1].record = call.record
  <2> SUFFICES ASSUME Chained PROVE file[head.count + 1].record = call.record
    OBVIOUS
  <2>1. file[Len(file)].record.sequence = Len(file)
    BY <1>2 DEF Chained, Continues
  <2> QED BY <1>1, <2>1
<1>6. Torn' = FALSE /\ (Chained' <=> Chained) /\ file' = file
  BY <1>1 DEF Torn, Chained, Continues
<1>7. \A record \in acked' :
         \E i \in DOMAIN file : file[i].record = record /\ file[i].text # "torn"
  <2>1. file[Len(file)].text # "torn"
    BY <1>1, <1>2 DEF Torn
  <2> QED BY <1>1, <1>2, <2>1 DEF FileInv
<1>8. head'.count <= Len(file)
  BY <1>1, <1>2, <1>3
<1>9. FileInv'
  BY <1>3, <1>5, <1>6, <1>7, <1>8 DEF FileInv
<1> QED BY <1>3, <1>4, <1>9

(***************************************************************************)
(* Beginning an append.                                                    *)
(***************************************************************************)
LEMMA CallStarts ==
    ASSUME AuditInv, CanCall, NEW kind \in Kinds, NEW token,
           kind \in Starts => token \in 1 .. MaxTokens,
           StartAppend(kind, token), UNCHANGED <<file, head, crashes, faulted, acked>>
    PROVE  /\ HeadInv' /\ FileInv' /\ CallInv' /\ CleanInv'
           /\ crashes' \in 0 .. MaxCrashes /\ faulted' \in BOOLEAN
           /\ call'.stage \in {"none", "write"}
           /\ call'.stage = "write" => call'.record.kind = kind /\ call'.record.token = token
<1>1. /\ HeadInv /\ FileInv /\ CleanInv /\ call = NoCall /\ call.stage = "none"
      /\ Len(file) < MaxLines
  BY DEF AuditInv, CanCall, NoCall
<1>2. HeadInv' /\ FileInv' /\ (Chained' <=> Chained)
  BY <1>1 DEF HeadInv, FileInv, Chained, Torn, Continues
<1>3. \/ call' = NoCall
      \/ call' = [stage |-> "write", record |-> NextRecord(kind, token)]
  BY DEF StartAppend
<1>4. /\ call'.stage \in {"none", "write"}
      /\ call'.stage = "none" => call' = NoCall
      /\ call'.stage # "none" =>
            /\ call' = [stage |-> call'.stage, record |-> call'.record]
            /\ call'.record = NextRecord(kind, token)
            /\ call'.record.kind = kind /\ call'.record.token = token
  BY <1>3 DEF NoCall, NextRecord, Record
<1>5. NextRecord(kind, token)' = NextRecord(kind, token)
  BY DEF NextRecord
<1>6. CallInv'
  BY <1>1, <1>4, <1>5 DEF CallInv, NextRecord
<1>7. CleanInv'
  BY <1>1, <1>2, <1>4 DEF CleanInv
<1> QED BY <1>2, <1>4, <1>6, <1>7 DEF AuditInv

(***************************************************************************)
(* A token is owed to the chain as often as it is held or being recorded.  *)
(***************************************************************************)
Owed(kind, token) ==
    One(token \in Held(kind))
        + One(call.stage = "write" /\ call.record.kind = End(kind) /\ call.record.token = token)
        + One(call.stage = "head" /\ call.record.kind = kind /\ call.record.token = token)

LEMMA BalanceKept ==
    ASSUME file \in Seq(Lines(file)), BalanceInv, UNCHANGED file,
           \A kind \in Starts : \A token \in 1 .. MaxTokens :
              Owed(kind, token)' <= Owed(kind, token)
    PROVE  BalanceInv'
<1> SUFFICES ASSUME NEW kind \in Starts, NEW token \in 1 .. MaxTokens
             PROVE  (Cardinality(WrittenAt(file, End(kind), token))
                        + One(token \in Held(kind))
                        + One(call.stage = "write" /\ call.record.kind = End(kind)
                                /\ call.record.token = token)
                        + One(call.stage = "head" /\ call.record.kind = kind
                                /\ call.record.token = token)
                      <= Cardinality(WrittenAt(file, kind, token)))'
  BY DEF BalanceInv
<1>1. /\ Cardinality(WrittenAt(file, End(kind), token)) \in Nat
      /\ Cardinality(WrittenAt(file, kind, token)) \in Nat
  BY WrittenType
<1>2. Cardinality(WrittenAt(file, End(kind), token)) + Owed(kind, token)
        <= Cardinality(WrittenAt(file, kind, token))
  BY <1>1 DEF BalanceInv, Owed, One
<1>3. Owed(kind, token)' <= Owed(kind, token) /\ Owed(kind, token) \in Nat
      /\ Owed(kind, token)' \in Nat
  BY DEF Owed, One
<1> HIDE DEF Owed
<1>4. Cardinality(WrittenAt(file, End(kind), token)) + Owed(kind, token)'
        <= Cardinality(WrittenAt(file, kind, token))
  BY <1>1, <1>2, <1>3
<1> QED BY <1>1, <1>4 DEF Owed, One

LEMMA BalanceGrows ==
    ASSUME file \in Seq(Lines(file)), BalanceInv, CallInv, call.stage = "write",
           NEW text, Extended(file', call.record, text),
           \A kind \in Starts : Held(kind)' \subseteq Held(kind),
           \/ call' = NoCall
           \/ text # "torn" /\ call'.stage = "head" /\ call'.record = call.record
    PROVE  BalanceInv'
<1> SUFFICES ASSUME NEW kind \in Starts, NEW token \in 1 .. MaxTokens
             PROVE  (Cardinality(WrittenAt(file, End(kind), token))
                        + One(token \in Held(kind))
                        + One(call.stage = "write" /\ call.record.kind = End(kind)
                                /\ call.record.token = token)
                        + One(call.stage = "head" /\ call.record.kind = kind
                                /\ call.record.token = token)
                      <= Cardinality(WrittenAt(file, kind, token)))'
  BY DEF BalanceInv
<1> DEFINE e == Cardinality(WrittenAt(file, End(kind), token))
           w == Cardinality(WrittenAt(file, kind, token))
           adds(k) == One(text # "torn" /\ call.record.kind = k /\ call.record.token = token)
<1>1. e \in Nat /\ w \in Nat
  BY WrittenType
<1>2. Cardinality(WrittenAt(file', End(kind), token)) = e + adds(End(kind))
  BY WrittenGrows
<1>3. Cardinality(WrittenAt(file', kind, token)) = w + adds(kind)
  BY WrittenGrows
<1> HIDE DEF e, w
<1>4. e + One(token \in Held(kind))
        + One(call.record.kind = End(kind) /\ call.record.token = token) <= w
  BY <1>1 DEF BalanceInv, One, e, w
<1>5. One(token \in Held(kind)') <= One(token \in Held(kind))
  BY DEF One
<1>6. One(token \in Held(kind)) \in {0, 1} /\ One(token \in Held(kind)') \in {0, 1}
  BY DEF One
<1> DEFINE h == One(token \in Held(kind))
           g == One(token \in Held(kind)')
<1>7. h \in Nat /\ g \in Nat /\ g <= h
  BY <1>5, <1>6
<1> HIDE DEF h, g
<1>8. CASE call' = NoCall
  <2>1. (e + adds(End(kind))) + g + 0 + 0 <= w + adds(kind)
    <3>1. e + h + One(call.record.kind = End(kind) /\ call.record.token = token) <= w
      BY <1>4 DEF h
    <3> QED BY <1>1, <1>7, <3>1 DEF One
  <2> QED BY <1>2, <1>3, <1>8, <2>1 DEF NoCall, One, g
<1>9. CASE text # "torn" /\ call'.stage = "head" /\ call'.record = call.record
  <2>1. (e + adds(End(kind))) + g + 0 + adds(kind) <= w + adds(kind)
    <3>1. e + h + One(call.record.kind = End(kind) /\ call.record.token = token) <= w
      BY <1>4 DEF h
    <3> QED BY <1>1, <1>7, <1>9, <3>1 DEF One
  <2>2. adds(kind) = One(call'.stage = "head" /\ call'.record.kind = kind
                           /\ call'.record.token = token)
    BY <1>9
  <2>3. 0 = One(call'.stage = "write" /\ call'.record.kind = End(kind)
                  /\ call'.record.token = token)
    BY <1>9 DEF One
  <2> QED BY <1>2, <1>3, <2>1, <2>2, <2>3 DEF g
<1> QED BY <1>8, <1>9

(***************************************************************************)
(* Every step keeps the invariant.                                         *)
(***************************************************************************)
LEMMA AuditStep ==
    ASSUME AuditInv, [Next]_vars
    PROVE  AuditInv'
<1> USE AuditJournalAssumption
<1>0. /\ HeadInv /\ FileInv /\ CallInv /\ PortInv /\ CleanInv /\ BalanceInv
      /\ crashes \in 0 .. MaxCrashes /\ faulted \in BOOLEAN
      /\ file \in Seq(Lines(file))
  BY DEF AuditInv, FileInv
<1>1. CASE RecordDecision
  <2>1. /\ CanCall /\ StartAppend("decision", 0)
        /\ UNCHANGED <<file, head, port, crashes, faulted, acked>> /\ call = NoCall
    BY <1>1 DEF RecordDecision, CanCall
  <2>2. /\ HeadInv' /\ FileInv' /\ CallInv' /\ CleanInv'
        /\ crashes' \in 0 .. MaxCrashes /\ faulted' \in BOOLEAN
        /\ call'.stage \in {"none", "write"}
        /\ call'.stage = "write" => call'.record.kind = "decision"
    BY <2>1, CallStarts DEF Kinds, Starts
  <2>3. BalanceInv'
    <3>1. \A kind \in Starts : \A token \in 1 .. MaxTokens :
             Owed(kind, token)' <= Owed(kind, token)
      BY <2>1, <2>2 DEF Owed, One, Held, Starts, End
    <3> QED BY <1>0, <2>1, <3>1, BalanceKept
  <2>4. PortInv'
    BY <1>0, <2>1 DEF PortInv
  <2> QED BY <2>2, <2>3, <2>4 DEF AuditInv
<1>2. ASSUME NEW kind \in Starts, CanCall, port.next <= MaxTokens,
             port' = [port EXCEPT !.next = @ + 1], StartAppend(kind, port.next),
             UNCHANGED <<file, head, crashes, faulted, acked>>
      PROVE  AuditInv'
  <2>1. port.next \in 1 .. MaxTokens /\ kind \in Kinds
    BY <1>0, <1>2 DEF PortInv, Starts, Kinds
  <2>2. /\ HeadInv' /\ FileInv' /\ CallInv' /\ CleanInv'
        /\ crashes' \in 0 .. MaxCrashes /\ faulted' \in BOOLEAN
        /\ call'.stage \in {"none", "write"}
        /\ call'.stage = "write" => call'.record.kind = kind
    BY <1>2, <2>1, CallStarts
  <2>3. PortInv' /\ port'.prepared = port.prepared /\ port'.operations = port.operations
    BY <1>0, <1>2, <2>1 DEF PortInv
  <2>4. BalanceInv'
    <3>1. \A k \in Starts : \A token \in 1 .. MaxTokens :
             Owed(k, token)' <= Owed(k, token)
      BY <1>2, <2>2, <2>3 DEF Owed, One, Held, Starts, End
    <3> QED BY <1>0, <1>2, <3>1, BalanceKept
  <2> QED BY <2>2, <2>3, <2>4 DEF AuditInv
<1>3. CASE PrepareDeviceWrite \/ BeginOperation
  BY <1>2, <1>3 DEF PrepareDeviceWrite, BeginOperation, Starts
<1>4. ASSUME NEW kind \in Starts, CanCall, NEW token \in Held(kind),
             port' = IF kind = "device_write_prepared"
                     THEN [port EXCEPT !.prepared = @ \ {token}]
                     ELSE [port EXCEPT !.operations = @ \ {token}],
             StartAppend(End(kind), token),
             UNCHANGED <<file, head, crashes, faulted, acked>>
      PROVE  AuditInv'
  <2>1. End(kind) \in Kinds /\ End(kind) \notin Starts /\ call = NoCall
    BY <1>4 DEF End, Starts, Kinds, CanCall
  <2>2. /\ HeadInv' /\ FileInv' /\ CallInv' /\ CleanInv'
        /\ crashes' \in 0 .. MaxCrashes /\ faulted' \in BOOLEAN
        /\ call'.stage \in {"none", "write"}
        /\ call'.stage = "write" => call'.record.kind = End(kind) /\ call'.record.token = token
    BY <1>4, <2>1, CallStarts
  <2>3. PortInv'
    BY <1>0, <1>4 DEF PortInv
  <2>4. BalanceInv'
    <3>1. \A k \in Starts : Held(k)' = IF k = kind THEN Held(k) \ {token} ELSE Held(k)
      BY <1>0, <1>4 DEF Held, Starts, PortInv
    <3>2. \A k \in Starts : End(k) = End(kind) => k = kind
      BY DEF Starts, End
    <3>3. ASSUME NEW k \in Starts, NEW t \in 1 .. MaxTokens
          PROVE  Owed(k, t)' <= Owed(k, t)
      <4>1. Owed(k, t) = One(t \in Held(k)) + 0 + 0
        BY <2>1 DEF Owed, One, NoCall
      <4>2. Owed(k, t)' = One(t \in Held(k)') + One(call'.stage = "write"
               /\ call'.record.kind = End(k) /\ call'.record.token = t) + 0
        BY <2>2 DEF Owed, One, End
      <4>3. CASE k = kind /\ t = token
        <5>1. t \in Held(k) /\ t \notin Held(k)'
          BY <3>1, <4>3, <1>4
        <5> QED BY <4>1, <4>2, <5>1 DEF One
      <4>4. CASE ~(k = kind /\ t = token)
        <5>1. Held(k)' \subseteq Held(k)
              /\ ~(call'.stage = "write" /\ call'.record.kind = End(k) /\ call'.record.token = t)
          BY <2>2, <3>1, <3>2, <4>4
        <5> QED BY <4>1, <4>2, <5>1 DEF One
      <4> QED BY <4>3, <4>4
    <3> QED BY <1>0, <1>4, <3>3, BalanceKept
  <2> QED BY <2>2, <2>3, <2>4 DEF AuditInv
<1>5. CASE FinalizeDeviceWrite \/ FinishOperation
  <2>1. CASE FinalizeDeviceWrite
    BY <1>4, <2>1 DEF FinalizeDeviceWrite, Starts, Held, End
  <2>2. CASE FinishOperation
    BY <1>4, <2>2 DEF FinishOperation, Starts, Held, End
  <2> QED BY <1>5, <2>1, <2>2
<1>6. CASE WriteJournal
  <2>1. /\ call.stage = "write" /\ file' = AppendLine(call.record, "whole")
        /\ call' = [call EXCEPT !.stage = "head"]
        /\ UNCHANGED <<head, port, crashes, faulted, acked>>
    BY <1>6 DEF WriteJournal
  <2> DEFINE text == IF Torn THEN "garbled" ELSE "whole"
  <2>2. Extended(file', call.record, text) /\ text \in Texts /\ text # "torn"
    BY <1>0, <2>1, AppendLineExtends DEF Texts
  <2>3. FileInv' /\ ~Torn'
    BY <1>0, <2>1, <2>2, JournalGrows
  <2>4. /\ Len(file) \in Nat /\ Len(file') \in Nat
        /\ Len(file) <= Len(file') /\ Len(file') <= Len(file) + 1
        /\ file'[Len(file')].record = call.record
    BY <1>0, <2>2, ExtendedKeeps
  <2>5. /\ call = [stage |-> call.stage, record |-> call.record]
        /\ call.record = NextRecord(call.record.kind, call.record.token)
        /\ call.record.kind \in Kinds
        /\ call.record.kind \in Starts => call.record.token \in 1 .. MaxTokens
        /\ head.count \in Nat /\ head.count <= Len(file) /\ (Torn => head.count < Len(file))
    BY <1>0, <2>1 DEF CallInv, HeadInv, FileInv
  <2>6. call'.stage = "head" /\ call'.record = call.record
        /\ call' = [stage |-> call'.stage, record |-> call'.record]
    BY <2>1, <2>5
  <2>7. head.count < Len(file')
    <3>1. ~Torn => Len(file') = Len(file) + 1
      BY <2>2 DEF Extended
    <3> QED BY <2>4, <2>5, <3>1
  <2>8. CallInv'
    <3>1. NextRecord(call.record.kind, call.record.token)'
             = NextRecord(call.record.kind, call.record.token)
      BY <2>1, <2>6 DEF NextRecord
    <3> QED BY <2>1, <2>3, <2>4, <2>5, <2>6, <2>7, <3>1 DEF CallInv
  <2>9. CleanInv'
    <3> SUFFICES ASSUME ~faulted
                 PROVE  Chained' /\ Len(file') = head.count + 1
      BY <2>1, <2>6 DEF CleanInv
    <3>1. Chained /\ Len(file) = head.count
      BY <1>0, <2>1 DEF CleanInv
    <3>2. ~Torn
      <4>1. ASSUME file # <<>> PROVE file[Len(file)].text # "torn"
        <5>1. Len(file) \in DOMAIN file
          BY <1>0, <4>1
        <5> QED BY <3>1, <5>1 DEF Chained, Continues
      <4> QED BY <4>1 DEF Torn
    <3>3. Len(file') = Len(file) + 1
      BY <2>2, <3>2 DEF Extended
    <3>4. call.record.previous = IF Len(file) = 0 THEN NoRecord ELSE file[Len(file)].record
      <4>1. call.record.previous = head.last
        BY <2>5 DEF NextRecord, Record
      <4>2. head.count = 0 => head.last = NoRecord
        BY <1>0 DEF HeadInv, NoHead
      <4>3. head.count # 0 => file[head.count].record = head.last
        BY <1>0, <3>1 DEF HeadInv, FileInv, NoHead
      <4> QED BY <3>1, <4>1, <4>2, <4>3
    <3>5. call.record.sequence = Len(file) + 1
      BY <2>5, <3>1 DEF NextRecord, Record
    <3>6. Chained'
      BY <1>0, <2>2, <3>1, <3>2, <3>4, <3>5, ChainExtends
    <3> QED BY <3>1, <3>3, <3>6
  <2>10. BalanceInv'
    <3>1. \A kind \in Starts : Held(kind)' \subseteq Held(kind)
      BY <2>1 DEF Held
    <3> QED BY <1>0, <2>1, <2>2, <2>6, <3>1, BalanceGrows
  <2>11. HeadInv' /\ PortInv'
    BY <1>0, <2>1 DEF HeadInv, PortInv
  <2> QED BY <1>0, <2>1, <2>3, <2>8, <2>9, <2>10, <2>11 DEF AuditInv
<1>7. ASSUME call' = NoCall, HeadInv', FileInv'
      PROVE  CallInv'
  BY <1>7 DEF CallInv, NoCall
<1>8. ASSUME call.stage = "write", file' \in PartialWrites(call.record), UNCHANGED <<head, acked>>,
             call' = NoCall, \A kind \in Starts : Held(kind)' \subseteq Held(kind)
      PROVE  HeadInv' /\ FileInv' /\ BalanceInv'
  <2>1. HeadInv'
    BY <1>0, <1>8 DEF HeadInv
  <2>2. file' = file \/ \E text \in Texts : Extended(file', call.record, text)
    BY <1>0, <1>8, PartialWritesExtend
  <2>3. CASE file' = file
    <3>1. FileInv'
      BY <1>0, <1>8, <2>3 DEF FileInv, Torn, Chained, Continues
    <3>2. \A kind \in Starts : \A token \in 1 .. MaxTokens :
             Owed(kind, token)' <= Owed(kind, token)
      BY <1>8 DEF Owed, One, NoCall
    <3> QED BY <1>0, <2>1, <2>3, <3>1, <3>2, BalanceKept
  <2>4. CASE \E text \in Texts : Extended(file', call.record, text)
    <3>1. PICK text \in Texts : Extended(file', call.record, text)
      BY <2>4
    <3>2. FileInv'
      BY <1>0, <1>8, <3>1, JournalGrows
    <3>3. BalanceInv'
      BY <1>0, <1>8, <3>1, BalanceGrows
    <3> QED BY <2>1, <3>2, <3>3
  <2> QED BY <2>2, <2>3, <2>4
<1>9. CASE WriteJournalFails
  <2>1. /\ call.stage = "write" /\ file' \in PartialWrites(call.record)
        /\ call' = NoCall /\ faulted' = TRUE
        /\ UNCHANGED <<head, port, crashes, acked>>
    BY <1>9 DEF WriteJournalFails
  <2>2. HeadInv' /\ FileInv' /\ BalanceInv'
    BY <1>8, <2>1 DEF Held
  <2>3. CallInv' /\ CleanInv' /\ PortInv'
    BY <1>0, <1>7, <2>1, <2>2 DEF CleanInv, PortInv
  <2> QED BY <1>0, <2>1, <2>2, <2>3 DEF AuditInv
<1>10. CASE WriteHead
  <2>1. /\ call.stage = "head" /\ head' = NewHead(call.record)
        /\ port' = Bound(call.record) /\ acked' = acked \cup {call.record}
        /\ call' = NoCall /\ UNCHANGED <<file, crashes, faulted>>
    BY <1>10 DEF WriteHead
  <2>2. HeadInv' /\ FileInv' /\ head'.count = head.count + 1
    BY <1>0, <2>1, HeadMoves
  <2>3. call.record.kind \in Starts => call.record.token \in 1 .. MaxTokens
    BY <1>0, <2>1 DEF CallInv
  <2>4. PortInv' /\ \A kind \in Starts :
           Held(kind)' = IF call.record.kind = kind THEN Held(kind) \cup {call.record.token}
                         ELSE Held(kind)
    BY <1>0, <2>1, <2>3 DEF PortInv, Bound, Held, Starts
  <2>5. CleanInv'
    BY <1>0, <2>1, <2>2 DEF CleanInv, Chained, Continues, NoCall
  <2>6. BalanceInv'
    <3>1. ASSUME NEW kind \in Starts, NEW token \in 1 .. MaxTokens
          PROVE  Owed(kind, token)' <= Owed(kind, token)
      <4>1. Owed(kind, token)' = One(token \in Held(kind)') + 0 + 0
        BY <2>1 DEF Owed, One, NoCall
      <4>2. Owed(kind, token) = One(token \in Held(kind)) + 0
               + One(call.record.kind = kind /\ call.record.token = token)
        BY <2>1 DEF Owed, One
      <4> QED BY <2>4, <4>1, <4>2 DEF One
    <3> QED BY <1>0, <2>1, <3>1, BalanceKept
  <2> QED BY <1>0, <1>7, <2>1, <2>2, <2>4, <2>5, <2>6 DEF AuditInv
<1>11. ASSUME call.stage = "head", head' \in {head, NewHead(call.record)}, UNCHANGED <<file, acked>>,
              call' = NoCall, \A kind \in Starts : Held(kind)' \subseteq Held(kind)
       PROVE  HeadInv' /\ FileInv' /\ BalanceInv'
  <2>1. HeadInv' /\ FileInv'
    <3>1. CASE head' = head
      BY <1>0, <1>11, <3>1 DEF HeadInv, FileInv, Torn, Chained, Continues
    <3>2. CASE head' = NewHead(call.record)
      BY <1>0, <1>11, <3>2, HeadMoves
    <3> QED BY <1>11, <3>1, <3>2
  <2>2. \A kind \in Starts : \A token \in 1 .. MaxTokens :
           Owed(kind, token)' <= Owed(kind, token)
    BY <1>11 DEF Owed, One, NoCall
  <2> QED BY <1>0, <1>11, <2>1, <2>2, BalanceKept
<1>12. CASE WriteHeadFails
  <2>1. /\ call.stage = "head" /\ head' \in {head, NewHead(call.record)}
        /\ call' = NoCall /\ faulted' = TRUE
        /\ UNCHANGED <<file, port, crashes, acked>>
    BY <1>12 DEF WriteHeadFails
  <2>2. HeadInv' /\ FileInv' /\ BalanceInv'
    BY <1>11, <2>1 DEF Held
  <2>3. CallInv' /\ CleanInv' /\ PortInv'
    BY <1>0, <1>7, <2>1, <2>2 DEF CleanInv, PortInv
  <2> QED BY <1>0, <2>1, <2>2, <2>3 DEF AuditInv
<1>13. ASSUME call = NoCall, UNCHANGED <<file, head, faulted, acked, call>>,
              \A kind \in Starts : Held(kind)' \subseteq Held(kind)
       PROVE  HeadInv' /\ FileInv' /\ CallInv' /\ CleanInv' /\ BalanceInv'
  <2>1. HeadInv' /\ FileInv' /\ CallInv' /\ CleanInv'
    BY <1>0, <1>13 DEF HeadInv, FileInv, CallInv, CleanInv, Torn, Chained, Continues, NoCall
  <2>2. \A kind \in Starts : \A token \in 1 .. MaxTokens :
           Owed(kind, token)' <= Owed(kind, token)
    BY <1>13 DEF Owed, One, NoCall
  <2> QED BY <1>0, <1>13, <2>1, <2>2, BalanceKept
<1>14. CASE FinalizeSession
  <2>1. /\ call = NoCall /\ head # NoHead
        /\ head' = [head EXCEPT !.open = FALSE, !.finalized = TRUE]
        /\ UNCHANGED <<file, port, call, crashes, faulted, acked>>
    BY <1>14 DEF FinalizeSession
  <2>2. /\ head'.count = head.count /\ head'.last = head.last
        /\ head'.open = FALSE /\ head'.finalized = TRUE
        /\ head' = [count |-> head'.count, last |-> head'.last,
                    open |-> head'.open, finalized |-> head'.finalized]
    BY <1>0, <2>1 DEF HeadInv
  <2>3. HeadInv'
    BY <1>0, <2>1, <2>2 DEF HeadInv
  <2>4. FileInv'
    BY <1>0, <2>1, <2>2 DEF FileInv, Torn, Chained, Continues
  <2>5. CleanInv'
    BY <1>0, <2>1, <2>2 DEF CleanInv, Chained, Continues
  <2>6. BalanceInv'
    <3>1. \A kind \in Starts : \A token \in 1 .. MaxTokens :
             Owed(kind, token)' <= Owed(kind, token)
      BY <2>1 DEF Owed, One, NoCall, Held
    <3> QED BY <1>0, <2>1, <3>1, BalanceKept
  <2>7. PortInv' /\ CallInv'
    BY <1>0, <1>7, <2>1, <2>3, <2>4 DEF PortInv
  <2> QED BY <1>0, <2>1, <2>3, <2>4, <2>5, <2>6, <2>7 DEF AuditInv
<1>15. CASE Crash
  <2>1. /\ crashes < MaxCrashes /\ crashes' = crashes + 1
        /\ file' \in (IF call.stage = "write" THEN PartialWrites(call.record) ELSE {file})
        /\ head' \in (IF call.stage = "head" THEN {head, NewHead(call.record)} ELSE {head})
        /\ port' = FreshPort /\ call' = NoCall /\ UNCHANGED acked
    BY <1>15 DEF Crash
  <2>2. faulted' = (faulted \/ call # NoCall)
    BY <1>15 DEF Crash
  <2>3. \A kind \in Starts : Held(kind)' \subseteq Held(kind)
    BY <2>1 DEF Held, FreshPort
  <2>4. PortInv' /\ crashes' \in 0 .. MaxCrashes
    BY <1>0, <2>1 DEF PortInv, FreshPort
  <2>5. faulted' \in BOOLEAN
    BY <2>2
  <2>6. CASE call.stage = "none"
    <3>1. call = NoCall /\ faulted' = faulted
      BY <1>0, <2>2, <2>6 DEF CallInv
    <3> QED BY <1>13, <2>1, <2>3, <2>4, <2>5, <2>6, <3>1 DEF AuditInv
  <2>7. CASE call.stage # "none"
    <3>1. faulted'
      <4>1. call # NoCall
        BY <2>7 DEF NoCall
      <4> QED BY <2>2, <4>1, Zenon
    <3>2. HeadInv' /\ FileInv' /\ BalanceInv'
      BY <1>0, <1>8, <1>11, <2>1, <2>3, <2>7 DEF CallInv
    <3> QED BY <1>7, <2>1, <2>4, <2>5, <3>1, <3>2 DEF AuditInv, CleanInv
  <2> QED BY <2>6, <2>7
<1>16. CASE UNCHANGED vars
  BY <1>0, <1>16 DEF vars, AuditInv, HeadInv, FileInv, CallInv, PortInv, CleanInv, BalanceInv,
     Torn, Chained, Continues, Held, NextRecord
<1> QED
  BY <1>1, <1>3, <1>5, <1>6, <1>9, <1>10, <1>12, <1>14, <1>15, <1>16 DEF Next

LEMMA SpecAuditInv == Spec => []AuditInv
<1>1. AuditInv /\ [Next]_vars => AuditInv'
  BY AuditStep
<1> QED BY <1>1, AuditInit, PTL DEF Spec

-----------------------------------------------------------------------------
\* A journal none of whose appends failed or was interrupted verifies; no crash and no
\* failed write of append_record ever looks like tampering with the head; a record that
\* was acknowledged is kept.
THEOREM VerdictAlwaysTrue == Spec => []VerdictIsTrue
<1> SUFFICES AuditInv => VerdictIsTrue
  BY SpecAuditInv, PTL
<1> SUFFICES ASSUME AuditInv PROVE VerdictIsTrue
  OBVIOUS
<1>0. /\ HeadInv /\ FileInv /\ CallInv /\ PortInv /\ CleanInv
      /\ crashes \in 0 .. MaxCrashes /\ faulted \in BOOLEAN
      /\ Len(file) \in Nat /\ DOMAIN file = 1 .. Len(file)
  BY DEF AuditInv, FileInv
<1>1. TypeOK
  <2>1. head.count \in 0 .. MaxLines
    BY <1>0, AuditJournalAssumption DEF HeadInv, FileInv
  <2>2. {head.open, head.finalized} \subseteq BOOLEAN
    BY <1>0 DEF HeadInv
  <2> QED BY <1>0, <2>1, <2>2 DEF FileInv, CallInv, PortInv, TypeOK, Texts
<1>2. \A verdict \in {"HeadMissing", "RecordMissing", "RecordChanged", "TailTruncated",
                      "Interrupted", "ValidOpen", "ValidFinalized"} :
         verdict \notin {"RollbackDetected", "HeadMismatch"}
  OBVIOUS
<1>3. NoFalseRollback
  <2>1. ASSUME head # NoHead, ~(\E i \in DOMAIN file : ~Continues(i))
        PROVE  ~(Len(file) < head.count) /\ file[head.count].record = head.last
    <3>1. Chained
      BY <2>1 DEF Chained
    <3>2. file[head.count].record = head.last
      BY <1>0, <2>1, <3>1 DEF FileInv
    <3>3. ~(Len(file) < head.count)
      BY <1>0 DEF FileInv, HeadInv
    <3> QED BY <3>2, <3>3
  <2> DEFINE line == LineVerdict(FirstBroken)
  <2>2. line \in {"RecordMissing", "RecordChanged"}
    BY DEF LineVerdict
  <2> HIDE DEF line
  <2>3. Verify = IF head = NoHead THEN "HeadMissing"
                 ELSE IF file = <<>> THEN "RecordMissing"
                 ELSE IF file[Len(file)].text = "torn" THEN "TailTruncated"
                 ELSE IF \E i \in DOMAIN file : ~Continues(i) THEN line
                 ELSE IF Len(file) < head.count THEN "RollbackDetected"
                 ELSE IF file[head.count].record # head.last THEN "HeadMismatch"
                 ELSE IF Len(file) > head.count THEN "Interrupted"
                 ELSE IF head.finalized THEN "ValidFinalized"
                 ELSE "ValidOpen"
    BY DEF Verify, line
  <2> QED BY <2>1, <2>2, <2>3 DEF NoFalseRollback
<1>4. CleanJournalVerifies
  <2> SUFFICES ASSUME ~faulted, call = NoCall, file # <<>>
               PROVE  Verify \in {"ValidOpen", "ValidFinalized"}
    BY DEF CleanJournalVerifies
  <2>1. Chained /\ Len(file) = head.count
    BY <1>0 DEF CleanInv, NoCall
  <2>2. Len(file) > 0 /\ Len(file) \in DOMAIN file
    BY <1>0
  <2>3. head # NoHead
    BY <2>1, <2>2 DEF NoHead
  <2>4. file[Len(file)].text # "torn"
    BY <2>1, <2>2 DEF Chained, Continues
  <2>5. ~(\E i \in DOMAIN file : ~Continues(i))
    BY <2>1 DEF Chained
  <2>6. file[head.count].record = head.last
    BY <1>0, <2>1, <2>3 DEF FileInv
  <2>7. ~(Len(file) < head.count) /\ ~(Len(file) > head.count)
    BY <1>0, <2>1
  <2> QED BY <2>3, <2>4, <2>5, <2>6, <2>7 DEF Verify
<1>5. AcknowledgedIsKept
  BY <1>0 DEF FileInv, AcknowledgedIsKept
<1> QED BY <1>1, <1>3, <1>4, <1>5 DEF VerdictIsTrue

\* No token is finalized more often than it was prepared, and no operation finished more
\* often than started, across restarts that hand out the same token ids again.
THEOREM TokensUsedOnce == Spec => []TokensAreSingleUse
<1> SUFFICES AuditInv => TokensAreSingleUse
  BY SpecAuditInv, PTL
<1> SUFFICES ASSUME AuditInv, NEW token \in 1 .. MaxTokens
             PROVE  /\ Written("device_write_finalized", token)
                         <= Written("device_write_prepared", token)
                    /\ Written("operation_finished", token)
                         <= Written("operation_started", token)
  BY DEF TokensAreSingleUse
<1>1. ASSUME NEW kind \in Starts
      PROVE  Written(End(kind), token) <= Written(kind, token)
  <2> DEFINE e == Cardinality(WrittenAt(file, End(kind), token))
             w == Cardinality(WrittenAt(file, kind, token))
  <2>1. e \in Nat /\ w \in Nat
    BY WrittenType DEF AuditInv, FileInv
  <2>2. e + One(token \in Held(kind))
          + One(call.stage = "write" /\ call.record.kind = End(kind) /\ call.record.token = token)
          + One(call.stage = "head" /\ call.record.kind = kind /\ call.record.token = token)
          <= w
    BY DEF AuditInv, BalanceInv
  <2>3. e = Written(End(kind), token) /\ w = Written(kind, token)
    BY DEF WrittenAt, Written
  <2> HIDE DEF e, w
  <2> QED BY <2>1, <2>2, <2>3 DEF One
<1> QED BY <1>1 DEF Starts, End

-----------------------------------------------------------------------------
(***************************************************************************)
(* Maps that grow by one entry: the registry, the trust store and the      *)
(* answers to the probes.                                                  *)
(***************************************************************************)
Maps(I, S) == UNION {[D -> S] : D \in SUBSET I}

LEMMA MapHas ==
    ASSUME NEW I, NEW S, NEW f \in Maps(I, S)
    PROVE  DOMAIN f \subseteq I /\ \A i \in DOMAIN f : f[i] \in S
BY DEF Maps

LEMMA EmptyMap == ASSUME NEW I, NEW S PROVE NoRegistry \in Maps(I, S) /\ DOMAIN NoRegistry = {}
<1>1. NoRegistry \in [{} -> S] /\ {} \in SUBSET I
  BY DEF NoRegistry
<1> QED BY <1>1 DEF Maps

LEMMA PutTyped ==
    ASSUME NEW I, NEW S, NEW f \in Maps(I, S), NEW d \in I, NEW e \in S
    PROVE  Put(f, d, e) \in Maps(I, S)
<1> DEFINE g == Put(f, d, e)
<1>1. DOMAIN f \subseteq I /\ \A i \in DOMAIN f : f[i] \in S
  BY MapHas
<1>2. DOMAIN g \in SUBSET I /\ \A i \in DOMAIN g : g[i] \in S
  BY <1>1 DEF Put
<1>3. g = [i \in DOMAIN g |-> g[i]]
  BY DEF Put
<1> HIDE DEF g
<1>4. g \in [DOMAIN g -> S]
  BY <1>2, <1>3
<1> QED BY <1>2, <1>4 DEF Maps, g

-----------------------------------------------------------------------------
(***************************************************************************)
(* The invariant.                                                          *)
(***************************************************************************)
Ids == {IdOf[profile] : profile \in Bodies}

Source == [path : Paths, profile : Bodies \cup NoFile]

EntryType == [profile : Bodies, path : Paths, origin : {"Packaged", "LocalUntrusted"}]

Stores == [is : {"none", "invalid", "ok"}, approvals : Maps(Ids, Bodies)]

ProfilesTyped ==
    /\ files \in [Paths -> Bodies \cup NoFile]
    /\ store \in Stores
    /\ approver \in [Approvers -> [at : {"idle", "load", "store", "ended"},
                                   profile : Bodies \cup {"none"}, read : Stores]]
    /\ app \in [at : {"down", "scan", "refused", "up"}, listed : SUBSET Paths, read : Seq(Source),
                indexed : SUBSET Source, registry : Maps(Ids, EntryType)]

\* what was typed is what the store, and any store being read or written, approves
ApprovalInv ==
    /\ \A id \in DOMAIN store.approvals : store.approvals[id] \in confirmed
    /\ \A p \in Approvers :
          /\ approver[p].at \in {"load", "store"} => approver[p].profile \in confirmed
          /\ approver[p].at \in {"load", "store"} => approver[p].profile \in Bodies
          /\ \A id \in DOMAIN approver[p].read.approvals :
                approver[p].read.approvals[id] \in confirmed

\* two sources that the registry does not take together
Same(s, t) == s # t /\ IdOf[s.profile] = IdOf[t.profile] /\ TierOf[s.path] = TierOf[t.path]

Clean(S) == (\A s \in S : s.profile \in Bodies) /\ ~\E s, t \in S : Same(s, t)

\* the registry is what the tiers promise of the sources in S
Reflects(registry, S) ==
    /\ Clean(S)
    /\ DOMAIN registry = {IdOf[s.profile] : s \in S}
    /\ \A s \in S : TierOf[registry[IdOf[s.profile]].path] >= TierOf[s.path]
    /\ \A id \in DOMAIN registry :
          /\ [path |-> registry[id].path, profile |-> registry[id].profile] \in S
          /\ IdOf[registry[id].profile] = id
          /\ registry[id].origin = "Packaged" =>
                registry[id].profile \in Manifest /\ TierOf[registry[id].path] = 0

\* the sources still to come are of no lower tier than those taken
RegistryInv ==
    /\ app.indexed \subseteq Sources
    /\ app.indexed # {} => Len(app.read) = Len(ProfileFiles)
    /\ \A s \in app.indexed, t \in Sources \ app.indexed : TierOf[s.path] <= TierOf[t.path]
    /\ app.at # "refused" => Reflects(app.registry, app.indexed)
    /\ app.at = "refused" => ~Clean(Sources)
    /\ app.at = "up" => app.indexed = Sources

OfferInv ==
    offered.at # "none" =>
        /\ app.at = "up"
        /\ \E id \in DOMAIN app.registry : offered.profile = app.registry[id].profile
        /\ WrittenIsApproved

\* what was read is what the drive answers, and what is verified agrees with it
VerifiedInv ==
    /\ probing.at # "none" =>
          /\ app.at = "up" /\ probing.id \in DOMAIN app.registry
          /\ \A b \in DOMAIN probing.seen : probing.seen[b] = drive[b]
    /\ verified # {} => app.at = "up"
    /\ \A i \in verified :
          /\ i \in DOMAIN app.registry
          /\ LET probes == ProbesOf[app.registry[i].profile]
             IN  DOMAIN probes # {} /\ \A b \in DOMAIN probes : drive[b] \in probes[b]
    /\ TwinsAreNotVerified

ProfilesInv == ProfilesTyped /\ ApprovalInv /\ RegistryInv /\ OfferInv /\ VerifiedInv

-----------------------------------------------------------------------------
(***************************************************************************)
(* The steps: what is edited and approved outside, a start of the program, *)
(* an identification, and the questions of trust.                          *)
(***************************************************************************)
Outside ==
    \/ \E p \in Paths, content \in Bodies \cup NoFile : EditFile(p, content)
    \/ \E content \in {NoStore, BadStore} : EditStore(content)
    \/ \E p \in Approvers :
          \/ ApproveLoad(p) \/ ApproveStore(p)
          \/ \E path \in Paths, typed \in Bodies : ApproveRead(p, path, typed)

Starting == StartScan \/ ScanFile \/ FromSources \/ RegistryLoaded

Identifying ==
    \/ \E id \in DOMAIN app.registry : IdentifyProfile(id)
    \/ \E b \in DOMAIN drive, good \in BOOLEAN : Probe(b, good)
    \/ ProbesDone

Trusting ==
    \/ \E id \in verified, from, to \in {"none", "prepare", "ready", "confirm"} :
          to # "none" /\ TrustReadsFile(id, from, to)
    \/ \E from, to \in {"prepare", "ready", "confirm", "written"} :
          from # "written" /\ TrustReadsStore(from, to)

LEMMA Steps ==
    ASSUME ProfilesNext
    PROVE  Outside \/ Starting \/ Identifying \/ Trusting
<1>1. CASE \E id \in DOMAIN app.registry : Prepare(id)
  <2> PICK id \in DOMAIN app.registry : Prepare(id)
    BY <1>1
  <2>1. id \in verified /\ TrustReadsFile(id, "none", "prepare")
    BY DEF Prepare, TrustReadsFile
  <2> QED BY <2>1 DEF Trusting
<1>2. CASE offered.at = "ready" /\ Confirm
  BY <1>2 DEF Confirm, Trusting
<1>3. CASE Prepared \/ Confirmed
  BY <1>3 DEF Prepared, Confirmed, Trusting
<1>4. CASE Outside \/ Starting \/ Identifying
  BY <1>4
<1> QED BY <1>1, <1>2, <1>3, <1>4 DEF ProfilesNext, Outside, Starting, Identifying

\* What is done outside leaves the program alone, and a confirmation stays.
LEMMA OutsideFrame ==
    ASSUME Outside
    PROVE  UNCHANGED <<app, offered, drive, probing, verified>> /\ confirmed \subseteq confirmed'
BY DEF Outside, EditFile, EditStore, ApproveLoad, ApproveStore, ApproveRead

LEMMA IdentifyingFrame ==
    ASSUME Identifying
    PROVE  UNCHANGED <<files, store, confirmed, approver, app, offered, drive>>
BY DEF Identifying, IdentifyProfile, Probe, ProbesDone

LEMMA TrustingFrame ==
    ASSUME Trusting
    PROVE  UNCHANGED <<files, store, confirmed, approver, app, drive, probing, verified>>
BY DEF Trusting, TrustReadsFile, TrustReadsStore

LEMMA StartingFrame ==
    ASSUME Starting
    PROVE  UNCHANGED <<files, store, confirmed, approver, drive>>
BY DEF Starting, StartScan, ScanFile, FromSources, RegistryLoaded

-----------------------------------------------------------------------------
(***************************************************************************)
(* Types.                                                                  *)
(***************************************************************************)
LEMMA StoresEmpty == NoStore \in Stores /\ BadStore \in Stores
<1>1. NoRegistry \in Maps(Ids, Bodies)
  BY EmptyMap
<1> QED BY <1>1 DEF NoStore, BadStore, Stores

LEMMA PathsTyped == \A i \in DOMAIN ProfileFiles : ProfileFiles[i] \in Paths
BY DEF Paths, Range

\* The registry keeps its type when a source is taken.
LEMMA IndexTyped ==
    ASSUME NEW registry \in Maps(Ids, EntryType), NEW source \in Source, source.profile \in Bodies
    PROVE  Index(registry, source) \in Maps(Ids, EntryType)
<1>1. IdOf[source.profile] \in Ids /\ Entry(source) \in EntryType
  BY DEF Ids, Entry, EntryType, Source, Origin
<1>2. Put(registry, IdOf[source.profile], Entry(source)) \in Maps(Ids, EntryType)
  BY <1>1, PutTyped
<1> QED BY <1>2 DEF Index

LEMMA SourcesTyped == ASSUME ProfilesTyped PROVE Sources \subseteq Source
<1>1. \A i \in DOMAIN app.read : app.read[i] \in Source
  BY DEF ProfilesTyped
<1> QED BY <1>1 DEF Sources, Range

LEMMA TypedInit == ProfilesInit => ProfilesTyped
<1> SUFFICES ASSUME ProfilesInit PROVE ProfilesTyped
  OBVIOUS
<1> USE DEF ProfilesInit
<1>1. files \in [Paths -> Bodies \cup NoFile]
  BY ProfileAssumption
<1>2. store \in Stores
  BY StoresEmpty
<1>3. approver \in [Approvers -> [at : {"idle", "load", "store", "ended"},
                                  profile : Bodies \cup {"none"}, read : Stores]]
  BY StoresEmpty DEF Idle
<1>4. NoRegistry \in Maps(Ids, EntryType)
  BY EmptyMap
<1>5. app \in [at : {"down", "scan", "refused", "up"}, listed : SUBSET Paths, read : Seq(Source),
               indexed : SUBSET Source, registry : Maps(Ids, EntryType)]
  BY <1>4 DEF Down
<1> QED BY <1>1, <1>2, <1>3, <1>5 DEF ProfilesTyped

LEMMA TypedStep == ProfilesTyped /\ ApprovalInv /\ ProfilesNext => ProfilesTyped'
<1> SUFFICES ASSUME ProfilesTyped, ApprovalInv, ProfilesNext PROVE ProfilesTyped'
  OBVIOUS
<1> DEFINE ApproverType == [at : {"idle", "load", "store", "ended"},
                            profile : Bodies \cup {"none"}, read : Stores]
           AppType == [at : {"down", "scan", "refused", "up"}, listed : SUBSET Paths,
                       read : Seq(Source), indexed : SUBSET Source, registry : Maps(Ids, EntryType)]
<1>0. files \in [Paths -> Bodies \cup NoFile] /\ store \in Stores
      /\ approver \in [Approvers -> ApproverType] /\ app \in AppType
  BY DEF ProfilesTyped
<1>1. CASE Outside
  <2>1. app' \in AppType
    BY <1>0, <1>1, OutsideFrame
  <2>2. ASSUME NEW p \in Paths, NEW content \in Bodies \cup NoFile, EditFile(p, content)
        PROVE  files' \in [Paths -> Bodies \cup NoFile] /\ UNCHANGED <<store, approver>>
    BY <1>0, <2>2 DEF EditFile
  <2>3. ASSUME NEW content \in {NoStore, BadStore}, EditStore(content)
        PROVE  store' \in Stores /\ UNCHANGED <<files, approver>>
    BY <2>3, StoresEmpty DEF EditStore
  <2>4. ASSUME NEW p \in Approvers, ApproveLoad(p)
        PROVE  approver' \in [Approvers -> ApproverType] /\ UNCHANGED <<files, store>>
    <3>1. [approver[p] EXCEPT !.read = store, !.at = IF store = BadStore THEN "ended" ELSE "store"]
            \in ApproverType
      BY <1>0
    <3>2. approver' = [approver EXCEPT ![p] = [approver[p] EXCEPT !.read = store,
                             !.at = IF store = BadStore THEN "ended" ELSE "store"]]
      BY <1>0, <2>4 DEF ApproveLoad
    <3> QED BY <1>0, <2>4, <3>1, <3>2 DEF ApproveLoad
  <2>5. ASSUME NEW p \in Approvers, ApproveStore(p)
        PROVE  approver' \in [Approvers -> ApproverType] /\ store' \in Stores /\ UNCHANGED files
    <3>1. approver[p].profile \in Bodies /\ approver[p].read \in Stores
      BY <1>0, <2>5 DEF ApprovalInv, ApproveStore
    <3>2. approver[p].read.approvals \in Maps(Ids, Bodies)
      BY <3>1 DEF Stores
    <3>3. Put(approver[p].read.approvals, IdOf[approver[p].profile], approver[p].profile)
            \in Maps(Ids, Bodies)
      <4>1. IdOf[approver[p].profile] \in Ids
        BY <3>1 DEF Ids
      <4> QED BY <3>1, <3>2, <4>1, PutTyped
    <3>4. store' \in Stores
      BY <2>5, <3>3 DEF ApproveStore, Stores
    <3>5. approver' \in [Approvers -> ApproverType]
      BY <1>0, <2>5 DEF ApproveStore
    <3> QED BY <2>5, <3>4, <3>5 DEF ApproveStore
  <2>6. ASSUME NEW p \in Approvers, NEW path \in Paths, NEW typed \in Bodies,
               ApproveRead(p, path, typed)
        PROVE  approver' \in [Approvers -> ApproverType] /\ UNCHANGED <<files, store>>
    BY <1>0, <2>6, StoresEmpty DEF ApproveRead
  <2> QED BY <1>0, <1>1, <2>1, <2>2, <2>3, <2>4, <2>5, <2>6 DEF Outside, ProfilesTyped
<1>2. CASE Starting
  <2>1. ASSUME StartScan PROVE app' \in AppType
    <3>1. NoRegistry \in Maps(Ids, EntryType)
      BY EmptyMap
    <3>2. app' = [at |-> "scan", listed |-> {p \in Paths : files[p] # "absent"}, read |-> <<>>,
                  indexed |-> {}, registry |-> NoRegistry]
      BY <2>1 DEF StartScan, Down
    <3> QED BY <3>1, <3>2
  <2>2. ASSUME ScanFile PROVE app' \in AppType
    <3> DEFINE path == ProfileFiles[Len(app.read) + 1]
               profile == IF path \notin app.listed THEN "absent"
                          ELSE IF files[path] = "absent" THEN "invalid" ELSE files[path]
    <3>1. app.read \in Seq(Source) /\ app.listed \subseteq Paths
      BY <1>0
    <3>2. profile \in Bodies \cup NoFile
      BY <1>0, <3>1 DEF NoFile
    <3>3. path \in Paths
      BY <1>0, <2>2, <3>1, PathsTyped DEF ScanFile
    <3>4. Append(app.read, [path |-> path, profile |-> profile]) \in Seq(Source)
      BY <3>1, <3>2, <3>3 DEF Source
    <3>5. app' = [app EXCEPT !.read = Append(app.read, [path |-> path, profile |-> profile])]
      BY <2>2 DEF ScanFile
    <3> HIDE DEF path, profile
    <3> QED BY <1>0, <3>4, <3>5
  <2>3. ASSUME FromSources PROVE app' \in AppType
    <3>1. PICK source \in Sources \ app.indexed :
             app' = IF Refuses(app.registry, source)
                    THEN [app EXCEPT !.at = "refused", !.registry = NoRegistry]
                    ELSE [app EXCEPT !.indexed = @ \cup {source},
                                     !.registry = Index(app.registry, source)]
      BY <2>3 DEF FromSources
    <3>2. source \in Source /\ NoRegistry \in Maps(Ids, EntryType)
      BY SourcesTyped, EmptyMap
    <3>3. CASE Refuses(app.registry, source)
      BY <1>0, <3>1, <3>2, <3>3
    <3>4. CASE ~Refuses(app.registry, source)
      <4>1. Index(app.registry, source) \in Maps(Ids, EntryType)
        BY <1>0, <3>2, <3>4, IndexTyped DEF Refuses
      <4> QED BY <1>0, <3>1, <3>2, <3>4, <4>1
    <3> QED BY <3>3, <3>4
  <2>4. ASSUME RegistryLoaded PROVE app' \in AppType
    BY <1>0, <2>4 DEF RegistryLoaded
  <2>5. app' \in AppType
    BY <1>2, <2>1, <2>2, <2>3, <2>4 DEF Starting
  <2> QED BY <1>0, <1>2, <2>5, StartingFrame DEF ProfilesTyped
<1>3. CASE Identifying \/ Trusting
  BY <1>0, <1>3, IdentifyingFrame, TrustingFrame DEF ProfilesTyped
<1> QED BY <1>1, <1>2, <1>3, Steps

-----------------------------------------------------------------------------
(***************************************************************************)
(* Approvals.                                                              *)
(***************************************************************************)
LEMMA ApprovalStep == ProfilesTyped /\ ApprovalInv /\ ProfilesNext => ApprovalInv'
<1> SUFFICES ASSUME ProfilesTyped, ApprovalInv, ProfilesNext PROVE ApprovalInv'
  OBVIOUS
<1> DEFINE Approved(s, c) == \A id \in DOMAIN s.approvals : s.approvals[id] \in c
           Holds(a, c) == /\ a.at \in {"load", "store"} => a.profile \in c /\ a.profile \in Bodies
                          /\ Approved(a.read, c)
<1>0. Approved(store, confirmed) /\ \A p \in Approvers : Holds(approver[p], confirmed)
  BY DEF ApprovalInv
<1>1. ASSUME Approved(store', confirmed'), \A p \in Approvers : Holds(approver'[p], confirmed')
      PROVE  ApprovalInv'
  BY <1>1 DEF ApprovalInv
<1>2. \A c : Approved(NoStore, c) /\ Approved(BadStore, c)
  BY EmptyMap DEF NoStore, BadStore
<1>3. CASE Outside
  <2>0. confirmed \subseteq confirmed'
    BY <1>3, OutsideFrame
  <2>1. Approved(store, confirmed') /\ \A p \in Approvers : Holds(approver[p], confirmed')
    BY <1>0, <2>0
  <2>2. ASSUME NEW p \in Paths, NEW content \in Bodies \cup NoFile, EditFile(p, content)
        PROVE  ApprovalInv'
    BY <1>1, <2>1, <2>2 DEF EditFile
  <2>3. ASSUME NEW content \in {NoStore, BadStore}, EditStore(content)
        PROVE  ApprovalInv'
    BY <1>1, <1>2, <2>1, <2>3 DEF EditStore
  <2>4. ASSUME NEW p \in Approvers, ApproveLoad(p)
        PROVE  ApprovalInv'
    <3>1. UNCHANGED <<store, confirmed>> /\ \A q \in Approvers \ {p} : approver'[q] = approver[q]
      BY <2>4 DEF ApproveLoad, ProfilesTyped
    <3>2. /\ approver'[p].profile = approver[p].profile /\ approver'[p].read = store
          /\ approver[p].at = "load"
      BY <2>4 DEF ApproveLoad, ProfilesTyped
    <3>3. Holds(approver'[p], confirmed')
      BY <2>1, <3>1, <3>2
    <3> QED BY <1>1, <2>1, <3>1, <3>3
  <2>5. ASSUME NEW p \in Approvers, ApproveStore(p)
        PROVE  ApprovalInv'
    <3>1. UNCHANGED confirmed /\ \A q \in Approvers \ {p} : approver'[q] = approver[q]
      BY <2>5 DEF ApproveStore, ProfilesTyped
    <3>2. approver'[p].at = "ended" /\ approver'[p].read = approver[p].read
      BY <2>5 DEF ApproveStore, ProfilesTyped
    <3>3. /\ approver[p].profile \in confirmed /\ Approved(approver[p].read, confirmed)
          /\ store'.approvals
               = Put(approver[p].read.approvals, IdOf[approver[p].profile], approver[p].profile)
      BY <1>0, <2>5 DEF ApproveStore
    <3>4. Approved(store', confirmed')
      <4> DEFINE old == approver[p].read.approvals
                 id == IdOf[approver[p].profile]
                 new == Put(old, id, approver[p].profile)
      <4>1. /\ DOMAIN new = DOMAIN old \cup {id} /\ new[id] = approver[p].profile
            /\ \A i \in DOMAIN old \ {id} : new[i] = old[i]
        BY DEF Put
      <4>2. \A i \in DOMAIN new : new[i] \in confirmed
        <5>1. approver[p].profile \in confirmed /\ \A i \in DOMAIN old : old[i] \in confirmed
          BY <3>3
        <5> HIDE DEF new, old
        <5> QED BY <4>1, <5>1
      <4> QED BY <3>1, <3>3, <4>2
    <3>5. Holds(approver'[p], confirmed')
      BY <2>1, <3>2
    <3> QED BY <1>1, <2>1, <3>1, <3>4, <3>5
  <2>6. ASSUME NEW p \in Approvers, NEW path \in Paths, NEW typed \in Bodies,
               ApproveRead(p, path, typed)
        PROVE  ApprovalInv'
    <3>1. UNCHANGED store /\ \A q \in Approvers \ {p} : approver'[q] = approver[q]
      BY <2>6 DEF ApproveRead, ProfilesTyped
    <3>2. \/ approver'[p].at = "ended" /\ approver'[p].read = approver[p].read
          \/ /\ approver'[p] = [at |-> "load", profile |-> typed, read |-> NoStore]
             /\ typed \in confirmed'
      BY <2>6 DEF ApproveRead, ProfilesTyped
    <3>3. Holds(approver'[p], confirmed')
      <4>1. Approved(NoStore, confirmed')
        BY <1>2
      <4>2. Approved(approver[p].read, confirmed')
        BY <2>1
      <4> HIDE DEF Approved
      <4> QED BY <3>2, <4>1, <4>2
    <3> QED BY <1>1, <2>1, <3>1, <3>3
  <2> QED BY <1>3, <2>2, <2>3, <2>4, <2>5, <2>6 DEF Outside
<1>4. CASE Starting \/ Identifying \/ Trusting
  BY <1>0, <1>1, <1>4, StartingFrame, IdentifyingFrame, TrustingFrame
<1> QED BY <1>3, <1>4, Steps

-----------------------------------------------------------------------------
(***************************************************************************)
(* The registry takes the sources in the order of their tiers.             *)
(***************************************************************************)

\* A source that is refused shows that not all sources are clean.
LEMMA RefusedUnclean ==
    ASSUME NEW registry, NEW S, NEW T, NEW source \in T, S \subseteq T, source \notin S,
           Reflects(registry, S), Refuses(registry, source)
    PROVE  ~Clean(T)
<1>1. CASE source.profile \notin Bodies
  BY <1>1 DEF Clean
<1>2. CASE /\ IdOf[source.profile] \in DOMAIN registry
           /\ TierOf[registry[IdOf[source.profile]].path] = TierOf[source.path]
  <2> DEFINE id == IdOf[source.profile]
             other == [path |-> registry[id].path, profile |-> registry[id].profile]
  <2>1. other \in S /\ IdOf[other.profile] = id /\ other.path = registry[id].path
    BY <1>2 DEF Reflects
  <2>2. other \in T /\ Same(source, other)
    BY <1>2, <2>1 DEF Same
  <2> QED BY <2>2 DEF Clean
<1> QED BY <1>1, <1>2 DEF Refuses

LEMMA IndexReflects ==
    ASSUME NEW registry \in Maps(Ids, EntryType), NEW S \in SUBSET Source, NEW source \in Source,
           source \notin S, Reflects(registry, S), ~Refuses(registry, source),
           \A s \in S : TierOf[s.path] <= TierOf[source.path]
    PROVE  Reflects(Index(registry, source), S \cup {source})
<1> DEFINE id == IdOf[source.profile]
           next == Index(registry, source)
           T == S \cup {source}
<1>1. /\ \A s \in T : TierOf[s.path] \in 0 .. 2
      /\ \A i \in DOMAIN registry : TierOf[registry[i].path] \in 0 .. 2
  <2>1. \A i \in DOMAIN registry : registry[i] \in EntryType
    BY MapHas
  <2> QED BY <2>1, ProfileAssumption DEF Source, EntryType
<1>2. source.profile \in Bodies
  BY DEF Refuses
<1>3. \A i \in DOMAIN registry :
         LET found == [path |-> registry[i].path, profile |-> registry[i].profile]
         IN  found \in S /\ IdOf[found.profile] = i /\ TierOf[found.path] = TierOf[registry[i].path]
  BY DEF Reflects
\* the source of the entry, if there is one, is of a lower tier
<1>4. id \in DOMAIN registry => TierOf[registry[id].path] < TierOf[source.path]
  <2> SUFFICES ASSUME id \in DOMAIN registry PROVE TierOf[registry[id].path] < TierOf[source.path]
    OBVIOUS
  <2>1. TierOf[registry[id].path] <= TierOf[source.path]
    BY <1>3
  <2>2. TierOf[registry[id].path] # TierOf[source.path]
    BY DEF Refuses
  <2>3. TierOf[registry[id].path] \in 0 .. 2 /\ TierOf[source.path] \in 0 .. 2
    BY <1>1
  <2> QED BY <2>1, <2>2, <2>3
<1>5. next = Put(registry, id, Entry(source))
  <2>1. id \in DOMAIN registry =>
           ~(TierOf[registry[id].path] > TierOf[source.path])
    <3>1. id \in DOMAIN registry =>
             TierOf[registry[id].path] \in 0 .. 2 /\ TierOf[source.path] \in 0 .. 2
      BY <1>1
    <3> QED BY <1>4, <3>1
  <2> QED BY <2>1 DEF Index
<1>6. /\ DOMAIN next = DOMAIN registry \cup {id} /\ next[id] = Entry(source)
      /\ \A i \in DOMAIN registry \ {id} : next[i] = registry[i]
  <2>1. /\ DOMAIN Put(registry, id, Entry(source)) = DOMAIN registry \cup {id}
        /\ Put(registry, id, Entry(source))[id] = Entry(source)
        /\ \A i \in DOMAIN registry \ {id} : Put(registry, id, Entry(source))[i] = registry[i]
    BY DEF Put
  <2> QED BY <1>5, <2>1
<1>7. Clean(T)
  <2>1. ASSUME NEW s \in S PROVE ~Same(s, source) /\ ~Same(source, s)
    <3> SUFFICES ASSUME IdOf[s.profile] = id PROVE TierOf[s.path] # TierOf[source.path]
      BY DEF Same
    <3>1. id \in DOMAIN registry /\ TierOf[registry[id].path] >= TierOf[s.path]
      BY DEF Reflects
    <3>2. /\ TierOf[registry[id].path] \in 0 .. 2 /\ TierOf[source.path] \in 0 .. 2
          /\ TierOf[s.path] \in 0 .. 2
      BY <1>1, <3>1
    <3> QED BY <1>4, <3>1, <3>2
  <2> QED BY <1>2, <2>1 DEF Clean, Reflects, Same
<1>8. DOMAIN next = {IdOf[s.profile] : s \in T}
  BY <1>6 DEF Reflects
<1>9. ASSUME NEW s \in T PROVE TierOf[next[IdOf[s.profile]].path] >= TierOf[s.path]
  <2>1. CASE IdOf[s.profile] = id
    <3>1. next[id].path = source.path
      BY <1>6 DEF Entry
    <3>2. TierOf[s.path] \in 0 .. 2 /\ TierOf[source.path] \in 0 .. 2
      BY <1>1
    <3>3. s = source \/ TierOf[s.path] <= TierOf[source.path]
      OBVIOUS
    <3> QED BY <2>1, <3>1, <3>2, <3>3
  <2>2. CASE IdOf[s.profile] # id
    <3>1. s \in S
      BY <2>2
    <3> QED BY <1>6, <2>2, <3>1 DEF Reflects
  <2> QED BY <2>1, <2>2
<1>10. ASSUME NEW i \in DOMAIN next
       PROVE  /\ [path |-> next[i].path, profile |-> next[i].profile] \in T
              /\ IdOf[next[i].profile] = i
              /\ next[i].origin = "Packaged" =>
                    next[i].profile \in Manifest /\ TierOf[next[i].path] = 0
  <2>1. CASE i = id
    <3>1. source = [path |-> source.path, profile |-> source.profile]
      BY DEF Source
    <3> QED BY <1>6, <2>1, <3>1 DEF Entry, Origin
  <2>2. CASE i # id
    BY <1>6, <2>2 DEF Reflects
  <2> QED BY <2>1, <2>2
<1> HIDE DEF next, T, id
<1> QED BY <1>7, <1>8, <1>9, <1>10 DEF Reflects, next, T

LEMMA NothingReflects == Reflects(NoRegistry, {})
BY DEF Reflects, Clean, NoRegistry

LEMMA RegistryStep == ProfilesTyped /\ RegistryInv /\ ProfilesNext => RegistryInv'
<1> SUFFICES ASSUME ProfilesTyped, RegistryInv, ProfilesNext PROVE RegistryInv'
  OBVIOUS
<1> DEFINE AppType == [at : {"down", "scan", "refused", "up"}, listed : SUBSET Paths,
                       read : Seq(Source), indexed : SUBSET Source, registry : Maps(Ids, EntryType)]
<1>0. app \in AppType
  BY DEF ProfilesTyped
<1>1. CASE Outside \/ Identifying \/ Trusting
  <2>1. app' = app
    BY <1>1, OutsideFrame, IdentifyingFrame, TrustingFrame
  <2> QED BY <2>1 DEF RegistryInv, Sources
<1>2. CASE StartScan
  <2>1. app' = [at |-> "scan", listed |-> {p \in Paths : files[p] # "absent"}, read |-> <<>>,
                indexed |-> {}, registry |-> NoRegistry]
    BY <1>2 DEF StartScan, Down
  <2> QED BY <2>1, NothingReflects DEF RegistryInv
<1>3. CASE ScanFile
  <2>1. /\ app'.at = app.at /\ app'.indexed = app.indexed /\ app'.registry = app.registry
        /\ app.at = "scan" /\ Len(app.read) < Len(ProfileFiles)
    BY <1>0, <1>3 DEF ScanFile
  <2>2. app.indexed = {}
    BY <1>0, <2>1 DEF RegistryInv
  <2> QED BY <2>1, <2>2 DEF RegistryInv
<1>4. CASE FromSources
  <2>1. PICK source \in Sources \ app.indexed :
           /\ \A other \in Sources \ app.indexed : other = source \/ BySourceOrder(source, other)
           /\ app' = IF Refuses(app.registry, source)
                     THEN [app EXCEPT !.at = "refused", !.registry = NoRegistry]
                     ELSE [app EXCEPT !.indexed = @ \cup {source},
                                      !.registry = Index(app.registry, source)]
    BY <1>4 DEF FromSources
  <2>2. /\ Reflects(app.registry, app.indexed) /\ app.indexed \subseteq Sources
        /\ app.at = "scan" /\ Len(app.read) = Len(ProfileFiles)
        /\ \A s \in app.indexed : TierOf[s.path] <= TierOf[source.path]
    BY <1>4 DEF RegistryInv, FromSources, Scanned
  <2>3. source \in Source /\ app.registry \in Maps(Ids, EntryType) /\ app.indexed \in SUBSET Source
    BY <1>0, SourcesTyped
  <2>4. app'.read = app.read
    BY <1>0, <2>1
  <2>5. Sources' = Sources
    BY <2>4 DEF Sources
  <2>6. CASE Refuses(app.registry, source)
    <3>1. app'.at = "refused" /\ app'.indexed = app.indexed
      BY <1>0, <2>1, <2>6
    <3>2. ~Clean(Sources)
      BY <2>2, <2>6, RefusedUnclean
    <3> QED BY <2>4, <2>5, <3>1, <3>2 DEF RegistryInv
  <2>7. CASE ~Refuses(app.registry, source)
    <3>1. /\ app'.at = "scan" /\ app'.indexed = app.indexed \cup {source}
          /\ app'.registry = Index(app.registry, source)
      BY <1>0, <2>1, <2>2, <2>7
    <3>2. Reflects(app'.registry, app'.indexed)
      BY <2>2, <2>3, <2>7, <3>1, IndexReflects
    <3>3. ASSUME NEW s \in app'.indexed, NEW t \in Sources \ app'.indexed
          PROVE  TierOf[s.path] <= TierOf[t.path]
      <4>1. CASE s \in app.indexed
        BY <3>1, <4>1 DEF RegistryInv
      <4>2. CASE s = source
        <5>1. BySourceOrder(source, t)
          BY <2>1, <3>1
        <5>2. TierOf[source.path] \in 0 .. 2 /\ TierOf[t.path] \in 0 .. 2
          <6>1. t \in Source
            BY SourcesTyped
          <6> QED BY <2>3, <6>1, ProfileAssumption DEF Source
        <5> QED BY <4>2, <5>1, <5>2 DEF BySourceOrder
      <4> QED BY <3>1, <4>1, <4>2
    <3>4. app'.indexed \subseteq Sources
      BY <2>2, <3>1
    <3> QED BY <2>2, <2>4, <2>5, <3>1, <3>2, <3>3, <3>4 DEF RegistryInv
  <2> QED BY <2>6, <2>7
<1>5. CASE RegistryLoaded
  <2>1. /\ app'.at = "up" /\ app'.read = app.read /\ app'.indexed = app.indexed
        /\ app'.registry = app.registry /\ app.at = "scan" /\ Sources \subseteq app.indexed
    BY <1>0, <1>5 DEF RegistryLoaded, Scanned
  <2>2. Sources' = Sources
    BY <2>1 DEF Sources
  <2> QED BY <2>1, <2>2 DEF RegistryInv
<1> QED BY <1>1, <1>2, <1>3, <1>4, <1>5, Steps DEF Starting

-----------------------------------------------------------------------------
(***************************************************************************)
(* Trust.                                                                  *)
(***************************************************************************)

\* Starting again forgets what was offered and verified.
LEMMA StartingForgets ==
    ASSUME Starting, ProfilesTyped
    PROVE  /\ \/ offered' = NoOffer /\ probing' = NoProbing /\ verified' = {}
              \/ UNCHANGED <<offered, probing, verified>>
           /\ app.at = "up" => offered' = NoOffer /\ probing' = NoProbing /\ verified' = {}
BY DEF Starting, StartScan, ScanFile, FromSources, RegistryLoaded, Scanned

LEMMA OfferStep ==
    ProfilesTyped /\ ApprovalInv /\ RegistryInv /\ VerifiedInv /\ OfferInv /\ ProfilesNext => OfferInv'
<1> SUFFICES ASSUME ProfilesTyped, ApprovalInv, RegistryInv, VerifiedInv, OfferInv, ProfilesNext
             PROVE  OfferInv'
  OBVIOUS
<1>1. CASE Outside \/ Identifying
  <2>1. UNCHANGED <<app, offered>> /\ confirmed \subseteq confirmed'
    BY <1>1, OutsideFrame, IdentifyingFrame
  <2> QED BY <2>1 DEF OfferInv, WrittenIsApproved
<1>2. CASE Starting
  <2>1. offered'.at = "none"
    <3>1. offered.at # "none" => app.at = "up"
      BY DEF OfferInv
    <3> QED BY <1>2, <3>1, StartingForgets DEF NoOffer
  <2> QED BY <2>1 DEF OfferInv
<1>3. CASE Trusting
  <2>0. UNCHANGED <<store, confirmed, app>>
    BY <1>3, TrustingFrame
  <2>1. ASSUME NEW id \in verified, NEW from, NEW to \in {"none", "prepare", "ready", "confirm"},
               to # "none", TrustReadsFile(id, from, to)
        PROVE  OfferInv'
    <3>1. id \in DOMAIN app.registry /\ app.at = "up"
      BY <2>1 DEF VerifiedInv, TrustReadsFile
    <3>2. \/ offered' = [at |-> to, profile |-> app.registry[id].profile]
          \/ offered' = NoOffer
      BY <2>1 DEF TrustReadsFile
    <3> QED BY <2>0, <3>1, <3>2 DEF OfferInv, WrittenIsApproved, NoOffer
  <2>2. ASSUME NEW from \in {"prepare", "ready", "confirm"}, NEW to, TrustReadsStore(from, to)
        PROVE  OfferInv'
    <3>1. app.at = "up" /\ \E id \in DOMAIN app.registry : offered.profile = app.registry[id].profile
      BY <2>2 DEF TrustReadsStore, OfferInv
    <3>2. PICK id \in DOMAIN app.registry : offered.profile = app.registry[id].profile
      BY <3>1
    <3>3. id = IdOf[offered.profile]
      BY <3>1, <3>2 DEF RegistryInv, Reflects
    <3> DEFINE entry == app.registry[id]
    <3>4. offered' = IF entry.origin = "Packaged" \/ LocalApprovalMatches(entry)
                     THEN [offered EXCEPT !.at = to] ELSE NoOffer
      BY <2>2, <3>3 DEF TrustReadsStore
    <3>5. CASE entry.origin = "Packaged" \/ LocalApprovalMatches(entry)
      <4>1. offered.profile \in confirmed
            \/ (offered.profile \in Manifest /\ TierOf[entry.path] = 0)
        <5>1. CASE entry.origin = "Packaged"
          BY <3>1, <3>2, <5>1 DEF RegistryInv, Reflects
        <5>2. CASE LocalApprovalMatches(entry)
          BY <3>2, <5>2 DEF LocalApprovalMatches, ApprovalInv
        <5> QED BY <3>5, <5>1, <5>2
      <4>2. offered'.profile = offered.profile
        BY <3>4, <3>5
      <4> HIDE DEF entry
      <4> QED BY <2>0, <3>1, <3>3, <4>1, <4>2 DEF OfferInv, WrittenIsApproved, entry
    <3>6. CASE ~(entry.origin = "Packaged" \/ LocalApprovalMatches(entry))
      <4>1. offered'.at = "none"
        BY <3>4, <3>6 DEF NoOffer
      <4> QED BY <4>1 DEF OfferInv
    <3> QED BY <3>5, <3>6
  <2> QED BY <1>3, <2>1, <2>2 DEF Trusting
<1> QED BY <1>1, <1>2, <1>3, Steps

-----------------------------------------------------------------------------
(***************************************************************************)
(* Identification.                                                         *)
(***************************************************************************)
LEMMA VerifiedStep == ProfilesTyped /\ RegistryInv /\ VerifiedInv /\ ProfilesNext => VerifiedInv'
<1> SUFFICES ASSUME ProfilesTyped, RegistryInv, VerifiedInv, ProfilesNext PROVE VerifiedInv'
  OBVIOUS
<1> USE DEF VerifiedInv, TwinsAreNotVerified
<1>1. CASE Outside \/ Trusting
  <2>1. UNCHANGED <<app, drive, probing, verified>>
    BY <1>1, OutsideFrame, TrustingFrame
  <2> QED BY <2>1
<1>2. CASE Starting
  <2>1. probing'.at = "none" /\ verified' = {}
    <3>1. app.at # "up" => probing.at = "none" /\ verified = {}
      OBVIOUS
    <3> QED BY <1>2, <3>1, StartingForgets DEF NoProbing
  <2> QED BY <2>1
<1>3. CASE Identifying
  <2>0. UNCHANGED <<app, drive>>
    BY <1>3, IdentifyingFrame
  <2>1. ASSUME NEW id \in DOMAIN app.registry, IdentifyProfile(id) PROVE VerifiedInv'
    <3>1. probing' = [at |-> "probe", id |-> id, seen |-> NoRegistry] /\ app.at = "up"
          /\ verified' = verified
      BY <2>1 DEF IdentifyProfile
    <3>2. DOMAIN probing'.seen = {}
      BY <3>1 DEF NoRegistry
    <3> QED BY <2>0, <3>1, <3>2
  <2>2. ASSUME NEW b, NEW good, Probe(b, good) PROVE VerifiedInv'
    <3>1. verified' = verified /\ probing.at = "probe"
      BY <2>2 DEF Probe
    <3>2. CASE good
      <4>1. probing' = [probing EXCEPT !.seen = Put(@, b, drive[b])]
        BY <2>2, <3>2 DEF Probe
      <4> QED BY <2>0, <3>1, <4>1 DEF Put
    <3>3. CASE ~good
      <4>1. probing' = NoProbing
        BY <2>2, <3>3 DEF Probe
      <4> QED BY <2>0, <3>1, <4>1 DEF NoProbing
    <3> QED BY <3>2, <3>3
  <2>3. ASSUME ProbesDone PROVE VerifiedInv'
    <3>1. /\ probing.at = "probe" /\ DOMAIN probing.seen = DOMAIN Selected /\ probing'.at = "none"
          /\ verified' = IF Outcome = "Match" THEN verified \cup {probing.id} ELSE verified
      BY <2>3 DEF ProbesDone, NoProbing
    <3>2. CASE Outcome # "Match"
      BY <2>0, <3>1, <3>2
    <3>3. CASE Outcome = "Match"
      <4>1. /\ app.at = "up" /\ probing.id \in DOMAIN app.registry
            /\ \A b \in DOMAIN Selected : probing.seen[b] = drive[b]
        BY <3>1
      \* every probe answered as expected
      <4>2. DOMAIN Selected # {} /\ \A b \in DOMAIN Selected : probing.seen[b] \in Selected[b]
        BY <3>3 DEF Outcome
      <4>3. \A id \in DOMAIN app.registry \ {probing.id} :
               ~MatchesObserved(app.registry[id].profile, probing.seen)
        BY <3>3 DEF Outcome
      \* so would those of a twin verified before
      <4>4. ASSUME NEW j \in verified,
                   DOMAIN ProbesOf[app.registry[j].profile] = DOMAIN Selected
            PROVE  j = probing.id
        <5>1. MatchesObserved(app.registry[j].profile, probing.seen)
          BY <3>1, <4>1, <4>2, <4>4 DEF MatchesObserved
        <5> QED BY <4>3, <5>1
      <4>5. Selected = ProbesOf[app.registry[probing.id].profile]
        BY DEF Selected
      <4> QED BY <2>0, <3>1, <3>3, <4>1, <4>2, <4>4, <4>5
    <3> QED BY <3>2, <3>3
  <2> QED BY <1>3, <2>1, <2>2, <2>3 DEF Identifying
<1> QED BY <1>1, <1>2, <1>3, Steps

-----------------------------------------------------------------------------
(***************************************************************************)
(* The theorems.                                                           *)
(***************************************************************************)

\* However files, the trust store and the program move, the invariant holds: the
\* registry reflects the sources in the order of their tiers, and what the store
\* approves was typed by the operator.
THEOREM ProfilesInvHolds == ProfilesSpec => []ProfilesInv
<1>1. ProfilesInit => ProfilesInv
  <2> SUFFICES ASSUME ProfilesInit PROVE ProfilesInv
    OBVIOUS
  <2>1. ProfilesTyped
    BY TypedInit
  <2>2. ApprovalInv
    <3>1. DOMAIN NoRegistry = {}
      BY EmptyMap
    <3> QED BY <3>1 DEF ProfilesInit, ApprovalInv, NoStore, Idle
  <2>3. RegistryInv
    <3>1. Sources = {}
      BY DEF ProfilesInit, Down, Sources, Range
    <3> QED BY <3>1, NothingReflects DEF ProfilesInit, RegistryInv, Down
  <2>4. OfferInv /\ VerifiedInv
    BY DEF ProfilesInit, OfferInv, VerifiedInv, TwinsAreNotVerified, NoOffer, NoProbing
  <2> QED BY <2>1, <2>2, <2>3, <2>4 DEF ProfilesInv
<1>2. ProfilesInv /\ [ProfilesNext]_profileVars => ProfilesInv'
  <2> SUFFICES ASSUME ProfilesInv, [ProfilesNext]_profileVars PROVE ProfilesInv'
    OBVIOUS
  <2>1. CASE ProfilesNext
    BY <2>1, TypedStep, ApprovalStep, RegistryStep, OfferStep, VerifiedStep DEF ProfilesInv
  <2>2. CASE UNCHANGED profileVars
    BY <2>2 DEF profileVars, ProfilesInv, ProfilesTyped, ApprovalInv, RegistryInv, Sources, OfferInv,
                WrittenIsApproved, VerifiedInv, TwinsAreNotVerified
  <2> QED BY <2>1, <2>2
<1> QED BY <1>1, <1>2, PTL DEF ProfilesSpec

\* A write is made under a profile of the binary's manifest or one whose content the
\* operator confirmed, and the registry is what the tiers promise of the files read.
THEOREM TrustFollows == ProfilesSpec => []TrustFollowsFiles
<1> SUFFICES ProfilesInv => TrustFollowsFiles
  BY ProfilesInvHolds, PTL
<1> SUFFICES ASSUME ProfilesInv PROVE TrustFollowsFiles
  OBVIOUS
<1>1. WrittenIsApproved
  BY DEF ProfilesInv, OfferInv, WrittenIsApproved
<1>2. app.at = "refused" => ~Clean(Sources)
  BY DEF ProfilesInv, RegistryInv
<1>3. app.at = "up" => Reflects(app.registry, Sources)
  BY DEF ProfilesInv, RegistryInv
<1>4. RegistryPrefersHighestTier
  BY <1>2, <1>3 DEF RegistryPrefersHighestTier, Reflects, Clean, Same
<1> QED BY <1>1, <1>4 DEF TrustFollowsFiles

\* Of the profiles that probe the same blocks at most one is verified on a drive.
THEOREM NoTwins == ProfilesSpec => []TwinsAreNotVerified
<1>1. ProfilesInv => TwinsAreNotVerified
  BY DEF ProfilesInv, VerifiedInv
<1> QED BY <1>1, ProfilesInvHolds, PTL

-----------------------------------------------------------------------------
(***************************************************************************)
(* The invariant of the backups and the restore plans.                     *)
(***************************************************************************)
CapturedMaps == UNION {[D -> RawValues] : D \in SUBSET Included}

ValueMaps == CapturedMaps \cup {f.values : f \in Range(BackupFiles)}

BackupType == [is : {"none", "mine", "foreign", "damaged"}, complete : BOOLEAN, values : ValueMaps]

\* a backup of this drive that calls itself complete has every parameter
Whole(backup) == backup.is = "mine" /\ backup.complete => DOMAIN backup.values = Included

\* what a task knows of its plan: nothing, the drive as it was captured, or all
Sketch(current) == [NoRestorePlan EXCEPT !.current = current]
OfferedPlans == {Sketch(current) : current \in BackupType}
            \cup {BuildRestorePlan(source, current) : source \in BackupType, current \in BackupType}

\* a plan that build_restore_plan made of two complete backups of this drive
Approved(plan) ==
    \E source, current \in BackupType :
        /\ plan = BuildRestorePlan(source, current)
        /\ source.complete /\ current.complete /\ source.is = "mine"

JobType ==
    [kind : {"Capture", "Load", "Prepare"}, path : Nat, source : BackupType,
     at : {"start", "read", "plan", "reply"}, read : Nat, values : ValueMaps,
     failed : BOOLEAN, plan : OfferedPlans]

\* a capture whose reads were all answered has the parameters it has come to
JobInv(job) ==
    /\ job \in JobType
    /\ job.kind = "Load" => job.at = "start" /\ job.path \in DOMAIN disk
    /\ job.kind = "Prepare" => job.source.is \in {"mine", "foreign"}
    /\ job.at \in {"start", "read"} => job.plan = NoRestorePlan /\ job.values \in CapturedMaps
    /\ job.at = "start" => job.values = NoValues /\ job.read = 0
    /\ job.at = "read" /\ ~job.failed =>
          DOMAIN job.values = {BackupParams[i] : i \in 1 .. job.read}
    /\ job.at = "reply" => Approved(job.plan)

ScreenType == [path : Nat, source : BackupType, current : BackupType, prepared : OfferedPlans]

BackupsInv ==
    /\ panel \in [Included -> RawValues]
    /\ disk \in Seq(BackupType) /\ \A i \in DOMAIN disk : disk[i].is # "none" /\ Whole(disk[i])
    /\ screen \in ScreenType /\ screen.source.is # "damaged"
    /\ screen.prepared = NoRestorePlan \/ Approved(screen.prepared)
    /\ \A job \in jobs : JobInv(job)

LEMMA LeastNatural ==
    ASSUME NEW S \in SUBSET Nat, S # {}
    PROVE  \E i \in S : \A j \in S : i <= j
<1> DEFINE R == OpToRel(<, Nat)
<1>1. \A x, y \in Nat : y < x => <<y, x>> \in R
  BY Zenon DEF OpToRel
<1>2. IsWellFoundedOn(R, Nat)
  BY NatLessThanWellFounded
<1> HIDE DEF R
<1>3. PICK x \in S : \A y \in S : <<y, x>> \notin R
  BY <1>2, WFMin
<1>4. ASSUME NEW y \in S PROVE x <= y
  <2>1. y < x => <<y, x>> \in R
    BY <1>1
  <2> QED BY <1>3, <2>1
<1> QED BY <1>3, <1>4

-----------------------------------------------------------------------------
(***************************************************************************)
(* Ascending numbers.                                                      *)
(***************************************************************************)
Ascends(way) == \A i, j \in DOMAIN way : i < j => way[i] < way[j]

\* One step: the least number goes before the others.
LEMMA LeastGoesFirst ==
    ASSUME NEW S \in SUBSET Nat, IsFiniteSet(S), NEW x \in S, \A y \in S : x <= y,
           NEW rest \in Bijection(1 .. Cardinality(S \ {x}), S \ {x}), Ascends(rest)
    PROVE  \E way \in Bijection(1 .. Cardinality(S), S) : Ascends(way)
<1> DEFINE n == Cardinality(S)
           way == [i \in 1 .. n |-> IF i = 1 THEN x ELSE rest[i - 1]]
<1>1. n \in Nat /\ n >= 1 /\ Cardinality(S \ {x}) = n - 1
  BY FS_CardinalityType, FS_RemoveElement, FS_EmptySet
<1> HIDE DEF n
<1>2. rest \in [1 .. n - 1 -> S \ {x}] /\ (\A i, j \in 1 .. n - 1 : i < j => rest[i] < rest[j])
      /\ \A t \in S \ {x} : \E i \in 1 .. n - 1 : rest[i] = t
  BY <1>1 DEF Bijection, Injection, Surjection, Ascends
<1>3. way \in [1 .. n -> S]
  BY <1>1, <1>2
<1>4. \A i, j \in 1 .. n : i < j => way[i] < way[j]
  <2>1. TAKE i, j \in 1 .. n
  <2>2. HAVE i < j
  <2>3. j - 1 \in 1 .. n - 1 /\ way[j] = rest[j - 1] /\ rest[j - 1] \in S \ {x}
    BY <1>1, <1>2, <2>2
  <2>4. CASE i = 1
    <3>1. way[i] = x
      BY <1>1, <2>4
    <3>2. x \in Nat /\ rest[j - 1] \in Nat /\ x <= rest[j - 1] /\ x # rest[j - 1]
      BY <2>3
    <3>3. x < rest[j - 1]
      BY <3>2
    <3> QED BY <2>3, <3>1, <3>3
  <2>5. CASE i # 1
    <3>1. i - 1 \in 1 .. n - 1 /\ way[i] = rest[i - 1] /\ i - 1 < j - 1
      BY <1>1, <2>2, <2>5
    <3> HIDE DEF way
    <3> QED BY <1>2, <2>3, <3>1
  <2> QED BY <2>4, <2>5
<1>5. \A t \in S : \E i \in 1 .. n : way[i] = t
  <2>1. TAKE t \in S
  <2>2. CASE t = x
    BY <1>1, <2>2
  <2>3. CASE t # x
    <3>1. PICK i \in 1 .. n - 1 : rest[i] = t
      BY <1>2, <2>3
    <3>2. i + 1 \in 1 .. n /\ i + 1 # 1 /\ (i + 1) - 1 = i
      BY <1>1
    <3>3. way[i + 1] = t
      BY <3>1, <3>2
    <3> QED BY <3>2, <3>3
  <2> QED BY <2>2, <2>3
<1> HIDE DEF way
<1>6. \A i, j \in 1 .. n : way[i] = way[j] => i = j
  <2>1. TAKE i, j \in 1 .. n
  <2>2. HAVE way[i] = way[j]
  <2>3. way[i] \in Nat /\ way[j] \in Nat
    BY <1>3
  <2>4. ~(i < j) /\ ~(j < i)
    BY <1>4, <2>2, <2>3
  <2> QED BY <1>1, <2>4
<1>7. way \in Bijection(1 .. n, S)
  BY <1>3, <1>5, <1>6 DEF Bijection, Injection, Surjection, IsInjective
<1>8. Ascends(way)
  BY <1>3, <1>4 DEF Ascends
<1> QED BY <1>7, <1>8 DEF n

LEMMA AscendingExists ==
    ASSUME NEW S \in SUBSET Nat, IsFiniteSet(S)
    PROVE  \E way \in Bijection(1 .. Cardinality(S), S) : Ascends(way)
<1> DEFINE Good(T) == \E way \in Bijection(1 .. Cardinality(T), T) : Ascends(way)
           Bad == {n \in Nat : \E T \in SUBSET Nat : IsFiniteSet(T) /\ Cardinality(T) = n /\ ~Good(T)}
<1> HIDE DEF Good
<1> SUFFICES ASSUME ~Good(S) PROVE FALSE
  BY DEF Good
<1>1. Cardinality(S) \in Bad
  BY FS_CardinalityType
<1>2. PICK n \in Bad : \A m \in Bad : n <= m
  BY <1>1, LeastNatural
<1>3. PICK T \in SUBSET Nat : IsFiniteSet(T) /\ Cardinality(T) = n /\ ~Good(T)
  BY <1>2
<1>4. T # {}
  <2>1. SUFFICES ASSUME T = {} PROVE Good({})
    BY <1>3
  <2>2. Cardinality({}) = 0
    BY FS_EmptySet
  <2>3. [i \in 1 .. 0 |-> 0] \in Bijection(1 .. 0, {}) /\ Ascends([i \in 1 .. 0 |-> 0])
    BY DEF Bijection, Injection, Surjection, IsInjective, Ascends
  <2> QED BY <2>2, <2>3 DEF Good
<1>5. PICK x \in T : \A y \in T : x <= y
  BY <1>4, LeastNatural
<1>6. IsFiniteSet(T \ {x}) /\ Cardinality(T \ {x}) = n - 1 /\ Cardinality(T \ {x}) \in Nat
  BY <1>3, FS_RemoveElement, FS_CardinalityType
<1>7. Good(T \ {x})
  <2>1. n \in Nat /\ n - 1 \notin Bad
    BY <1>2
  <2> QED BY <1>6, <2>1
<1> HIDE DEF Bad
<1>8. Good(T)
  BY <1>3, <1>5, <1>7, LeastGoesFirst DEF Good
<1> QED BY <1>3, <1>8

LEMMA AscendingWay ==
    ASSUME NEW S \in SUBSET Nat, IsFiniteSet(S)
    PROVE  /\ Cardinality(S) \in Nat
           /\ Ascending(S) \in [1 .. Cardinality(S) -> S]
           /\ \A t \in S : \E i \in 1 .. Cardinality(S) : Ascending(S)[i] = t
           /\ \A i, j \in 1 .. Cardinality(S) : i < j => Ascending(S)[i] < Ascending(S)[j]
<1>1. \E way \in Bijection(1 .. Cardinality(S), S) : \A i, j \in DOMAIN way : i < j => way[i] < way[j]
  BY AscendingExists DEF Ascends
<1>2. /\ Ascending(S) \in Bijection(1 .. Cardinality(S), S)
      /\ \A i, j \in DOMAIN Ascending(S) : i < j => Ascending(S)[i] < Ascending(S)[j]
  BY <1>1 DEF Ascending
<1>3. Ascending(S) \in [1 .. Cardinality(S) -> S]
      /\ \A t \in S : \E i \in 1 .. Cardinality(S) : Ascending(S)[i] = t
  BY <1>2 DEF Bijection, Injection, Surjection
<1> QED BY <1>2, <1>3, FS_CardinalityType

-----------------------------------------------------------------------------
(***************************************************************************)
(* The plan.                                                               *)
(***************************************************************************)
LEMMA StepOrderIs ==
    ASSUME NEW source, NEW current
    PROVE  LET order == StepOrder(source, current)
               places == ChangedPlaces(source, current)
               way == Ascending(places)
               n == Cardinality(places)
           IN  /\ n \in Nat /\ DOMAIN order = 1 .. n
               /\ \A k \in 1 .. n : way[k] \in places /\ order[k] = RestoreOrder[way[k]]
               /\ \A i \in places : \E k \in 1 .. n : way[k] = i
               /\ \A k, l \in 1 .. n : k < l => way[k] < way[l]
<1> DEFINE places == ChangedPlaces(source, current)
<1>1. places \in SUBSET (1 .. Len(RestoreOrder)) /\ Len(RestoreOrder) \in Nat
  BY BackupAssumption DEF ChangedPlaces
<1>2. IsFiniteSet(places) /\ places \in SUBSET Nat
  <2>1. IsFiniteSet(1 .. Len(RestoreOrder))
    BY <1>1, FS_Interval
  <2> HIDE DEF places
  <2>2. IsFiniteSet(places)
    BY <1>1, <2>1, FS_Subset
  <2>3. places \in SUBSET Nat
    BY <1>1
  <2> QED BY <2>2, <2>3
<1> HIDE DEF places
<1>3. /\ Cardinality(places) \in Nat
      /\ Ascending(places) \in [1 .. Cardinality(places) -> places]
      /\ \A t \in places : \E i \in 1 .. Cardinality(places) : Ascending(places)[i] = t
      /\ \A i, j \in 1 .. Cardinality(places) : i < j => Ascending(places)[i] < Ascending(places)[j]
  BY <1>2, AscendingWay
<1>4. StepOrder(source, current) = [k \in DOMAIN Ascending(places) |-> RestoreOrder[Ascending(places)[k]]]
  BY DEF StepOrder, places
<1> QED BY <1>3, <1>4 DEF places

\* where a parameter stands in the restore order
LEMMA PlaceIsUnique ==
    ASSUME NEW i \in DOMAIN RestoreOrder
    PROVE  (CHOOSE j \in DOMAIN RestoreOrder : RestoreOrder[j] = RestoreOrder[i]) = i
<1> DEFINE c == CHOOSE j \in DOMAIN RestoreOrder : RestoreOrder[j] = RestoreOrder[i]
<1>1. c \in DOMAIN RestoreOrder /\ RestoreOrder[c] = RestoreOrder[i]
  OBVIOUS
<1> HIDE DEF c
<1>2. c = i
  BY <1>1, BackupAssumption DEF IsInjective
<1> QED BY <1>2 DEF c

LEMMA CountOnce ==
    ASSUME NEW n \in Nat, NEW f, \A k, l \in 1 .. n : k < l => f[k] # f[l]
    PROVE  Cardinality({f[k] : k \in 1 .. n}) = n
<1> DEFINE S == {f[k] : k \in 1 .. n}
           way == [k \in 1 .. n |-> f[k]]
<1>1. \A k, l \in 1 .. n : f[k] = f[l] => k = l
  <2>1. TAKE k, l \in 1 .. n
  <2>2. HAVE f[k] = f[l]
  <2>3. ~(k < l) /\ ~(l < k)
    BY <2>2
  <2> QED BY <2>3
<1>2. way \in [1 .. n -> S] /\ IsInjective(way) /\ \A t \in S : \E k \in 1 .. n : way[k] = t
  BY <1>1 DEF IsInjective
<1>3. ExistsBijection(1 .. n, S)
  BY <1>2 DEF ExistsBijection, Bijection, Injection, Surjection
<1> HIDE DEF S
<1>4. Cardinality(S) = n
  BY <1>3, FS_CountingElements
<1> QED BY <1>4 DEF S

\* what PlanRestoresSource says of the plan on offer
Restores(plan) ==
    LET touched == {plan.steps[i].param : i \in DOMAIN plan.steps}
        After(p) == IF p \in touched
                    THEN (CHOOSE s \in Range(plan.steps) : s.param = p).target
                    ELSE plan.current.values[p]
        Position(p) == CHOOSE i \in DOMAIN RestoreOrder : RestoreOrder[i] = p
    IN  /\ plan.source.complete /\ plan.current.complete /\ plan.source.is = "mine"
        /\ Cardinality(touched) = Len(plan.steps)
        /\ touched \cap plan.skipped = {} /\ DOMAIN plan.source.values \subseteq touched \cup plan.skipped
        /\ \A p \in DOMAIN plan.current.values :
              After(p) = IF p \in Restorable \cap Range(RestoreOrder) \cap DOMAIN plan.source.values
                         THEN plan.source.values[p] ELSE plan.current.values[p]
        /\ \A i, j \in DOMAIN plan.steps :
              i < j => Position(plan.steps[i].param) < Position(plan.steps[j].param)

LEMMA ApprovedRestores == ASSUME NEW plan, Approved(plan) PROVE Restores(plan)
<1>1. PICK source, current \in BackupType :
          /\ plan = BuildRestorePlan(source, current)
          /\ source.complete /\ current.complete /\ source.is = "mine"
  BY DEF Approved
<1> DEFINE order == StepOrder(source, current)
           places == ChangedPlaces(source, current)
           way == Ascending(places)
           n == Cardinality(places)
           Step(i) == [param |-> order[i], old |-> current.values[order[i]], target |-> source.values[order[i]]]
           steps == [i \in DOMAIN order |-> Step(i)]
           skipped == (DOMAIN source.values \cup DOMAIN current.values \cup Range(RestoreOrder)) \ Range(order)
           touched == {steps[i].param : i \in DOMAIN steps}
<1>2. /\ n \in Nat /\ DOMAIN order = 1 .. n
      /\ \A k \in 1 .. n : way[k] \in places /\ order[k] = RestoreOrder[way[k]]
      /\ \A i \in places : \E k \in 1 .. n : way[k] = i
      /\ \A k, l \in 1 .. n : k < l => way[k] < way[l]
  BY StepOrderIs
<1>3. plan = [steps |-> steps, skipped |-> skipped, source |-> source, current |-> current]
  BY <1>1 DEF BuildRestorePlan
<1>4. \A i \in places : /\ i \in DOMAIN RestoreOrder /\ i \in Nat
                        /\ RestoreOrder[i] \in DOMAIN source.values \cup DOMAIN current.values
                        /\ DiffStatus(source, current, RestoreOrder[i]) = "Changed"
  BY BackupAssumption DEF ChangedPlaces
<1>5. ASSUME NEW i \in DOMAIN RestoreOrder,
             RestoreOrder[i] \in DOMAIN source.values \cup DOMAIN current.values,
             DiffStatus(source, current, RestoreOrder[i]) = "Changed"
      PROVE  i \in places
  BY <1>5 DEF ChangedPlaces
<1> HIDE DEF order, places, way, n
<1>6. DOMAIN steps = 1 .. n /\ (\A i \in 1 .. n : steps[i].param = order[i] /\ steps[i].target = source.values[order[i]])
      /\ touched = {order[k] : k \in 1 .. n} /\ touched = Range(order)
  BY <1>2 DEF Range
<1>7. Cardinality(touched) = n
  <2>1. ASSUME NEW k \in 1 .. n, NEW l \in 1 .. n, k < l PROVE order[k] # order[l]
    <3>1. way[k] \in DOMAIN RestoreOrder /\ way[l] \in DOMAIN RestoreOrder /\ way[k] \in Nat /\ way[l] \in Nat
      BY <1>2, <1>4
    <3>2. way[k] # way[l]
      BY <1>2, <2>1, <3>1
    <3>3. RestoreOrder[way[k]] # RestoreOrder[way[l]]
      BY <3>1, <3>2, BackupAssumption DEF IsInjective
    <3> QED BY <1>2, <3>3
  <2> HIDE DEF touched
  <2> QED BY <1>2, <1>6, <2>1, CountOnce
<1>8. Len(steps) = n
  BY <1>2, <1>6
<1>9. touched \cap skipped = {} /\ DOMAIN source.values \subseteq touched \cup skipped
  BY <1>6
<1>10. ASSUME NEW i \in 1 .. n, NEW j \in 1 .. n, i < j
       PROVE  (CHOOSE k \in DOMAIN RestoreOrder : RestoreOrder[k] = steps[i].param)
                < (CHOOSE k \in DOMAIN RestoreOrder : RestoreOrder[k] = steps[j].param)
  <2>1. way[i] < way[j] /\ way[i] \in DOMAIN RestoreOrder /\ way[j] \in DOMAIN RestoreOrder
    BY <1>2, <1>4, <1>10
  <2>2. steps[i].param = RestoreOrder[way[i]] /\ steps[j].param = RestoreOrder[way[j]]
    BY <1>2, <1>6
  <2> HIDE DEF steps
  <2>3. (CHOOSE k \in DOMAIN RestoreOrder : RestoreOrder[k] = steps[i].param) = way[i]
    BY <2>1, <2>2, PlaceIsUnique
  <2>4. (CHOOSE k \in DOMAIN RestoreOrder : RestoreOrder[k] = steps[j].param) = way[j]
    BY <2>1, <2>2, PlaceIsUnique
  <2> QED BY <2>1, <2>3, <2>4
<1>11. ASSUME NEW p \in DOMAIN current.values
       PROVE  (IF p \in touched THEN (CHOOSE s \in Range(steps) : s.param = p).target ELSE current.values[p])
                = IF p \in Restorable \cap Range(RestoreOrder) \cap DOMAIN source.values
                  THEN source.values[p] ELSE current.values[p]
  <2>1. CASE p \in touched
    <3> DEFINE s == CHOOSE t \in Range(steps) : t.param = p
    <3>1. \E t \in Range(steps) : t.param = p
      BY <1>6, <2>1 DEF Range
    <3>2. s \in Range(steps) /\ s.param = p
      BY <3>1
    <3>3. PICK i \in 1 .. n : s = steps[i]
      BY <1>6, <3>2 DEF Range
    <3>4. s.target = source.values[p] /\ order[i] = p
      BY <1>6, <3>2, <3>3
    <3> HIDE DEF s
    <3>5. way[i] \in places /\ p = RestoreOrder[way[i]]
      BY <1>2, <3>4
    <3>6. p \in Range(RestoreOrder) /\ DiffStatus(source, current, p) = "Changed"
      BY <1>4, <3>5 DEF Range
    <3>7. p \in Restorable /\ p \in DOMAIN source.values
      BY <3>6 DEF DiffStatus
    <3> HIDE DEF touched, steps
    <3> QED BY <2>1, <3>4, <3>6, <3>7 DEF s
  <2>2. CASE p \notin touched /\ p \in Restorable \cap Range(RestoreOrder) \cap DOMAIN source.values
    <3>1. PICK i \in DOMAIN RestoreOrder : p = RestoreOrder[i]
      BY <2>2 DEF Range
    <3>2. i \notin places
      <4>1. SUFFICES ASSUME i \in places PROVE FALSE
        OBVIOUS
      <4>2. PICK k \in 1 .. n : way[k] = i
        BY <1>2, <4>1
      <4>3. order[k] = p
        BY <1>2, <3>1, <4>2
      <4> QED BY <1>6, <2>2, <4>3
    <3>3. DiffStatus(source, current, p) # "Changed"
      BY <1>5, <3>1, <3>2
    <3>4. source.values[p] = current.values[p]
      BY <2>2, <3>3 DEF DiffStatus
    <3> HIDE DEF touched
    <3> QED BY <2>2, <3>4
  <2>3. CASE p \notin touched /\ p \notin Restorable \cap Range(RestoreOrder) \cap DOMAIN source.values
    <3> HIDE DEF touched
    <3> QED BY <2>3
  <2> HIDE DEF touched
  <2> QED BY <2>1, <2>2, <2>3
<1> HIDE DEF steps, skipped
<1>12. plan.steps = steps /\ plan.skipped = skipped /\ plan.source = source /\ plan.current = current
  BY <1>3
<1>13. {plan.steps[i].param : i \in DOMAIN plan.steps} = touched
  BY <1>12
<1> HIDE DEF touched
<1>14. /\ Cardinality(touched) = Len(plan.steps)
       /\ touched \cap plan.skipped = {} /\ DOMAIN plan.source.values \subseteq touched \cup plan.skipped
  BY <1>7, <1>8, <1>9, <1>12
<1>15. \A i, j \in DOMAIN plan.steps :
          i < j => (CHOOSE k \in DOMAIN RestoreOrder : RestoreOrder[k] = plan.steps[i].param)
                     < (CHOOSE k \in DOMAIN RestoreOrder : RestoreOrder[k] = plan.steps[j].param)
  BY <1>6, <1>10, <1>12
<1>16. \A p \in DOMAIN plan.current.values :
          (IF p \in touched THEN (CHOOSE s \in Range(plan.steps) : s.param = p).target
           ELSE plan.current.values[p])
             = IF p \in Restorable \cap Range(RestoreOrder) \cap DOMAIN plan.source.values
               THEN plan.source.values[p] ELSE plan.current.values[p]
  BY <1>11, <1>12
<1>17. plan.source.complete /\ plan.current.complete /\ plan.source.is = "mine"
  BY <1>1, <1>12
<1> QED BY <1>13, <1>14, <1>15, <1>16, <1>17, Zenon DEF Restores

-----------------------------------------------------------------------------
(***************************************************************************)
(* Types.                                                                  *)
(***************************************************************************)
LEMMA NoBackupTyped == NoBackup \in BackupType /\ NoBackup.is = "none" /\ NoValues \in CapturedMaps
<1>1. NoValues \in [{} -> RawValues]
  BY DEF NoValues
<1>2. NoValues \in CapturedMaps
  BY <1>1 DEF CapturedMaps
<1> QED BY <1>2 DEF NoBackup, Backup, BackupType, ValueMaps

LEMMA SketchTyped ==
    /\ \A current \in BackupType : Sketch(current) \in OfferedPlans /\ Sketch(current).current = current
    /\ NoRestorePlan = Sketch(NoBackup) /\ NoRestorePlan \in OfferedPlans
<1> DEFINE none == <<>>
<1>1. NoRestorePlan = [steps |-> none, skipped |-> {}, source |-> NoBackup, current |-> NoBackup]
  BY DEF NoRestorePlan
<1> HIDE DEF none
<1>2. \A current : Sketch(current) = [steps |-> none, skipped |-> {}, source |-> NoBackup, current |-> current]
  BY <1>1 DEF Sketch
<1> QED BY <1>1, <1>2, NoBackupTyped DEF OfferedPlans

LEMMA BuiltTyped ==
    ASSUME NEW source \in BackupType, NEW current \in BackupType
    PROVE  BuildRestorePlan(source, current) \in OfferedPlans /\ BuildRestorePlan(source, current).current = current
<1>1. BuildRestorePlan(source, current) \in OfferedPlans
  BY DEF OfferedPlans
<1>2. BuildRestorePlan(source, current).current = current
  BY DEF BuildRestorePlan
<1> QED BY <1>1, <1>2

LEMMA PlanTyped ==
    ASSUME NEW plan \in OfferedPlans
    PROVE  plan.current \in BackupType
BY SketchTyped, BuiltTyped DEF OfferedPlans

LEMMA ApprovedTyped == ASSUME NEW plan, Approved(plan) PROVE plan \in OfferedPlans
BY BuiltTyped DEF Approved

LEMMA JobTyped ==
    ASSUME NEW kind \in {"Capture", "Load", "Prepare"}, NEW path \in Nat, NEW source \in BackupType
    PROVE  LET job == Job(kind, path, source)
           IN  /\ job \in JobType /\ job.kind = kind /\ job.path = path /\ job.source = source
               /\ job.at = "start" /\ job.read = 0 /\ job.values = NoValues /\ job.plan = NoRestorePlan
<1> DEFINE none == NoRestorePlan
<1>1. Job(kind, path, source) =
          [kind |-> kind, path |-> path, source |-> source, at |-> "start", read |-> 0,
           values |-> NoValues, failed |-> FALSE, plan |-> none]
  BY DEF Job
<1>2. none \in OfferedPlans /\ NoValues \in ValueMaps
  BY SketchTyped, NoBackupTyped DEF ValueMaps
<1> HIDE DEF none
<1>3. Job(kind, path, source) \in JobType
  BY <1>1, <1>2 DEF JobType
<1> QED BY <1>1, <1>3 DEF none

LEMMA BackupsInitOK == BackupsInit => BackupsInv
<1> SUFFICES ASSUME BackupsInit PROVE BackupsInv
  OBVIOUS
<1>1. disk \in Seq(BackupType)
  <2>1. ASSUME NEW f \in Range(BackupFiles) PROVE f \in BackupType
    <3>1. f.values \in ValueMaps
      BY DEF ValueMaps
    <3>2. f = [is |-> f.is, complete |-> f.complete, values |-> f.values]
      BY BackupAssumption DEF Backup
    <3>3. f.is \in {"mine", "foreign", "damaged"} /\ f.complete \in BOOLEAN
      BY BackupAssumption
    <3> QED BY <3>1, <3>2, <3>3 DEF BackupType
  <2>2. Range(BackupFiles) \subseteq BackupType
    BY <2>1
  <2>3. disk \in Seq(Range(BackupFiles))
    BY BackupAssumption DEF BackupsInit
  <2> QED BY <2>2, <2>3
<1>2. \A i \in DOMAIN disk : disk[i].is # "none" /\ Whole(disk[i])
  <2>1. \A i \in DOMAIN disk : disk[i] \in Range(BackupFiles)
    BY DEF BackupsInit, Range
  <2> QED BY <2>1, BackupAssumption DEF Whole
<1>3. screen \in ScreenType /\ screen.source.is # "damaged" /\ screen.prepared = NoRestorePlan
  <2> DEFINE none == NoRestorePlan
             back == NoBackup
  <2>1. screen = [path |-> 0, source |-> back, current |-> back, prepared |-> none]
    BY DEF BackupsInit, EmptyScreen
  <2>2. none \in OfferedPlans /\ back \in BackupType /\ back.is = "none"
    BY SketchTyped, NoBackupTyped
  <2> HIDE DEF none, back
  <2>3. screen \in ScreenType /\ screen.source = back /\ screen.prepared = none
    BY <2>1, <2>2 DEF ScreenType
  <2> QED BY <2>2, <2>3 DEF none
<1> QED BY <1>1, <1>2, <1>3 DEF BackupsInit, BackupsInv

-----------------------------------------------------------------------------
(***************************************************************************)
(* Keys and the link.                                                      *)
(***************************************************************************)

LEMMA BackupsFrame ==
    ASSUME BackupsInv, UNCHANGED <<disk, screen, jobs>>, panel' \in [Included -> RawValues]
    PROVE  BackupsInv'
BY DEF BackupsInv, JobInv

LEMMA WorldStep ==
    ASSUME BackupsInv,
           (\E p \in Included, v \in RawValues : PanelChanges(p, v)) \/ Reconnected \/ LinkLost(FALSE)
    PROVE  BackupsInv'
<1>1. UNCHANGED <<disk, screen, jobs>>
  BY DEF PanelChanges, Reconnected, LinkLost
<1>2. panel' \in [Included -> RawValues]
  BY DEF PanelChanges, Reconnected, LinkLost, BackupsInv
<1> QED BY <1>1, <1>2, BackupsFrame

\* a task that has nothing yet is started, and the screen offers no plan or the same
LEMMA TaskStarts ==
    ASSUME BackupsInv, NEW kind \in {"Capture", "Load", "Prepare"}, NEW path \in Nat, NEW source \in BackupType,
           kind = "Load" => path \in DOMAIN disk, kind = "Prepare" => source.is \in {"mine", "foreign"},
           jobs' = jobs \cup {Job(kind, path, source)}, UNCHANGED <<panel, disk>>,
           screen' \in ScreenType, screen'.source.is # "damaged",
           screen'.prepared \in {NoRestorePlan, screen.prepared}
    PROVE  BackupsInv'
<1> DEFINE job == Job(kind, path, source)
<1>1. /\ job \in JobType /\ job.kind = kind /\ job.path = path /\ job.source = source
      /\ job.at = "start" /\ job.read = 0 /\ job.values = NoValues /\ job.plan = NoRestorePlan
  BY JobTyped
<1> HIDE DEF job
<1>2. JobInv(job)'
  BY <1>1, NoBackupTyped DEF JobInv
<1>3. \A j \in jobs : JobInv(j)'
  BY DEF BackupsInv, JobInv
<1>4. \A j \in jobs' : JobInv(j)'
  BY <1>2, <1>3 DEF job
<1> QED BY <1>4 DEF BackupsInv

\* a screen with another plan, or another backup
LEMMA ScreenLoads ==
    ASSUME BackupsInv, NEW path \in Nat, NEW plan \in OfferedPlans,
           screen' = [screen EXCEPT !.path = path, !.prepared = plan]
    PROVE  screen' \in ScreenType /\ screen'.source = screen.source /\ screen'.prepared = plan
BY DEF BackupsInv, ScreenType

LEMMA ScreenOffers ==
    ASSUME BackupsInv, NEW plan \in OfferedPlans, screen' = [screen EXCEPT !.prepared = plan]
    PROVE  screen' \in ScreenType /\ screen'.source = screen.source /\ screen'.prepared = plan
BY DEF BackupsInv, ScreenType

LEMMA ScreenShows ==
    ASSUME BackupsInv, NEW current \in BackupType, NEW plan \in OfferedPlans,
           screen' = [screen EXCEPT !.current = current, !.prepared = plan]
    PROVE  screen' \in ScreenType /\ screen'.source = screen.source /\ screen'.prepared = plan
BY DEF BackupsInv, ScreenType

LEMMA ScreenSource ==
    ASSUME BackupsInv, NEW source \in BackupType, screen' = [screen EXCEPT !.source = source]
    PROVE  screen' \in ScreenType /\ screen'.source = source /\ screen'.prepared = screen.prepared
BY DEF BackupsInv, ScreenType

LEMMA KeyStep ==
    ASSUME BackupsInv, CaptureKey \/ PrepareKey \/ ConfirmOrClear \/ \E path \in DOMAIN disk : LoadSource(path)
    PROVE  BackupsInv'
<1>1. screen \in ScreenType /\ screen.source \in BackupType /\ screen.source.is # "damaged"
  BY DEF BackupsInv, ScreenType
<1>2. NoRestorePlan \in OfferedPlans /\ NoBackup \in BackupType
  BY SketchTyped, NoBackupTyped
<1>3. CASE CaptureKey
  <2>1. jobs' = jobs \cup {Job("Capture", 0, NoBackup)} /\ UNCHANGED <<panel, disk, screen>>
    BY <1>3 DEF CaptureKey, Spawns
  <2> QED BY <1>1, <1>2, <2>1, TaskStarts
<1>4. CASE PrepareKey
  <2>1. /\ jobs' = jobs \cup {Job("Prepare", 0, screen.source)} /\ UNCHANGED <<panel, disk>>
        /\ screen' = [screen EXCEPT !.prepared = NoRestorePlan] /\ screen.source.is # "none"
    BY <1>4 DEF PrepareKey, Spawns
  <2>2. screen' \in ScreenType /\ screen'.source = screen.source /\ screen'.prepared = NoRestorePlan
    BY <1>2, <2>1, ScreenOffers
  <2>3. screen.source.is \in {"mine", "foreign"}
    BY <1>1, <2>1 DEF BackupType
  <2> QED BY <1>1, <2>1, <2>2, <2>3, TaskStarts
<1>5. CASE ConfirmOrClear
  <2>1. screen' = [screen EXCEPT !.prepared = NoRestorePlan] /\ UNCHANGED <<panel, disk, jobs>>
    BY <1>5 DEF ConfirmOrClear
  <2>2. screen' \in ScreenType /\ screen'.source = screen.source /\ screen'.prepared = NoRestorePlan
    BY <1>2, <2>1, ScreenOffers
  <2> QED BY <1>1, <2>1, <2>2 DEF BackupsInv, JobInv
<1>6. ASSUME NEW path \in DOMAIN disk, LoadSource(path) PROVE BackupsInv'
  <2>1. /\ jobs' = jobs \cup {Job("Load", path, NoBackup)} /\ UNCHANGED <<panel, disk>>
        /\ screen' = [screen EXCEPT !.path = path, !.prepared = NoRestorePlan]
    BY <1>6 DEF LoadSource, Spawns
  <2>2. path \in Nat
    BY DEF BackupsInv
  <2>3. screen' \in ScreenType /\ screen'.source = screen.source /\ screen'.prepared = NoRestorePlan
    BY <1>2, <2>1, <2>2, ScreenLoads
  <2> QED BY <1>1, <1>2, <2>1, <2>2, <2>3, TaskStarts
<1> QED BY <1>3, <1>4, <1>5, <1>6

LEMMA RemovedStep == ASSUME BackupsInv, LinkLost(TRUE) PROVE BackupsInv'
<1>1. /\ screen' = [screen EXCEPT !.current = NoBackup, !.prepared = NoRestorePlan]
      /\ UNCHANGED <<panel, disk, jobs>>
  BY DEF LinkLost, ClearSession
<1>2. NoRestorePlan \in OfferedPlans /\ NoBackup \in BackupType
  BY SketchTyped, NoBackupTyped
<1>3. screen' \in ScreenType /\ screen'.source = screen.source /\ screen'.prepared = NoRestorePlan
  BY <1>1, <1>2, ScreenShows
<1> QED BY <1>1, <1>3 DEF BackupsInv, JobInv

-----------------------------------------------------------------------------
(***************************************************************************)
(* Tasks.                                                                  *)
(***************************************************************************)

\* a task leaves
LEMMA TaskEnds ==
    ASSUME BackupsInv, NEW job \in jobs, jobs' = jobs \ {job}, UNCHANGED <<panel, disk>>,
           screen' \in ScreenType, screen'.source.is # "damaged",
           screen'.prepared = NoRestorePlan \/ Approved(screen'.prepared)
    PROVE  BackupsInv'
BY DEF BackupsInv, JobInv

\* a task goes on
LEMMA TaskGoesOn ==
    ASSUME BackupsInv, NEW job \in jobs, NEW next, Becomes(job, next), UNCHANGED <<panel, disk, screen>>, JobInv(next)
    PROVE  BackupsInv'
BY DEF BackupsInv, JobInv, Becomes

LEMMA ScreenHolds ==
    ASSUME BackupsInv, UNCHANGED screen
    PROVE  /\ screen' \in ScreenType /\ screen'.source.is # "damaged"
           /\ screen'.prepared = NoRestorePlan \/ Approved(screen'.prepared)
BY DEF BackupsInv

LEMMA LoadStep == ASSUME BackupsInv, NEW job \in jobs, LoadFinished(job) PROVE BackupsInv'
<1>1. JobInv(job) /\ job.kind = "Load" /\ jobs' = jobs \ {job} /\ UNCHANGED <<panel, disk>>
      /\ screen' = [screen EXCEPT !.source = DecodeBackup(disk[job.path])]
  BY DEF LoadFinished, BackupsInv
<1>2. disk[job.path] \in BackupType
  BY <1>1 DEF JobInv, BackupsInv
<1> DEFINE source == DecodeBackup(disk[job.path])
<1>3. source \in BackupType /\ source.is # "damaged"
  BY <1>2, NoBackupTyped DEF DecodeBackup
<1>4. screen' = [screen EXCEPT !.source = source]
  BY <1>1
<1> HIDE DEF source
<1>5. screen' \in ScreenType /\ screen'.source = source /\ screen'.prepared = screen.prepared
  BY <1>3, <1>4, ScreenSource
<1>6. screen.prepared = NoRestorePlan \/ Approved(screen.prepared)
  BY DEF BackupsInv
<1> QED BY <1>1, <1>3, <1>5, <1>6, TaskEnds

LEMMA StartStep == ASSUME BackupsInv, NEW job \in jobs, CaptureStart(job) PROVE BackupsInv'
<1>1. JobInv(job) /\ job.kind # "Load" /\ job.at = "start" /\ UNCHANGED <<panel, disk, screen>>
  BY DEF CaptureStart, BackupsInv
<1>2. CASE ~linked
  <2>1. jobs' = jobs \ {job}
    BY <1>2 DEF CaptureStart
  <2> QED BY <1>1, <2>1, ScreenHolds, TaskEnds
<1>3. CASE linked
  <2> DEFINE next == [job EXCEPT !.at = "read"]
  <2>1. Becomes(job, next)
    BY <1>3 DEF CaptureStart
  <2>2. /\ next \in JobType /\ next.at = "read" /\ next.kind = job.kind /\ next.source = job.source
        /\ next.plan = job.plan /\ next.values = job.values /\ next.read = job.read
    BY <1>1 DEF JobInv, JobType
  <2> HIDE DEF next
  <2>3. DOMAIN next.values = {} /\ next.read = 0
    BY <1>1, <2>2 DEF JobInv, NoValues
  <2>4. {BackupParams[i] : i \in 1 .. 0} = {}
    OBVIOUS
  <2>5. JobInv(next)
    BY <1>1, <2>2, <2>3, <2>4 DEF JobInv
  <2> QED BY <1>1, <2>1, <2>5, TaskGoesOn
<1> QED BY <1>2, <1>3

\* a parameter read: the values have one more, or the task remembers that one is missing
LEMMA ReadKeeps ==
    ASSUME BackupsInv, NEW job, JobInv(job), NEW good \in BOOLEAN,
           job.at = "read", job.read < Len(BackupParams)
    PROVE  JobInv(AfterRead(job, BackupParams[job.read + 1], good))
<1> DEFINE p == BackupParams[job.read + 1]
           last == Len(BackupParams)
           more == WithValue(job.values, p)
           next == AfterRead(job, p, good)
<1>1. job \in JobType /\ job.kind # "Load" /\ job.plan = NoRestorePlan /\ job.values \in CapturedMaps
      /\ job.read \in Nat
  BY DEF JobInv, JobType
<1>2. last \in Nat /\ job.read + 1 \in 1 .. last /\ p \in Included
  BY <1>1, BackupAssumption
<1>3. more \in CapturedMaps /\ DOMAIN more = DOMAIN job.values \cup {p}
  <2>1. PICK D \in SUBSET Included : job.values \in [D -> RawValues]
    BY <1>1 DEF CapturedMaps
  <2>2. more = [q \in D \cup {p} |-> IF q = p THEN panel[p] ELSE job.values[q]]
    BY <2>1 DEF WithValue
  <2>3. panel[p] \in RawValues
    BY <1>2 DEF BackupsInv
  <2> HIDE DEF more, p
  <2>4. more \in [D \cup {p} -> RawValues]
    BY <2>1, <2>2, <2>3
  <2> QED BY <1>2, <2>1, <2>4 DEF CapturedMaps
<1> HIDE DEF last, more, p
<1>4. job.kind = "Prepare" => job.source.is \in {"mine", "foreign"}
  BY DEF JobInv
<1>5. CASE ~good \/ ~linked
  <2> DEFINE r == IF good THEN last ELSE job.read + 1
  <2>1. r \in Nat
    BY <1>1, <1>2
  <2>2. next = [job EXCEPT !.read = r, !.failed = TRUE]
    BY <1>5 DEF AfterRead, last
  <2> HIDE DEF r, next
  <2>3. /\ next \in JobType /\ next.kind = job.kind /\ next.source = job.source /\ next.at = "read"
        /\ next.plan = job.plan /\ next.values = job.values /\ next.failed = TRUE
    BY <1>1, <2>1, <2>2 DEF JobType
  <2> QED BY <1>1, <1>4, <2>3 DEF JobInv, next, p
<1>6. CASE good /\ linked
  <2> DEFINE r == job.read + 1
  <2>1. r \in Nat
    BY <1>1
  <2>2. next = [job EXCEPT !.read = r, !.values = more]
    BY <1>6 DEF AfterRead, more
  <2>3. more \in ValueMaps
    BY <1>3 DEF ValueMaps
  <2> HIDE DEF r, next
  <2>4. /\ next \in JobType /\ next.kind = job.kind /\ next.source = job.source /\ next.at = "read"
        /\ next.plan = job.plan /\ next.values = more /\ next.failed = job.failed /\ next.read = r
    BY <1>1, <2>1, <2>2, <2>3 DEF JobType
  <2>5. ASSUME ~next.failed PROVE DOMAIN next.values = {BackupParams[i] : i \in 1 .. next.read}
    <3>1. DOMAIN job.values = {BackupParams[i] : i \in 1 .. job.read}
      BY <2>4, <2>5 DEF JobInv
    <3>2. 1 .. r = (1 .. job.read) \cup {job.read + 1}
      BY <1>1 DEF r
    <3>3. {BackupParams[i] : i \in 1 .. r} = {BackupParams[i] : i \in 1 .. job.read} \cup {p}
      BY <3>2 DEF p
    <3> QED BY <1>3, <2>4, <3>1, <3>3
  <2> QED BY <1>1, <1>3, <1>4, <2>4, <2>5 DEF JobInv, next, p
<1> QED BY <1>5, <1>6

LEMMA ReadStep ==
    ASSUME BackupsInv, NEW job \in jobs, CaptureLateAnswer(job) \/ \E good \in BOOLEAN : CaptureRead(job, good)
    PROVE  BackupsInv'
<1>1. JobInv(job)
  BY DEF BackupsInv
<1>2. PICK good \in BOOLEAN :
          /\ job.at = "read" /\ job.read < Len(BackupParams) /\ UNCHANGED <<panel, disk, screen>>
          /\ Becomes(job, AfterRead(job, BackupParams[job.read + 1], good))
  BY DEF CaptureLateAnswer, CaptureRead
<1> QED BY <1>1, <1>2, ReadKeeps, TaskGoesOn

\* what a finished capture has is a backup, and a complete one has every parameter
LEMMA CapturedIsWhole ==
    ASSUME BackupsInv, NEW job \in jobs, job.at = "read", job.read = Len(BackupParams)
    PROVE  /\ Captured(job) \in BackupType /\ Captured(job).is = "mine" /\ Whole(Captured(job))
           /\ DOMAIN Captured(job).values \subseteq Included
<1>1. JobInv(job)
  BY DEF BackupsInv
<1>2. job.values \in CapturedMaps /\ job.failed \in BOOLEAN
  BY <1>1 DEF JobInv, JobType
<1> DEFINE complete == ~job.failed /\ linked
<1>3. complete \in BOOLEAN
  OBVIOUS
<1>4. Captured(job) = [is |-> "mine", complete |-> complete, values |-> job.values]
  BY DEF Captured, Backup
<1>5. ASSUME complete PROVE DOMAIN job.values = Included
  <2>1. DOMAIN job.values = {BackupParams[i] : i \in 1 .. Len(BackupParams)}
    BY <1>1, <1>5 DEF JobInv
  <2>2. DOMAIN BackupParams = 1 .. Len(BackupParams)
    BY BackupAssumption
  <2> QED BY <2>1, <2>2 DEF Included, Range
<1> HIDE DEF complete
<1>6. Captured(job) \in BackupType
  BY <1>2, <1>3, <1>4 DEF BackupType, ValueMaps
<1>7. DOMAIN job.values \subseteq Included
  BY <1>2 DEF CapturedMaps
<1> QED BY <1>4, <1>5, <1>6, <1>7 DEF Whole

LEMMA FinishStep ==
    ASSUME BackupsInv, NEW job \in jobs, NEW stored \in BOOLEAN, CaptureFinished(job, stored)
    PROVE  BackupsInv'
<1> DEFINE backup == Captured(job)
<1>1. backup \in BackupType /\ backup.is = "mine" /\ Whole(backup)
  BY CapturedIsWhole DEF CaptureFinished
<1>2. JobInv(job) /\ job.at = "read" /\ panel' = panel
  BY DEF CaptureFinished, BackupsInv
<1> HIDE DEF backup
<1>3. /\ disk' \in Seq(BackupType) /\ (\A i \in DOMAIN disk' : disk'[i].is # "none" /\ Whole(disk'[i]))
      /\ DOMAIN disk \subseteq DOMAIN disk'
  <2>1. disk \in Seq(BackupType) /\ \A i \in DOMAIN disk : disk[i].is # "none" /\ Whole(disk[i])
    BY DEF BackupsInv
  <2>2. disk' = disk \/ disk' = Append(disk, backup)
    BY DEF CaptureFinished, WriteBackup, backup
  <2>3. CASE disk' = disk
    BY <2>1, <2>3
  <2>4. CASE disk' = Append(disk, backup)
    <3>1. /\ disk' \in Seq(BackupType) /\ Len(disk') = Len(disk) + 1 /\ disk'[Len(disk) + 1] = backup
          /\ \A i \in 1 .. Len(disk) : disk'[i] = disk[i]
      BY <1>1, <2>1, <2>4
    <3>2. DOMAIN disk = 1 .. Len(disk) /\ DOMAIN disk' = 1 .. Len(disk) + 1 /\ Len(disk) \in Nat
      BY <2>1, <3>1
    <3>3. \A i \in DOMAIN disk' : i = Len(disk) + 1 \/ i \in 1 .. Len(disk)
      BY <3>2
    <3> QED BY <1>1, <2>1, <3>1, <3>2, <3>3
  <2> QED BY <2>2, <2>3, <2>4
<1>4. \A j \in jobs : JobInv(j)'
  <2>1. TAKE j \in jobs
  <2>2. JobInv(j)
    BY DEF BackupsInv
  <2> QED BY <1>3, <2>2 DEF JobInv
<1>5. screen \in ScreenType /\ screen.source.is # "damaged"
      /\ (screen.prepared = NoRestorePlan \/ Approved(screen.prepared))
  BY DEF BackupsInv
<1>6. CASE ~stored
  <2>1. jobs' = jobs \ {job} /\ screen' = screen
    BY <1>6 DEF CaptureFinished
  <2> QED BY <1>2, <1>3, <1>4, <1>5, <2>1 DEF BackupsInv
<1>7. CASE stored /\ job.kind = "Capture"
  <2>1. jobs' = jobs \ {job} /\ screen' = [screen EXCEPT !.current = backup, !.prepared = NoRestorePlan]
    BY <1>7 DEF CaptureFinished, backup
  <2>2. screen' \in ScreenType /\ screen'.source = screen.source /\ screen'.prepared = NoRestorePlan
    BY <1>1, <2>1, SketchTyped, ScreenShows
  <2> QED BY <1>2, <1>3, <1>4, <1>5, <2>1, <2>2 DEF BackupsInv
<1>8. CASE stored /\ job.kind # "Capture"
  <2> DEFINE sketch == Sketch(backup)
             next == [job EXCEPT !.at = "plan", !.plan = sketch]
  <2>1. job \in JobType /\ job.kind = "Prepare" /\ job.plan = NoRestorePlan
    BY <1>2, <1>8 DEF JobInv, JobType
  <2>2. sketch \in OfferedPlans /\ sketch = [NoRestorePlan EXCEPT !.current = backup]
    BY <1>1, SketchTyped DEF Sketch
  <2>3. Becomes(job, [job EXCEPT !.at = "plan", !.plan = [job.plan EXCEPT !.current = backup]]) /\ screen' = screen
    BY <1>8 DEF CaptureFinished, backup
  <2> HIDE DEF sketch
  <2>4. Becomes(job, next)
    BY <2>1, <2>2, <2>3
  <2>5. /\ next \in JobType /\ next.at = "plan" /\ next.kind = job.kind /\ next.source = job.source
    BY <2>1, <2>2 DEF JobType
  <2> HIDE DEF next
  <2>6. PICK planned : planned = next
    OBVIOUS
  <2>7. planned \in JobType /\ planned.at = "plan" /\ planned.kind = job.kind /\ planned.source = job.source
    BY <2>5, <2>6
  <2>8. JobInv(planned)'
    BY <1>2, <2>1, <2>7 DEF JobInv
  <2>9. jobs' = (jobs \ {job}) \cup {planned}
    BY <2>4, <2>6 DEF Becomes
  <2>10. \A j \in jobs' : JobInv(j)'
    BY <1>4, <2>8, <2>9
  <2> QED BY <1>2, <1>3, <1>5, <2>3, <2>10 DEF BackupsInv
<1> QED BY <1>6, <1>7, <1>8

LEMMA PlanStep ==
    ASSUME BackupsInv, NEW job \in jobs, NEW allowed \in BOOLEAN, PrepareRestorePlan(job, allowed)
    PROVE  BackupsInv'
<1> DEFINE plan == BuildRestorePlan(job.source, job.plan.current)
           next == [job EXCEPT !.at = "reply", !.plan = plan]
<1>1. JobInv(job) /\ job \in JobType /\ job.kind = "Prepare" /\ UNCHANGED <<panel, disk, screen>>
  BY DEF PrepareRestorePlan, BackupsInv, JobInv
<1>2. job.source \in BackupType /\ job.plan \in OfferedPlans /\ job.source.is \in {"mine", "foreign"}
  BY <1>1 DEF JobInv, JobType
<1>3. job.plan.current \in BackupType
  BY <1>2, PlanTyped
<1>4. jobs' = jobs \ {job} \/ (Becomes(job, next) /\ ~PlanRefused(job.source, job.plan.current))
  BY DEF PrepareRestorePlan
<1>5. CASE jobs' = jobs \ {job}
  BY <1>1, <1>5, ScreenHolds, TaskEnds
<1>6. CASE Becomes(job, next) /\ ~PlanRefused(job.source, job.plan.current)
  <2>1. Approved(plan)
    BY <1>2, <1>3, <1>6 DEF PlanRefused, Approved
  <2>2. plan \in OfferedPlans
    BY <1>2, <1>3, BuiltTyped
  <2> HIDE DEF plan
  <2>3. /\ next \in JobType /\ next.at = "reply" /\ next.kind = job.kind /\ next.source = job.source
        /\ next.plan = plan
    BY <1>1, <2>2 DEF JobType
  <2> HIDE DEF next
  <2>4. JobInv(next)
    BY <1>1, <1>2, <2>1, <2>3 DEF JobInv
  <2> QED BY <1>1, <1>6, <2>4, TaskGoesOn DEF next, plan
<1> QED BY <1>4, <1>5, <1>6

LEMMA PreparedStep == ASSUME BackupsInv, NEW job \in jobs, RestorePrepared(job) PROVE BackupsInv'
<1> DEFINE plan == job.plan
           current == plan.current
<1>1. JobInv(job) /\ Approved(plan) /\ jobs' = jobs \ {job} /\ UNCHANGED <<panel, disk>>
      /\ screen' = [screen EXCEPT !.current = current, !.prepared = plan]
  BY DEF RestorePrepared, BackupsInv, JobInv
<1>2. plan \in OfferedPlans
  BY <1>1, ApprovedTyped
<1>3. current \in BackupType
  BY <1>2, PlanTyped
<1> HIDE DEF plan, current
<1>4. screen' \in ScreenType /\ screen'.source = screen.source /\ screen'.prepared = plan
  BY <1>1, <1>2, <1>3, ScreenShows
<1>5. screen.source.is # "damaged"
  BY DEF BackupsInv
<1> QED BY <1>1, <1>4, <1>5, TaskEnds

LEMMA BackupsStep == BackupsInv /\ [BackupsNext]_backupVars => BackupsInv'
<1> SUFFICES ASSUME BackupsInv, [BackupsNext]_backupVars PROVE BackupsInv'
  OBVIOUS
<1>1. CASE UNCHANGED backupVars
  BY <1>1, BackupsFrame DEF backupVars, BackupsInv
<1>2. CASE (\E p \in Included, v \in RawValues : PanelChanges(p, v)) \/ Reconnected
  BY <1>2, WorldStep
<1>3. ASSUME NEW removed \in BOOLEAN, LinkLost(removed) PROVE BackupsInv'
  BY <1>3, WorldStep, RemovedStep
<1>4. CASE CaptureKey \/ PrepareKey \/ ConfirmOrClear \/ \E path \in DOMAIN disk : LoadSource(path)
  BY <1>4, KeyStep
<1>5. ASSUME NEW job \in jobs, LoadFinished(job) \/ CaptureStart(job) \/ CaptureLateAnswer(job) \/ RestorePrepared(job)
      PROVE BackupsInv'
  BY <1>5, LoadStep, StartStep, ReadStep, PreparedStep
<1>6. ASSUME NEW job \in jobs, NEW good \in BOOLEAN,
             CaptureRead(job, good) \/ CaptureFinished(job, good) \/ PrepareRestorePlan(job, good)
      PROVE BackupsInv'
  BY <1>6, ReadStep, FinishStep, PlanStep
<1> QED BY <1>1, <1>2, <1>3, <1>4, <1>5, <1>6, Zenon DEF BackupsNext

\* The invariant holds: what a capture has read is what it counts, a backup of this
\* drive that calls itself complete has every parameter, and every plan on offer
\* was made of two complete ones (BackupCoordinator::capture, build_restore_plan).
THEOREM BackupsInvHolds == BackupsSpec => []BackupsInv
BY BackupsInitOK, BackupsStep, PTL DEF BackupsSpec

LEMMA InvRestores == BackupsInv => PlanRestoresSource
<1> SUFFICES ASSUME BackupsInv PROVE PlanRestoresSource
  OBVIOUS
<1>1. CompleteBackupIsWhole
  BY DEF BackupsInv, Whole, CompleteBackupIsWhole
<1>2. screen.prepared # NoRestorePlan => Restores(screen.prepared)
  BY ApprovedRestores DEF BackupsInv
<1> QED BY <1>1, <1>2, Zenon DEF PlanRestoresSource, Restores

\* The plan on offer, in every order of captures, loads, losses and replies, is made
\* of two complete backups of this drive and restores the source exactly
\* (build_restore_plan, restore.rs:166).
THEOREM PlanAlwaysRestores == BackupsSpec => []PlanRestoresSource
BY BackupsInvHolds, InvRestores, PTL

-----------------------------------------------------------------------------
(***************************************************************************)
(* The invariant of the terminal.                                          *)
(***************************************************************************)
UiFields == {"screen", "selected", "form", "edit", "editor", "modal", "search", "quality"}
EditorFields == {"kind", "at", "index", "bits"}

Edits == {"none", "ManualPath", "ProfileSearch", "ScopeSearch", "ParameterSearch", "BackupSourcePath",
          "WriteArming", "WriteConfirmation", "RestoreConfirmation"}

\* a user interface: its selection is a number, its edit one of those there are
IsUi(u) ==
    /\ u = [x \in UiFields |-> u[x]]
    /\ u.editor = [x \in EditorFields |-> u.editor[x]]
    /\ u.selected \in Nat /\ u.edit \in Edits

\* Text in the form is the text of the open editor or of the edit that has the keys.
FormInv ==
    \A of \in ui.form.of :
        IF of = "editor" THEN ui.screen = "Parameters" /\ ui.editor.kind = "Text"
        ELSE ui.edit = of /\ of # "none"

\* An editor is open on the screen of the parameters only, and on a parameter that is
\* in the view: the catalog stays as long as there is a session.
EditorInv ==
    ui.editor.kind # "none" =>
        ui.screen = "Parameters" /\ phase # "none" /\ ui.editor.at \in DOMAIN catalog

TerminalInv ==
    /\ catalog \in Seq(Range(catalog))
    /\ IsUi(ui) /\ FormInv /\ EditorInv

-----------------------------------------------------------------------------
(***************************************************************************)
(* The list and its window.                                                *)
(***************************************************************************)
LEMMA ListIs ==
    ASSUME catalog \in Seq(Range(catalog))
    PROVE  /\ Len(FilteredParameters) \in Nat
           /\ FilteredParameters \in [1 .. Len(FilteredParameters) -> DOMAIN ViewCatalog]
           /\ FilteredParameters \in Seq(Nat)
<1> DEFINE S == {i \in DOMAIN ViewCatalog : MatchesFilters(i)}
           n == Cardinality(S)
<1>1. DOMAIN ViewCatalog \subseteq 1 .. Len(catalog) /\ Len(catalog) \in Nat
  BY DEF ViewCatalog
<1>2. S \in SUBSET (1 .. Len(catalog)) /\ S \subseteq DOMAIN ViewCatalog
  BY <1>1
<1>3. FilteredParameters = Ascending(S)
  BY DEF FilteredParameters
<1> HIDE DEF S
<1>4. IsFiniteSet(S) /\ S \in SUBSET Nat
  <2>1. IsFiniteSet(1 .. Len(catalog))
    BY <1>1, FS_Interval
  <2>2. IsFiniteSet(S)
    BY <1>2, <2>1, FS_Subset
  <2> QED BY <1>1, <1>2, <2>2
<1>5. n \in Nat /\ FilteredParameters \in [1 .. n -> S]
  BY <1>3, <1>4, AscendingWay
<1> HIDE DEF n
<1>6. Len(FilteredParameters) = n
  BY <1>5
<1>7. FilteredParameters \in Seq(Nat)
  <2>1. FilteredParameters \in [1 .. n -> Nat]
    BY <1>4, <1>5
  <2> QED BY <1>5, <2>1
<1> QED BY <1>2, <1>5, <1>6, <1>7

LEMMA ClampedIn ==
    ASSUME NEW list \in Seq(Nat), NEW index \in Nat
    PROVE  Clamped(index, list) \in Nat /\ (list # <<>> => Clamped(index, list) + 1 \in DOMAIN list)
<1>1. Len(list) \in Nat /\ DOMAIN list = 1 .. Len(list) /\ (list = <<>> <=> Len(list) = 0)
  OBVIOUS
<1> QED BY <1>1 DEF Clamped

\* the parameter that the keys act on is in the view
LEMMA SelectedIn ==
    ASSUME TerminalInv, SelectedParameter # 0
    PROVE  SelectedParameter \in DOMAIN ViewCatalog
<1> DEFINE list == FilteredParameters
<1>1. list \in Seq(Nat) /\ list \in [1 .. Len(list) -> DOMAIN ViewCatalog] /\ ui.selected \in Nat
  BY ListIs DEF TerminalInv, IsUi
<1>2. SelectedParameter = IF list = <<>> THEN 0 ELSE list[Clamped(ui.selected, list) + 1]
  BY DEF SelectedParameter
<1> HIDE DEF list
<1>3. list # <<>> => Clamped(ui.selected, list) + 1 \in DOMAIN list
  BY <1>1, ClampedIn
<1> QED BY <1>1, <1>2, <1>3

LEMMA LessOf ==
    ASSUME NEW a \in Nat, NEW b \in Nat
    PROVE  Min({a, b}) = IF a <= b THEN a ELSE b
<1> DEFINE m == IF a <= b THEN a ELSE b
<1>1. m \in {a, b} /\ \A y \in {a, b} : m <= y
  OBVIOUS
<1>2. \A x \in {a, b} : (\A y \in {a, b} : x <= y) => x = m
  OBVIOUS
<1> HIDE DEF m
<1>3. Min({a, b}) = m
  BY <1>1, <1>2 DEF Min
<1> QED BY <1>3 DEF m

\* The window has a page, or the whole list, and the selection is in it.
LEMMA WindowHolds ==
    ASSUME NEW list \in Seq(Nat), list # <<>>, NEW selected \in Nat
    PROVE  /\ list[Clamped(selected, list) + 1] \in Range(VisibleParameterIds(list, selected))
           /\ Len(VisibleParameterIds(list, selected)) = Min({PageRows, Len(list)})
<1> DEFINE n == Len(list)
           at == Clamped(selected, list)
           before == PageRows \div 3
           start == IF at < before THEN 0 ELSE at - before
           pulled == IF start + PageRows > n THEN IF n < PageRows THEN 0 ELSE n - PageRows ELSE start
           high == Min({pulled + PageRows, n})
           window == SubSeq(list, pulled + 1, high)
<1>1. n \in Nat /\ n >= 1 /\ DOMAIN list = 1 .. n
  OBVIOUS
<1>2. at \in Nat /\ at < n
  <2>1. at \in Nat /\ at + 1 \in DOMAIN list
    BY ClampedIn
  <2> HIDE DEF at
  <2> QED BY <1>1, <2>1
<1>3. PageRows \in Nat /\ PageRows >= 1 /\ before \in Nat /\ before < PageRows
  BY TerminalAssumption
<1>4. window = VisibleParameterIds(list, selected)
  BY DEF VisibleParameterIds
<1> HIDE DEF n, at, before
<1>5. start \in Nat /\ start <= at /\ at < start + PageRows
  BY <1>2, <1>3
<1> HIDE DEF start
<1>6. pulled \in Nat /\ pulled <= at /\ at < pulled + PageRows /\ pulled <= n
      /\ (pulled + PageRows <= n \/ pulled = 0 \/ pulled + PageRows = n)
  BY <1>1, <1>2, <1>3, <1>5
<1> HIDE DEF pulled
<1>7. high = IF pulled + PageRows <= n THEN pulled + PageRows ELSE n
  BY <1>1, <1>3, <1>6, LessOf
<1> HIDE DEF high
<1>8. high \in Nat /\ at < high /\ pulled + 1 <= high /\ high <= n
      /\ high - pulled = (IF PageRows <= n THEN PageRows ELSE n)
  BY <1>1, <1>2, <1>3, <1>6, <1>7
<1>9. \A i \in pulled + 1 .. high : list[i] \in Nat
  BY <1>1, <1>6, <1>8
<1>10. /\ Len(window) = high - pulled
       /\ \A i \in 1 .. high - pulled : window[i] = list[pulled + i]
       /\ DOMAIN window = 1 .. high - pulled
  BY <1>1, <1>6, <1>8, <1>9
<1> HIDE DEF window
<1>11. at + 1 - pulled \in 1 .. high - pulled /\ window[at + 1 - pulled] = list[at + 1]
  BY <1>2, <1>6, <1>8, <1>10
<1>12. list[at + 1] \in Range(window)
  BY <1>10, <1>11 DEF Range
<1>13. Min({PageRows, n}) = IF PageRows <= n THEN PageRows ELSE n
  BY <1>1, <1>3, LessOf
<1> QED BY <1>4, <1>8, <1>10, <1>12, <1>13 DEF n, at

LEMMA InvIsSafe == TerminalInv => PromptsAreSafe
<1> SUFFICES ASSUME TerminalInv PROVE PromptsAreSafe
  OBVIOUS
<1>1. FormBelongsToItsEdit
  BY DEF TerminalInv, FormInv, FormBelongsToItsEdit
<1>2. OpenIsEscapable
  BY DEF TerminalInv, EditorInv, OpenIsEscapable, KeysAreFree, InModal, InEdit, InEditor, EditorHasKeys, ViewCatalog
<1>3. WindowHoldsSelection
  <2> DEFINE list == FilteredParameters
  <2>1. list \in Seq(Nat) /\ ui.selected \in Nat
    BY ListIs DEF TerminalInv, IsUi
  <2>2. list # <<>> => SelectedParameter = list[Clamped(ui.selected, list) + 1]
    BY DEF SelectedParameter
  <2> HIDE DEF list
  <2>3. list # <<>> => /\ SelectedParameter \in Range(VisibleParameterIds(list, ui.selected))
                       /\ Len(VisibleParameterIds(list, ui.selected)) = Min({PageRows, Len(list)})
    BY <2>1, <2>2, WindowHolds
  <2> QED BY <2>3 DEF WindowHoldsSelection, list
<1> QED BY <1>1, <1>2, <1>3 DEF PromptsAreSafe

-----------------------------------------------------------------------------
(***************************************************************************)
(* What a key does to the user interface.                                  *)
(***************************************************************************)

\* nothing has the keys: no editor is open and the form is empty
LEMMA FreeIsEmpty ==
    ASSUME TerminalInv, KeysAreFree
    PROVE  ui.editor.kind = "none" /\ ui.edit = "none" /\ ui.form.of = {}
BY DEF TerminalInv, EditorInv, FormInv, KeysAreFree, InEditor, InModal

LEMMA TerminalInitOK == TerminalInit => TerminalInv
<1> SUFFICES ASSUME TerminalInit PROVE TerminalInv
  OBVIOUS
<1>1. catalog \in Seq(Range(catalog))
  <2>1. catalog = <<>> \/ catalog \in ProfileChoices
    BY DEF TerminalInit
  <2>2. CASE catalog = <<>>
    BY <2>2
  <2>3. CASE catalog \in ProfileChoices
    BY <2>3, TerminalAssumption
  <2> QED BY <2>1, <2>2, <2>3
<1> DEFINE form == EmptyForm
           editor == NoEditor
           search == [t \in {"profile", "scope", "parameter"} |-> Empty]
<1>2. ui = [screen |-> "Connection", selected |-> 0, form |-> form,
            edit |-> "none", editor |-> editor, modal |-> "none",
            search |-> search, quality |-> "any"]
  BY DEF TerminalInit, NewUi
<1>3. form.of = {} /\ editor = [x \in EditorFields |-> editor[x]] /\ editor.kind = "none"
  BY DEF EmptyForm, Form, Empty, Value, NoEditor, Editor, EditorFields
<1> HIDE DEF form, editor, search
<1>4. IsUi(ui)
  BY <1>2, <1>3 DEF IsUi, UiFields, Edits
<1>5. ui.form = form /\ ui.editor = editor
  BY <1>2
<1> QED BY <1>1, <1>3, <1>4, <1>5 DEF TerminalInv, FormInv, EditorInv

\* A field of the user interface that says nothing of editing.
LEMMA Moves ==
    ASSUME TerminalInv, UNCHANGED <<catalog, phase>>, NEW i \in Nat, NEW modal, NEW quality,
           \/ ui' = ShowModal(modal) \/ ui' = Select(i) \/ ui' = ui
           \/ ui' = [ui EXCEPT !.quality = quality, !.selected = i]
    PROVE  TerminalInv'
<1>1. IsUi(ui)
  BY DEF TerminalInv
<1>2. /\ ui' = [x \in UiFields |-> ui'[x]] /\ ui'.selected \in Nat
      /\ ui'.screen = ui.screen /\ ui'.form = ui.form /\ ui'.edit = ui.edit /\ ui'.editor = ui.editor
  BY <1>1 DEF IsUi, UiFields, ShowModal, Select
<1>3. IsUi(ui')
  BY <1>1, <1>2 DEF IsUi
<1> QED BY <1>2, <1>3 DEF TerminalInv, FormInv, EditorInv

\* An edit ends: the form is empty.
LEMMA EditEnds ==
    ASSUME TerminalInv, UNCHANGED <<catalog, phase>>, NEW edit, NEW text, NEW to,
           \/ ui' = CancelEdit \/ ui' = FinishSearch(edit, text)
           \/ ui' = CloseEditor \/ ui' = SwitchScreen(to)
    PROVE  TerminalInv'
<1> DEFINE form == EmptyForm
           editor == NoEditor
<1>1. IsUi(ui)
  BY DEF TerminalInv
<1>2. form.of = {} /\ editor = [x \in EditorFields |-> editor[x]] /\ editor.kind = "none"
  BY DEF EmptyForm, Form, Empty, Value, NoEditor, Editor, EditorFields
<1>3. \/ ui' = [ui EXCEPT !.edit = "none", !.form = form]
      \/ \E search : ui' = [ui EXCEPT !.search = search, !.edit = "none", !.form = form, !.selected = 0]
      \/ ui' = [ui EXCEPT !.editor = editor, !.form = form]
      \/ ui' = [ui EXCEPT !.screen = to, !.selected = 0, !.edit = "none", !.editor = editor, !.form = form]
  BY DEF CancelEdit, FinishSearch, CloseEditor, SwitchScreen
<1> HIDE DEF form, editor
<1>4. /\ ui' = [x \in UiFields |-> ui'[x]] /\ ui'.selected \in Nat /\ ui'.form = form
      /\ ui'.edit \in {"none", ui.edit}
      /\ ui'.editor = editor \/ (ui'.editor = ui.editor /\ ui'.screen = ui.screen)
  <2>1. CASE ui' = [ui EXCEPT !.edit = "none", !.form = form]
    BY <1>1, <2>1 DEF IsUi, UiFields
  <2>2. ASSUME NEW search, ui' = [ui EXCEPT !.search = search, !.edit = "none", !.form = form, !.selected = 0]
        PROVE  /\ ui' = [x \in UiFields |-> ui'[x]] /\ ui'.selected \in Nat /\ ui'.form = form
               /\ ui'.edit \in {"none", ui.edit}
               /\ ui'.editor = editor \/ (ui'.editor = ui.editor /\ ui'.screen = ui.screen)
    BY <1>1, <2>2 DEF IsUi, UiFields
  <2>3. CASE ui' = [ui EXCEPT !.editor = editor, !.form = form]
    BY <1>1, <2>3 DEF IsUi, UiFields
  <2>4. CASE ui' = [ui EXCEPT !.screen = to, !.selected = 0, !.edit = "none", !.editor = editor, !.form = form]
    BY <1>1, <2>4 DEF IsUi, UiFields
  <2> QED BY <1>3, <2>1, <2>2, <2>3, <2>4
<1>5. IsUi(ui')
  BY <1>1, <1>2, <1>4 DEF IsUi, Edits
<1> QED BY <1>2, <1>4, <1>5 DEF TerminalInv, FormInv, EditorInv

\* An edit begins where nothing has the keys: the form has its text or none.
LEMMA EditBegins ==
    ASSUME TerminalInv, UNCHANGED <<catalog, phase>>, KeysAreFree, NEW edit \in Edits \ {"none"}, NEW text,
           ui' = BeginEdit(edit, text) \/ ui' = BeginSearch(edit)
    PROVE  TerminalInv'
<1> DEFINE editor == NoEditor
<1>1. IsUi(ui) /\ ui.editor.kind = "none"
  BY FreeIsEmpty DEF TerminalInv
<1>2. editor = [x \in EditorFields |-> editor[x]] /\ editor.kind = "none"
  BY DEF NoEditor, Editor, EditorFields
<1>3. \A t : Form(edit, t).of \subseteq {edit}
  BY DEF Form
<1>4. \E form, e : /\ ui' = [ui EXCEPT !.form = form, !.edit = edit, !.editor = e]
                   /\ form.of \subseteq {edit} /\ e \in {editor, ui.editor}
  <2>1. CASE ui' = BeginEdit(edit, text)
    <3> DEFINE form == Form(edit, text)
               e == IF edit = "ManualPath" THEN ui.editor ELSE editor
    <3>1. ui' = [ui EXCEPT !.form = form, !.edit = edit, !.editor = e]
      BY <2>1 DEF BeginEdit
    <3>2. form.of \subseteq {edit} /\ e \in {editor, ui.editor}
      BY <1>3
    <3> HIDE DEF form, e
    <3> QED BY <3>1, <3>2
  <2>2. CASE ui' = BeginSearch(edit)
    <3> DEFINE form == Form(edit, ui.search[SearchOf[edit]])
    <3>1. ui' = [ui EXCEPT !.form = form, !.edit = edit]
      BY <2>2 DEF BeginSearch
    <3>2. form.of \subseteq {edit}
      BY <1>3
    <3> HIDE DEF form
    <3>3. ui' = [ui EXCEPT !.form = form, !.edit = edit, !.editor = ui.editor]
      BY <1>1, <3>1 DEF IsUi, UiFields
    <3> QED BY <3>2, <3>3
  <2> QED BY <2>1, <2>2
<1> HIDE DEF editor
<1>5. PICK form, e : /\ ui' = [ui EXCEPT !.form = form, !.edit = edit, !.editor = e]
                     /\ form.of \subseteq {edit} /\ e \in {editor, ui.editor}
  BY <1>4
<1>6. /\ ui' = [x \in UiFields |-> ui'[x]] /\ ui'.selected \in Nat /\ ui'.form = form
      /\ ui'.edit = edit /\ ui'.editor = e
  BY <1>1, <1>5 DEF IsUi, UiFields
<1>7. e = [x \in EditorFields |-> e[x]] /\ e.kind = "none"
  BY <1>1, <1>2, <1>5 DEF IsUi
<1>8. IsUi(ui')
  BY <1>6, <1>7 DEF IsUi
<1>9. \A of \in form.of : of = edit /\ of # "editor" /\ of # "none"
  BY <1>5 DEF Edits
<1> QED BY <1>6, <1>7, <1>8, <1>9 DEF TerminalInv, FormInv, EditorInv

\* An editor opens on the selected parameter; the form is empty or has its text.
LEMMA OpensEditor ==
    ASSUME TerminalInv, UNCHANGED <<catalog, phase>>, KeysAreFree, ui.screen = "Parameters",
           NEW kind \in {"Text", "Enum", "Bitfield"}, NEW at \in DOMAIN ViewCatalog, NEW index, NEW bits, NEW form,
           form = ui.form \/ (kind = "Text" /\ form.of \subseteq {"editor"}),
           ui' = BeginEditor(Editor(kind, at, index, bits), form)
    PROVE  TerminalInv'
<1> DEFINE editor == Editor(kind, at, index, bits)
<1>1. IsUi(ui) /\ ui.form.of = {}
  BY FreeIsEmpty DEF TerminalInv
<1>2. editor = [x \in EditorFields |-> editor[x]] /\ editor.kind = kind /\ editor.at = at
  BY DEF Editor, EditorFields
<1>3. ui' = [ui EXCEPT !.editor = editor, !.form = form, !.edit = "none"]
  BY DEF BeginEditor
<1> HIDE DEF editor
<1>4. /\ ui' = [x \in UiFields |-> ui'[x]] /\ ui'.selected \in Nat /\ ui'.form = form
      /\ ui'.edit = "none" /\ ui'.editor = editor /\ ui'.screen = ui.screen
  BY <1>1, <1>3 DEF IsUi, UiFields
<1>5. IsUi(ui')
  BY <1>2, <1>4 DEF IsUi, Edits
<1>6. phase # "none" /\ at \in DOMAIN catalog
  BY DEF ViewCatalog
<1> QED BY <1>1, <1>2, <1>4, <1>5, <1>6 DEF TerminalInv, FormInv, EditorInv

\* Text goes into the form of what has the keys.
LEMMA TypedInto ==
    ASSUME TerminalInv, UNCHANGED <<catalog, phase>>, NEW of, NEW text, Typed(of, text),
           \/ of = ui.edit /\ of # "none" /\ of # "editor"
           \/ of = "editor" /\ EditorHasKeys /\ ui.editor.kind = "Text"
    PROVE  TerminalInv'
<1> DEFINE form == [of |-> IF text.kind = "empty" THEN {} ELSE ui.form.of \cup {of}, text |-> text]
<1>1. IsUi(ui) /\ FormInv
  BY DEF TerminalInv
<1>2. ui' = [ui EXCEPT !.form = form] /\ form.of \subseteq ui.form.of \cup {of}
  BY DEF Typed
<1> HIDE DEF form
<1>3. /\ ui' = [x \in UiFields |-> ui'[x]] /\ ui'.selected = ui.selected /\ ui'.form = form
      /\ ui'.edit = ui.edit /\ ui'.editor = ui.editor /\ ui'.screen = ui.screen
  BY <1>1, <1>2 DEF IsUi, UiFields
<1>4. IsUi(ui')
  BY <1>1, <1>3 DEF IsUi
<1>5. FormInv'
  BY <1>1, <1>2, <1>3 DEF FormInv, EditorHasKeys, InEditor
<1> QED BY <1>3, <1>4, <1>5 DEF TerminalInv, EditorInv

\* The open editor moves among its entries, or a flag is changed.
LEMMA EditorTurns ==
    ASSUME TerminalInv, UNCHANGED <<catalog, phase>>, EditorToggle \/ \E index : EditorMove(index)
    PROVE  TerminalInv'
<1>1. IsUi(ui)
  BY DEF TerminalInv
<1>2. \E index, bits : ui' = [ui EXCEPT !.editor = [ui.editor EXCEPT !.index = index, !.bits = bits]]
  <2>1. CASE EditorToggle
    <3> DEFINE bits == Toggled(ui.editor.bits, Entries(Edited)[ui.editor.index + 1])
    <3>1. ui' = [ui EXCEPT !.editor.bits = bits]
      BY <2>1 DEF EditorToggle
    <3> HIDE DEF bits
    <3>2. [ui.editor EXCEPT !.bits = bits] = [ui.editor EXCEPT !.index = ui.editor.index, !.bits = bits]
      BY <1>1 DEF IsUi, EditorFields
    <3>3. ui' = [ui EXCEPT !.editor = [ui.editor EXCEPT !.bits = bits]]
      BY <1>1, <3>1 DEF IsUi, UiFields
    <3> QED BY <3>2, <3>3
  <2>2. ASSUME NEW index, EditorMove(index)
        PROVE  \E i, bits : ui' = [ui EXCEPT !.editor = [ui.editor EXCEPT !.index = i, !.bits = bits]]
    <3>1. ui' = [ui EXCEPT !.editor.index = index]
      BY <2>2 DEF EditorMove
    <3>2. [ui.editor EXCEPT !.index = index] = [ui.editor EXCEPT !.index = index, !.bits = ui.editor.bits]
      BY <1>1 DEF IsUi, EditorFields
    <3>3. ui' = [ui EXCEPT !.editor = [ui.editor EXCEPT !.index = index]]
      BY <1>1, <3>1 DEF IsUi, UiFields
    <3> QED BY <3>2, <3>3
  <2> QED BY <2>1, <2>2
<1>3. PICK index, bits : ui' = [ui EXCEPT !.editor = [ui.editor EXCEPT !.index = index, !.bits = bits]]
  BY <1>2
<1> DEFINE editor == [ui.editor EXCEPT !.index = index, !.bits = bits]
<1>4. editor = [x \in EditorFields |-> editor[x]] /\ editor.kind = ui.editor.kind /\ editor.at = ui.editor.at
  BY <1>1 DEF IsUi, EditorFields
<1>5. ui' = [ui EXCEPT !.editor = editor]
  BY <1>3
<1> HIDE DEF editor
<1>6. /\ ui' = [x \in UiFields |-> ui'[x]] /\ ui'.selected = ui.selected /\ ui'.form = ui.form
      /\ ui'.edit = ui.edit /\ ui'.editor = editor /\ ui'.screen = ui.screen
  BY <1>1, <1>5 DEF IsUi, UiFields
<1>7. IsUi(ui')
  BY <1>1, <1>4, <1>6 DEF IsUi
<1> QED BY <1>4, <1>6, <1>7 DEF TerminalInv, FormInv, EditorInv

-----------------------------------------------------------------------------
(***************************************************************************)
(* The keys, one by one.                                                   *)
(***************************************************************************)
LEMMA ConnectionKeyStep ==
    ASSUME TerminalInv, UNCHANGED <<catalog, phase>>, ConnectionKey
    PROVE  TerminalInv'
<1>1. KeysAreFree
  BY DEF ConnectionKey
<1>2. \/ \E text : ui' = BeginEdit("ManualPath", text)
      \/ ui' = BeginSearch("ProfileSearch")
      \/ ui' = FinishSearch("ProfileSearch", Empty)
      \/ \E i \in Nat : ui' = Select(i)
  BY TerminalAssumption DEF ConnectionKey
<1>3. {"ManualPath", "ProfileSearch"} \subseteq Edits \ {"none"}
  BY DEF Edits
<1> QED BY <1>1, <1>2, <1>3, EditBegins, EditEnds, Moves

LEMMA ScreenKeyStep ==
    ASSUME TerminalInv, UNCHANGED <<catalog, phase>>, ScopeKey \/ BackupScreenKey \/ GlobalKey
    PROVE  TerminalInv'
<1>1. KeysAreFree
  BY DEF ScopeKey, BackupScreenKey, GlobalKey
<1>2. {"ScopeSearch", "BackupSourcePath", "RestoreConfirmation"} \subseteq Edits \ {"none"}
  BY DEF Edits
<1>3. CASE ScopeKey
  <2>1. ui' = BeginSearch("ScopeSearch") \/ ui' = FinishSearch("ScopeSearch", Empty)
    BY <1>3 DEF ScopeKey
  <2> QED BY <1>1, <1>2, <2>1, EditBegins, EditEnds
<1>4. CASE BackupScreenKey
  <2>1. \E text : ui' = BeginEdit("BackupSourcePath", text) \/ ui' = BeginEdit("RestoreConfirmation", text)
    BY <1>4 DEF BackupScreenKey
  <2> QED BY <1>1, <1>2, <2>1, EditBegins
<1>5. CASE GlobalKey
  <2>1. ui' = ShowModal("Help") \/ \E to : ui' = SwitchScreen(to)
    BY <1>5 DEF GlobalKey
  <2>2. 0 \in Nat
    OBVIOUS
  <2> QED BY <2>1, <2>2, Moves, EditEnds
<1> QED BY <1>3, <1>4, <1>5

LEMMA ListKeyStep ==
    ASSUME TerminalInv, UNCHANGED <<catalog, phase>>, ListKey
    PROVE  TerminalInv'
<1>1. KeysAreFree /\ ui.selected \in Nat
  BY DEF ListKey, TerminalInv, IsUi
<1>2. "ParameterSearch" \in Edits \ {"none"}
  BY DEF Edits
<1>3. Clamped(ui.selected + 1, FilteredParameters) \in Nat
  <2>1. FilteredParameters \in Seq(Nat)
    BY ListIs DEF TerminalInv
  <2>2. ui.selected + 1 \in Nat
    BY <1>1
  <2> QED BY <2>1, <2>2, ClampedIn
<1>4. \/ ui' = BeginSearch("ParameterSearch")
      \/ ui' = FinishSearch("ParameterSearch", Empty)
      \/ \E quality : ui' = [ui EXCEPT !.quality = quality, !.selected = 0]
      \/ ui.selected > 0 /\ ui' = Select(ui.selected - 1)
      \/ ui' = Select(Clamped(ui.selected + 1, FilteredParameters))
  BY DEF ListKey
<1>5. ui.selected > 0 => ui.selected - 1 \in Nat
  BY <1>1
<1>6. CASE \E quality : ui' = [ui EXCEPT !.quality = quality, !.selected = 0]
  <2>1. 0 \in Nat
    OBVIOUS
  <2> QED BY <1>6, <2>1, Moves
<1>7. CASE ui.selected > 0 /\ ui' = Select(ui.selected - 1)
  BY <1>5, <1>7, Moves
<1>8. CASE ui' = Select(Clamped(ui.selected + 1, FilteredParameters))
  BY <1>3, <1>8, Moves
<1>9. CASE ui' = BeginSearch("ParameterSearch") \/ ui' = FinishSearch("ParameterSearch", Empty)
  BY <1>1, <1>2, <1>9, EditBegins, EditEnds
<1> QED BY <1>4, <1>6, <1>7, <1>8, <1>9

LEMMA EditKeyStep ==
    ASSUME TerminalInv, UNCHANGED <<catalog, phase>>, EditKey
    PROVE  TerminalInv'
<1> DEFINE at == SelectedParameter
           editor == OpenedEditor(at)
           form == IF editor.kind = "Text" THEN Form("editor", OpenedText(at)) ELSE ui.form
<1>1. KeysAreFree /\ ui.screen = "Parameters" /\ at # 0
  BY DEF EditKey
<1>2. at \in DOMAIN ViewCatalog
  BY <1>1, SelectedIn
<1>3. ui' = ShowModal("Message") \/ (EditorOpens(at) /\ ui' = BeginEditor(editor, form))
  BY Zenon DEF EditKey
<1>4. CASE ui' = ShowModal("Message")
  <2>1. 0 \in Nat
    OBVIOUS
  <2> QED BY <1>4, <2>1, Moves
<1>5. CASE EditorOpens(at) /\ ui' = BeginEditor(editor, form)
  <2>1. EditorKind(catalog[at]) \in {"Fixed", "Float", "Enum", "Bitfield"}
    BY <1>5 DEF EditorOpens, EditorKind
  <2>2. \E index, bits : \E kind \in {"Text", "Enum", "Bitfield"} : editor = Editor(kind, at, index, bits)
    <3> DEFINE first == IF OptionPlaces(at) = {} THEN 0 ELSE Min(OptionPlaces(at)) - 1
               bits == Current(at).is
    <3>1. \/ editor = Editor("Text", at, 0, <<>>) \/ editor = Editor("Enum", at, first, <<>>)
          \/ editor = Editor("Bitfield", at, 0, bits)
      BY <2>1 DEF OpenedEditor
    <3> HIDE DEF editor, first, bits, at
    <3>2. CASE editor = Editor("Text", at, 0, <<>>)
      BY <3>2
    <3>3. CASE editor = Editor("Enum", at, first, <<>>)
      BY <3>3
    <3>4. CASE editor = Editor("Bitfield", at, 0, bits)
      BY <3>4
    <3> QED BY <3>1, <3>2, <3>3, <3>4
  <2>3. PICK index, bits : \E kind \in {"Text", "Enum", "Bitfield"} : editor = Editor(kind, at, index, bits)
    BY <2>2
  <2>4. PICK kind \in {"Text", "Enum", "Bitfield"} : editor = Editor(kind, at, index, bits)
    BY <2>3
  <2>5. editor.kind = kind
    BY <2>4 DEF Editor
  <2> HIDE DEF at, editor
  <2>6. CASE kind = "Text"
    <3>1. form = Form("editor", OpenedText(at))
      BY <2>5, <2>6
    <3>2. form.of \subseteq {"editor"}
      BY <3>1 DEF Form
    <3> QED BY <1>1, <1>2, <1>5, <2>4, <2>6, <3>2, OpensEditor
  <2>7. CASE kind # "Text"
    <3>1. form = ui.form
      BY <2>5, <2>7
    <3> QED BY <1>1, <1>2, <1>5, <2>4, <2>7, <3>1, OpensEditor
  <2> QED BY <2>6, <2>7
<1> QED BY <1>3, <1>4, <1>5

LEMMA PromptKeyStep ==
    ASSUME TerminalInv, UNCHANGED <<catalog, phase>>, ArmKey \/ WriteKey
    PROVE  TerminalInv'
<1>1. KeysAreFree /\ 0 \in Nat /\ {"WriteArming", "WriteConfirmation"} \subseteq Edits \ {"none"}
  BY DEF ArmKey, WriteKey, Edits
<1>2. \/ ui' = ShowModal("Message") \/ ui' = ui
      \/ ui' = BeginEdit("WriteArming", Empty) \/ ui' = BeginEdit("WriteConfirmation", Empty)
  <2>1. CASE ArmKey
    <3>1. PICK ready \in {FALSE, phase = "Connected"} :
              ui' = CASE authorization = "ProcessDisabled" \/ (authorization = "Disarmed" /\ ~ready) -> ShowModal("Message")
                      [] authorization = "Armed" -> ui
                      [] OTHER -> BeginEdit("WriteArming", Empty)
      BY <2>1, Zenon DEF ArmKey
    <3> QED BY <3>1
  <2>2. CASE WriteKey
    <3>1. PICK ready \in {FALSE, phase = "Connected"} :
              ui' = CASE authorization = "Armed" /\ ready /\ "write" \in plans -> BeginEdit("WriteConfirmation", Empty)
                      [] authorization = "Armed" /\ ready /\ staged.at # 0 -> ui
                      [] OTHER -> ShowModal("Message")
      BY <2>2, Zenon DEF WriteKey
    <3> QED BY <3>1
  <2> QED BY <2>1, <2>2
<1> QED BY <1>1, <1>2, EditBegins, Moves

LEMMA OpenKeyStep ==
    ASSUME TerminalInv, UNCHANGED <<catalog, phase>>,
           \/ EditorToggle \/ EditorEsc \/ EditorEnter \/ EditEsc \/ EditEnter
           \/ (\E index : EditorMove(index)) \/ \E text : EditType(text) \/ EditorType(text)
    PROVE  TerminalInv'
<1>1. CASE EditorToggle \/ \E index : EditorMove(index)
  BY <1>1, EditorTurns
<1>2. CASE EditorEsc \/ EditorEnter
  BY <1>2, EditEnds DEF EditorEsc, EditorEnter
<1>3. CASE EditEsc
  BY <1>3, EditEnds DEF EditEsc
<1>4. CASE EditEnter
  <2>1. ui' = FinishSearch(ui.edit, ui.form.text) \/ ui' = CancelEdit
    BY <1>4 DEF EditEnter
  <2> QED BY <2>1, EditEnds
<1>5. ASSUME NEW text, EditType(text) PROVE TerminalInv'
  <2>1. Typed(ui.edit, text) /\ ui.edit # "none"
    BY <1>5 DEF EditType, InEdit
  <2>2. ui.edit # "editor"
    BY DEF TerminalInv, IsUi, Edits
  <2> QED BY <2>1, <2>2, TypedInto
<1>6. ASSUME NEW text, EditorType(text) PROVE TerminalInv'
  <2>1. Typed("editor", text) /\ EditorHasKeys /\ ui.editor.kind = "Text"
    BY <1>6 DEF EditorType
  <2> QED BY <2>1, TypedInto
<1> QED BY <1>1, <1>2, <1>3, <1>4, <1>5, <1>6

LEMMA KeyOnlyStep ==
    ASSUME TerminalInv, UNCHANGED <<catalog, phase>>, KeyOnly
    PROVE  TerminalInv'
<1>1. CASE CloseModal
  <2>1. ui' = ShowModal("none") /\ 0 \in Nat
    BY <1>1 DEF CloseModal, ShowModal
  <2> QED BY <2>1, Moves
<1>2. CASE ConnectionKey \/ ScopeKey \/ BackupScreenKey \/ GlobalKey
  BY <1>2, ConnectionKeyStep, ScreenKeyStep
<1>3. CASE ListKey \/ EditKey \/ WriteKey
  BY <1>3, ListKeyStep, EditKeyStep, PromptKeyStep
<1>4. CASE EditorToggle \/ EditorEsc \/ (\E index : EditorMove(index)) \/ \E text : EditType(text) \/ EditorType(text)
  BY <1>4, OpenKeyStep
<1> QED BY <1>1, <1>2, <1>3, <1>4, Zenon DEF KeyOnly

\* The session changes under what is open: a catalog in view stays in view.
LEMMA SessionChanges ==
    ASSUME TerminalInv, UNCHANGED <<catalog, ui>>, phase # "none" => phase' # "none"
    PROVE  TerminalInv'
BY DEF TerminalInv, FormInv, EditorInv

LEMMA TerminalStep == TerminalInv /\ [TerminalNext]_terminalVars => TerminalInv'
<1> SUFFICES ASSUME TerminalInv, [TerminalNext]_terminalVars PROVE TerminalInv'
  OBVIOUS
<1>1. CASE UNCHANGED terminalVars
  BY <1>1, SessionChanges DEF terminalVars
<1>2. CASE KeyOnly /\ UNCHANGED <<observations, catalog, phase, authorization, latest, step, plans, staged>>
  BY <1>2, KeyOnlyStep
<1>3. CASE SessionKey /\ UNCHANGED <<observations, catalog, phase, latest, step, staged>>
  <2>1. EditEnter \/ EditEsc \/ ArmKey
    BY <1>3 DEF SessionKey
  <2> QED BY <1>3, <2>1, OpenKeyStep, PromptKeyStep
<1>4. CASE EditorEnter /\ UNCHANGED <<observations, catalog, phase, authorization, latest, step>>
  BY <1>4, OpenKeyStep
<1>5. ASSUME NEW to \in {"Connected", "Reconnecting", "Faulted"}, LinkChanges(to),
             UNCHANGED <<observations, catalog, latest, ui>>
      PROVE  TerminalInv'
  <2>1. phase' # "none"
    BY <1>5 DEF LinkChanges
  <2> QED BY <1>5, <2>1, SessionChanges
<1>6. ASSUME NEW enabled, Verified(enabled), UNCHANGED <<observations, catalog, latest, plans, staged, ui>>
      PROVE  TerminalInv'
  BY <1>6, SessionChanges DEF Verified
<1>7. CASE UNCHANGED <<catalog, phase, ui>>
  BY <1>7, SessionChanges
<1> QED BY <1>1, <1>2, <1>3, <1>4, <1>5, <1>6, <1>7 DEF TerminalNext

\* The invariant holds: an editor is open on a parameter of the view and nowhere
\* else than on the screen of the parameters, and what is in the form is the text
\* of what has the keys (UiState, map_key).
THEOREM TerminalInvHolds == TerminalSpec => []TerminalInv
BY TerminalInitOK, TerminalStep, PTL DEF TerminalSpec

\* No text gets from one prompt into another, what has the keys can be left, and
\* the selection is in the window (map_key, map_parameter_editor_key,
\* visible_parameter_ids).
THEOREM PromptsAlwaysSafe == TerminalSpec => []PromptsAreSafe
BY TerminalInvHolds, InvIsSafe, PTL

-----------------------------------------------------------------------------
(***************************************************************************)
(* What is staged is what the coordinator would write.                     *)
(***************************************************************************)

LEMMA IntentAt ==
    ASSUME NEW at, NEW input, PrepareParameterIntent(at, input).at # 0
    PROVE  PrepareParameterIntent(at, input).at = at
<1> DEFINE none == CodecError
           blank == <<>>
           intent == PrepareParameterIntent(at, input)
<1>1. NothingStaged.at = 0
  <2>1. NothingStaged = [at |-> 0, previous |-> blank, requested |-> none, raw |-> blank]
    BY DEF NothingStaged, Staged
  <2> HIDE DEF none, blank
  <2> QED BY <2>1
<1>2. intent = NothingStaged \/ \E previous, value, raw : intent = Staged(at, previous, value, raw)
  BY DEF PrepareParameterIntent
<1> HIDE DEF intent
<1> QED BY <1>1, <1>2 DEF Staged, intent

\* Two pieces of code check and encode the value; where the first accepts it the
\* second does, and finds the same registers.
LEMMA IntentIsTarget ==
    ASSUME NEW at, NEW input, PrepareParameterIntent(at, input).at # 0,
           ManualParameterAllowed(catalog[at])
    PROVE  LET intent == PrepareParameterIntent(at, input)
           IN  intent.at = at /\ AuthoritativeTarget(catalog[at], intent.requested) = intent.raw
<1> DEFINE p == catalog[at]
           value == ParseEditorValue(p, input)
           raw == Encode(CodecOf(p), value)
           intent == PrepareParameterIntent(at, input)
           none == CodecError
           blank == <<>>
<1>1. NothingStaged.at = 0
  <2>1. NothingStaged = [at |-> 0, previous |-> blank, requested |-> none, raw |-> blank]
    BY DEF NothingStaged, Staged
  <2> HIDE DEF none, blank
  <2> QED BY <2>1
<1>2. intent = Staged(at, latest[at].raw, value, raw) /\ value.kind # "error"
      /\ ValidateConstraints(p, value) /\ raw \notin p.forbidden
  BY <1>1 DEF PrepareParameterIntent
<1>3. value.kind = "Enum" => value.is \in p.enums
  BY <1>2 DEF ParseEditorValue, CodecError, Value
<1>4. value.kind = "Bitfield" => FlagsOf(value.is) \subseteq p.flags
  BY <1>2 DEF ParseEditorValue, CodecError, Value
<1>9. value.kind = "Float" => IsFinite(value.is)
  BY <1>2 DEF ParseEditorValue, CodecError, Value
<1> HIDE DEF intent, value, raw, p
<1>5. intent.at = at /\ intent.requested = value /\ intent.raw = raw
  BY <1>2 DEF Staged
<1> DEFINE grid == IF p.minimum = {} THEN 0 ELSE Min(p.minimum)
<1>6. value.kind = "Fixed" => /\ \A low \in p.minimum : low <= value.is
                              /\ \A high \in p.maximum : value.is <= high
                              /\ \A s \in p.step : (value.is - grid) % s = 0
  BY <1>2 DEF ValidateConstraints
<1> HIDE DEF grid
<1> DEFINE inRange == CASE value.kind = "Fixed" -> /\ \A low \in p.minimum : low <= value.is
                                                   /\ \A high \in p.maximum : value.is <= high
                                                   /\ \A s \in p.step : (value.is - grid) % s = 0
                        [] value.kind = "Enum" -> value.is \in p.enums
                        [] value.kind = "Bitfield" -> FlagsOf(value.is) \subseteq p.flags
                        [] value.kind = "Float" -> IsFinite(value.is)
                        [] OTHER -> TRUE
<1>7. inRange
  BY <1>3, <1>4, <1>6, <1>9
<1>8. AuthoritativeTarget(p, value) = IF ManualParameterAllowed(p) /\ inRange /\ raw \notin p.forbidden THEN raw ELSE <<>>
  BY DEF AuthoritativeTarget, raw, grid
<1> HIDE DEF inRange
<1>10. ManualParameterAllowed(p)
  BY DEF p
<1> QED BY <1>2, <1>5, <1>7, <1>8, <1>10 DEF intent, p

\* every staged intent is nothing, the one before, or was prepared just now
LEMMA StagedComesFrom ==
    ASSUME [TerminalNext]_terminalVars
    PROVE  /\ catalog' = catalog
           /\ \/ staged' = staged \/ staged' = NothingStaged
              \/ \E at, input : staged' = PrepareParameterIntent(at, input)
<1>1. CASE UNCHANGED terminalVars
  BY <1>1 DEF terminalVars
<1>2. CASE EditorEnter /\ UNCHANGED <<observations, catalog, phase, authorization, latest, step>>
  BY <1>2 DEF EditorEnter
<1>3. ASSUME NEW to, LinkChanges(to), UNCHANGED <<observations, catalog, latest, ui>>
      PROVE  catalog' = catalog /\ staged' \in {staged, NothingStaged}
  BY <1>3 DEF LinkChanges
<1>4. ASSUME NEW on, Reported(on), UNCHANGED <<observations, catalog, phase, authorization, latest, step, ui>>
      PROVE  catalog' = catalog /\ staged' \in {staged, NothingStaged}
  BY <1>4 DEF Reported
<1>5. ASSUME ClearKey, UNCHANGED <<observations, catalog, phase, authorization, latest, step, ui>>
      PROVE  catalog' = catalog /\ staged' \in {staged, NothingStaged}
  BY <1>5 DEF ClearKey
<1> QED BY <1>1, <1>2, <1>3, <1>4, <1>5 DEF TerminalNext

LEMMA PreviewStep == PreviewIsWritten /\ [TerminalNext]_terminalVars => PreviewIsWritten'
<1> SUFFICES ASSUME PreviewIsWritten, [TerminalNext]_terminalVars PROVE PreviewIsWritten'
  OBVIOUS
<1>1. catalog' = catalog
  BY StagedComesFrom
<1>2. CASE staged' = staged
  BY <1>1, <1>2 DEF PreviewIsWritten
<1>3. CASE staged' = NothingStaged
  <2> DEFINE none == CodecError
             blank == <<>>
  <2>1. staged' = [at |-> 0, previous |-> blank, requested |-> none, raw |-> blank]
    BY <1>3 DEF NothingStaged, Staged
  <2> HIDE DEF none, blank
  <2>2. staged'.at = 0
    BY <2>1
  <2> QED BY <2>2 DEF PreviewIsWritten
<1>4. ASSUME NEW at, NEW input, staged' = PrepareParameterIntent(at, input) PROVE PreviewIsWritten'
  <2>1. SUFFICES ASSUME staged'.at # 0, ManualParameterAllowed(catalog[staged'.at])
                 PROVE  AuthoritativeTarget(catalog[staged'.at], staged'.requested) = staged'.raw
    BY <1>1 DEF PreviewIsWritten
  <2>2. PrepareParameterIntent(at, input).at # 0 /\ ManualParameterAllowed(catalog[at])
    BY <1>1, <1>4, <2>1, IntentAt
  <2> QED BY <1>4, <2>2, IntentIsTarget
<1> QED BY <1>2, <1>3, <1>4, StagedComesFrom

LEMMA PreviewInit == TerminalInit => PreviewIsWritten
<1> SUFFICES ASSUME TerminalInit PROVE staged.at = 0
  BY DEF PreviewIsWritten
<1> DEFINE none == CodecError
           blank == <<>>
<1>1. staged = [at |-> 0, previous |-> blank, requested |-> none, raw |-> blank]
  BY DEF TerminalInit, NothingStaged, Staged
<1> HIDE DEF none, blank
<1> QED BY <1>1

\* The registers shown with a staged intent are those the coordinator would write,
\* whatever the parameter, the input and the values observed in the meantime
\* (prepare_parameter_intent, authoritative_target).
THEOREM PreviewAlwaysWritten == TerminalSpec => []PreviewIsWritten
BY PreviewInit, PreviewStep, PTL DEF TerminalSpec
=============================================================================

---------------------------- MODULE CsvLoggingProofs ----------------------------
(***************************************************************************)
(* A log has no holes, and one reported Completed accounts for every       *)
(* sample, for queues of any size, any number of samples, logs and ends of *)
(* the process.                                                            *)
(*                                                                         *)
(* Five tasks hand the samples on.  As long as the writer has not failed   *)
(* nobody disturbs them, so that the pieces of the way, from the file to   *)
(* the pending gap, follow each other without a hole; a step moves a cut   *)
(* between two of them.  Once the writer has failed nothing is promised,   *)
(* and the failure must not be mistaken for a success.                     *)
(***************************************************************************)
EXTENDS CsvLogging, TLAPS

-----------------------------------------------------------------------------
(***************************************************************************)
(* The invariant.                                                          *)
(***************************************************************************)
Gaps == Records \cup {NoGap}

Creating == {"create", "sidecar", "checkpoint"}

Closing == {"finalize", "completed", "unlink", "answered"}

SidecarType == [status : {"none", "Running", "Completed", "Failed"}, samples : Nat, dropped : Nat]

CheckpointType == [status : {"none", "Running", "Completed", "Failed"}, rows : Nat]

FileType ==
    [made : BOOLEAN, rows : Seq(Records), synced : Nat, sidecar : SidecarType,
     checkpoint : CheckpointType]

WriterType ==
    [at : {"off", "ready", "stop", "shutdown"} \cup Creating \cup Closing, log : 0 .. MaxLogs,
     state : {"Idle", "Running", "Completed", "Failed"}, failed : BOOLEAN, rows : Seq(Records),
     flush : {"none", "sidecar", "checkpoint"}, samples : Nat, gaps : Nat, dropped : Nat]

CoordType ==
    [at : {"idle", "starting", "enable", "check", "disable", "finalize", "stopping", "gone"},
     state : {"Idle", "Starting", "Running", "Finalizing", "Failed"}, active : BOOLEAN,
     failureGap : Gaps, gap : Gaps, wasFailed : BOOLEAN, completed : 0 .. MaxLogs]

QueuesTyped ==
    /\ source \in Seq(Records) /\ Len(source) <= Capacity
    /\ sink \in Seq(Records) /\ Len(sink) <= Capacity
    /\ orders \in Seq({"Finalize", "Abort"})

HandsTyped ==
    /\ delivery \in [on : BOOLEAN, gap : Gaps]
    /\ relay \in [at : {"off", "run", "send", "drain", "drain_send", "discard", "done"}, item : Gaps]
    /\ relay.at \in {"send", "drain_send"} => relay.item \in Records
    /\ guard \in [at : {"off", "wait", "store", "done"}, gap : Gaps]

WriterTyped ==
    /\ writer \in WriterType /\ (writer.at # "off" => writer.log # 0)
    /\ disk \in [1 .. MaxLogs -> FileType]
    /\ \A l \in 1 .. MaxLogs : disk[l].synced <= Len(disk[l].rows)

CountsTyped ==
    /\ published \in 0 .. MaxSamples
    /\ logs \in 0 .. MaxLogs /\ turns \in 0 .. MaxTurns /\ restarts \in 0 .. turns

Typed == QueuesTyped /\ HandsTyped /\ WriterTyped /\ CountsTyped /\ coord \in CoordType

\* a pending gap ends with the sample published last
GapInv ==
    /\ delivery.gap # NoGap =>
          /\ delivery.on /\ delivery.gap.kind = "gap" /\ delivery.gap.to = published
          /\ delivery.gap.count = delivery.gap.to - delivery.gap.from + 1

LogOn == coord.at \in {"enable", "check", "disable", "finalize", "stopping"} \/ coord.active

\* who stands where while a log starts, runs and stops
PlaceInv ==
    /\ coord.active => coord.at = "idle"
    /\ coord.at = "starting" <=> writer.at \in Creating
    /\ LogOn /\ coord.at # "stopping" => writer.at = "ready"
    /\ coord.at = "stopping" => writer.at \in {"stop"} \cup Closing /\ relay.at = "done"
    /\ ~LogOn => relay.at = "off" /\ guard.at # "wait" /\ writer.at \notin {"ready", "stop"} \cup Closing
    /\ coord.at = "idle" /\ ~coord.active => writer.at = "off"
    /\ delivery.on => coord.at \in {"check", "disable"} \/ coord.active
    /\ coord.at \notin {"finalize", "stopping"} => coord.gap = NoGap
    /\ writer.failed <=> writer.state = "Failed"
    /\ writer.at \in {"finalize", "completed", "unlink"} => ~writer.failed

\* what the coordinator reports
StateInv ==
    /\ coord.at = "gone" => coord.state = "Idle"
    /\ coord.at = "starting" => coord.state = "Starting"
    /\ coord.at \in {"enable", "check"} => coord.state \in {"Starting", "Failed"}
    /\ coord.active => coord.state \in {"Running", "Failed"}
    /\ coord.at = "idle" /\ ~coord.active => coord.state \in {"Idle", "Failed"}
    /\ coord.at \in {"disable", "finalize", "stopping"} =>
          /\ coord.state \in {"Finalizing", "Failed"}
          /\ coord.wasFailed => coord.state = "Failed"
    /\ coord.state = "Failed" /\ coord.at \notin {"enable", "check"} => ~delivery.on
    /\ guard.at = "store" => coord.state = "Failed" \/ LogOn
    /\ guard.at = "store" /\ coord.at \notin {"enable", "check"} => ~delivery.on

\* a log whose writer has not failed is disturbed by nobody
HealthInv ==
    LogOn /\ ~writer.failed =>
        /\ guard.at = "wait" /\ coord.state # "Failed" /\ coord.failureGap = NoGap
        /\ relay.at \in {"run", "send", "drain", "drain_send", "done"}
        /\ \A i \in DOMAIN orders : orders[i] = "Finalize"
        /\ coord.at \notin {"finalize", "stopping"} => orders = <<>> /\ relay.at \in {"run", "send"}
        /\ coord.at \in {"finalize", "stopping"} => ~delivery.on
        /\ relay.at = "done" => source = <<>>
        /\ relay.at \notin {"send", "drain_send"} => relay.item = NoGap
        /\ writer.state = IF writer.at = "answered" THEN "Completed" ELSE "Running"
        /\ writer.at \in Closing => sink = <<>>
        /\ writer.at \in Closing \ {"finalize"} => writer.rows = <<>>

\* a log begins with nothing behind it
FreshInv ==
    /\ \A l \in 1 .. MaxLogs : ~disk[l].made => disk[l].rows = <<>>
    /\ writer.at \notin {"off", "create"} => File.made
    /\ coord.at = "idle" /\ coord.state = "Idle" /\ ~coord.active => source = <<>>
    /\ coord.at = "starting" =>
          /\ source = <<>> /\ sink = <<>> /\ coord.failureGap = NoGap
          /\ ~writer.failed /\ writer.rows = <<>> /\ writer.samples = 0 /\ writer.dropped = 0
          /\ writer.at # "create" => File.rows = <<>>
    /\ coord.at = "enable" =>
          /\ source = <<>>
          /\ ~writer.failed =>
                /\ relay.item = NoGap /\ sink = <<>> /\ writer.rows = <<>> /\ File.rows = <<>>
                /\ writer.samples = 0 /\ writer.dropped = 0

\* the rows, items and gaps of s are those that follow the sample a
Chained(s, a) ==
    \A i \in DOMAIN s :
        /\ s[i].from = (IF i = 1 THEN a ELSE s[i - 1].to) + 1
        /\ s[i].kind = "gap" => s[i].count = s[i].to - s[i].from + 1
        /\ s[i].kind = "sample" => s[i].to = s[i].from /\ s[i].count = 0

\* the last of them
End(s, a) == IF s = <<>> THEN a ELSE s[Len(s)].to

\* the way of the samples, piece by piece
Late == IF writer.at \in {"ready", "stop"} THEN GapSeq(coord.gap) ELSE <<>>

Link(a, s, b) == Chained(s, a) /\ End(s, a) = b

StreamInv ==
    LogOn /\ coord.at # "enable" /\ ~writer.failed =>
        \E a, b, c, d, e, f \in 0 .. MaxSamples :
            /\ Link(0, File.rows, a) /\ Link(a, writer.rows, b) /\ Link(b, sink, c)
            /\ Link(c, GapSeq(relay.item), d) /\ Link(d, source, e)
            /\ Link(e, GapSeq(delivery.gap), f) /\ Link(f, Late, published)
            /\ writer.samples + writer.dropped = b

\* a log reported Completed stays as it is
CompletedInv ==
    /\ coord.completed # 0 =>
          /\ coord.at \in {"idle", "starting", "enable"} /\ ~coord.active
          /\ coord.completed <= logs
          /\ coord.at # "idle" => coord.completed # writer.log
          /\ disk[coord.completed].sidecar.samples + disk[coord.completed].sidecar.dropped = published
    /\ writer.log <= logs
    /\ LogOn /\ ~writer.failed /\ writer.at \in {"unlink", "answered"} =>
          /\ File.sidecar.samples = writer.samples /\ File.sidecar.dropped = writer.dropped

\* a flush is finished by the logger that began it, unless it fails
FlushInv ==
    writer.flush # "none" => writer.at \in {"ready", "stop", "finalize", "shutdown"} /\ ~writer.failed

CsvInv ==
    /\ Typed /\ GapInv /\ PlaceInv /\ StateInv /\ HealthInv /\ FreshInv /\ StreamInv /\ CompletedInv

-----------------------------------------------------------------------------
(***************************************************************************)
(* Pieces of the way.                                                      *)
(***************************************************************************)
LEMMA LinkEmpty == ASSUME NEW a PROVE Link(a, <<>>, a)
BY DEF Link, Chained, End

LEMMA LinkCat ==
    ASSUME NEW s \in Seq(Records), NEW t \in Seq(Records), NEW a, NEW b, NEW c,
           Link(a, s, b), Link(b, t, c)
    PROVE  Link(a, s \o t, c)
<1> DEFINE u == s \o t
<1>1. /\ u \in Seq(Records) /\ Len(u) = Len(s) + Len(t) /\ Len(s) \in Nat /\ Len(t) \in Nat
      /\ \A i \in 1 .. Len(s) : u[i] = s[i]
      /\ \A i \in 1 .. Len(t) : u[Len(s) + i] = t[i]
  OBVIOUS
<1>2. /\ DOMAIN u = 1 .. Len(u) /\ DOMAIN s = 1 .. Len(s) /\ DOMAIN t = 1 .. Len(t)
  BY <1>1
<1>3. (s = <<>> <=> Len(s) = 0) /\ (t = <<>> <=> Len(t) = 0) /\ (u = <<>> <=> Len(u) = 0)
  BY <1>1
<1>4. b = IF Len(s) = 0 THEN a ELSE s[Len(s)].to
  BY <1>3 DEF Link, End
<1> HIDE DEF u
<1>5. End(u, a) = c
  <2>1. c = IF Len(t) = 0 THEN b ELSE t[Len(t)].to
    BY <1>3 DEF Link, End
  <2>2. CASE Len(t) = 0
    BY <1>1, <1>3, <1>4, <2>1, <2>2 DEF End
  <2>3. CASE Len(t) # 0
    <3>1. u[Len(u)] = t[Len(t)] /\ Len(u) # 0
      BY <1>1, <2>3
    <3> QED BY <1>3, <2>1, <2>3, <3>1 DEF End
  <2> QED BY <2>2, <2>3
<1>6. ASSUME NEW i \in DOMAIN u
      PROVE  /\ u[i].from = (IF i = 1 THEN a ELSE u[i - 1].to) + 1
             /\ u[i].kind = "gap" => u[i].count = u[i].to - u[i].from + 1
             /\ u[i].kind = "sample" => u[i].to = u[i].from /\ u[i].count = 0
  <2>1. CASE i \in 1 .. Len(s)
    <3>1. u[i] = s[i] /\ (i # 1 => u[i - 1] = s[i - 1])
      BY <1>1, <2>1
    <3> QED BY <1>2, <2>1, <3>1 DEF Link, Chained
  <2>2. CASE i \notin 1 .. Len(s)
    <3> DEFINE j == i - Len(s)
    <3>1. j \in 1 .. Len(t) /\ i = Len(s) + j
      BY <1>1, <1>2, <2>2
    <3>2. u[i] = t[j]
      BY <1>1, <3>1
    <3>3. t[j].from = (IF j = 1 THEN b ELSE t[j - 1].to) + 1
      BY <1>2, <3>1 DEF Link, Chained
    <3>4. CASE j = 1
      <4>1. CASE Len(s) = 0
        BY <1>4, <3>1, <3>2, <3>3, <3>4, <4>1, <1>2 DEF Link, Chained
      <4>2. CASE Len(s) # 0
        <5>1. i = Len(s) + 1 /\ Len(s) \in 1 .. Len(s)
          BY <1>1, <3>1, <3>4, <4>2
        <5>2. i # 1 /\ i - 1 = Len(s) /\ u[i - 1] = s[Len(s)]
          BY <1>1, <4>2, <5>1
        <5>3. b = u[i - 1].to /\ u[i].from = b + 1
          BY <1>4, <3>2, <3>3, <3>4, <4>2, <5>2
        <5>4. /\ t[j].kind = "gap" => t[j].count = t[j].to - t[j].from + 1
              /\ t[j].kind = "sample" => t[j].to = t[j].from /\ t[j].count = 0
          BY <1>2, <3>1 DEF Link, Chained
        <5> QED BY <3>2, <5>2, <5>3, <5>4
      <4> QED BY <4>1, <4>2
    <3>5. CASE j # 1
      <4>1. i # 1 /\ u[i - 1] = t[j - 1]
        <5>1. i - 1 = Len(s) + (j - 1) /\ j - 1 \in 1 .. Len(t) /\ i # 1
          BY <1>1, <3>1, <3>5
        <5> QED BY <1>1, <5>1
      <4> QED BY <1>2, <3>1, <3>2, <3>3, <3>5, <4>1 DEF Link, Chained
    <3> QED BY <3>4, <3>5
  <2> QED BY <2>1, <2>2
<1> QED BY <1>5, <1>6 DEF Link, Chained, u

\* A record follows a when it begins there and is a sample or a gap of its range.
Follows(r, a) ==
    /\ r.from = a + 1
    /\ r.kind = "gap" => r.count = r.to - r.from + 1
    /\ r.kind = "sample" => r.to = r.from /\ r.count = 0

LEMMA LinkOne == ASSUME NEW r, NEW a PROVE Follows(r, a) <=> Link(a, <<r>>, r.to)
BY DEF Follows, Link, Chained, End

LEMMA LinkAppend ==
    ASSUME NEW s \in Seq(Records), NEW r \in Records, NEW a, NEW b, Link(a, s, b), Follows(r, b)
    PROVE  Link(a, Append(s, r), r.to)
<1>1. Append(s, r) = s \o <<r>> /\ <<r>> \in Seq(Records)
  OBVIOUS
<1>2. Link(b, <<r>>, r.to)
  BY LinkOne
<1> QED BY <1>1, <1>2, LinkCat

\* The first record may be taken from a queue.
LEMMA LinkTail ==
    ASSUME NEW s \in Seq(Records), s # <<>>, NEW a, NEW c, Link(a, s, c)
    PROVE  /\ Head(s) \in Records /\ Tail(s) \in Seq(Records) /\ Len(Tail(s)) = Len(s) - 1
           /\ Follows(Head(s), a) /\ Link(Head(s).to, Tail(s), c)
<1> DEFINE u == Tail(s)
<1>1. /\ Head(s) \in Records /\ u \in Seq(Records) /\ Len(u) = Len(s) - 1 /\ Len(s) \in Nat \ {0}
      /\ Head(s) = s[1] /\ \A i \in 1 .. Len(u) : u[i] = s[i + 1]
      /\ DOMAIN s = 1 .. Len(s) /\ DOMAIN u = 1 .. Len(u) /\ (u = <<>> <=> Len(u) = 0)
  <2>1. Len(s) \in Nat \ {0} /\ DOMAIN s = 1 .. Len(s)
    OBVIOUS
  <2>2. Head(s) = s[1] /\ Head(s) \in Records
    BY <2>1
  <2>3. u \in Seq(Records) /\ Len(u) = Len(s) - 1
    BY <2>1
  <2>4. \A i \in 1 .. Len(u) : u[i] = s[i + 1]
    BY <2>1
  <2>5. DOMAIN u = 1 .. Len(u) /\ (u = <<>> <=> Len(u) = 0)
    <3>1. \A v \in Seq(Records) : DOMAIN v = 1 .. Len(v) /\ (v = <<>> <=> Len(v) = 0)
      OBVIOUS
    <3> HIDE DEF u
    <3> QED BY <2>3, <3>1
  <2> QED BY <2>1, <2>2, <2>3, <2>4, <2>5
<1> HIDE DEF u
<1>2. Follows(Head(s), a)
  BY <1>1 DEF Follows, Link, Chained
<1>3. End(u, Head(s).to) = c
  <2>1. c = s[Len(s)].to
    BY DEF Link, End
  <2>2. CASE Len(u) = 0
    <3>1. Len(s) = 1
      BY <1>1, <2>2
    <3>2. c = Head(s).to
      BY <1>1, <2>1, <3>1
    <3> QED BY <1>1, <2>2, <3>2 DEF End
  <2>3. CASE Len(u) # 0
    <3>1. u[Len(u)] = s[Len(s)]
      BY <1>1, <2>3
    <3> QED BY <1>1, <2>1, <2>3, <3>1 DEF End
  <2> QED BY <2>2, <2>3
<1>4. ASSUME NEW i \in DOMAIN u
      PROVE  /\ u[i].from = (IF i = 1 THEN Head(s).to ELSE u[i - 1].to) + 1
             /\ u[i].kind = "gap" => u[i].count = u[i].to - u[i].from + 1
             /\ u[i].kind = "sample" => u[i].to = u[i].from /\ u[i].count = 0
  <2> DEFINE j == i + 1
  <2>1. u[i] = s[j] /\ j \in DOMAIN s /\ j # 1 /\ j - 1 = i
    BY <1>1
  <2>2. s[i] = IF i = 1 THEN Head(s) ELSE u[i - 1]
    BY <1>1
  <2> HIDE DEF j
  <2>3. /\ s[j].from = (IF j = 1 THEN a ELSE s[j - 1].to) + 1
        /\ s[j].kind = "gap" => s[j].count = s[j].to - s[j].from + 1
        /\ s[j].kind = "sample" => s[j].to = s[j].from /\ s[j].count = 0
    BY <2>1 DEF Link, Chained
  <2> QED BY <2>1, <2>2, <2>3
<1> QED BY <1>1, <1>2, <1>3, <1>4 DEF Link, Chained, u

\* A gap on its way: nothing, or a record that follows.
LEMMA LinkGap ==
    ASSUME NEW gap \in Gaps, NEW a, NEW b
    PROVE  /\ gap = NoGap => (Link(a, GapSeq(gap), b) <=> a = b)
           /\ gap # NoGap => (Link(a, GapSeq(gap), b) <=> Follows(gap, a) /\ b = gap.to)
           /\ GapSeq(gap) \in Seq(Records)
<1>1. gap = NoGap => (Link(a, GapSeq(gap), b) <=> a = b)
  BY DEF GapSeq, Link, Chained, End
<1>2. ASSUME gap # NoGap PROVE Link(a, GapSeq(gap), b) <=> Follows(gap, a) /\ b = gap.to
  BY <1>2 DEF GapSeq, Link, Chained, End, Follows
<1>3. GapSeq(gap) \in Seq(Records)
  BY DEF GapSeq, Gaps
<1> QED BY <1>1, <1>2, <1>3

-----------------------------------------------------------------------------
(***************************************************************************)
(* What the writer does to its counts and its file.                        *)
(***************************************************************************)

\* Only the file of the log changes, and it stays in its place.
FileStep ==
    /\ disk' \in [1 .. MaxLogs -> FileType]
    /\ \A l \in 1 .. MaxLogs : disk'[l].synced <= Len(disk'[l].rows)
    /\ \A l \in 1 .. MaxLogs : l # writer.log => disk'[l] = disk[l]
    /\ disk'[writer.log].made = File.made

\* the writer goes on with the counts of w, whose rows stay with it or go to the file
Goes(w, at, state) ==
    /\ writer' \in WriterType
    /\ writer'.at = at /\ writer'.state = state
    /\ writer'.log = writer.log /\ writer'.failed = writer.failed
    /\ writer'.samples = w.samples /\ writer'.dropped = w.dropped
    /\ FileStep
    /\ \/ writer'.rows = w.rows /\ disk'[writer.log].rows = File.rows
       \/ writer'.rows = <<>> /\ disk'[writer.log].rows = File.rows \o w.rows

\* the writer fails
Breaks(at) ==
    /\ writer' \in WriterType
    /\ writer'.at = at /\ writer'.log = writer.log /\ writer'.state = "Failed" /\ writer'.failed = TRUE
    /\ FileStep

Typing ==
    /\ writer \in WriterType /\ writer.log \in 1 .. MaxLogs
    /\ disk \in [1 .. MaxLogs -> FileType]
    /\ \A l \in 1 .. MaxLogs : disk[l].synced <= Len(disk[l].rows)

LEMMA WrittenHas ==
    ASSUME NEW w \in WriterType, NEW r \in Records
    PROVE  /\ Written(w, r) \in WriterType
           /\ Written(w, r).at = w.at /\ Written(w, r).log = w.log /\ Written(w, r).state = w.state
           /\ Written(w, r).failed = w.failed /\ Written(w, r).rows = Append(w.rows, r)
           /\ Written(w, r).samples = w.samples + (IF r.kind = "sample" THEN 1 ELSE 0)
           /\ Written(w, r).dropped = w.dropped + r.count
<1> DEFINE s == w.samples + (IF r.kind = "sample" THEN 1 ELSE 0)
           g == w.gaps + (IF r.kind = "gap" THEN 1 ELSE 0)
           d == w.dropped + r.count
           rows == Append(w.rows, r)
<1>2. Written(w, r) = [w EXCEPT !.rows = rows, !.samples = s, !.gaps = g, !.dropped = d]
  BY DEF Written
<1>3. s \in Nat /\ g \in Nat /\ d \in Nat /\ rows \in Seq(Records)
  <2>1. r.count \in Nat /\ w.samples \in Nat /\ w.gaps \in Nat /\ w.dropped \in Nat
    BY CsvAssumption DEF WriterType, Records
  <2>2. w.rows \in Seq(Records)
    BY DEF WriterType
  <2> QED BY <2>1, <2>2
<1> HIDE DEF s, g, d, rows
<1>4. Written(w, r) \in WriterType
  BY <1>2, <1>3 DEF WriterType
<1>5. /\ Written(w, r).at = w.at /\ Written(w, r).log = w.log /\ Written(w, r).state = w.state
      /\ Written(w, r).failed = w.failed /\ Written(w, r).rows = rows
      /\ Written(w, r).samples = s /\ Written(w, r).dropped = d
  BY <1>2 DEF WriterType
<1> QED BY <1>4, <1>5 DEF s, d, rows

\* A file replaced by f: nothing else changes.
LEMMA FileReplaced ==
    ASSUME Typing, NEW f \in FileType, f.synced <= Len(f.rows), f.made = File.made,
           disk' = [disk EXCEPT ![writer.log] = f]
    PROVE  FileStep /\ disk'[writer.log] = f
BY DEF Typing, FileStep, File

LEMMA FlushedHas ==
    ASSUME NEW f \in FileType, f.synced <= Len(f.rows), NEW w \in WriterType
    PROVE  /\ Flushed(f, w) \in FileType /\ Flushed(f, w).made = f.made
           /\ Flushed(f, w).rows = f.rows \o w.rows
           /\ Flushed(f, w).synced = f.synced /\ f.synced <= Len(f.rows \o w.rows)
           /\ Len(f.rows \o w.rows) = Len(f.rows) + Len(w.rows)
           /\ Flushed(f, w).sidecar = f.sidecar /\ Flushed(f, w).checkpoint = f.checkpoint
<1>1. f.rows \in Seq(Records) /\ w.rows \in Seq(Records) /\ f.synced \in Nat
  BY DEF FileType, WriterType
<1>2. f.rows \o w.rows \in Seq(Records) /\ Len(f.rows \o w.rows) = Len(f.rows) + Len(w.rows)
      /\ Len(w.rows) \in Nat /\ Len(f.rows) \in Nat
  BY <1>1
<1> DEFINE rows == f.rows \o w.rows
<1>3. Flushed(f, w) = [f EXCEPT !.rows = rows]
  BY DEF Flushed
<1>5. f.synced <= Len(rows)
  <2>1. f.synced <= Len(f.rows) + Len(w.rows)
    <3>1. \A x, y, z \in Nat : x <= y => x <= y + z
      OBVIOUS
    <3> QED BY <1>1, <1>2, <3>1
  <2> QED BY <1>2, <2>1
<1>6. rows \in Seq(Records)
  BY <1>2
<1> HIDE DEF rows
<1>4. Flushed(f, w) \in FileType
  BY <1>3, <1>6 DEF FileType
<1>7. /\ Flushed(f, w).made = f.made /\ Flushed(f, w).rows = rows /\ Flushed(f, w).synced = f.synced
      /\ Flushed(f, w).sidecar = f.sidecar /\ Flushed(f, w).checkpoint = f.checkpoint
  BY <1>3 DEF FileType
<1> QED BY <1>2, <1>4, <1>5, <1>7 DEF rows

LEMMA FlushMoves ==
    ASSUME Typing, NEW w \in WriterType, w.log = writer.log, w.failed = writer.failed,
           NEW synced \in BOOLEAN,
           FlushLogger(w, synced)
    PROVE  Goes(w, w.at, w.state)
<1> DEFINE f == Flushed(File, w)
           n == IF synced THEN Len(f.rows) ELSE f.synced
           g == [f EXCEPT !.synced = n]
<1>1. File \in FileType /\ File.synced <= Len(File.rows)
  BY DEF Typing, File
<1>2. /\ f \in FileType /\ f.made = File.made /\ f.rows = File.rows \o w.rows
      /\ f.synced = File.synced /\ f.synced <= Len(f.rows)
  BY <1>1, FlushedHas
<1>3. writer' = [w EXCEPT !.rows = <<>>, !.flush = "sidecar"] /\ disk' = [disk EXCEPT ![writer.log] = g]
  BY DEF FlushLogger
<1>4. n \in Nat /\ n <= Len(f.rows) /\ f.rows \in Seq(Records)
  <2>1. f.rows \in Seq(Records) /\ f.synced \in Nat
    BY <1>2 DEF FileType
  <2>2. Len(f.rows) \in Nat
    BY <2>1
  <2> HIDE DEF f
  <2>3. \A m \in Nat : m <= m
    OBVIOUS
  <2> QED BY <1>2, <2>1, <2>2, <2>3
<1>5. g \in FileType /\ g.made = File.made /\ g.rows = File.rows \o w.rows /\ g.synced <= Len(g.rows)
  <2> HIDE DEF f, n
  <2>1. g \in FileType /\ g.made = f.made /\ g.rows = f.rows /\ g.synced = n
    BY <1>2, <1>4 DEF FileType
  <2> QED BY <1>2, <1>4, <2>1
<1> HIDE DEF g
<1>6. FileStep /\ disk'[writer.log].rows = File.rows \o w.rows
  BY <1>3, <1>5, FileReplaced
<1>7. /\ writer' \in WriterType /\ writer'.rows = <<>>
      /\ writer'.at = w.at /\ writer'.log = w.log /\ writer'.state = w.state
      /\ writer'.failed = w.failed /\ writer'.samples = w.samples /\ writer'.dropped = w.dropped
  <2> DEFINE rows == <<>>
  <2>1. writer' = [w EXCEPT !.rows = rows, !.flush = "sidecar"] /\ rows \in Seq(Records)
    BY <1>3
  <2> HIDE DEF rows
  <2>2. /\ writer' \in WriterType /\ writer'.rows = rows
        /\ writer'.at = w.at /\ writer'.log = w.log /\ writer'.state = w.state
        /\ writer'.failed = w.failed /\ writer'.samples = w.samples /\ writer'.dropped = w.dropped
    BY <2>1 DEF WriterType
  <2> QED BY <2>2 DEF rows
<1> QED BY <1>6, <1>7 DEF Goes

LEMMA StayMoves ==
    ASSUME Typing, NEW w \in WriterType, w.log = writer.log, w.failed = writer.failed,
           writer' = w, disk' = disk
    PROVE  Goes(w, w.at, w.state)
BY DEF Typing, Goes, FileStep, File

LEMMA CountedMoves ==
    ASSUME Typing, NEW w \in WriterType, w.log = writer.log, w.failed = writer.failed,
           Counted(w)
    PROVE  Goes(w, w.at, w.state)
BY FlushMoves, StayMoves DEF Counted

LEMMA FailBreaks ==
    ASSUME Typing, NEW w \in WriterType, w.log = writer.log, NEW pending \in Gaps,
           LoggerFails(w, pending)
    PROVE  Breaks(w.at)
<1>1. PICK flushed \in BOOLEAN,
           sidecar \in {File.sidecar, Sidecar("Failed", w.samples, w.dropped),
                        Sidecar("Failed", w.samples, w.dropped + pending.count)},
           checkpoint \in {File.checkpoint, Checkpoint("Failed", w.samples + w.gaps)} :
        /\ writer' = [w EXCEPT !.failed = TRUE, !.state = "Failed",
                               !.rows = IF flushed THEN <<>> ELSE @]
        /\ disk' = [disk EXCEPT ![writer.log] =
                       [IF flushed THEN Flushed(@, w) ELSE @
                        EXCEPT !.sidecar = sidecar, !.checkpoint = checkpoint]]
  BY DEF LoggerFails
<1> DEFINE f == IF flushed THEN Flushed(File, w) ELSE File
           g == [f EXCEPT !.sidecar = sidecar, !.checkpoint = checkpoint]
<1>2. File \in FileType /\ File.synced <= Len(File.rows)
  BY DEF Typing, File
<1>3. /\ f \in FileType /\ f.made = File.made /\ f.synced <= Len(f.rows)
  BY <1>2, FlushedHas
<1>4. disk' = [disk EXCEPT ![writer.log] = g]
  BY <1>1 DEF File, Typing
<1>5. sidecar \in SidecarType /\ checkpoint \in CheckpointType
  <2>1. w.samples \in Nat /\ w.gaps \in Nat /\ w.dropped \in Nat /\ pending.count \in Nat
    BY CsvAssumption DEF WriterType, Gaps, Records, NoGap
  <2>2. w.samples + w.gaps \in Nat /\ w.dropped + pending.count \in Nat
    BY <2>1
  <2>3. File.sidecar \in SidecarType /\ File.checkpoint \in CheckpointType
    BY <1>2 DEF FileType
  <2> QED BY <1>1, <2>1, <2>2, <2>3 DEF Sidecar, Checkpoint, SidecarType, CheckpointType
<1>6. g \in FileType /\ g.made = File.made /\ g.synced <= Len(g.rows)
  <2> HIDE DEF f
  <2> QED BY <1>3, <1>5 DEF FileType
<1> HIDE DEF g
<1>7. FileStep
  BY <1>4, <1>6, FileReplaced
<1>8. /\ writer' \in WriterType
      /\ writer'.at = w.at /\ writer'.log = w.log /\ writer'.state = "Failed"
      /\ writer'.failed = TRUE
  <2> DEFINE rows == IF flushed THEN <<>> ELSE w.rows
  <2>1. writer' = [w EXCEPT !.failed = TRUE, !.state = "Failed", !.rows = rows]
    BY <1>1
  <2>2. rows \in Seq(Records)
    BY DEF WriterType
  <2> HIDE DEF rows
  <2>3. writer' \in WriterType
    BY <2>1, <2>2 DEF WriterType
  <2> QED BY <2>1, <2>3 DEF WriterType
<1> QED BY <1>7, <1>8 DEF Breaks

LEMMA InLog == ASSUME Typed, writer.at # "off" PROVE Typing
BY DEF Typed, WriterTyped, WriterType, Typing

\* the same counts at another place
LEMMA PlacedHas ==
    ASSUME NEW w \in WriterType, NEW at \in {"finalize", "answered", "off"}
    PROVE  /\ [w EXCEPT !.at = at] \in WriterType
           /\ [w EXCEPT !.at = at].at = at /\ [w EXCEPT !.at = at].log = w.log
           /\ [w EXCEPT !.at = at].state = w.state /\ [w EXCEPT !.at = at].failed = w.failed
           /\ [w EXCEPT !.at = at].rows = w.rows
           /\ [w EXCEPT !.at = at].samples = w.samples /\ [w EXCEPT !.at = at].dropped = w.dropped
BY DEF WriterType, Closing, Creating

LEMMA PlacedGoes ==
    ASSUME NEW w, NEW v, NEW at, NEW state, Goes(v, at, state),
           v.samples = w.samples, v.dropped = w.dropped, v.rows = w.rows
    PROVE  Goes(w, at, state)
BY DEF Goes

\* StopWith: what fails while the queue is drained is answered
LEMMA StopBreaks ==
    ASSUME Typing, coord.gap \in Gaps, NEW w \in WriterType, w.log = writer.log, StopWith(w)
    PROVE  Breaks("answered")
<1>1. PICK v \in {writer, w} : LoggerFails([v EXCEPT !.at = "answered"], coord.gap)
  BY DEF StopWith
<1>2. v \in WriterType /\ v.log = writer.log
  BY <1>1 DEF Typing
<1> DEFINE u == [v EXCEPT !.at = "answered"]
<1>3. u \in WriterType /\ u.at = "answered" /\ u.log = writer.log
  BY <1>2, PlacedHas
<1>4. LoggerFails(u, coord.gap)
  BY <1>1
<1> HIDE DEF u
<1> QED BY <1>3, <1>4, FailBreaks

LEMMA FailsAt ==
    ASSUME Typing, NEW at \in {"answered", "off"}, NEW gap \in Gaps,
           LoggerFails([writer EXCEPT !.at = at], gap)
    PROVE  Breaks(at)
<1> DEFINE u == [writer EXCEPT !.at = at]
<1>1. u \in WriterType /\ u.at = at /\ u.log = writer.log
  <2>1. at \in {"finalize", "answered", "off"} /\ writer \in WriterType
    BY DEF Typing
  <2> QED BY <2>1, PlacedHas
<1>2. LoggerFails(u, gap)
  OBVIOUS
<1> HIDE DEF u
<1> QED BY <1>1, <1>2, FailBreaks

LEMMA NoGapIsGap == NoGap \in Gaps
BY DEF Gaps

LEMMA WriteItemDoes ==
    ASSUME Typed, WriteItem
    PROVE  \/ writer.failed /\ UNCHANGED <<writer, disk>>
           \/ ~writer.failed /\ Goes(Written(writer, Head(sink)), "ready", writer.state)
           \/ ~writer.failed /\ Breaks("ready")
<1> DEFINE w == Written(writer, Head(sink))
<1>1. writer.at = "ready" /\ sink # <<>>
  BY DEF WriteItem
<1>2. Typing
  BY <1>1, InLog
<1>3. Head(sink) \in Records
  BY <1>1 DEF Typed, QueuesTyped
<1>4. w \in WriterType /\ w.at = "ready" /\ w.log = writer.log /\ w.state = writer.state
      /\ w.failed = writer.failed
  BY <1>1, <1>2, <1>3, WrittenHas DEF Typing
<1>5. ASSUME ~writer.failed
      PROVE  Counted(w) \/ LoggerFails(writer, NoGap) \/ LoggerFails(w, NoGap)
  BY <1>5 DEF WriteItem
<1>6. writer.failed => UNCHANGED <<writer, disk>>
  BY DEF WriteItem
<1> HIDE DEF w
<1>7. Counted(w) => Goes(w, "ready", writer.state)
  BY <1>2, <1>4, CountedMoves
<1>8. LoggerFails(w, NoGap) => Breaks("ready")
  BY <1>2, <1>4, NoGapIsGap, FailBreaks
<1>9. LoggerFails(writer, NoGap) => Breaks("ready")
  <2>1. writer \in WriterType
    BY <1>2 DEF Typing
  <2> QED BY <1>1, <1>2, <2>1, NoGapIsGap, FailBreaks
<1> QED BY <1>5, <1>6, <1>7, <1>8, <1>9 DEF w

LEMMA MaintainDoes ==
    ASSUME Typed, Maintain
    PROVE  Goes(writer, "ready", writer.state) \/ Breaks("ready")
<1>1. writer.at = "ready"
  BY DEF Maintain
<1>2. Typing /\ writer \in WriterType
  BY <1>1, InLog DEF Typing
<1>3. ASSUME NEW synced \in BOOLEAN, FlushLogger(writer, synced)
      PROVE  Goes(writer, "ready", writer.state)
  BY <1>1, <1>2, <1>3, FlushMoves
<1>4. LoggerFails(writer, NoGap) => Breaks("ready")
  BY <1>1, <1>2, NoGapIsGap, FailBreaks
<1> QED BY <1>3, <1>4 DEF Maintain

LEMMA UpdateDoes ==
    ASSUME Typed, FlushInv, UpdateSidecar \/ UpdateCheckpoint
    PROVE  \/ Goes(writer, writer.at, writer.state)
           \/ writer.at \in {"stop", "finalize"} /\ Breaks("answered")
           \/ writer.at \in {"ready", "shutdown"} /\ Breaks(writer.at)
<1>1. writer.at \in {"ready", "stop", "finalize", "shutdown"}
  BY DEF FlushInv, UpdateSidecar, UpdateCheckpoint
<1>2. Typing /\ writer \in WriterType /\ coord.gap \in Gaps
  BY <1>1, InLog DEF Typing, Typed, CoordType
<1>3. File \in FileType /\ File.synced <= Len(File.rows)
  BY <1>2 DEF Typing, File
<1>4. CASE FlushFails
  <2> DEFINE u == [writer EXCEPT !.flush = "none"]
             v == [u EXCEPT !.at = "answered"]
  <2>1. u \in WriterType /\ u.log = writer.log /\ u.at = writer.at
    BY <1>2 DEF WriterType
  <2>2. /\ writer.at \in {"stop", "finalize"} => LoggerFails(v, coord.gap)
        /\ writer.at \notin {"stop", "finalize"} => LoggerFails(u, NoGap)
    BY <1>4 DEF FlushFails
  <2> HIDE DEF u
  <2>3. v \in WriterType /\ v.log = writer.log /\ v.at = "answered"
    BY <2>1, PlacedHas
  <2> HIDE DEF v
  <2> QED BY <1>1, <1>2, <2>1, <2>2, <2>3, NoGapIsGap, FailBreaks
<1>5. ASSUME NEW g \in FileType, g.made = File.made, g.rows = File.rows, g.synced = File.synced,
             NEW flush \in {"none", "checkpoint"},
             disk' = [disk EXCEPT ![writer.log] = g], writer' = [writer EXCEPT !.flush = flush]
      PROVE  Goes(writer, writer.at, writer.state)
  <2>1. FileStep /\ disk'[writer.log] = g
    BY <1>2, <1>3, <1>5, FileReplaced
  <2>2. /\ writer' \in WriterType /\ writer'.rows = writer.rows /\ writer'.at = writer.at
        /\ writer'.log = writer.log /\ writer'.state = writer.state /\ writer'.failed = writer.failed
        /\ writer'.samples = writer.samples /\ writer'.dropped = writer.dropped
    BY <1>2, <1>5 DEF WriterType
  <2> QED BY <1>5, <2>1, <2>2 DEF Goes
<1>6. writer.samples \in Nat /\ writer.gaps \in Nat /\ writer.dropped \in Nat
  BY <1>2 DEF WriterType
<1>7. ASSUME disk' = [disk EXCEPT ![writer.log].sidecar = Sidecar("Running", writer.samples, writer.dropped)],
             writer' = [writer EXCEPT !.flush = "checkpoint"]
      PROVE  Goes(writer, writer.at, writer.state)
  <2> DEFINE c == Sidecar("Running", writer.samples, writer.dropped)
             g == [File EXCEPT !.sidecar = c]
  <2>1. c \in SidecarType
    BY <1>6 DEF Sidecar, SidecarType
  <2>2. disk' = [disk EXCEPT ![writer.log] = g]
    BY <1>2, <1>7 DEF File, Typing
  <2> HIDE DEF c
  <2>3. g \in FileType /\ g.made = File.made /\ g.rows = File.rows /\ g.synced = File.synced
    BY <1>3, <2>1 DEF FileType
  <2> HIDE DEF g
  <2> QED BY <1>5, <1>7, <2>2, <2>3
<1>8. ASSUME disk' = [disk EXCEPT ![writer.log].checkpoint = Checkpoint("Running", writer.samples + writer.gaps)],
             writer' = [writer EXCEPT !.flush = "none"]
      PROVE  Goes(writer, writer.at, writer.state)
  <2> DEFINE c == Checkpoint("Running", writer.samples + writer.gaps)
             g == [File EXCEPT !.checkpoint = c]
  <2>1. c \in CheckpointType
    BY <1>6 DEF Checkpoint, CheckpointType
  <2>2. disk' = [disk EXCEPT ![writer.log] = g]
    BY <1>2, <1>8 DEF File, Typing
  <2> HIDE DEF c
  <2>3. g \in FileType /\ g.made = File.made /\ g.rows = File.rows /\ g.synced = File.synced
    BY <1>3, <2>1 DEF FileType
  <2> HIDE DEF g
  <2> QED BY <1>5, <1>8, <2>2, <2>3
<1> QED BY <1>4, <1>7, <1>8 DEF UpdateSidecar, UpdateCheckpoint

LEMMA StopDrainsDoes ==
    ASSUME Typed, StopDrains
    PROVE  Goes(Written(writer, Head(sink)), "stop", writer.state) \/ Breaks("answered")
<1> DEFINE w == Written(writer, Head(sink))
<1>1. writer.at = "stop" /\ sink # <<>>
  BY DEF StopDrains
<1>2. Typing
  BY <1>1, InLog
<1>3. Head(sink) \in Records /\ coord.gap \in Gaps
  BY <1>1 DEF Typed, QueuesTyped, CoordType
<1>4. w \in WriterType /\ w.at = "stop" /\ w.log = writer.log /\ w.state = writer.state
      /\ w.failed = writer.failed
  BY <1>1, <1>2, <1>3, WrittenHas DEF Typing
<1>5. Counted(w) \/ StopWith(w)
  BY DEF StopDrains
<1> HIDE DEF w
<1>6. Counted(w) => Goes(w, "stop", writer.state)
  BY <1>2, <1>4, CountedMoves
<1>7. StopWith(w) => Breaks("answered")
  BY <1>2, <1>3, <1>4, StopBreaks
<1> QED BY <1>5, <1>6, <1>7 DEF w

LEMMA StopWritesGapDoes ==
    ASSUME Typed, StopWritesGap
    PROVE  \/ coord.gap = NoGap /\ Goes(writer, "finalize", writer.state)
           \/ coord.gap \in Records /\ Goes(Written(writer, coord.gap), "finalize", writer.state)
           \/ Breaks("answered")
<1>1. writer.at = "stop" /\ coord.gap \in Gaps
  BY DEF StopWritesGap, Typed, CoordType
<1>2. Typing /\ writer \in WriterType
  BY <1>1, InLog DEF Typing
<1>3. CASE coord.gap = NoGap
  <2> DEFINE u == [writer EXCEPT !.at = "finalize"]
  <2>1. writer' = u /\ disk' = disk
    BY <1>3 DEF StopWritesGap
  <2>2. /\ u \in WriterType /\ u.at = "finalize" /\ u.log = writer.log /\ u.state = writer.state
        /\ u.failed = writer.failed /\ u.rows = writer.rows
        /\ u.samples = writer.samples /\ u.dropped = writer.dropped
    BY <1>2, PlacedHas
  <2> HIDE DEF u
  <2>3. Goes(u, "finalize", writer.state)
    BY <1>2, <2>1, <2>2, StayMoves
  <2>4. Goes(writer, "finalize", writer.state)
    BY <2>2, <2>3, PlacedGoes
  <2> QED BY <1>3, <2>4
<1>4. CASE coord.gap # NoGap
  <2> DEFINE w == Written(writer, coord.gap)
             u == [w EXCEPT !.at = "finalize"]
  <2>1. coord.gap \in Records
    BY <1>1, <1>4 DEF Gaps
  <2>2. /\ w \in WriterType /\ w.log = writer.log /\ w.state = writer.state /\ w.failed = writer.failed
    BY <1>2, <2>1, WrittenHas
  <2>3. Counted(u) \/ StopWith(w)
    BY <1>4 DEF StopWritesGap
  <2> HIDE DEF w
  <2>4. /\ u \in WriterType /\ u.at = "finalize" /\ u.log = writer.log /\ u.state = writer.state
        /\ u.failed = writer.failed /\ u.rows = w.rows /\ u.samples = w.samples /\ u.dropped = w.dropped
    BY <2>2, PlacedHas
  <2> HIDE DEF u
  <2>5. ASSUME Counted(u) PROVE Goes(w, "finalize", writer.state)
    <3>1. Goes(u, "finalize", writer.state)
      BY <1>2, <2>4, <2>5, CountedMoves
    <3> QED BY <2>4, <3>1, PlacedGoes
  <2>6. StopWith(w) => Breaks("answered")
    BY <1>1, <1>2, <2>2, StopBreaks
  <2> QED BY <2>1, <2>3, <2>5, <2>6 DEF w
<1> QED BY <1>3, <1>4

LEMMA StopFailedDoes == ASSUME Typed, StopFailed PROVE Breaks("answered")
<1>1. Typing /\ coord.gap \in Gaps
  BY InLog DEF StopFailed, Typed, CoordType
<1> QED BY <1>1, FailsAt DEF StopFailed

LEMMA SyncRowsDoes ==
    ASSUME Typed, SyncRows
    PROVE  \/ Goes(writer, "completed", writer.state) /\ writer'.rows = <<>>
           \/ Breaks("answered")
<1>1. Typing /\ writer \in WriterType
  BY InLog DEF SyncRows, Typing
<1>2. CASE LoggerFails([writer EXCEPT !.at = "answered"], NoGap)
  BY <1>1, <1>2, NoGapIsGap, FailsAt
<1>3. ASSUME disk' = [disk EXCEPT ![writer.log] = [Flushed(@, writer) EXCEPT !.synced = Len(File.rows) + Len(writer.rows)]],
             writer' = [writer EXCEPT !.at = "completed", !.rows = <<>>]
      PROVE  Goes(writer, "completed", writer.state) /\ writer'.rows = <<>>
  <2> DEFINE f == Flushed(File, writer)
             n == Len(File.rows) + Len(writer.rows)
             g == [f EXCEPT !.synced = n]
             rows == <<>>
  <2>1. File \in FileType /\ File.synced <= Len(File.rows)
    BY <1>1 DEF Typing, File
  <2>2. f \in FileType /\ f.made = File.made /\ f.rows = File.rows \o writer.rows /\ n = Len(f.rows)
    BY <1>1, <2>1, FlushedHas
  <2>3. disk' = [disk EXCEPT ![writer.log] = g]
    BY <1>1, <1>3 DEF File, Typing
  <2>4. writer' = [writer EXCEPT !.at = "completed", !.rows = rows] /\ rows \in Seq(Records)
    BY <1>3
  <2>5. n \in Nat /\ n <= n
    <3>1. File.rows \in Seq(Records) /\ writer.rows \in Seq(Records)
      BY <1>1, <2>1 DEF FileType, WriterType
    <3>2. Len(File.rows) \in Nat /\ Len(writer.rows) \in Nat
      BY <3>1
    <3>3. \A i, j \in Nat : i + j \in Nat /\ i + j <= i + j
      OBVIOUS
    <3> QED BY <3>2, <3>3
  <2> HIDE DEF f, n, rows
  <2>6. g \in FileType /\ g.made = File.made /\ g.rows = File.rows \o writer.rows /\ g.synced <= Len(g.rows)
    <3>1. g \in FileType /\ g.made = f.made /\ g.rows = f.rows /\ g.synced = n
      BY <2>2, <2>5 DEF FileType
    <3> QED BY <2>2, <2>5, <3>1
  <2> HIDE DEF g
  <2>7. FileStep /\ disk'[writer.log] = g
    BY <1>1, <2>3, <2>6, FileReplaced
  <2>8. /\ writer' \in WriterType /\ writer'.rows = rows /\ writer'.at = "completed"
        /\ writer'.log = writer.log /\ writer'.state = writer.state /\ writer'.failed = writer.failed
        /\ writer'.samples = writer.samples /\ writer'.dropped = writer.dropped
    BY <1>1, <2>4 DEF WriterType, Closing
  <2> QED BY <2>6, <2>7, <2>8 DEF Goes, rows
<1> QED BY <1>2, <1>3 DEF SyncRows

LEMMA CompleteSidecarDoes ==
    ASSUME Typed, CompleteSidecar
    PROVE  \/ /\ Goes(writer, "unlink", writer.state)
              /\ disk'[writer.log].sidecar = Sidecar("Completed", writer.samples, writer.dropped)
              /\ writer'.rows = writer.rows
           \/ Breaks("answered")
<1>1. Typing /\ writer \in WriterType
  BY InLog DEF CompleteSidecar, Typing
<1>2. CASE LoggerFails([writer EXCEPT !.at = "answered"], NoGap)
  BY <1>1, <1>2, NoGapIsGap, FailsAt
<1>3. ASSUME disk' = [disk EXCEPT ![writer.log].sidecar = Sidecar("Completed", writer.samples, writer.dropped)],
             writer' = [writer EXCEPT !.at = "unlink"]
      PROVE  /\ Goes(writer, "unlink", writer.state)
             /\ disk'[writer.log].sidecar = Sidecar("Completed", writer.samples, writer.dropped)
             /\ writer'.rows = writer.rows
  <2> DEFINE c == Sidecar("Completed", writer.samples, writer.dropped)
             g == [File EXCEPT !.sidecar = c]
  <2>1. File \in FileType /\ File.synced <= Len(File.rows)
    BY <1>1 DEF Typing, File
  <2>2. c \in SidecarType
    BY <1>1 DEF WriterType, Sidecar, SidecarType
  <2>3. disk' = [disk EXCEPT ![writer.log] = g]
    BY <1>1, <1>3 DEF File, Typing
  <2> HIDE DEF c
  <2>4. /\ g \in FileType /\ g.made = File.made /\ g.rows = File.rows /\ g.synced = File.synced
        /\ g.sidecar = c
    BY <2>1, <2>2 DEF FileType
  <2> HIDE DEF g
  <2>5. FileStep /\ disk'[writer.log] = g
    BY <1>1, <2>1, <2>3, <2>4, FileReplaced
  <2>6. /\ writer' \in WriterType /\ writer'.rows = writer.rows /\ writer'.at = "unlink"
        /\ writer'.log = writer.log /\ writer'.state = writer.state /\ writer'.failed = writer.failed
        /\ writer'.samples = writer.samples /\ writer'.dropped = writer.dropped
    BY <1>1, <1>3 DEF WriterType, Closing
  <2> QED BY <2>4, <2>5, <2>6 DEF Goes, c
<1> QED BY <1>2, <1>3 DEF CompleteSidecar

LEMMA RemoveCheckpointDoes ==
    ASSUME Typed, RemoveCheckpoint
    PROVE  \/ /\ Goes(writer, "answered", "Completed")
              /\ disk'[writer.log].sidecar = File.sidecar
              /\ writer'.rows = writer.rows
           \/ Breaks("answered")
<1>1. Typing /\ writer \in WriterType
  BY InLog DEF RemoveCheckpoint, Typing
<1>2. CASE LoggerFails([writer EXCEPT !.at = "answered"], NoGap)
  BY <1>1, <1>2, NoGapIsGap, FailsAt
<1>3. ASSUME disk' = [disk EXCEPT ![writer.log].checkpoint = NoCheckpoint],
             writer' = [writer EXCEPT !.at = "answered", !.state = "Completed"]
      PROVE  /\ Goes(writer, "answered", "Completed")
             /\ disk'[writer.log].sidecar = File.sidecar
             /\ writer'.rows = writer.rows
  <2> DEFINE g == [File EXCEPT !.checkpoint = NoCheckpoint]
  <2>1. File \in FileType /\ File.synced <= Len(File.rows)
    BY <1>1 DEF Typing, File
  <2>2. NoCheckpoint \in CheckpointType
    BY DEF NoCheckpoint, Checkpoint, CheckpointType
  <2>3. disk' = [disk EXCEPT ![writer.log] = g]
    BY <1>1, <1>3 DEF File, Typing
  <2>4. /\ g \in FileType /\ g.made = File.made /\ g.rows = File.rows /\ g.synced = File.synced
        /\ g.sidecar = File.sidecar
    BY <2>1, <2>2 DEF FileType
  <2> HIDE DEF g
  <2>5. FileStep /\ disk'[writer.log] = g
    BY <1>1, <2>1, <2>3, <2>4, FileReplaced
  <2>6. /\ writer' \in WriterType /\ writer'.rows = writer.rows /\ writer'.at = "answered"
        /\ writer'.log = writer.log /\ writer'.state = "Completed" /\ writer'.failed = writer.failed
        /\ writer'.samples = writer.samples /\ writer'.dropped = writer.dropped
    BY <1>1, <1>3 DEF WriterType, Closing
  <2> QED BY <2>4, <2>5, <2>6 DEF Goes
<1> QED BY <1>2, <1>3 DEF RemoveCheckpoint

LEMMA WriterShutsDownDoes ==
    ASSUME Typed, WriterShutsDown
    PROVE  (writer' = NoWriter /\ disk' = disk) \/ Breaks("off")
<1>1. Typing
  BY InLog DEF WriterShutsDown
<1> QED BY <1>1, NoGapIsGap, FailsAt DEF WriterShutsDown

LEMMA Blank ==
    /\ NoWriter \in WriterType /\ NoWriter.at = "off" /\ NoWriter.log = 0 /\ NoWriter.failed = FALSE
    /\ NoWriter.state = "Idle" /\ NoWriter.samples = 0 /\ NoWriter.dropped = 0 /\ NoWriter.rows = <<>>
    /\ NewCoordinator \in CoordType
    /\ NoFile \in FileType /\ NoFile.synced <= Len(NoFile.rows) /\ NoFile.rows = <<>>
    /\ NoSidecar \in SidecarType
<1>1. 0 \in 0 .. MaxLogs /\ <<>> \in Seq(Records)
  BY CsvAssumption
<1>2. NoWriter \in WriterType
  BY <1>1 DEF NoWriter, WriterType
<1>3. NewCoordinator \in CoordType
  BY <1>1, NoGapIsGap DEF NewCoordinator, CoordType
<1>4. NoSidecar \in SidecarType /\ NoCheckpoint \in CheckpointType
  BY DEF NoSidecar, Sidecar, NoCheckpoint, Checkpoint, SidecarType, CheckpointType
<1>5. NoFile \in FileType
  BY <1>1, <1>4 DEF NoFile, FileType
<1>6. NoFile.synced <= Len(NoFile.rows) /\ NoFile.rows = <<>>
  BY DEF NoFile
<1> QED BY <1>2, <1>3, <1>4, <1>5, <1>6 DEF NoWriter

LEMMA EmptyQueue ==
    /\ <<>> \in Seq(Records) /\ Len(<<>>) = 0 /\ Len(<<>>) <= Capacity
    /\ <<>> \in Seq({"Finalize", "Abort"})
<1>1. \A S : <<>> \in Seq(S)
  OBVIOUS
<1>2. Len(<<>>) = 0
  OBVIOUS
<1> QED BY <1>1, <1>2, CsvAssumption

\* What a publication adds: nothing overflows, the gap that remains ends with the
\* sample, and what was complete up to the sample before stays complete.
LEMMA PublishedHas ==
    ASSUME Typed, GapInv, delivery.on, published < MaxSamples, NEW n, n = published + 1
    PROVE  /\ Published(n).gap \in Gaps /\ Published(n).items \in Seq(Records)
           /\ source \o Published(n).items \in Seq(Records)
           /\ Len(source \o Published(n).items) <= Capacity
           /\ Published(n).gap # NoGap =>
                 /\ Published(n).gap.kind = "gap" /\ Published(n).gap.to = n
                 /\ Published(n).gap.count = Published(n).gap.to - Published(n).gap.from + 1
           /\ \A e \in 0 .. MaxSamples : Link(e, GapSeq(delivery.gap), published) =>
                 \E e2 \in 0 .. MaxSamples :
                    Link(e, Published(n).items, e2) /\ Link(e2, GapSeq(Published(n).gap), n)
<1> DEFINE gap == delivery.gap
           room == Capacity - Len(source)
           more == Extended(gap, n)
           fresh == DroppedGap(n)
           sample == Sample(n)
<1>1. /\ published \in Nat /\ n \in 1 .. MaxSamples /\ n \in Nat /\ published \in 0 .. MaxSamples
      /\ gap \in Gaps /\ source \in Seq(Records) /\ room \in Nat
  <2>1. published \in Nat /\ published < MaxSamples /\ MaxSamples \in Nat
    BY CsvAssumption DEF Typed, CountsTyped
  <2>2. source \in Seq(Records) /\ Len(source) <= Capacity /\ Capacity \in Nat
    BY CsvAssumption DEF Typed, QueuesTyped
  <2>3. Len(source) \in Nat
    BY <2>2
  <2>4. gap \in Gaps
    BY DEF Typed, HandsTyped
  <2> QED BY <2>1, <2>2, <2>3, <2>4
<1>2. /\ sample \in Records /\ sample.from = n /\ sample.to = n /\ sample.kind = "sample"
      /\ sample.count = 0 /\ Follows(sample, published)
  BY <1>1, CsvAssumption DEF Sample, Records, Follows
<1>3. /\ fresh \in Records /\ fresh.from = n /\ fresh.to = n /\ fresh.kind = "gap" /\ fresh.count = 1
      /\ fresh # NoGap /\ Follows(fresh, published)
  BY <1>1, CsvAssumption DEF DroppedGap, Records, Follows, NoGap
<1>4. ASSUME gap # NoGap
      PROVE  /\ gap \in Records /\ gap.kind = "gap" /\ gap.to = published
             /\ gap.from \in 1 .. MaxSamples /\ gap.count = published - gap.from + 1
             /\ more \in Records /\ more.from = gap.from /\ more.to = n /\ more.kind = "gap"
             /\ more.count = more.to - more.from + 1 /\ more # NoGap
  <2>1. gap \in Records /\ gap.kind = "gap" /\ gap.to = published /\ gap.count = published - gap.from + 1
    BY <1>1, <1>4 DEF Gaps, GapInv
  <2>2. gap.from \in 1 .. MaxSamples /\ gap.count \in 0 .. MaxSamples /\ gap.from \in Nat
    BY <2>1, CsvAssumption DEF Records
  <2> DEFINE c == gap.count + 1
  <2>3. c = n - gap.from + 1 /\ c \in 0 .. MaxSamples
    <3>1. published \in Nat /\ gap.from \in Nat /\ n = published + 1 /\ c = published - gap.from + 1 + 1
      BY <1>1, <2>1, <2>2
    <3>2. c = n - gap.from + 1
      BY <3>1
    <3>3. c <= n
      BY <2>2, <3>1, <3>2
    <3>4. gap.count \in Nat /\ c = gap.count + 1
      BY <2>2, CsvAssumption
    <3>5. c \in Nat /\ n <= MaxSamples
      BY <1>1, <3>4
    <3>6. c <= MaxSamples
      <4>1. \A x, y, z \in Nat : x <= y /\ y <= z => x <= z
        OBVIOUS
      <4> HIDE DEF c
      <4> QED BY <1>1, <3>3, <3>5, <4>1, CsvAssumption
    <3> HIDE DEF c
    <3> QED BY <3>2, <3>5, <3>6, CsvAssumption
  <2>4. more = [gap EXCEPT !.to = n, !.count = c]
    BY DEF Extended
  <2> HIDE DEF c, more, gap
  <2>5. more \in Records /\ more.from = gap.from /\ more.to = n /\ more.kind = gap.kind /\ more.count = c
    BY <1>1, <2>1, <2>3, <2>4 DEF Records
  <2>6. more # NoGap
    BY <2>1, <2>5 DEF NoGap
  <2> QED BY <2>1, <2>2, <2>3, <2>5, <2>6
<1> DEFINE P == Published(n)
<1> SUFFICES /\ P.gap \in Gaps /\ P.items \in Seq(Records) /\ Len(P.items) <= room
             /\ P.gap # NoGap =>
                   P.gap.kind = "gap" /\ P.gap.to = n /\ P.gap.count = P.gap.to - P.gap.from + 1
             /\ \A e \in 0 .. MaxSamples : Link(e, GapSeq(gap), published) =>
                   \E e2 \in 0 .. MaxSamples : Link(e, P.items, e2) /\ Link(e2, GapSeq(P.gap), n)
  <2>1. \A s, t \in Seq(Records) : s \o t \in Seq(Records) /\ Len(s \o t) = Len(s) + Len(t)
                                   /\ Len(s) \in Nat /\ Len(t) \in Nat
    OBVIOUS
  <2> HIDE DEF P
  <2>2. ASSUME P.items \in Seq(Records), Len(P.items) <= room
        PROVE  Len(source \o P.items) <= Capacity /\ source \o P.items \in Seq(Records)
    BY <1>1, <2>1, <2>2, CsvAssumption
  <2> QED BY <2>2 DEF P
<1> HIDE DEF gap, room, more, fresh, sample
<1>5. CASE gap # NoGap /\ room = 0
  <2>1. P.items = <<>> /\ P.gap = more
    BY <1>5 DEF Published, gap, room, more
  <2> HIDE DEF P
  <2>2. ASSUME NEW e \in 0 .. MaxSamples, Link(e, GapSeq(gap), published)
        PROVE  Link(e, <<>>, e) /\ Link(e, GapSeq(more), n)
    <3>1. Follows(gap, e)
      BY <1>1, <1>5, <2>2, LinkGap
    <3>2. Follows(more, e)
      BY <1>4, <1>5, <3>1 DEF Follows
    <3>3. more \in Gaps
      BY <1>4, <1>5 DEF Gaps
    <3> QED BY <1>4, <1>5, <3>2, <3>3, LinkGap, LinkEmpty
  <2> QED BY <1>1, <1>4, <1>5, <2>1, <2>2, EmptyQueue DEF Gaps
<1>6. CASE gap # NoGap /\ room = 1
  <2>1. P.items = <<gap>> /\ P.gap = fresh
    BY <1>6 DEF Published, gap, room, fresh
  <2> HIDE DEF P
  <2>2. ASSUME NEW e \in 0 .. MaxSamples, Link(e, GapSeq(gap), published)
        PROVE  Link(e, <<gap>>, published) /\ Link(published, GapSeq(fresh), n)
    <3>1. Link(e, <<gap>>, published)
      BY <1>6, <2>2 DEF GapSeq
    <3>2. fresh \in Gaps
      BY <1>3 DEF Gaps
    <3> QED BY <1>3, <3>1, <3>2, LinkGap
  <2>3. <<gap>> \in Seq(Records) /\ Len(<<gap>>) = 1
    BY <1>4, <1>6
  <2>4. P.gap \in Gaps
    BY <1>3, <2>1 DEF Gaps
  <2>5. P.gap.kind = "gap" /\ P.gap.to = n /\ P.gap.count = P.gap.to - P.gap.from + 1
    <3>1. n - n + 1 = 1
      BY <1>1
    <3> QED BY <1>3, <2>1, <3>1
  <2>6. Len(P.items) <= room
    BY <1>6, <2>1, <2>3
  <2> QED BY <1>1, <2>1, <2>2, <2>3, <2>4, <2>5, <2>6
<1>7. CASE gap # NoGap /\ room \notin {0, 1}
  <2>1. P.items = <<gap, sample>> /\ P.gap = NoGap
    BY <1>7 DEF Published, gap, room, sample
  <2> HIDE DEF P
  <2>2. ASSUME NEW e \in 0 .. MaxSamples, Link(e, GapSeq(gap), published)
        PROVE  Link(e, <<gap, sample>>, n) /\ Link(n, GapSeq(NoGap), n)
    <3>1. Follows(gap, e)
      BY <1>1, <1>7, <2>2, LinkGap
    <3> DEFINE t == <<gap, sample>>
    <3>2. DOMAIN t = 1 .. 2 /\ Len(t) = 2 /\ t[1] = gap /\ t[2] = sample /\ t # <<>>
      OBVIOUS
    <3> HIDE DEF t
    <3>3. Chained(t, e) /\ End(t, e) = n
      BY <1>2, <1>4, <1>7, <3>1, <3>2 DEF Chained, End, Follows
    <3> QED BY <3>3, LinkGap, NoGapIsGap DEF Link, t
  <2>3. <<gap, sample>> \in Seq(Records) /\ Len(<<gap, sample>>) = 2
    BY <1>2, <1>4, <1>7
  <2>4. Len(P.items) <= room
    BY <1>1, <1>7, <2>1, <2>3
  <2> QED BY <1>1, <2>1, <2>2, <2>3, <2>4, NoGapIsGap
<1>8. CASE gap = NoGap /\ room = 0
  <2>1. P.items = <<>> /\ P.gap = fresh
    BY <1>8 DEF Published, gap, room, fresh
  <2> HIDE DEF P
  <2>2. P.gap \in Gaps
    BY <1>3, <2>1 DEF Gaps
  <2>3. ASSUME NEW e \in 0 .. MaxSamples, Link(e, GapSeq(gap), published)
        PROVE  Link(e, <<>>, e) /\ Link(e, GapSeq(fresh), n)
    BY <1>1, <1>3, <1>8, <2>1, <2>2, <2>3, LinkGap, LinkEmpty
  <2> QED BY <1>1, <1>3, <1>8, <2>1, <2>2, <2>3, EmptyQueue
<1>9. CASE gap = NoGap /\ room # 0
  <2>1. P.items = <<sample>> /\ P.gap = NoGap
    BY <1>9 DEF Published, gap, room, sample
  <2> HIDE DEF P
  <2>2. ASSUME NEW e \in 0 .. MaxSamples, Link(e, GapSeq(gap), published)
        PROVE  Link(e, <<sample>>, n) /\ Link(n, GapSeq(NoGap), n)
    <3>1. e = published
      BY <1>1, <1>9, <2>2, LinkGap
    <3> QED BY <1>2, <3>1, LinkOne, LinkGap, NoGapIsGap
  <2>3. <<sample>> \in Seq(Records) /\ Len(<<sample>>) = 1
    BY <1>2
  <2>4. Len(P.items) <= room
    BY <1>1, <1>9, <2>1, <2>3
  <2> QED BY <1>1, <2>1, <2>2, <2>3, <2>4, NoGapIsGap
<1> QED BY <1>5, <1>6, <1>7, <1>8, <1>9

\* A record at the end of what precedes it brings the count up to its end.
LEMMA RecordCounts ==
    ASSUME NEW r \in Records, NEW b \in 0 .. MaxSamples, Follows(r, b)
    PROVE  /\ r.to \in 0 .. MaxSamples
           /\ r.to = b + (IF r.kind = "sample" THEN 1 ELSE 0) + r.count
<1>1. /\ r.kind \in {"sample", "gap"} /\ r.from \in Nat /\ r.to \in 1 .. MaxSamples /\ r.count \in Nat
      /\ b \in Nat
  BY CsvAssumption DEF Records
<1> QED BY <1>1, CsvAssumption DEF Follows

LEMMA PublishTypes == ASSUME CsvInv, Publish PROVE Typed'
<1>1. QueuesTyped'
  <2>1. published' = published + 1 /\ source' = source \o Published(published').items
    BY DEF Publish
  <2>2. source' \in Seq(Records) /\ Len(source') <= Capacity
    BY <2>1, PublishedHas DEF CsvInv, Publish
  <2> QED BY <2>2 DEF CsvInv, Typed, Publish, QueuesTyped
<1>2. HandsTyped'
  <2>1. published' = published + 1 /\ delivery' = [delivery EXCEPT !.gap = Published(published').gap]
    BY DEF Publish
  <2>2. Published(published').gap \in Gaps
    BY <2>1, PublishedHas DEF CsvInv, Publish
  <2> QED BY <2>1, <2>2 DEF CsvInv, Typed, Publish, HandsTyped
<1>3. WriterTyped'
  BY CsvAssumption, NoGapIsGap, Blank DEF CsvInv, Typed, Publish, WriterTyped, WriterType, FileType, SidecarType, CheckpointType, Creating, Closing
<1>4. CountsTyped'
  BY CsvAssumption, NoGapIsGap, Blank DEF CsvInv, Typed, Publish, CountsTyped
<1>5. coord' \in CoordType
  BY CsvAssumption, NoGapIsGap, Blank DEF CsvInv, Typed, Publish, CoordType, HandsTyped
<1> QED BY <1>1, <1>2, <1>3, <1>4, <1>5 DEF Typed

LEMMA StartTypes == ASSUME CsvInv, Start PROVE Typed'
<1>1. QueuesTyped'
  BY EmptyQueue DEF CsvInv, Typed, Start, QueuesTyped
<1>2. HandsTyped'
  BY CsvAssumption, NoGapIsGap, Blank DEF CsvInv, Typed, Start, HandsTyped
<1>3. WriterTyped'
  <2>1. logs' \in 1 .. MaxLogs
    BY CsvAssumption DEF CsvInv, Typed, CountsTyped, Start
  <2>2. CASE writer' = [NoWriter EXCEPT !.at = "create", !.log = logs']
    <3> DEFINE n == logs'
    <3>1. n \in 0 .. MaxLogs /\ n # 0
      BY <2>1, CsvAssumption
    <3>2. writer' = [NoWriter EXCEPT !.at = "create", !.log = n]
      BY <2>2
    <3> HIDE DEF n
    <3>3. writer' \in WriterType /\ writer'.log # 0
      BY <3>1, <3>2, Blank DEF WriterType, Creating
    <3> QED BY <3>3 DEF CsvInv, Typed, Start, WriterTyped
  <2>3. CASE writer' = writer
    BY <2>3 DEF CsvInv, Typed, Start, WriterTyped
  <2> QED BY <2>2, <2>3 DEF Start
<1>4. CountsTyped'
  BY CsvAssumption, NoGapIsGap, Blank DEF CsvInv, Typed, Start, CountsTyped
<1>5. coord' \in CoordType
  <2>1. coord \in CoordType
    BY DEF CsvInv, Typed
  <2>2. [coord EXCEPT !.at = "starting", !.state = "Starting", !.failureGap = NoGap] \in CoordType
    BY <2>1, NoGapIsGap DEF CoordType
  <2> QED BY <2>1, <2>2 DEF Start
<1> QED BY <1>1, <1>2, <1>3, <1>4, <1>5 DEF Typed

LEMMA CreateFileTypes == ASSUME CsvInv, CreateFile PROVE Typed'
<1>1. QueuesTyped'
  BY CsvAssumption, NoGapIsGap, Blank DEF CsvInv, Typed, CreateFile, StartFails, queues, File, QueuesTyped
<1>2. HandsTyped'
  BY CsvAssumption, NoGapIsGap, Blank DEF CsvInv, Typed, CreateFile, StartFails, queues, File, HandsTyped
<1>3. WriterTyped'
  <2>1. Typing
    BY InLog DEF CsvInv, CreateFile
  <2>2. writer' \in WriterType /\ (writer'.at # "off" => writer'.log # 0)
    <3>1. writer' = [writer EXCEPT !.at = "sidecar"] \/ writer' = NoWriter
      BY DEF CreateFile, StartFails
    <3>2. [writer EXCEPT !.at = "sidecar"] \in WriterType /\ [writer EXCEPT !.at = "sidecar"].log # 0
      BY <2>1 DEF Typing, WriterType, Creating
    <3> QED BY <3>1, <3>2, Blank
  <2>3. disk' = disk \/ \E f \in FileType : disk' = [disk EXCEPT ![writer.log] = f] /\ f.synced <= Len(f.rows)
    <3> DEFINE f == [File EXCEPT !.made = TRUE]
    <3>1. File \in FileType /\ File.synced <= Len(File.rows)
      BY <2>1 DEF Typing, File
    <3>2. disk' = disk \/ disk' = [disk EXCEPT ![writer.log] = f]
      BY <2>1 DEF CreateFile, File, Typing
    <3>3. f \in FileType /\ f.synced = File.synced /\ f.rows = File.rows
      BY <3>1 DEF FileType
    <3> HIDE DEF f
    <3> QED BY <3>1, <3>2, <3>3
  <2>4. disk' \in [1 .. MaxLogs -> FileType] /\ \A l \in 1 .. MaxLogs : disk'[l].synced <= Len(disk'[l].rows)
    BY <2>1, <2>3 DEF Typing
  <2> QED BY <2>2, <2>4 DEF WriterTyped
<1>4. CountsTyped'
  BY CsvAssumption, NoGapIsGap, Blank DEF CsvInv, Typed, CreateFile, StartFails, queues, File, CountsTyped
<1>5. coord' \in CoordType
  BY CsvAssumption, NoGapIsGap, Blank DEF CsvInv, Typed, CreateFile, StartFails, queues, File, CoordType, HandsTyped
<1> QED BY <1>1, <1>2, <1>3, <1>4, <1>5 DEF Typed

LEMMA CreateSidecarTypes == ASSUME CsvInv, CreateSidecar PROVE Typed'
<1>1. QueuesTyped'
  BY CsvAssumption, NoGapIsGap, Blank DEF CsvInv, Typed, CreateSidecar, StartFails, queues, File, Sidecar, QueuesTyped
<1>2. HandsTyped'
  BY CsvAssumption, NoGapIsGap, Blank DEF CsvInv, Typed, CreateSidecar, StartFails, queues, File, Sidecar, HandsTyped
<1>3. WriterTyped'
  <2>1. Typing
    BY InLog DEF CsvInv, CreateSidecar
  <2>2. writer' \in WriterType /\ (writer'.at # "off" => writer'.log # 0)
    <3>1. writer' = [writer EXCEPT !.at = "checkpoint"] \/ writer' = NoWriter
      BY DEF CreateSidecar, StartFails
    <3>2. [writer EXCEPT !.at = "checkpoint"] \in WriterType /\ [writer EXCEPT !.at = "checkpoint"].log # 0
      BY <2>1 DEF Typing, WriterType, Creating
    <3> QED BY <3>1, <3>2, Blank
  <2>3. disk' = disk \/ \E f \in FileType : disk' = [disk EXCEPT ![writer.log] = f] /\ f.synced <= Len(f.rows)
    <3> DEFINE c == Sidecar("Running", 0, 0)
               f == [File EXCEPT !.sidecar = c]
               g == [File EXCEPT !.made = FALSE]
    <3>1. File \in FileType /\ File.synced <= Len(File.rows)
      BY <2>1 DEF Typing, File
    <3>2. disk' = [disk EXCEPT ![writer.log] = g] \/ disk' = [disk EXCEPT ![writer.log] = f]
      BY <2>1 DEF CreateSidecar, File, Typing
    <3>3. c \in SidecarType
      BY DEF Sidecar, SidecarType
    <3> HIDE DEF c
    <3>4. /\ f \in FileType /\ f.synced = File.synced /\ f.rows = File.rows
          /\ g \in FileType /\ g.synced = File.synced /\ g.rows = File.rows
      BY <3>1, <3>3 DEF FileType
    <3> HIDE DEF f, g
    <3> QED BY <3>1, <3>2, <3>4
  <2>4. disk' \in [1 .. MaxLogs -> FileType] /\ \A l \in 1 .. MaxLogs : disk'[l].synced <= Len(disk'[l].rows)
    BY <2>1, <2>3 DEF Typing
  <2> QED BY <2>2, <2>4 DEF WriterTyped
<1>4. CountsTyped'
  BY CsvAssumption, NoGapIsGap, Blank DEF CsvInv, Typed, CreateSidecar, StartFails, queues, File, Sidecar, CountsTyped
<1>5. coord' \in CoordType
  BY CsvAssumption, NoGapIsGap, Blank DEF CsvInv, Typed, CreateSidecar, StartFails, queues, File, Sidecar, CoordType, HandsTyped
<1> QED BY <1>1, <1>2, <1>3, <1>4, <1>5 DEF Typed

LEMMA CreateCheckpointTypes == ASSUME CsvInv, CreateCheckpoint PROVE Typed'
<1>1. QueuesTyped'
  BY EmptyQueue DEF CsvInv, Typed, CreateCheckpoint, QueuesTyped, queues
<1>2. HandsTyped'
  BY CsvAssumption, NoGapIsGap, Blank DEF CsvInv, Typed, CreateCheckpoint, StartFails, queues, File, Checkpoint, NoSidecar, Sidecar, HandsTyped
<1>3. WriterTyped'
  <2>1. Typing
    BY InLog DEF CsvInv, CreateCheckpoint
  <2>2. writer' \in WriterType /\ (writer'.at # "off" => writer'.log # 0)
    <3>1. /\ [writer EXCEPT !.at = "ready", !.state = "Running"] \in WriterType
          /\ [writer EXCEPT !.at = "ready", !.state = "Running"].log = writer.log
      BY <2>1 DEF Typing, WriterType
    <3>3. writer.log # 0
      BY <2>1 DEF Typing
    <3>2. writer' = [writer EXCEPT !.at = "ready", !.state = "Running"] \/ writer' = NoWriter
      BY DEF CreateCheckpoint, StartFails
    <3> QED BY <3>1, <3>2, <3>3, Blank
  <2>3. disk' = disk \/ \E f \in FileType : disk' = [disk EXCEPT ![writer.log] = f] /\ f.synced <= Len(f.rows)
    <3> DEFINE c == Checkpoint("Running", 0)
               f == [File EXCEPT !.checkpoint = c]
               g == [File EXCEPT !.made = FALSE, !.sidecar = NoSidecar]
    <3>1. File \in FileType /\ File.synced <= Len(File.rows)
      BY <2>1 DEF Typing, File
    <3>2. disk' = [disk EXCEPT ![writer.log] = g] \/ disk' = [disk EXCEPT ![writer.log] = f]
      <4>1. CASE disk' = [disk EXCEPT ![writer.log].checkpoint = Checkpoint("Running", 0)]
        BY <2>1, <4>1 DEF File, Typing
      <4>2. CASE disk' = [disk EXCEPT ![writer.log].made = FALSE, ![writer.log].sidecar = NoSidecar]
        <5> DEFINE d == [disk EXCEPT ![writer.log].made = FALSE]
        <5>1. disk' = [d EXCEPT ![writer.log].sidecar = NoSidecar]
          BY <4>2
        <5>2. d \in [1 .. MaxLogs -> FileType] /\ d[writer.log] = [File EXCEPT !.made = FALSE]
              /\ \A l \in 1 .. MaxLogs : l # writer.log => d[l] = disk[l]
          BY <2>1 DEF File, Typing, FileType
        <5>3. [File EXCEPT !.made = FALSE, !.sidecar = NoSidecar] = [d[writer.log] EXCEPT !.sidecar = NoSidecar]
          BY <5>2
        <5> HIDE DEF d
        <5> QED BY <2>1, <5>1, <5>2, <5>3 DEF Typing
      <4> QED BY <4>1, <4>2 DEF CreateCheckpoint
    <3>3. c \in CheckpointType
      BY DEF Checkpoint, CheckpointType
    <3> HIDE DEF c
    <3>4. /\ f \in FileType /\ f.synced = File.synced /\ f.rows = File.rows
          /\ g \in FileType /\ g.synced = File.synced /\ g.rows = File.rows
      BY <3>1, <3>3, Blank DEF FileType
    <3> HIDE DEF f, g
    <3> QED BY <3>1, <3>2, <3>4
  <2>4. disk' \in [1 .. MaxLogs -> FileType] /\ \A l \in 1 .. MaxLogs : disk'[l].synced <= Len(disk'[l].rows)
    BY <2>1, <2>3 DEF Typing
  <2> QED BY <2>2, <2>4 DEF WriterTyped
<1>4. CountsTyped'
  BY CsvAssumption, NoGapIsGap, Blank DEF CsvInv, Typed, CreateCheckpoint, StartFails, queues, File, Checkpoint, NoSidecar, Sidecar, CountsTyped
<1>5. coord' \in CoordType
  <2>1. coord \in CoordType
    BY DEF CsvInv, Typed
  <2>2. [coord EXCEPT !.at = "enable"] \in CoordType /\ [coord EXCEPT !.at = "idle", !.state = "Idle"] \in CoordType
    BY <2>1 DEF CoordType
  <2> QED BY <2>2 DEF CreateCheckpoint, StartFails
<1> QED BY <1>1, <1>2, <1>3, <1>4, <1>5 DEF Typed

LEMMA EnableDeliveryTypes == ASSUME CsvInv, EnableDelivery PROVE Typed'
<1>1. QueuesTyped'
  BY CsvAssumption, NoGapIsGap, Blank DEF CsvInv, Typed, EnableDelivery, queues, QueuesTyped
<1>2. HandsTyped'
  BY CsvAssumption, NoGapIsGap, Blank DEF CsvInv, Typed, EnableDelivery, queues, HandsTyped
<1>3. WriterTyped'
  BY CsvAssumption, NoGapIsGap, Blank DEF CsvInv, Typed, EnableDelivery, queues, WriterTyped, WriterType, FileType, SidecarType, CheckpointType, Creating, Closing
<1>4. CountsTyped'
  BY CsvAssumption, NoGapIsGap, Blank DEF CsvInv, Typed, EnableDelivery, queues, CountsTyped
<1>5. coord' \in CoordType
  <2>1. coord \in CoordType /\ 0 \in 0 .. MaxLogs
    BY CsvAssumption DEF CsvInv, Typed
  <2>2. [coord EXCEPT !.at = "check", !.completed = 0] \in CoordType
    BY <2>1 DEF CoordType
  <2> QED BY <2>2 DEF EnableDelivery
<1> QED BY <1>1, <1>2, <1>3, <1>4, <1>5 DEF Typed

LEMMA CheckStartTypes == ASSUME CsvInv, CheckStart PROVE Typed'
<1>1. QueuesTyped'
  BY CsvAssumption, NoGapIsGap, Blank DEF CsvInv, Typed, CheckStart, StopDelivery, NoDelivery, AbortedGuard, NoGuard, queues, QueuesTyped
<1>2. HandsTyped'
  <2>1. [relay EXCEPT !.at = "off"].at = "off" /\ HandsTyped
    BY DEF CsvInv, Typed, HandsTyped
  <2>2. CASE UNCHANGED <<delivery, relay, guard>>
    BY <2>1, <2>2 DEF HandsTyped
  <2>3. CASE delivery' = NoDelivery /\ relay' = [relay EXCEPT !.at = "off"] /\ guard' = AbortedGuard
    BY <2>1, <2>3, NoGapIsGap DEF HandsTyped, NoDelivery, AbortedGuard, NoGuard
  <2> QED BY <2>2, <2>3 DEF CheckStart, StopDelivery
<1>3. WriterTyped'
  <2>1. writer \in WriterType
    BY DEF CsvInv, Typed, WriterTyped
  <2>2. [writer EXCEPT !.at = "off"] \in WriterType /\ [writer EXCEPT !.at = "off"].at = "off"
    BY <2>1, PlacedHas
  <2> QED BY <2>2 DEF CsvInv, Typed, CheckStart, WriterTyped
<1>4. CountsTyped'
  BY CsvAssumption, NoGapIsGap, Blank DEF CsvInv, Typed, CheckStart, StopDelivery, NoDelivery, AbortedGuard, NoGuard, queues, CountsTyped
<1>5. coord' \in CoordType
  <2>1. coord \in CoordType /\ delivery.gap \in Gaps
    BY DEF CsvInv, Typed, HandsTyped
  <2>2. /\ [coord EXCEPT !.at = "idle", !.state = "Failed", !.failureGap = delivery.gap] \in CoordType
        /\ [coord EXCEPT !.at = "idle", !.state = "Running", !.active = TRUE] \in CoordType
    BY <2>1 DEF CoordType
  <2> QED BY <2>2 DEF CheckStart
<1> QED BY <1>1, <1>2, <1>3, <1>4, <1>5 DEF Typed

LEMMA StopTypes == ASSUME CsvInv, Stop PROVE Typed'
<1>1. QueuesTyped'
  BY CsvAssumption, NoGapIsGap, Blank DEF CsvInv, Typed, Stop, queues, QueuesTyped
<1>2. HandsTyped'
  BY CsvAssumption, NoGapIsGap, Blank DEF CsvInv, Typed, Stop, queues, HandsTyped
<1>3. WriterTyped'
  BY CsvAssumption, NoGapIsGap, Blank DEF CsvInv, Typed, Stop, queues, WriterTyped, WriterType, FileType, SidecarType, CheckpointType, Creating, Closing
<1>4. CountsTyped'
  BY CsvAssumption, NoGapIsGap, Blank DEF CsvInv, Typed, Stop, queues, CountsTyped
<1>5. coord' \in CoordType
  BY CsvAssumption, NoGapIsGap, Blank DEF CsvInv, Typed, Stop, queues, CoordType, HandsTyped
<1> QED BY <1>1, <1>2, <1>3, <1>4, <1>5 DEF Typed

LEMMA DisableDeliveryTypes == ASSUME CsvInv, DisableDelivery PROVE Typed'
<1>1. QueuesTyped'
  BY CsvAssumption, NoGapIsGap, Blank DEF CsvInv, Typed, DisableDelivery, StopDelivery, NoDelivery, queues, QueuesTyped
<1>2. HandsTyped'
  BY CsvAssumption, NoGapIsGap, Blank DEF CsvInv, Typed, DisableDelivery, StopDelivery, NoDelivery, queues, HandsTyped
<1>3. WriterTyped'
  BY CsvAssumption, NoGapIsGap, Blank DEF CsvInv, Typed, DisableDelivery, StopDelivery, NoDelivery, queues, WriterTyped, WriterType, FileType, SidecarType, CheckpointType, Creating, Closing
<1>4. CountsTyped'
  BY CsvAssumption, NoGapIsGap, Blank DEF CsvInv, Typed, DisableDelivery, StopDelivery, NoDelivery, queues, CountsTyped
<1>5. coord' \in CoordType
  BY CsvAssumption, NoGapIsGap, Blank DEF CsvInv, Typed, DisableDelivery, StopDelivery, NoDelivery, queues, CoordType, HandsTyped
<1> QED BY <1>1, <1>2, <1>3, <1>4, <1>5 DEF Typed

LEMMA AwaitRelayTypes == ASSUME CsvInv, AwaitRelay PROVE Typed'
<1>1. QueuesTyped'
  BY CsvAssumption, NoGapIsGap, Blank DEF CsvInv, Typed, AwaitRelay, queues, QueuesTyped
<1>2. HandsTyped'
  BY CsvAssumption, NoGapIsGap, Blank DEF CsvInv, Typed, AwaitRelay, queues, HandsTyped
<1>3. WriterTyped'
  <2>1. writer \in WriterType /\ writer.at = "ready"
    BY DEF CsvInv, Typed, WriterTyped, AwaitRelay, PlaceInv, LogOn
  <2>2. /\ [writer EXCEPT !.at = "stop"] \in WriterType
        /\ [writer EXCEPT !.at = "stop"].log = writer.log
    BY <2>1 DEF WriterType
  <2> QED BY <2>1, <2>2 DEF CsvInv, Typed, AwaitRelay, WriterTyped
<1>4. CountsTyped'
  BY CsvAssumption, NoGapIsGap, Blank DEF CsvInv, Typed, AwaitRelay, queues, CountsTyped
<1>5. coord' \in CoordType
  BY CsvAssumption, NoGapIsGap, Blank DEF CsvInv, Typed, AwaitRelay, queues, CoordType, HandsTyped
<1> QED BY <1>1, <1>2, <1>3, <1>4, <1>5 DEF Typed

LEMMA StopReturnsTypes == ASSUME CsvInv, StopReturns PROVE Typed'
<1>1. QueuesTyped'
  BY CsvAssumption, NoGapIsGap, Blank DEF CsvInv, Typed, StopReturns, AbortedGuard, NoGuard, NoRelay, QueuesTyped
<1>2. HandsTyped'
  BY CsvAssumption, NoGapIsGap, Blank DEF CsvInv, Typed, StopReturns, AbortedGuard, NoGuard, NoRelay, HandsTyped
<1>3. WriterTyped'
  BY CsvAssumption, NoGapIsGap, Blank DEF CsvInv, Typed, StopReturns, AbortedGuard, NoGuard, NoRelay, WriterTyped, WriterType, FileType, SidecarType, CheckpointType, Creating, Closing
<1>4. CountsTyped'
  BY CsvAssumption, NoGapIsGap, Blank DEF CsvInv, Typed, StopReturns, AbortedGuard, NoGuard, NoRelay, CountsTyped
<1>5. coord' \in CoordType
  <2> DEFINE ok == writer.state = "Completed" /\ ~coord.wasFailed
             state == IF ok THEN "Idle" ELSE "Failed"
             completed == IF ok THEN writer.log ELSE 0
  <2>1. coord \in CoordType /\ writer.log \in 0 .. MaxLogs /\ 0 \in 0 .. MaxLogs
    BY CsvAssumption DEF CsvInv, Typed, WriterTyped, WriterType
  <2>2. coord' = [coord EXCEPT !.at = "idle", !.gap = NoGap, !.state = state, !.completed = completed]
    BY DEF StopReturns
  <2>3. state \in {"Idle", "Failed"} /\ completed \in 0 .. MaxLogs
    BY <2>1
  <2> HIDE DEF state, completed
  <2> QED BY <2>1, <2>2, <2>3, NoGapIsGap DEF CoordType
<1> QED BY <1>1, <1>2, <1>3, <1>4, <1>5 DEF Typed

LEMMA DropCoordinatorTypes == ASSUME CsvInv, DropCoordinator PROVE Typed'
<1>1. QueuesTyped'
  BY CsvAssumption, NoGapIsGap, Blank DEF CsvInv, Typed, DropCoordinator, StopDelivery, NoDelivery, NoRelay, NoGuard, QueuesTyped
<1>2. HandsTyped'
  BY CsvAssumption, NoGapIsGap, Blank DEF CsvInv, Typed, DropCoordinator, StopDelivery, NoDelivery, NoRelay, NoGuard, HandsTyped
<1>3. WriterTyped'
  <2>1. writer \in WriterType
    BY DEF CsvInv, Typed, WriterTyped
  <2>2. [writer EXCEPT !.at = "shutdown"] \in WriterType /\ [writer EXCEPT !.at = "shutdown"].log = writer.log
    BY <2>1 DEF WriterType
  <2>3. coord.active => writer.at = "ready"
    BY DEF CsvInv, PlaceInv, LogOn
  <2> QED BY <2>2, <2>3, Blank DEF CsvInv, Typed, DropCoordinator, WriterTyped
<1>4. CountsTyped'
  BY CsvAssumption, NoGapIsGap, Blank DEF CsvInv, Typed, DropCoordinator, StopDelivery, NoDelivery, NoRelay, NoGuard, CountsTyped
<1>5. coord' \in CoordType
  BY CsvAssumption, NoGapIsGap, Blank DEF CsvInv, Typed, DropCoordinator, StopDelivery, NoDelivery, NoRelay, NoGuard, CoordType, HandsTyped
<1> QED BY <1>1, <1>2, <1>3, <1>4, <1>5 DEF Typed

LEMMA GuardStopsTypes == ASSUME CsvInv, GuardStops PROVE Typed'
<1>1. QueuesTyped'
  BY CsvAssumption, NoGapIsGap, Blank DEF CsvInv, Typed, GuardStops, StopDelivery, NoDelivery, queues, QueuesTyped
<1>2. HandsTyped'
  BY CsvAssumption, NoGapIsGap, Blank DEF CsvInv, Typed, GuardStops, StopDelivery, NoDelivery, queues, HandsTyped
<1>3. WriterTyped'
  BY CsvAssumption, NoGapIsGap, Blank DEF CsvInv, Typed, GuardStops, StopDelivery, NoDelivery, queues, WriterTyped, WriterType, FileType, SidecarType, CheckpointType, Creating, Closing
<1>4. CountsTyped'
  BY CsvAssumption, NoGapIsGap, Blank DEF CsvInv, Typed, GuardStops, StopDelivery, NoDelivery, queues, CountsTyped
<1>5. coord' \in CoordType
  BY CsvAssumption, NoGapIsGap, Blank DEF CsvInv, Typed, GuardStops, StopDelivery, NoDelivery, queues, CoordType, HandsTyped
<1> QED BY <1>1, <1>2, <1>3, <1>4, <1>5 DEF Typed

LEMMA GuardStoresTypes == ASSUME CsvInv, GuardStores PROVE Typed'
<1>1. QueuesTyped'
  BY CsvAssumption, NoGapIsGap, Blank DEF CsvInv, Typed, GuardStores, queues, QueuesTyped
<1>2. HandsTyped'
  BY CsvAssumption, NoGapIsGap, Blank DEF CsvInv, Typed, GuardStores, queues, HandsTyped
<1>3. WriterTyped'
  BY CsvAssumption, NoGapIsGap, Blank DEF CsvInv, Typed, GuardStores, queues, WriterTyped, WriterType, FileType, SidecarType, CheckpointType, Creating, Closing
<1>4. CountsTyped'
  BY CsvAssumption, NoGapIsGap, Blank DEF CsvInv, Typed, GuardStores, queues, CountsTyped
<1>5. coord' \in CoordType
  BY CsvAssumption, NoGapIsGap, Blank DEF CsvInv, Typed, GuardStores, queues, CoordType, HandsTyped
<1> QED BY <1>1, <1>2, <1>3, <1>4, <1>5 DEF Typed

LEMMA RelayObeysTypes == ASSUME CsvInv, RelayObeys PROVE Typed'
<1>1. QueuesTyped'
  BY CsvAssumption, NoGapIsGap, Blank DEF CsvInv, Typed, RelayObeys, queues, QueuesTyped
<1>2. HandsTyped'
  BY CsvAssumption, NoGapIsGap, Blank DEF CsvInv, Typed, RelayObeys, queues, HandsTyped
<1>3. WriterTyped'
  BY CsvAssumption, NoGapIsGap, Blank DEF CsvInv, Typed, RelayObeys, queues, WriterTyped, WriterType, FileType, SidecarType, CheckpointType, Creating, Closing
<1>4. CountsTyped'
  BY CsvAssumption, NoGapIsGap, Blank DEF CsvInv, Typed, RelayObeys, queues, CountsTyped
<1>5. coord' \in CoordType
  BY CsvAssumption, NoGapIsGap, Blank DEF CsvInv, Typed, RelayObeys, queues, CoordType, HandsTyped
<1> QED BY <1>1, <1>2, <1>3, <1>4, <1>5 DEF Typed

LEMMA RelayTakesTypes == ASSUME CsvInv, RelayTakes PROVE Typed'
<1>1. QueuesTyped'
  BY CsvAssumption, NoGapIsGap, Blank DEF CsvInv, Typed, RelayTakes, QueuesTyped
<1>2. HandsTyped'
  <2>1. Head(source) \in Records
    BY DEF CsvInv, Typed, QueuesTyped, RelayTakes
  <2>2. Head(source) \in Gaps
    BY <2>1 DEF Gaps
  <2> QED BY <2>1, <2>2 DEF CsvInv, Typed, RelayTakes, HandsTyped
<1>3. WriterTyped'
  BY CsvAssumption, NoGapIsGap, Blank DEF CsvInv, Typed, RelayTakes, WriterTyped, WriterType, FileType, SidecarType, CheckpointType, Creating, Closing
<1>4. CountsTyped'
  BY CsvAssumption, NoGapIsGap, Blank DEF CsvInv, Typed, RelayTakes, CountsTyped
<1>5. coord' \in CoordType
  BY CsvAssumption, NoGapIsGap, Blank DEF CsvInv, Typed, RelayTakes, CoordType, HandsTyped
<1> QED BY <1>1, <1>2, <1>3, <1>4, <1>5 DEF Typed

LEMMA RelaySendsTypes == ASSUME CsvInv, RelaySends PROVE Typed'
<1>1. QueuesTyped'
  <2>1. relay.item \in Records
    BY DEF CsvInv, Typed, HandsTyped, RelaySends
  <2>2. sink \in Seq(Records) /\ Len(sink) < Capacity /\ sink' = Append(sink, relay.item)
    BY DEF CsvInv, Typed, QueuesTyped, RelaySends
  <2>3. Append(sink, relay.item) \in Seq(Records) /\ Len(Append(sink, relay.item)) = Len(sink) + 1
    BY <2>1, <2>2
  <2>4. Len(sink) \in Nat
    BY <2>2
  <2>5. Len(sink') <= Capacity
    BY <2>2, <2>3, <2>4, CsvAssumption
  <2> QED BY <2>2, <2>3, <2>5 DEF CsvInv, Typed, QueuesTyped, RelaySends
<1>2. HandsTyped'
  BY CsvAssumption, NoGapIsGap, Blank DEF CsvInv, Typed, RelaySends, HandsTyped
<1>3. WriterTyped'
  BY CsvAssumption, NoGapIsGap, Blank DEF CsvInv, Typed, RelaySends, WriterTyped, WriterType, FileType, SidecarType, CheckpointType, Creating, Closing
<1>4. CountsTyped'
  BY CsvAssumption, NoGapIsGap, Blank DEF CsvInv, Typed, RelaySends, CountsTyped
<1>5. coord' \in CoordType
  BY CsvAssumption, NoGapIsGap, Blank DEF CsvInv, Typed, RelaySends, CoordType, HandsTyped
<1> QED BY <1>1, <1>2, <1>3, <1>4, <1>5 DEF Typed

LEMMA RelayEndsTypes == ASSUME CsvInv, RelayEnds PROVE Typed'
<1>1. QueuesTyped'
  BY CsvAssumption, NoGapIsGap, Blank DEF CsvInv, Typed, RelayEnds, queues, QueuesTyped
<1>2. HandsTyped'
  BY CsvAssumption, NoGapIsGap, Blank DEF CsvInv, Typed, RelayEnds, queues, HandsTyped
<1>3. WriterTyped'
  BY CsvAssumption, NoGapIsGap, Blank DEF CsvInv, Typed, RelayEnds, queues, WriterTyped, WriterType, FileType, SidecarType, CheckpointType, Creating, Closing
<1>4. CountsTyped'
  BY CsvAssumption, NoGapIsGap, Blank DEF CsvInv, Typed, RelayEnds, queues, CountsTyped
<1>5. coord' \in CoordType
  BY CsvAssumption, NoGapIsGap, Blank DEF CsvInv, Typed, RelayEnds, queues, CoordType, HandsTyped
<1> QED BY <1>1, <1>2, <1>3, <1>4, <1>5 DEF Typed

LEMMA WriteItemTypes == ASSUME CsvInv, WriteItem PROVE Typed'
<1>1. QueuesTyped'
  BY CsvAssumption, NoGapIsGap, Blank DEF CsvInv, Typed, WriteItem, QueuesTyped
<1>2. HandsTyped'
  BY CsvAssumption, NoGapIsGap, Blank DEF CsvInv, Typed, WriteItem, HandsTyped
<1>3. WriterTyped'
  BY WriteItemDoes, Blank DEF CsvInv, Typed, WriteItem, Goes, Breaks, FileStep, WriterTyped, WriterType, PlaceInv, Closing
<1>4. CountsTyped'
  BY CsvAssumption, NoGapIsGap, Blank DEF CsvInv, Typed, WriteItem, CountsTyped
<1>5. coord' \in CoordType
  BY CsvAssumption, NoGapIsGap, Blank DEF CsvInv, Typed, WriteItem, CoordType, HandsTyped
<1> QED BY <1>1, <1>2, <1>3, <1>4, <1>5 DEF Typed

LEMMA MaintainTypes == ASSUME CsvInv, Maintain PROVE Typed'
<1>1. QueuesTyped'
  BY CsvAssumption, NoGapIsGap, Blank DEF CsvInv, Typed, Maintain, queues, QueuesTyped
<1>2. HandsTyped'
  BY CsvAssumption, NoGapIsGap, Blank DEF CsvInv, Typed, Maintain, queues, HandsTyped
<1>3. WriterTyped'
  BY MaintainDoes, Blank DEF CsvInv, Typed, Maintain, Goes, Breaks, FileStep, WriterTyped, WriterType, PlaceInv, Closing
<1>4. CountsTyped'
  BY CsvAssumption, NoGapIsGap, Blank DEF CsvInv, Typed, Maintain, queues, CountsTyped
<1>5. coord' \in CoordType
  BY CsvAssumption, NoGapIsGap, Blank DEF CsvInv, Typed, Maintain, queues, CoordType, HandsTyped
<1> QED BY <1>1, <1>2, <1>3, <1>4, <1>5 DEF Typed

LEMMA UpdateTypes == ASSUME CsvInv, FlushInv, UpdateSidecar \/ UpdateCheckpoint PROVE Typed'
<1>1. Typed /\ UNCHANGED <<delivery, published, source, sink, relay, orders, guard, coord, logs, restarts, turns>>
  BY DEF CsvInv, UpdateSidecar, UpdateCheckpoint, queues
<1>2. QueuesTyped' /\ HandsTyped' /\ CountsTyped' /\ coord' \in CoordType
  BY <1>1 DEF Typed, QueuesTyped, HandsTyped, CountsTyped
<1>3. WriterTyped'
  <2>1. writer.log # 0 /\ writer.log \in 0 .. MaxLogs
    BY <1>1 DEF FlushInv, UpdateSidecar, UpdateCheckpoint, Typed, WriterTyped, WriterType
  <2> QED BY <1>1, <2>1, UpdateDoes DEF Goes, Breaks, FileStep, WriterTyped
<1> QED BY <1>2, <1>3 DEF Typed

LEMMA StopDrainsTypes == ASSUME CsvInv, StopDrains PROVE Typed'
<1>1. QueuesTyped'
  BY CsvAssumption, NoGapIsGap, Blank DEF CsvInv, Typed, StopDrains, QueuesTyped
<1>2. HandsTyped'
  BY CsvAssumption, NoGapIsGap, Blank DEF CsvInv, Typed, StopDrains, HandsTyped
<1>3. WriterTyped'
  BY StopDrainsDoes, Blank DEF CsvInv, Typed, StopDrains, Goes, Breaks, FileStep, WriterTyped, WriterType, PlaceInv, Closing
<1>4. CountsTyped'
  BY CsvAssumption, NoGapIsGap, Blank DEF CsvInv, Typed, StopDrains, CountsTyped
<1>5. coord' \in CoordType
  BY CsvAssumption, NoGapIsGap, Blank DEF CsvInv, Typed, StopDrains, CoordType, HandsTyped
<1> QED BY <1>1, <1>2, <1>3, <1>4, <1>5 DEF Typed

LEMMA StopWritesGapTypes == ASSUME CsvInv, StopWritesGap PROVE Typed'
<1>1. QueuesTyped'
  BY CsvAssumption, NoGapIsGap, Blank DEF CsvInv, Typed, StopWritesGap, queues, QueuesTyped
<1>2. HandsTyped'
  BY CsvAssumption, NoGapIsGap, Blank DEF CsvInv, Typed, StopWritesGap, queues, HandsTyped
<1>3. WriterTyped'
  BY StopWritesGapDoes, Blank DEF CsvInv, Typed, StopWritesGap, Goes, Breaks, FileStep, WriterTyped, WriterType, PlaceInv, Closing
<1>4. CountsTyped'
  BY CsvAssumption, NoGapIsGap, Blank DEF CsvInv, Typed, StopWritesGap, queues, CountsTyped
<1>5. coord' \in CoordType
  BY CsvAssumption, NoGapIsGap, Blank DEF CsvInv, Typed, StopWritesGap, queues, CoordType, HandsTyped
<1> QED BY <1>1, <1>2, <1>3, <1>4, <1>5 DEF Typed

LEMMA StopFailedTypes == ASSUME CsvInv, StopFailed PROVE Typed'
<1>1. QueuesTyped'
  BY CsvAssumption, NoGapIsGap, Blank DEF CsvInv, Typed, StopFailed, queues, QueuesTyped
<1>2. HandsTyped'
  BY CsvAssumption, NoGapIsGap, Blank DEF CsvInv, Typed, StopFailed, queues, HandsTyped
<1>3. WriterTyped'
  BY StopFailedDoes, Blank DEF CsvInv, Typed, StopFailed, Goes, Breaks, FileStep, WriterTyped, WriterType, PlaceInv, Closing
<1>4. CountsTyped'
  BY CsvAssumption, NoGapIsGap, Blank DEF CsvInv, Typed, StopFailed, queues, CountsTyped
<1>5. coord' \in CoordType
  BY CsvAssumption, NoGapIsGap, Blank DEF CsvInv, Typed, StopFailed, queues, CoordType, HandsTyped
<1> QED BY <1>1, <1>2, <1>3, <1>4, <1>5 DEF Typed

LEMMA SyncRowsTypes == ASSUME CsvInv, SyncRows PROVE Typed'
<1>1. QueuesTyped'
  BY CsvAssumption, NoGapIsGap, Blank DEF CsvInv, Typed, SyncRows, queues, QueuesTyped
<1>2. HandsTyped'
  BY CsvAssumption, NoGapIsGap, Blank DEF CsvInv, Typed, SyncRows, queues, HandsTyped
<1>3. WriterTyped'
  BY SyncRowsDoes, Blank DEF CsvInv, Typed, SyncRows, Goes, Breaks, FileStep, WriterTyped, WriterType, PlaceInv, Closing
<1>4. CountsTyped'
  BY CsvAssumption, NoGapIsGap, Blank DEF CsvInv, Typed, SyncRows, queues, CountsTyped
<1>5. coord' \in CoordType
  BY CsvAssumption, NoGapIsGap, Blank DEF CsvInv, Typed, SyncRows, queues, CoordType, HandsTyped
<1> QED BY <1>1, <1>2, <1>3, <1>4, <1>5 DEF Typed

LEMMA CompleteSidecarTypes == ASSUME CsvInv, CompleteSidecar PROVE Typed'
<1>1. QueuesTyped'
  BY CsvAssumption, NoGapIsGap, Blank DEF CsvInv, Typed, CompleteSidecar, queues, QueuesTyped
<1>2. HandsTyped'
  BY CsvAssumption, NoGapIsGap, Blank DEF CsvInv, Typed, CompleteSidecar, queues, HandsTyped
<1>3. WriterTyped'
  BY CompleteSidecarDoes, Blank DEF CsvInv, Typed, CompleteSidecar, Goes, Breaks, FileStep, WriterTyped, WriterType, PlaceInv, Closing
<1>4. CountsTyped'
  BY CsvAssumption, NoGapIsGap, Blank DEF CsvInv, Typed, CompleteSidecar, queues, CountsTyped
<1>5. coord' \in CoordType
  BY CsvAssumption, NoGapIsGap, Blank DEF CsvInv, Typed, CompleteSidecar, queues, CoordType, HandsTyped
<1> QED BY <1>1, <1>2, <1>3, <1>4, <1>5 DEF Typed

LEMMA RemoveCheckpointTypes == ASSUME CsvInv, RemoveCheckpoint PROVE Typed'
<1>1. QueuesTyped'
  BY CsvAssumption, NoGapIsGap, Blank DEF CsvInv, Typed, RemoveCheckpoint, queues, QueuesTyped
<1>2. HandsTyped'
  BY CsvAssumption, NoGapIsGap, Blank DEF CsvInv, Typed, RemoveCheckpoint, queues, HandsTyped
<1>3. WriterTyped'
  BY RemoveCheckpointDoes, Blank DEF CsvInv, Typed, RemoveCheckpoint, Goes, Breaks, FileStep, WriterTyped, WriterType, PlaceInv, Closing
<1>4. CountsTyped'
  BY CsvAssumption, NoGapIsGap, Blank DEF CsvInv, Typed, RemoveCheckpoint, queues, CountsTyped
<1>5. coord' \in CoordType
  BY CsvAssumption, NoGapIsGap, Blank DEF CsvInv, Typed, RemoveCheckpoint, queues, CoordType, HandsTyped
<1> QED BY <1>1, <1>2, <1>3, <1>4, <1>5 DEF Typed

LEMMA WriterShutsDownTypes == ASSUME CsvInv, WriterShutsDown PROVE Typed'
<1>1. QueuesTyped'
  BY CsvAssumption, NoGapIsGap, Blank DEF CsvInv, Typed, WriterShutsDown, queues, QueuesTyped
<1>2. HandsTyped'
  BY CsvAssumption, NoGapIsGap, Blank DEF CsvInv, Typed, WriterShutsDown, queues, HandsTyped
<1>3. WriterTyped'
  BY WriterShutsDownDoes, Blank DEF CsvInv, Typed, WriterShutsDown, Goes, Breaks, FileStep, WriterTyped, WriterType, PlaceInv, Closing
<1>4. CountsTyped'
  BY CsvAssumption, NoGapIsGap, Blank DEF CsvInv, Typed, WriterShutsDown, queues, CountsTyped
<1>5. coord' \in CoordType
  BY CsvAssumption, NoGapIsGap, Blank DEF CsvInv, Typed, WriterShutsDown, queues, CoordType, HandsTyped
<1> QED BY <1>1, <1>2, <1>3, <1>4, <1>5 DEF Typed

LEMMA RestartTypes == ASSUME CsvInv, Restart PROVE Typed'
<1>1. QueuesTyped'
  BY EmptyQueue DEF Restart, QueuesTyped
<1>2. HandsTyped'
  BY CsvAssumption, NoGapIsGap, Blank DEF CsvInv, Typed, Restart, NoDelivery, NoRelay, NoGuard, HandsTyped
<1>3. WriterTyped'
  <2>1. PICK keep \in [1 .. MaxLogs -> 0 .. MaxSamples] :
          /\ \A l \in 1 .. MaxLogs : keep[l] \in disk[l].synced .. Len(disk[l].rows)
          /\ disk' = [l \in 1 .. MaxLogs |->
                        [disk[l] EXCEPT !.rows = SubSeq(@, 1, keep[l]), !.synced = keep[l]]]
    BY DEF Restart
  <2>2. ASSUME NEW l \in 1 .. MaxLogs
        PROVE  disk'[l] \in FileType /\ disk'[l].synced <= Len(disk'[l].rows)
    <3> DEFINE f == disk[l]
               k == keep[l]
               rows == SubSeq(f.rows, 1, k)
    <3>1. f \in FileType /\ f.rows \in Seq(Records) /\ k \in Nat /\ k <= Len(f.rows)
      <4>1. f \in FileType /\ f.rows \in Seq(Records) /\ f.synced \in Nat
        BY DEF CsvInv, Typed, WriterTyped, FileType
      <4>2. keep[l] \in f.synced .. Len(f.rows) /\ Len(f.rows) \in Nat
        <5>1. Len(f.rows) \in Nat
          BY <4>1
        <5>2. keep[l] \in disk[l].synced .. Len(disk[l].rows)
          BY <2>1
        <5> QED BY <5>1, <5>2
      <4> HIDE DEF f
      <4> QED BY <4>1, <4>2
    <3>2. disk'[l] = [f EXCEPT !.rows = rows, !.synced = k]
      BY <2>1
    <3> HIDE DEF f, k
    <3>3. rows \in Seq(Records) /\ Len(rows) = k
      BY <3>1
    <3> HIDE DEF rows
    <3>4. k <= k
      BY <3>1
    <3> QED BY <3>1, <3>2, <3>3, <3>4 DEF FileType
  <2>3. disk' \in [1 .. MaxLogs -> FileType]
    BY <2>1, <2>2
  <2> QED BY <2>2, <2>3, Blank DEF Restart, WriterTyped
<1>4. CountsTyped'
  <2>1. /\ turns \in 0 .. MaxTurns /\ restarts \in 0 .. turns /\ turns + 1 < MaxTurns
        /\ restarts' = restarts + 1 /\ turns' = turns + 1 /\ published' = 0 /\ logs' = 0
    BY DEF CsvInv, Typed, CountsTyped, Restart
  <2> QED BY <2>1, CsvAssumption DEF CountsTyped
<1>5. coord' \in CoordType
  BY CsvAssumption, NoGapIsGap, Blank DEF CsvInv, Typed, Restart, NoDelivery, NoRelay, NoGuard, CoordType, HandsTyped
<1> QED BY <1>1, <1>2, <1>3, <1>4, <1>5 DEF Typed

-----------------------------------------------------------------------------
(***************************************************************************)
(* A step of the writer, whatever it did.                                  *)
(***************************************************************************)

\* what the writer leaves alone
Steady == UNCHANGED <<delivery, published, source, relay, orders, guard, coord, logs>>

Control == GapInv /\ PlaceInv /\ StateInv /\ HealthInv /\ FreshInv /\ CompletedInv

LEMMA FilesStay ==
    ASSUME Typed, FreshInv, CompletedInv, LogOn, PlaceInv, FileStep, writer'.log = writer.log
    PROVE  /\ File'.made /\ \A l \in 1 .. MaxLogs : ~disk'[l].made => disk'[l].rows = <<>>
           /\ coord.completed # 0 =>
                 disk'[coord.completed].sidecar.samples + disk'[coord.completed].sidecar.dropped = published
<1>1. writer.at \notin {"off", "create"} /\ File.made /\ writer.log \in 1 .. MaxLogs
  <2>1. writer.at \notin {"off", "create"}
    BY DEF PlaceInv, LogOn, Creating, Closing
  <2>2. Typing
    BY <2>1, InLog
  <2> QED BY <2>1, <2>2 DEF FreshInv, Typing
<1>2. File'.made
  BY <1>1 DEF FileStep, File
<1>3. ASSUME NEW l \in 1 .. MaxLogs, ~disk'[l].made PROVE disk'[l].rows = <<>>
  BY <1>1, <1>2, <1>3 DEF FileStep, FreshInv, File
<1>4. ASSUME coord.completed # 0
      PROVE  disk'[coord.completed].sidecar.samples + disk'[coord.completed].sidecar.dropped = published
  <2>1. coord.completed \in 1 .. MaxLogs
    BY <1>4, CsvAssumption DEF Typed, CoordType
  <2>2. coord.completed # writer.log
    BY <1>4 DEF CompletedInv, LogOn
  <2>3. disk'[coord.completed] = disk[coord.completed]
    BY <2>1, <2>2 DEF FileStep
  <2> QED BY <1>4, <2>3 DEF CompletedInv
<1> QED BY <1>2, <1>3, <1>4

LEMMA BreaksKeeps ==
    ASSUME CsvInv, Steady, LogOn, NEW at, Breaks(at),
           (at = "ready" /\ writer.at = "ready") \/ (at = "answered" /\ coord.at = "stopping")
    PROVE  Control'
<1>1. /\ writer'.at = at /\ writer'.log = writer.log /\ writer'.state = "Failed" /\ writer'.failed = TRUE
  BY DEF Breaks
<1>2. GapInv'
  BY DEF CsvInv, GapInv, Steady
<1>3. PlaceInv'
  BY <1>1 DEF CsvInv, PlaceInv, Steady, LogOn, Creating, Closing
<1>4. StateInv'
  BY <1>1 DEF CsvInv, StateInv, Steady, LogOn
<1>5. HealthInv'
  BY <1>1 DEF CsvInv, HealthInv
<1>6. /\ File'.made /\ \A l \in 1 .. MaxLogs : ~disk'[l].made => disk'[l].rows = <<>>
      /\ coord.completed # 0 =>
            disk'[coord.completed].sidecar.samples + disk'[coord.completed].sidecar.dropped = published
  BY <1>1, FilesStay DEF CsvInv, Breaks
<1>7. FreshInv'
  <2>1. coord'.at # "starting"
    BY DEF CsvInv, PlaceInv, Steady, LogOn, Creating, Closing
  <2>2. coord'.at = "idle" /\ coord'.state = "Idle" /\ ~coord'.active => source' = <<>>
    BY DEF CsvInv, FreshInv, Steady
  <2>3. coord'.at = "enable" => source' = <<>>
    BY DEF CsvInv, FreshInv, Steady
  <2> QED BY <1>1, <1>6, <2>1, <2>2, <2>3 DEF FreshInv
<1>8. CompletedInv'
  BY <1>1, <1>6 DEF CsvInv, CompletedInv, Steady, LogOn
<1> QED BY <1>2, <1>3, <1>4, <1>5, <1>7, <1>8 DEF Control

LEMMA GoesKeeps ==
    ASSUME CsvInv, Steady, LogOn, ~writer.failed, NEW w, NEW at, NEW state, Goes(w, at, state),
           state = IF at = "answered" THEN "Completed" ELSE "Running",
           (at = "ready" /\ writer.at = "ready") \/ (at \in {"stop"} \cup Closing /\ coord.at = "stopping"),
           at \in Closing => sink' = <<>>,
           at \in Closing \ {"finalize"} => writer'.rows = <<>>,
           at \in {"unlink", "answered"} =>
              /\ disk'[writer.log].sidecar.samples = w.samples
              /\ disk'[writer.log].sidecar.dropped = w.dropped,
           coord.at = "enable" =>
              sink' = <<>> /\ w.rows = <<>> /\ w.samples = 0 /\ w.dropped = 0
    PROVE  Control'
<1>1. /\ writer'.at = at /\ writer'.log = writer.log /\ writer'.state = state /\ ~writer'.failed
      /\ writer'.samples = w.samples /\ writer'.dropped = w.dropped
  BY DEF Goes
<1>2. GapInv'
  BY DEF CsvInv, GapInv, Steady
<1>3. PlaceInv'
  BY <1>1 DEF CsvInv, PlaceInv, Steady, LogOn, Creating, Closing
<1>4. StateInv'
  BY <1>1 DEF CsvInv, StateInv, Steady, LogOn
<1>5. HealthInv'
  <2>1. LogOn' /\ UNCHANGED <<coord, guard, relay, orders, delivery, source>>
    BY DEF Steady, LogOn
  <2>2. /\ guard.at = "wait" /\ coord.state # "Failed" /\ coord.failureGap = NoGap
        /\ relay.at \in {"run", "send", "drain", "drain_send", "done"}
        /\ \A i \in DOMAIN orders : orders[i] = "Finalize"
        /\ coord.at \notin {"finalize", "stopping"} => orders = <<>> /\ relay.at \in {"run", "send"}
        /\ coord.at \in {"finalize", "stopping"} => ~delivery.on
        /\ relay.at = "done" => source = <<>>
        /\ relay.at \notin {"send", "drain_send"} => relay.item = NoGap
    BY DEF CsvInv, HealthInv
  <2>3. /\ writer'.state = IF writer'.at = "answered" THEN "Completed" ELSE "Running"
        /\ writer'.at \in Closing => sink' = <<>>
        /\ writer'.at \in Closing \ {"finalize"} => writer'.rows = <<>>
    BY <1>1
  <2> QED BY <2>1, <2>2, <2>3 DEF HealthInv
<1>6. /\ File'.made /\ \A l \in 1 .. MaxLogs : ~disk'[l].made => disk'[l].rows = <<>>
      /\ coord.completed # 0 =>
            disk'[coord.completed].sidecar.samples + disk'[coord.completed].sidecar.dropped = published
  BY <1>1, FilesStay DEF CsvInv, Goes
<1>7. FreshInv'
  <2>1. coord'.at # "starting"
    BY DEF CsvInv, PlaceInv, Steady, LogOn, Creating, Closing
  <2>2. coord'.at = "idle" /\ coord'.state = "Idle" /\ ~coord'.active => source' = <<>>
    BY DEF CsvInv, FreshInv, Steady
  <2>3. ASSUME coord'.at = "enable"
        PROVE  /\ source' = <<>> /\ relay'.item = NoGap /\ sink' = <<>> /\ writer'.rows = <<>>
               /\ File'.rows = <<>> /\ writer'.samples = 0 /\ writer'.dropped = 0
    <3>1. coord.at = "enable" /\ source' = source /\ relay' = relay
      BY <2>3 DEF Steady
    <3>2. source = <<>> /\ relay.item = NoGap /\ File.rows = <<>>
      BY <3>1 DEF CsvInv, FreshInv
    <3>3. <<>> \o <<>> = <<>>
      OBVIOUS
    <3> QED BY <1>1, <3>1, <3>2, <3>3 DEF Goes, File
  <2> QED BY <1>1, <1>6, <2>1, <2>2, <2>3 DEF FreshInv
<1>8. CompletedInv'
  <2>1. LogOn' /\ ~writer'.failed /\ writer'.at \in {"unlink", "answered"} =>
           File'.sidecar.samples = writer'.samples /\ File'.sidecar.dropped = writer'.dropped
    BY <1>1 DEF File
  <2>2. writer'.log <= logs'
    BY <1>1 DEF CsvInv, CompletedInv, Steady
  <2>3. coord'.completed # 0 =>
          /\ coord'.at \in {"idle", "starting", "enable"} /\ ~coord'.active
          /\ coord'.completed <= logs'
          /\ coord'.at # "idle" => coord'.completed # writer'.log
          /\ disk'[coord'.completed].sidecar.samples + disk'[coord'.completed].sidecar.dropped = published'
    BY <1>1, <1>6 DEF CsvInv, CompletedInv, Steady
  <2> QED BY <2>1, <2>2, <2>3 DEF CompletedInv
<1> QED BY <1>2, <1>3, <1>4, <1>5, <1>7, <1>8 DEF Control

\* The rows go from the writer to the file together.
LEMMA RowsLink ==
    ASSUME Typing, NEW w \in WriterType, NEW at, NEW state, Goes(w, at, state),
           NEW a \in 0 .. MaxSamples, NEW b \in 0 .. MaxSamples,
           Link(0, File.rows, a), Link(a, w.rows, b)
    PROVE  \E a2 \in 0 .. MaxSamples : Link(0, File'.rows, a2) /\ Link(a2, writer'.rows, b)
<1>1. File.rows \in Seq(Records) /\ w.rows \in Seq(Records) /\ writer'.log = writer.log
  BY DEF Typing, File, FileType, WriterType, Goes
<1>2. CASE writer'.rows = w.rows /\ disk'[writer.log].rows = File.rows
  BY <1>1, <1>2 DEF File
<1>3. CASE writer'.rows = <<>> /\ disk'[writer.log].rows = File.rows \o w.rows
  <2>1. Link(0, File.rows \o w.rows, b)
    BY <1>1, LinkCat
  <2> QED BY <1>1, <1>3, <2>1, LinkEmpty DEF File
<1> QED BY <1>2, <1>3 DEF Goes

\* the writer takes records from its queue, or only moves what it has
LEMMA GoesStream ==
    ASSUME CsvInv, Typing, Steady, ~writer.failed, NEW w \in WriterType, NEW at, NEW state, Goes(w, at, state),
           Late' = Late,
           \A a, b, c \in 0 .. MaxSamples :
              Link(a, writer.rows, b) /\ Link(b, sink, c) /\ writer.samples + writer.dropped = b =>
                 \E b2 \in 0 .. MaxSamples :
                    Link(a, w.rows, b2) /\ Link(b2, sink', c) /\ w.samples + w.dropped = b2
    PROVE  StreamInv'
<1> SUFFICES ASSUME LogOn, coord.at # "enable"
             PROVE  \E a, b, c, d, e, f \in 0 .. MaxSamples :
                       /\ Link(0, File'.rows, a) /\ Link(a, writer'.rows, b) /\ Link(b, sink', c)
                       /\ Link(c, GapSeq(relay.item), d) /\ Link(d, source, e)
                       /\ Link(e, GapSeq(delivery.gap), f) /\ Link(f, Late, published)
                       /\ writer'.samples + writer'.dropped = b
  BY DEF StreamInv, Steady, LogOn
<1>1. PICK a, b, c, d, e, f \in 0 .. MaxSamples :
            /\ Link(0, File.rows, a) /\ Link(a, writer.rows, b) /\ Link(b, sink, c)
            /\ Link(c, GapSeq(relay.item), d) /\ Link(d, source, e)
            /\ Link(e, GapSeq(delivery.gap), f) /\ Link(f, Late, published)
            /\ writer.samples + writer.dropped = b
  BY DEF CsvInv, StreamInv
<1>2. PICK b2 \in 0 .. MaxSamples :
         Link(a, w.rows, b2) /\ Link(b2, sink', c) /\ w.samples + w.dropped = b2
  BY <1>1
<1>3. PICK a2 \in 0 .. MaxSamples : Link(0, File'.rows, a2) /\ Link(a2, writer'.rows, b2)
  BY <1>1, <1>2, RowsLink
<1>4. writer'.samples + writer'.dropped = b2
  BY <1>2 DEF Goes
<1> QED BY <1>1, <1>2, <1>3, <1>4

LEMMA WrittenCounts ==
    ASSUME NEW w \in WriterType, NEW r \in Records, NEW b \in 0 .. MaxSamples,
           w.samples + w.dropped = b, Follows(r, b)
    PROVE  /\ r.to \in 0 .. MaxSamples
           /\ Written(w, r).samples + Written(w, r).dropped = r.to
<1> DEFINE s == IF r.kind = "sample" THEN 1 ELSE 0
<1>1. r.to \in 0 .. MaxSamples /\ r.to = b + s + r.count
  BY RecordCounts
<1>2. Written(w, r).samples = w.samples + s /\ Written(w, r).dropped = w.dropped + r.count
  BY WrittenHas
<1>3. w.samples \in Nat /\ w.dropped \in Nat /\ r.count \in Nat /\ s \in Nat
  BY CsvAssumption DEF WriterType, Records
<1> HIDE DEF s
<1>4. (w.samples + s) + (w.dropped + r.count) = (w.samples + w.dropped) + s + r.count
  BY <1>3
<1> QED BY <1>1, <1>2, <1>4

\* one record goes from the queue to the rows
LEMMA RecordMoves ==
    ASSUME writer \in WriterType, sink \in Seq(Records), sink # <<>>, sink' = Tail(sink),
           NEW a \in 0 .. MaxSamples, NEW b \in 0 .. MaxSamples, NEW c \in 0 .. MaxSamples,
           Link(a, writer.rows, b), Link(b, sink, c), writer.samples + writer.dropped = b
    PROVE  \E b2 \in 0 .. MaxSamples :
              /\ Link(a, Written(writer, Head(sink)).rows, b2) /\ Link(b2, sink', c)
              /\ Written(writer, Head(sink)).samples + Written(writer, Head(sink)).dropped = b2
<1> DEFINE r == Head(sink)
           w == Written(writer, r)
<1>1. r \in Records /\ Follows(r, b) /\ Link(r.to, sink', c)
  BY LinkTail
<1> HIDE DEF r
<1>2. /\ w.rows = Append(writer.rows, r)
      /\ w.samples = writer.samples + (IF r.kind = "sample" THEN 1 ELSE 0)
      /\ w.dropped = writer.dropped + r.count
  BY <1>1, WrittenHas
<1> HIDE DEF w
<1>3. Link(a, w.rows, r.to)
  <2>1. writer.rows \in Seq(Records)
    BY DEF WriterType
  <2> QED BY <1>1, <1>2, <2>1, LinkAppend
<1>4. r.to \in 0 .. MaxSamples /\ Written(writer, r).samples + Written(writer, r).dropped = r.to
  BY <1>1, WrittenCounts
<1> QED BY <1>1, <1>3, <1>4 DEF r, w

LEMMA FailedBreaksStream == ASSUME NEW at, Breaks(at) PROVE StreamInv'
BY DEF Breaks, StreamInv

LEMMA WriterLogs ==
    ASSUME CsvInv, writer.at \in {"ready", "stop"} \cup Closing
    PROVE  /\ LogOn /\ Typing /\ writer \in WriterType /\ sink \in Seq(Records)
           /\ writer.at # "ready" => coord.at = "stopping"
           /\ ~writer.failed => writer.state = IF writer.at = "answered" THEN "Completed" ELSE "Running"
<1>1. LogOn /\ (writer.at # "ready" => coord.at = "stopping")
  BY DEF CsvInv, PlaceInv, LogOn, Closing
<1>2. Typing
  <2>1. writer.at # "off"
    BY DEF Closing
  <2> QED BY <2>1, InLog DEF CsvInv
<1> QED BY <1>1, <1>2 DEF CsvInv, HealthInv, Typing, Typed, QueuesTyped

LEMMA WriteItemStep == ASSUME CsvInv, WriteItem PROVE CsvInv'
<1> DEFINE w == Written(writer, Head(sink))
<1>1. Typed' /\ Steady /\ writer.at = "ready" /\ sink # <<>> /\ sink' = Tail(sink)
  BY WriteItemTypes DEF WriteItem, Steady
<1>2. /\ LogOn /\ Typing /\ writer \in WriterType /\ sink \in Seq(Records)
      /\ ~writer.failed => writer.state = "Running"
  BY <1>1, WriterLogs
<1>3. CASE writer.failed /\ UNCHANGED <<writer, disk>>
  <2>1. UNCHANGED <<delivery, published, source, relay, orders, guard, coord, logs, writer, disk>>
    BY <1>1, <1>3 DEF Steady
  <2>2. Control'
    BY <1>2, <1>3, <2>1 DEF CsvInv, Control, GapInv, PlaceInv, StateInv, HealthInv, FreshInv, CompletedInv, LogOn, File, Closing, Creating
  <2>3. StreamInv'
    BY <1>3, <2>1 DEF StreamInv
  <2> QED BY <1>1, <2>2, <2>3 DEF CsvInv, Control
<1>4. CASE ~writer.failed /\ Goes(w, "ready", writer.state)
  <2>1. w \in WriterType
    BY <1>1, <1>2, WrittenHas
  <2>2. coord.at # "enable"
    BY <1>1, <1>4 DEF CsvInv, FreshInv
  <2>3. Control'
    <3> HIDE DEF w
    <3> QED BY <1>1, <1>2, <1>4, <2>2, GoesKeeps DEF Closing
  <2>4. Late' = Late
    BY <1>1, <1>4 DEF Late, Goes, Steady
  <2>5. \A a, b, c \in 0 .. MaxSamples :
              Link(a, writer.rows, b) /\ Link(b, sink, c) /\ writer.samples + writer.dropped = b =>
                 \E b2 \in 0 .. MaxSamples :
                    Link(a, w.rows, b2) /\ Link(b2, sink', c) /\ w.samples + w.dropped = b2
    BY <1>1, <1>2, RecordMoves
  <2> HIDE DEF w
  <2>6. StreamInv'
    BY <1>1, <1>2, <1>4, <2>1, <2>4, <2>5, GoesStream
  <2> QED BY <1>1, <2>3, <2>6 DEF CsvInv, Control
<1>5. CASE Breaks("ready")
  <2>1. Control'
    BY <1>1, <1>2, <1>5, BreaksKeeps
  <2> QED BY <1>1, <1>5, <2>1, FailedBreaksStream DEF CsvInv, Control
<1>6. Typed
  BY DEF CsvInv
<1> QED BY <1>3, <1>4, <1>5, <1>6, WriteItemDoes

LEMMA MaintainStep == ASSUME CsvInv, Maintain PROVE CsvInv'
<1>1. Typed' /\ Steady /\ writer.at = "ready" /\ sink' = sink /\ ~writer.failed
  BY MaintainTypes DEF Maintain, Steady, queues
<1>2. LogOn /\ Typing /\ writer \in WriterType /\ writer.state = "Running"
  BY <1>1, WriterLogs
<1>3. CASE Goes(writer, "ready", writer.state)
  <2>1. coord.at = "enable" =>
           sink' = <<>> /\ writer.rows = <<>> /\ writer.samples = 0 /\ writer.dropped = 0
    BY <1>1 DEF CsvInv, FreshInv
  <2>2. Control'
    BY <1>1, <1>2, <1>3, <2>1, GoesKeeps DEF Closing
  <2>3. Late' = Late
    BY <1>1, <1>3 DEF Late, Goes, Steady
  <2>4. StreamInv'
    BY <1>1, <1>2, <1>3, <2>3, GoesStream
  <2> QED BY <1>1, <2>2, <2>4 DEF CsvInv, Control
<1>4. CASE Breaks("ready")
  <2>1. Control'
    BY <1>1, <1>2, <1>4, BreaksKeeps
  <2> QED BY <1>1, <1>4, <2>1, FailedBreaksStream DEF CsvInv, Control
<1> QED BY <1>3, <1>4, MaintainDoes DEF CsvInv

LEMMA StopDrainsStep == ASSUME CsvInv, StopDrains PROVE CsvInv'
<1> DEFINE w == Written(writer, Head(sink))
<1>1. /\ Typed' /\ Steady /\ writer.at = "stop" /\ sink # <<>> /\ sink' = Tail(sink) /\ ~writer.failed
  BY StopDrainsTypes DEF StopDrains, Steady
<1>2. /\ LogOn /\ Typing /\ writer \in WriterType /\ sink \in Seq(Records) /\ coord.at = "stopping"
      /\ writer.state = "Running"
  BY <1>1, WriterLogs
<1>3. CASE Goes(w, "stop", writer.state)
  <2>1. w \in WriterType
    BY <1>1, <1>2, WrittenHas
  <2>2. Control'
    <3> HIDE DEF w
    <3> QED BY <1>1, <1>2, <1>3, GoesKeeps DEF Closing
  <2>3. Late' = Late
    BY <1>1, <1>3 DEF Late, Goes, Steady
  <2>4. \A a, b, c \in 0 .. MaxSamples :
              Link(a, writer.rows, b) /\ Link(b, sink, c) /\ writer.samples + writer.dropped = b =>
                 \E b2 \in 0 .. MaxSamples :
                    Link(a, w.rows, b2) /\ Link(b2, sink', c) /\ w.samples + w.dropped = b2
    BY <1>1, <1>2, RecordMoves
  <2> HIDE DEF w
  <2>5. StreamInv'
    BY <1>1, <1>2, <1>3, <2>1, <2>3, <2>4, GoesStream
  <2> QED BY <1>1, <2>2, <2>5 DEF CsvInv, Control
<1>4. CASE Breaks("answered")
  <2>1. Control'
    BY <1>1, <1>2, <1>4, BreaksKeeps
  <2> QED BY <1>1, <1>4, <2>1, FailedBreaksStream DEF CsvInv, Control
<1> QED BY <1>3, <1>4, StopDrainsDoes DEF CsvInv

LEMMA StopFailedStep == ASSUME CsvInv, StopFailed PROVE CsvInv'
<1>1. Typed' /\ Steady /\ writer.at = "stop"
  BY StopFailedTypes DEF StopFailed, Steady, queues
<1>2. LogOn /\ coord.at = "stopping"
  BY <1>1, WriterLogs
<1>3. Breaks("answered")
  BY StopFailedDoes DEF CsvInv
<1>4. Control'
  BY <1>1, <1>2, <1>3, BreaksKeeps
<1> QED BY <1>1, <1>3, <1>4, FailedBreaksStream DEF CsvInv, Control

\* When the coordinator has stopped the writer, nothing is on its way behind the
\* writer's queue but the gap put aside.
LEMMA NothingBehind ==
    ASSUME CsvInv, coord.at = "stopping", ~writer.failed
    PROVE  /\ relay.item = NoGap /\ source = <<>> /\ delivery.gap = NoGap
           /\ \A c, d, e, f :
                Link(c, GapSeq(relay.item), d) /\ Link(d, source, e) /\ Link(e, GapSeq(delivery.gap), f) => c = f
<1>1. relay.item = NoGap /\ source = <<>> /\ delivery.gap = NoGap
  BY DEF CsvInv, PlaceInv, HealthInv, GapInv, LogOn
<1> QED BY <1>1, LinkGap, NoGapIsGap DEF Link, End

LEMMA StopWritesGapStep == ASSUME CsvInv, StopWritesGap PROVE CsvInv'
<1>1. Typed' /\ Steady /\ writer.at = "stop" /\ sink = <<>> /\ sink' = <<>> /\ ~writer.failed
  BY StopWritesGapTypes DEF StopWritesGap, Steady, queues
<1>2. LogOn /\ Typing /\ writer \in WriterType /\ coord.at = "stopping" /\ writer.state = "Running"
  BY <1>1, WriterLogs
<1>3. CASE coord.gap = NoGap /\ Goes(writer, "finalize", writer.state)
  <2>1. Control'
    BY <1>1, <1>2, <1>3, GoesKeeps DEF Closing
  <2>2. Late' = Late
    BY <1>1, <1>3 DEF Late, Goes, GapSeq
  <2>3. StreamInv'
    BY <1>1, <1>2, <1>3, <2>2, GoesStream
  <2> QED BY <1>1, <2>1, <2>3 DEF CsvInv, Control
<1>4. CASE coord.gap \in Records /\ Goes(Written(writer, coord.gap), "finalize", writer.state)
  <2> DEFINE r == coord.gap
             w == Written(writer, r)
  <2>1. /\ w \in WriterType /\ w.rows = Append(writer.rows, r)
        /\ w.samples = writer.samples + (IF r.kind = "sample" THEN 1 ELSE 0)
        /\ w.dropped = writer.dropped + r.count
    BY <1>2, <1>4, WrittenHas
  <2>2. Goes(w, "finalize", "Running")
    BY <1>2, <1>4
  <2> HIDE DEF w
  <2>3. Control'
    BY <1>1, <1>2, <2>2, GoesKeeps DEF Closing
  <2>4. PICK a, b, c, d, e, f \in 0 .. MaxSamples :
            /\ Link(0, File.rows, a) /\ Link(a, writer.rows, b) /\ Link(b, sink, c)
            /\ Link(c, GapSeq(relay.item), d) /\ Link(d, source, e)
            /\ Link(e, GapSeq(delivery.gap), f) /\ Link(f, Late, published)
            /\ writer.samples + writer.dropped = b
    BY <1>1, <1>2 DEF CsvInv, StreamInv
  <2>5. b = f
    <3>1. b = c
      BY <1>1, <2>4 DEF Link, End
    <3> QED BY <1>1, <1>2, <2>4, <3>1, NothingBehind
  <2>6. Follows(r, b) /\ published = r.to
    <3>1. r # NoGap /\ r \in Gaps
      BY <1>4, CsvAssumption DEF Records, NoGap, Gaps
    <3>2. Link(f, GapSeq(r), published)
      BY <1>1, <2>4 DEF Late
    <3> QED BY <2>5, <3>1, <3>2, LinkGap
  <2>7. r.to \in 0 .. MaxSamples /\ w.samples + w.dropped = r.to
    BY <1>2, <1>4, <2>4, <2>6, WrittenCounts DEF w
  <2>8. Link(a, w.rows, r.to)
    <3>1. writer.rows \in Seq(Records)
      BY <1>2 DEF WriterType
    <3> QED BY <1>4, <2>1, <2>4, <2>6, <3>1, LinkAppend
  <2>9. PICK a2 \in 0 .. MaxSamples : Link(0, File'.rows, a2) /\ Link(a2, writer'.rows, r.to)
    BY <1>2, <2>1, <2>2, <2>4, <2>7, <2>8, RowsLink
  <2>10. writer'.samples + writer'.dropped = r.to
    BY <2>2, <2>7 DEF Goes
  <2>11. /\ relay'.item = NoGap /\ source' = <<>> /\ delivery'.gap = NoGap /\ published' = r.to
         /\ Late' = <<>>
    <3>1. relay.item = NoGap /\ source = <<>> /\ delivery.gap = NoGap
      BY <1>1, <1>2, NothingBehind
    <3> QED BY <1>1, <2>2, <2>6, <3>1 DEF Steady, Late, Goes
  <2>12. Link(r.to, <<>>, r.to) /\ Link(r.to, GapSeq(NoGap), r.to)
    BY LinkEmpty, LinkGap, NoGapIsGap
  <2>13. StreamInv'
    <3> HIDE DEF r
    <3>1. \E x, y, z, d2, e2, f2 \in 0 .. MaxSamples :
            /\ Link(0, File'.rows, x) /\ Link(x, writer'.rows, y) /\ Link(y, sink', z)
            /\ Link(z, GapSeq(relay'.item), d2) /\ Link(d2, source', e2)
            /\ Link(e2, GapSeq(delivery'.gap), f2) /\ Link(f2, Late', published')
            /\ writer'.samples + writer'.dropped = y
      BY <1>1, <2>7, <2>9, <2>10, <2>11, <2>12
    <3> QED BY <3>1 DEF StreamInv
  <2> QED BY <1>1, <2>3, <2>13 DEF CsvInv, Control
<1>5. CASE Breaks("answered")
  <2>1. Control'
    BY <1>1, <1>2, <1>5, BreaksKeeps
  <2> QED BY <1>1, <1>5, <2>1, FailedBreaksStream DEF CsvInv, Control
<1> QED BY <1>3, <1>4, <1>5, StopWritesGapDoes DEF CsvInv

LEMMA StepStays ==
    \A a, b, c \in 0 .. MaxSamples :
       Link(a, writer.rows, b) /\ Link(b, sink, c) /\ writer.samples + writer.dropped = b =>
          \E b2 \in 0 .. MaxSamples :
             Link(a, writer.rows, b2) /\ Link(b2, sink, c) /\ writer.samples + writer.dropped = b2
OBVIOUS

LEMMA SyncRowsStep == ASSUME CsvInv, SyncRows PROVE CsvInv'
<1>1. Typed' /\ Steady /\ writer.at = "finalize" /\ sink' = sink
  BY SyncRowsTypes DEF SyncRows, Steady, queues
<1>2. /\ LogOn /\ Typing /\ writer \in WriterType /\ coord.at = "stopping" /\ ~writer.failed
      /\ writer.state = "Running" /\ sink = <<>>
  <2>1. LogOn /\ Typing /\ writer \in WriterType /\ coord.at = "stopping" /\ ~writer.failed
        /\ writer.state = "Running"
    BY <1>1, WriterLogs DEF Closing, CsvInv, PlaceInv
  <2> QED BY <1>1, <2>1 DEF CsvInv, HealthInv, Closing
<1>3. CASE Goes(writer, "completed", writer.state) /\ writer'.rows = <<>>
  <2>1. Control'
    BY <1>1, <1>2, <1>3, GoesKeeps DEF Closing
  <2>2. Late' = Late
    BY <1>1, <1>3 DEF Late, Goes
  <2>3. StreamInv'
    BY <1>1, <1>2, <1>3, <2>2, StepStays, GoesStream
  <2> QED BY <1>1, <2>1, <2>3 DEF CsvInv, Control
<1>4. CASE Breaks("answered")
  <2>1. Control'
    BY <1>1, <1>2, <1>4, BreaksKeeps
  <2> QED BY <1>1, <1>4, <2>1, FailedBreaksStream DEF CsvInv, Control
<1> QED BY <1>3, <1>4, SyncRowsDoes DEF CsvInv

LEMMA CompleteSidecarStep == ASSUME CsvInv, CompleteSidecar PROVE CsvInv'
<1>1. Typed' /\ Steady /\ writer.at = "completed" /\ sink' = sink
  BY CompleteSidecarTypes DEF CompleteSidecar, Steady, queues
<1>2. /\ LogOn /\ Typing /\ writer \in WriterType /\ coord.at = "stopping" /\ ~writer.failed
      /\ writer.state = "Running" /\ sink = <<>> /\ writer.rows = <<>>
  <2>1. LogOn /\ Typing /\ writer \in WriterType /\ coord.at = "stopping" /\ ~writer.failed
        /\ writer.state = "Running"
    BY <1>1, WriterLogs DEF Closing, CsvInv, PlaceInv
  <2> QED BY <1>1, <2>1 DEF CsvInv, HealthInv, Closing
<1>3. CASE /\ Goes(writer, "unlink", writer.state)
           /\ disk'[writer.log].sidecar = Sidecar("Completed", writer.samples, writer.dropped)
           /\ writer'.rows = writer.rows
  <2>1. /\ disk'[writer.log].sidecar.samples = writer.samples
        /\ disk'[writer.log].sidecar.dropped = writer.dropped
    BY <1>3 DEF Sidecar
  <2>2. Control'
    BY <1>1, <1>2, <1>3, <2>1, GoesKeeps DEF Closing
  <2>3. Late' = Late
    BY <1>1, <1>3 DEF Late, Goes
  <2>4. StreamInv'
    BY <1>1, <1>2, <1>3, <2>3, StepStays, GoesStream
  <2> QED BY <1>1, <2>2, <2>4 DEF CsvInv, Control
<1>4. CASE Breaks("answered")
  <2>1. Control'
    BY <1>1, <1>2, <1>4, BreaksKeeps
  <2> QED BY <1>1, <1>4, <2>1, FailedBreaksStream DEF CsvInv, Control
<1> QED BY <1>3, <1>4, CompleteSidecarDoes DEF CsvInv

LEMMA RemoveCheckpointStep == ASSUME CsvInv, RemoveCheckpoint PROVE CsvInv'
<1>1. Typed' /\ Steady /\ writer.at = "unlink" /\ sink' = sink
  BY RemoveCheckpointTypes DEF RemoveCheckpoint, Steady, queues
<1>2. /\ LogOn /\ Typing /\ writer \in WriterType /\ coord.at = "stopping" /\ ~writer.failed
      /\ sink = <<>> /\ writer.rows = <<>>
      /\ File.sidecar.samples = writer.samples /\ File.sidecar.dropped = writer.dropped
  <2>1. LogOn /\ Typing /\ writer \in WriterType /\ coord.at = "stopping" /\ ~writer.failed
    BY <1>1, WriterLogs DEF Closing, CsvInv, PlaceInv
  <2> QED BY <1>1, <2>1 DEF CsvInv, HealthInv, CompletedInv, Closing
<1>3. CASE /\ Goes(writer, "answered", "Completed")
           /\ disk'[writer.log].sidecar = File.sidecar
           /\ writer'.rows = writer.rows
  <2>1. Control'
    BY <1>1, <1>2, <1>3, GoesKeeps DEF Closing
  <2>2. Late' = Late
    BY <1>1, <1>3 DEF Late, Goes
  <2>3. StreamInv'
    BY <1>1, <1>2, <1>3, <2>2, StepStays, GoesStream
  <2> QED BY <1>1, <2>1, <2>3 DEF CsvInv, Control
<1>4. CASE Breaks("answered")
  <2>1. Control'
    BY <1>1, <1>2, <1>4, BreaksKeeps
  <2> QED BY <1>1, <1>4, <2>1, FailedBreaksStream DEF CsvInv, Control
<1> QED BY <1>3, <1>4, RemoveCheckpointDoes DEF CsvInv

LEMMA UpdateStep == ASSUME CsvInv, FlushInv, UpdateSidecar \/ UpdateCheckpoint PROVE CsvInv'
<1>1. /\ Typed' /\ Steady /\ sink' = sink /\ ~writer.failed
      /\ writer.at \in {"ready", "stop", "finalize", "shutdown"}
  BY UpdateTypes DEF UpdateSidecar, UpdateCheckpoint, FlushInv, Steady, queues
<1>2. \/ Goes(writer, writer.at, writer.state)
      \/ writer.at \in {"stop", "finalize"} /\ Breaks("answered")
      \/ writer.at \in {"ready", "shutdown"} /\ Breaks(writer.at)
  BY UpdateDoes DEF CsvInv
<1>3. CASE writer.at # "shutdown"
  <2>1. /\ LogOn /\ Typing /\ writer \in WriterType /\ writer.state = "Running"
        /\ writer.at # "ready" => coord.at = "stopping"
    BY <1>1, <1>3, WriterLogs DEF Closing
  <2>2. CASE Goes(writer, writer.at, writer.state)
    <3>1. coord.at = "enable" =>
             sink' = <<>> /\ writer.rows = <<>> /\ writer.samples = 0 /\ writer.dropped = 0
      BY <1>1 DEF CsvInv, FreshInv
    <3>2. writer.at = "finalize" => sink' = <<>>
      BY <1>1, <2>1 DEF CsvInv, HealthInv, Closing
    <3>3. Control'
      BY <1>1, <1>3, <2>1, <2>2, <3>1, <3>2, GoesKeeps DEF Closing
    <3>4. Late' = Late
      BY <1>1, <2>2 DEF Late, Goes, Steady
    <3>5. StreamInv'
      BY <1>1, <2>1, <2>2, <3>4, StepStays, GoesStream
    <3> QED BY <1>1, <3>3, <3>5 DEF CsvInv, Control
  <2>3. ASSUME NEW at, Breaks(at),
               (at = "ready" /\ writer.at = "ready") \/ (at = "answered" /\ coord.at = "stopping")
        PROVE  CsvInv'
    <3>1. Control'
      BY <1>1, <2>1, <2>3, BreaksKeeps
    <3> QED BY <1>1, <2>3, <3>1, FailedBreaksStream DEF CsvInv, Control
  <2> QED BY <1>2, <1>3, <2>1, <2>2, <2>3
<1>4. CASE writer.at = "shutdown"
  <2>1. ~LogOn /\ coord.at = "gone" /\ coord.completed = 0
    <3>1. ~LogOn /\ coord.at = "gone"
      BY <1>4 DEF CsvInv, PlaceInv, LogOn, Closing, Creating, Typed, CoordType
    <3> QED BY <3>1 DEF CsvInv, CompletedInv
  <2>2. /\ writer'.at = "shutdown" /\ writer'.log = writer.log /\ FileStep
        /\ writer'.failed <=> writer'.state = "Failed"
    BY <1>2, <1>4 DEF Goes, Breaks, CsvInv, PlaceInv
  <2>3. File'.made /\ \A l \in 1 .. MaxLogs : ~disk'[l].made => disk'[l].rows = <<>>
    <3>1. File.made
      BY <1>4 DEF CsvInv, FreshInv
    <3> QED BY <2>2, <3>1 DEF FileStep, File, CsvInv, FreshInv
  <2>4. ~LogOn' /\ coord'.at = "gone" /\ writer'.log <= logs'
    BY <1>1, <2>1, <2>2 DEF Steady, LogOn, CsvInv, CompletedInv
  <2>5. GapInv'
    BY <1>1 DEF CsvInv, GapInv, Steady
  <2>6. PlaceInv'
    BY <1>1, <2>1, <2>2, <2>4 DEF CsvInv, PlaceInv, Steady, Creating, Closing
  <2>7. StateInv'
    BY <1>1, <2>1, <2>4 DEF CsvInv, StateInv, Steady
  <2>8. HealthInv' /\ StreamInv'
    BY <2>4 DEF HealthInv, StreamInv
  <2>9. FreshInv'
    BY <2>3, <2>4 DEF FreshInv
  <2>10. CompletedInv'
    BY <1>1, <2>1, <2>2, <2>4 DEF CompletedInv, Steady
  <2> QED BY <1>1, <2>5, <2>6, <2>7, <2>8, <2>9, <2>10 DEF CsvInv
<1> QED BY <1>3, <1>4

LEMMA WriterShutsDownStep == ASSUME CsvInv, WriterShutsDown PROVE CsvInv'
<1>1. Typed' /\ Steady /\ writer.at = "shutdown" /\ sink' = sink
  BY WriterShutsDownTypes DEF WriterShutsDown, Steady, queues
<1>2. ~LogOn /\ coord.at = "gone" /\ coord.completed = 0
  <2>1. ~LogOn /\ coord.at = "gone"
    BY <1>1 DEF CsvInv, PlaceInv, LogOn, Closing, Creating, Typed, CoordType
  <2> QED BY <2>1 DEF CsvInv, CompletedInv
<1>3. /\ writer'.at = "off" /\ (writer'.failed <=> writer'.state = "Failed") /\ writer'.log <= logs
      /\ \A l \in 1 .. MaxLogs : ~disk'[l].made => disk'[l].rows = <<>>
  <2>1. CASE writer' = NoWriter /\ disk' = disk
    <3>1. 0 <= logs
      BY DEF CsvInv, Typed, CountsTyped
    <3> QED BY <2>1, <3>1, Blank DEF CsvInv, FreshInv
  <2>2. CASE Breaks("off")
    <3>1. File.made
      BY <1>1 DEF CsvInv, FreshInv
    <3> QED BY <2>2, <3>1 DEF Breaks, FileStep, File, CsvInv, FreshInv, CompletedInv
  <2> QED BY <2>1, <2>2, WriterShutsDownDoes DEF CsvInv
<1>4. ~LogOn' /\ coord'.at = "gone"
  BY <1>1, <1>2 DEF Steady, LogOn
<1>5. GapInv'
  BY <1>1 DEF CsvInv, GapInv, Steady
<1>6. PlaceInv'
  BY <1>1, <1>2, <1>3, <1>4 DEF CsvInv, PlaceInv, Steady, Creating, Closing
<1>7. StateInv'
  BY <1>1, <1>2, <1>4 DEF CsvInv, StateInv, Steady
<1>8. HealthInv' /\ StreamInv'
  BY <1>4 DEF HealthInv, StreamInv
<1>9. FreshInv'
  BY <1>3, <1>4 DEF FreshInv
<1>10. CompletedInv'
  BY <1>1, <1>2, <1>3, <1>4 DEF CompletedInv, Steady
<1> QED BY <1>1, <1>5, <1>6, <1>7, <1>8, <1>9, <1>10 DEF CsvInv

-----------------------------------------------------------------------------
(***************************************************************************)
(* The start of a log.                                                     *)
(***************************************************************************)
CoordStays == UNCHANGED <<coord.failureGap, coord.gap, coord.wasFailed, coord.completed, coord.active>>

LEMMA StartFailed ==
    ASSUME Typed, StartFails
    PROVE  writer' = NoWriter /\ coord'.at = "idle" /\ coord'.state = "Idle" /\ CoordStays
BY DEF StartFails, Typed, CoordType, CoordStays

\* the rows and the sidecars of the other logs are left alone
OthersStay ==
    \A l \in 1 .. MaxLogs :
        disk'[l].rows = disk[l].rows /\ (l # writer.log => disk'[l] = disk[l])

\* Nothing is on its way when no log is on.
LEMMA StartingIsFresh ==
    ASSUME CsvInv, coord.at = "starting"
    PROVE  /\ ~LogOn /\ ~coord.active /\ ~delivery.on /\ relay.at = "off" /\ guard.at \notin {"wait", "store"}
           /\ coord.gap = NoGap /\ source = <<>> /\ sink = <<>> /\ coord.failureGap = NoGap
           /\ writer.at \in Creating /\ Typing /\ ~writer.failed /\ writer.state # "Failed"
           /\ writer.rows = <<>> /\ writer.samples = 0 /\ writer.dropped = 0
<1>1. /\ ~LogOn /\ ~coord.active /\ ~delivery.on /\ writer.at \in Creating /\ coord.gap = NoGap
      /\ ~writer.failed /\ writer.state # "Failed"
  BY DEF CsvInv, PlaceInv, FreshInv, LogOn
<1>2. Typing
  <2>1. writer.at # "off"
    BY <1>1 DEF Creating
  <2> QED BY <2>1, InLog DEF CsvInv
<1>3. guard.at # "store"
  BY <1>1 DEF CsvInv, StateInv
<1> QED BY <1>1, <1>2, <1>3 DEF CsvInv, PlaceInv, FreshInv

\* a failed start leaves the coordinator as it was before
LEMMA StartFailedKeeps ==
    ASSUME CsvInv, coord.at = "starting", StartFails, OthersStay,
           UNCHANGED <<delivery, published, source, sink, relay, guard, logs>>,
           \A l \in 1 .. MaxLogs : ~disk'[l].made => disk'[l].rows = <<>>
    PROVE  Control' /\ StreamInv'
<1>1. writer' = NoWriter /\ coord'.at = "idle" /\ coord'.state = "Idle" /\ CoordStays
  BY StartFailed DEF CsvInv
<1>2. /\ ~coord.active /\ ~delivery.on /\ relay.at = "off" /\ guard.at \notin {"wait", "store"}
      /\ coord.gap = NoGap /\ source = <<>>
  BY StartingIsFresh
<1>3. ~LogOn' /\ ~coord'.active /\ coord'.gap = NoGap
  BY <1>1, <1>2 DEF LogOn, CoordStays
<1>4. GapInv'
  BY DEF CsvInv, GapInv
<1>5. PlaceInv'
  BY <1>1, <1>2, <1>3, Blank DEF PlaceInv, Creating, Closing
<1>6. StateInv'
  BY <1>1, <1>2, <1>3 DEF CsvInv, StateInv
<1>7. HealthInv' /\ StreamInv'
  BY <1>3 DEF HealthInv, StreamInv
<1>8. FreshInv'
  BY <1>1, <1>2, Blank DEF FreshInv
<1>9. CompletedInv'
  <2>1. 0 <= logs
    BY DEF CsvInv, Typed, CountsTyped
  <2>2. ASSUME coord.completed # 0
        PROVE  disk'[coord.completed].sidecar = disk[coord.completed].sidecar
    <3>1. coord.completed # writer.log /\ coord.completed \in 1 .. MaxLogs
      BY <2>2, CsvAssumption DEF CsvInv, CompletedInv, Typed, CoordType
    <3> QED BY <3>1 DEF OthersStay
  <2> QED BY <1>1, <1>3, <2>1, <2>2, Blank DEF CsvInv, CompletedInv, CoordStays
<1> QED BY <1>4, <1>5, <1>6, <1>7, <1>8, <1>9 DEF Control

LEMMA StartStep == ASSUME CsvInv, Start PROVE CsvInv'
<1>1. /\ Typed' /\ coord.at = "idle" /\ logs' = logs + 1
      /\ UNCHANGED <<delivery, published, source, relay, orders, guard, disk>>
  BY StartTypes DEF Start
<1>2. logs \in Nat /\ writer.log \in Nat /\ writer.log <= logs /\ writer.log <= logs'
      /\ coord.completed \in Nat /\ (coord.completed # 0 => coord.completed <= logs)
  <2>1. logs \in Nat /\ writer.log \in Nat /\ coord.completed \in Nat
    BY CsvAssumption DEF CsvInv, Typed, CountsTyped, WriterTyped, WriterType, CoordType
  <2>2. writer.log <= logs /\ (coord.completed # 0 => coord.completed <= logs)
    BY DEF CsvInv, CompletedInv
  <2>3. \A x, y \in Nat : x <= y => x <= y + 1
    OBVIOUS
  <2> QED BY <1>1, <2>1, <2>2, <2>3
<1>3. CASE UNCHANGED <<coord, writer, sink>>
  <2>1. coord.completed # 0 => coord.completed <= logs'
    BY <1>1, <1>2
  <2>2. CompletedInv'
    <3>1. LogOn' <=> LogOn
      BY <1>3 DEF LogOn
    <3> QED BY <1>1, <1>2, <1>3, <2>1, <3>1 DEF CsvInv, CompletedInv, File
  <2>3. GapInv' /\ PlaceInv' /\ StateInv'
    BY <1>1, <1>3 DEF CsvInv, GapInv, PlaceInv, StateInv, LogOn
  <2>4. HealthInv'
    BY <1>1, <1>3 DEF CsvInv, HealthInv, LogOn
  <2>5. FreshInv'
    BY <1>1, <1>3 DEF CsvInv, FreshInv, File
  <2>6. StreamInv'
    BY <1>1, <1>3 DEF CsvInv, StreamInv, LogOn, File, Late
  <2> QED BY <1>1, <2>2, <2>3, <2>4, <2>5, <2>6 DEF CsvInv
<1>4. CASE /\ ~coord.active /\ ~delivery.on /\ coord.state = "Idle"
           /\ coord' = [coord EXCEPT !.at = "starting", !.state = "Starting", !.failureGap = NoGap]
           /\ writer' = [NoWriter EXCEPT !.at = "create", !.log = logs']
           /\ sink' = <<>>
  <2>1. /\ coord'.at = "starting" /\ coord'.state = "Starting" /\ coord'.failureGap = NoGap
        /\ coord'.gap = coord.gap /\ coord'.completed = coord.completed /\ coord'.active = coord.active
    BY <1>4 DEF CsvInv, Typed, CoordType
  <2>2. /\ writer'.at = "create" /\ writer'.log = logs' /\ writer'.failed = FALSE /\ writer'.state = "Idle"
        /\ writer'.rows = <<>> /\ writer'.samples = 0 /\ writer'.dropped = 0
    <3> DEFINE n == logs'
    <3>1. writer' = [NoWriter EXCEPT !.at = "create", !.log = n]
      BY <1>4
    <3> HIDE DEF n
    <3>2. /\ writer'.at = "create" /\ writer'.log = n /\ writer'.failed = FALSE /\ writer'.state = "Idle"
          /\ writer'.rows = <<>> /\ writer'.samples = 0 /\ writer'.dropped = 0
      BY <3>1 DEF NoWriter
    <3> QED BY <3>2 DEF n
  <2>3. ~LogOn /\ ~LogOn' /\ source = <<>>
    BY <1>1, <1>4, <2>1 DEF CsvInv, LogOn, FreshInv
  <2>4. GapInv'
    BY <1>1 DEF CsvInv, GapInv
  <2>5. PlaceInv'
    BY <1>1, <1>4, <2>1, <2>2, <2>3 DEF CsvInv, PlaceInv, Creating, Closing
  <2>6. StateInv'
    BY <1>1, <1>4, <2>1, <2>2, <2>3 DEF CsvInv, StateInv
  <2>7. HealthInv' /\ StreamInv'
    BY <2>3 DEF HealthInv, StreamInv
  <2>8. FreshInv'
    BY <1>1, <1>4, <2>1, <2>2, <2>3 DEF CsvInv, FreshInv
  <2>9. CompletedInv'
    <3>1. coord.completed # 0 => coord.completed # logs' /\ coord.completed <= logs'
      BY <1>1, <1>2
    <3>2. logs' <= logs'
      BY <1>1, <1>2
    <3> QED BY <1>1, <1>4, <2>1, <2>2, <2>3, <3>1, <3>2 DEF CsvInv, CompletedInv
  <2> QED BY <1>1, <2>4, <2>5, <2>6, <2>7, <2>8, <2>9 DEF CsvInv
<1> QED BY <1>3, <1>4 DEF Start

\* the file and then the sidecar: the next thing to create
LEMMA CreatedKeeps ==
    ASSUME CsvInv, coord.at = "starting", OthersStay, NEW at \in Creating \ {"create"},
           writer' = [writer EXCEPT !.at = at],
           UNCHANGED <<delivery, published, source, sink, relay, guard, coord, logs>>,
           disk'[writer.log].made, disk'[writer.log].rows = <<>>,
           \A l \in 1 .. MaxLogs : ~disk'[l].made => disk'[l].rows = <<>>
    PROVE  Control' /\ StreamInv'
<1>1. /\ writer'.at = at /\ writer'.log = writer.log /\ writer'.state = writer.state
      /\ writer'.failed = writer.failed /\ writer'.rows = writer.rows
      /\ writer'.samples = writer.samples /\ writer'.dropped = writer.dropped
  BY DEF CsvInv, Typed, WriterTyped, WriterType
<1>2. /\ ~LogOn /\ ~coord.active /\ ~delivery.on /\ relay.at = "off" /\ guard.at # "wait"
      /\ coord.gap = NoGap /\ source = <<>> /\ sink = <<>> /\ coord.failureGap = NoGap
      /\ ~writer.failed /\ writer.state # "Failed"
      /\ writer.rows = <<>> /\ writer.samples = 0 /\ writer.dropped = 0
  BY StartingIsFresh
<1>3. ~LogOn'
  BY <1>2 DEF LogOn
<1>4. GapInv'
  BY DEF CsvInv, GapInv
<1>5. PlaceInv'
  BY <1>1, <1>2, <1>3 DEF PlaceInv, Creating, Closing
<1>6. StateInv'
  BY <1>1, <1>2, <1>3 DEF CsvInv, StateInv
<1>7. HealthInv' /\ StreamInv'
  BY <1>3 DEF HealthInv, StreamInv
<1>8. FreshInv'
  BY <1>1, <1>2 DEF FreshInv, File
<1>9. CompletedInv'
  <2>1. ASSUME coord.completed # 0
        PROVE  disk'[coord.completed].sidecar = disk[coord.completed].sidecar
    <3>1. coord.completed # writer.log /\ coord.completed \in 1 .. MaxLogs
      BY <2>1, CsvAssumption DEF CsvInv, CompletedInv, Typed, CoordType
    <3> QED BY <3>1 DEF OthersStay
  <2> QED BY <1>1, <1>3, <2>1 DEF CsvInv, CompletedInv
<1> QED BY <1>4, <1>5, <1>6, <1>7, <1>8, <1>9 DEF Control

LEMMA CreateFileStep == ASSUME CsvInv, CreateFile PROVE CsvInv'
<1>1. /\ Typed' /\ coord.at = "starting" /\ writer.at = "create" /\ Typing
      /\ UNCHANGED <<delivery, published, source, sink, relay, guard, logs>>
  <2>1. writer.at = "create"
    BY DEF CreateFile
  <2>2. coord.at = "starting"
    BY <2>1 DEF CsvInv, PlaceInv, Creating
  <2> QED BY <2>1, <2>2, CreateFileTypes, StartingIsFresh DEF CreateFile, queues
<1>2. CASE disk' = disk
  <2>1. StartFails /\ OthersStay
    BY <1>1, <1>2 DEF CreateFile, OthersStay, Typing, File, FileType
  <2>2. \A l \in 1 .. MaxLogs : ~disk'[l].made => disk'[l].rows = <<>>
    BY <1>2 DEF CsvInv, FreshInv
  <2> QED BY <1>1, <2>1, <2>2, StartFailedKeeps DEF CsvInv, Control
<1>3. CASE ~File.made /\ disk' = [disk EXCEPT ![writer.log].made = TRUE]
  <2>1. OthersStay /\ disk'[writer.log].made /\ \A l \in 1 .. MaxLogs : ~disk'[l].made => ~disk[l].made
    BY <1>1, <1>3 DEF Typing, OthersStay, FileType
  <2>2. \A l \in 1 .. MaxLogs : ~disk'[l].made => disk'[l].rows = <<>>
    BY <2>1 DEF CsvInv, FreshInv, OthersStay
  <2>3. disk'[writer.log].rows = <<>>
    BY <1>1, <1>3, <2>1 DEF CsvInv, FreshInv, OthersStay, File, Typing
  <2>4. CASE StartFails
    BY <1>1, <2>1, <2>2, <2>4, StartFailedKeeps DEF CsvInv, Control
  <2>5. CASE writer' = [writer EXCEPT !.at = "sidecar"] /\ coord' = coord
    <3>1. "sidecar" \in Creating \ {"create"}
      BY DEF Creating
    <3> QED BY <1>1, <2>1, <2>2, <2>3, <2>5, <3>1, CreatedKeeps DEF CsvInv, Control
  <2> QED BY <2>4, <2>5 DEF CreateFile
<1> QED BY <1>2, <1>3 DEF CreateFile

LEMMA CreateSidecarStep == ASSUME CsvInv, CreateSidecar PROVE CsvInv'
<1>1. /\ Typed' /\ coord.at = "starting" /\ writer.at = "sidecar" /\ Typing
      /\ UNCHANGED <<delivery, published, source, sink, relay, guard, logs>>
  <2>1. writer.at = "sidecar"
    BY DEF CreateSidecar
  <2>2. coord.at = "starting"
    BY <2>1 DEF CsvInv, PlaceInv, Creating
  <2> QED BY <2>1, <2>2, CreateSidecarTypes, StartingIsFresh DEF CreateSidecar, queues
<1>2. File.rows = <<>> /\ File.made
  BY <1>1 DEF CsvInv, FreshInv
<1>3. CASE StartFails /\ disk' = [disk EXCEPT ![writer.log].made = FALSE]
  <2>1. OthersStay
    BY <1>1, <1>3 DEF Typing, OthersStay, FileType
  <2>2. \A l \in 1 .. MaxLogs : ~disk'[l].made => disk'[l].rows = <<>>
    BY <1>2, <2>1 DEF CsvInv, FreshInv, OthersStay, File
  <2> QED BY <1>1, <1>3, <2>1, <2>2, StartFailedKeeps DEF CsvInv, Control
<1>4. CASE /\ disk' = [disk EXCEPT ![writer.log].sidecar = Sidecar("Running", 0, 0)]
           /\ writer' = [writer EXCEPT !.at = "checkpoint"] /\ coord' = coord
  <2>1. OthersStay /\ \A l \in 1 .. MaxLogs : disk'[l].made = disk[l].made
    BY <1>1, <1>4 DEF Typing, OthersStay, FileType
  <2>2. /\ \A l \in 1 .. MaxLogs : ~disk'[l].made => disk'[l].rows = <<>>
        /\ disk'[writer.log].made /\ disk'[writer.log].rows = <<>>
    BY <1>1, <1>2, <2>1 DEF CsvInv, FreshInv, OthersStay, File, Typing
  <2>3. "checkpoint" \in Creating \ {"create"}
    BY DEF Creating
  <2> QED BY <1>1, <1>4, <2>1, <2>2, <2>3, CreatedKeeps DEF CsvInv, Control
<1> QED BY <1>3, <1>4 DEF CreateSidecar

\* the log is ready: nothing has been delivered yet
LEMMA CreateCheckpointStep == ASSUME CsvInv, CreateCheckpoint PROVE CsvInv'
<1>1. /\ Typed' /\ coord.at = "starting" /\ writer.at = "checkpoint" /\ Typing
      /\ UNCHANGED <<delivery, published, source, sink, logs>>
  <2>1. writer.at = "checkpoint"
    BY DEF CreateCheckpoint
  <2>2. coord.at = "starting"
    BY <2>1 DEF CsvInv, PlaceInv, Creating
  <2> QED BY <2>1, <2>2, CreateCheckpointTypes, StartingIsFresh DEF CreateCheckpoint, queues
<1>2. File.rows = <<>> /\ File.made
  BY <1>1 DEF CsvInv, FreshInv
<1>3. CASE /\ StartFails /\ UNCHANGED <<relay, orders, guard>>
           /\ disk' = [disk EXCEPT ![writer.log].made = FALSE, ![writer.log].sidecar = NoSidecar]
  <2> DEFINE d == [disk EXCEPT ![writer.log].made = FALSE]
  <2>1. disk' = [d EXCEPT ![writer.log].sidecar = NoSidecar]
    BY <1>3
  <2>2. /\ d \in [1 .. MaxLogs -> FileType]
        /\ \A l \in 1 .. MaxLogs : d[l].rows = disk[l].rows /\ (l # writer.log => d[l] = disk[l])
    BY <1>1 DEF Typing, FileType
  <2> HIDE DEF d
  <2>3. \A l \in 1 .. MaxLogs : disk'[l].rows = d[l].rows /\ (l # writer.log => disk'[l] = d[l])
    BY <1>1, <2>1, <2>2 DEF Typing, FileType
  <2>4. OthersStay
    BY <2>2, <2>3 DEF OthersStay
  <2>5. \A l \in 1 .. MaxLogs : ~disk'[l].made => disk'[l].rows = <<>>
    BY <1>2, <2>4 DEF CsvInv, FreshInv, OthersStay, File
  <2> QED BY <1>1, <1>3, <2>4, <2>5, StartFailedKeeps DEF CsvInv, Control
<1>4. CASE /\ disk' = [disk EXCEPT ![writer.log].checkpoint = Checkpoint("Running", 0)]
           /\ writer' = [writer EXCEPT !.at = "ready", !.state = "Running"]
           /\ coord' = [coord EXCEPT !.at = "enable"]
           /\ relay' = [at |-> "run", item |-> NoGap] /\ orders' = <<>>
           /\ guard' = [at |-> "wait", gap |-> NoGap]
  <2>1. OthersStay /\ \A l \in 1 .. MaxLogs : disk'[l].made = disk[l].made /\ disk'[l].sidecar = disk[l].sidecar
    BY <1>1, <1>4 DEF Typing, OthersStay, FileType
  <2>2. /\ \A l \in 1 .. MaxLogs : ~disk'[l].made => disk'[l].rows = <<>>
        /\ disk'[writer.log].made /\ disk'[writer.log].rows = <<>>
    BY <1>1, <1>2, <2>1 DEF CsvInv, FreshInv, OthersStay, File, Typing
  <2>3. /\ writer'.at = "ready" /\ writer'.log = writer.log /\ writer'.state = "Running"
        /\ writer'.failed = writer.failed /\ writer'.rows = writer.rows
        /\ writer'.samples = writer.samples /\ writer'.dropped = writer.dropped
    BY <1>1, <1>4 DEF Typing, WriterType
  <2>4. /\ coord'.at = "enable" /\ coord'.state = coord.state /\ CoordStays
    BY <1>4 DEF CsvInv, Typed, CoordType, CoordStays
  <2>5. /\ relay'.at = "run" /\ relay'.item = NoGap /\ guard'.at = "wait" /\ orders' = <<>>
    BY <1>4
  <2>6. /\ ~coord.active /\ ~delivery.on /\ coord.gap = NoGap /\ source = <<>> /\ sink = <<>>
        /\ coord.failureGap = NoGap /\ ~writer.failed /\ coord.state = "Starting"
        /\ writer.rows = <<>> /\ writer.samples = 0 /\ writer.dropped = 0
    BY <1>1, StartingIsFresh DEF CsvInv, StateInv
  <2>7. LogOn'
    BY <2>4 DEF LogOn
  <2>8. GapInv'
    BY <1>1 DEF CsvInv, GapInv
  <2>9. PlaceInv'
    BY <1>1, <2>3, <2>4, <2>5, <2>6, <2>7 DEF PlaceInv, Creating, Closing, CoordStays
  <2>10. StateInv'
    BY <1>1, <2>4, <2>5, <2>6 DEF StateInv, CoordStays
  <2>11. HealthInv'
    BY <1>1, <2>3, <2>4, <2>5, <2>6 DEF HealthInv, CoordStays, Closing
  <2>12. FreshInv'
    BY <1>1, <2>2, <2>3, <2>4, <2>5, <2>6 DEF FreshInv, File
  <2>13. StreamInv'
    BY <2>4 DEF StreamInv
  <2>14. CompletedInv'
    <3>1. ASSUME coord.completed # 0
          PROVE  disk'[coord.completed].sidecar = disk[coord.completed].sidecar
      <4>1. coord.completed \in 1 .. MaxLogs
        BY <3>1, CsvAssumption DEF CsvInv, Typed, CoordType
      <4> QED BY <2>1, <4>1
    <3> QED BY <1>1, <2>3, <2>4, <3>1 DEF CsvInv, CompletedInv, CoordStays
  <2> QED BY <1>1, <2>8, <2>9, <2>10, <2>11, <2>12, <2>13, <2>14 DEF CsvInv
<1> QED BY <1>3, <1>4 DEF CreateCheckpoint

LEMMA EnableDeliveryStep == ASSUME CsvInv, EnableDelivery PROVE CsvInv'
<1>1. Typed' /\ UNCHANGED <<queues, relay, orders, writer, guard, disk, logs>>
  BY EnableDeliveryTypes DEF EnableDelivery
<1>2. /\ coord.at = "enable" /\ coord'.at = "check" /\ coord'.state = coord.state
      /\ coord'.active = coord.active /\ coord'.gap = coord.gap /\ coord'.completed = 0
      /\ coord'.failureGap = coord.failureGap /\ coord'.wasFailed = coord.wasFailed
      /\ delivery'.on = TRUE /\ delivery'.gap = NoGap /\ published' = 0
  BY CsvAssumption DEF CsvInv, Typed, CoordType, EnableDelivery
<1>3. LogOn /\ LogOn' /\ ~coord.active /\ coord.gap = NoGap
  BY <1>2 DEF CsvInv, PlaceInv, LogOn
<1>4. GapInv'
  BY <1>2 DEF GapInv
<1>5. PlaceInv'
  BY <1>1, <1>2, <1>3 DEF CsvInv, PlaceInv, Closing, Creating
<1>6. StateInv'
  <2>1. coord.state = "Starting" \/ coord.state = "Failed"
    BY <1>2 DEF CsvInv, StateInv
  <2> QED BY <1>1, <1>2, <1>3, <2>1 DEF StateInv
<1>7. HealthInv'
  <2>1. ~writer.failed => coord.state # "Failed"
    BY <1>3 DEF CsvInv, HealthInv
  <2> QED BY <1>1, <1>2, <1>3, <2>1 DEF CsvInv, HealthInv, Closing, queues
<1>8. FreshInv'
  BY <1>1, <1>2 DEF CsvInv, FreshInv, File
<1>9. StreamInv'
  <2> SUFFICES ASSUME ~writer.failed PROVE StreamInv'
    BY <1>1 DEF StreamInv
  <2>1. /\ File'.rows = <<>> /\ writer'.rows = <<>> /\ sink' = <<>> /\ relay'.item = NoGap
        /\ source' = <<>> /\ delivery'.gap = NoGap /\ coord'.gap = NoGap
        /\ writer'.samples = 0 /\ writer'.dropped = 0 /\ published' = 0
    BY <1>1, <1>2, <1>3 DEF CsvInv, FreshInv, File, queues
  <2>2. Link(0, <<>>, 0) /\ Link(0, GapSeq(NoGap), 0) /\ 0 \in 0 .. MaxSamples /\ Late' = <<>>
    BY <2>1, LinkEmpty, LinkGap, NoGapIsGap, CsvAssumption DEF Late, GapSeq
  <2>3. \E a, b, c, d, e, f \in 0 .. MaxSamples :
            /\ Link(0, File'.rows, a) /\ Link(a, writer'.rows, b) /\ Link(b, sink', c)
            /\ Link(c, GapSeq(relay'.item), d) /\ Link(d, source', e)
            /\ Link(e, GapSeq(delivery'.gap), f) /\ Link(f, Late', published')
            /\ writer'.samples + writer'.dropped = b
    BY <2>1, <2>2
  <2> QED BY <2>3 DEF StreamInv
<1>10. CompletedInv'
  <2>1. writer.at = "ready"
    BY <1>2, <1>3 DEF CsvInv, PlaceInv
  <2> QED BY <1>1, <1>2, <2>1 DEF CsvInv, CompletedInv
<1> QED BY <1>1, <1>4, <1>5, <1>6, <1>7, <1>8, <1>9, <1>10 DEF CsvInv

LEMMA CheckStartStep == ASSUME CsvInv, CheckStart PROVE CsvInv'
<1>1. /\ Typed' /\ coord.at = "check" /\ UNCHANGED <<published, queues, orders, disk, logs>>
  BY CheckStartTypes DEF CheckStart
<1>2. LogOn /\ ~coord.active /\ coord.gap = NoGap /\ writer.at = "ready" /\ coord.completed = 0
  BY <1>1 DEF CsvInv, PlaceInv, LogOn, CompletedInv
<1>3. CASE /\ coord.state # "Failed" /\ writer.state = "Running"
           /\ coord' = [coord EXCEPT !.at = "idle", !.state = "Running", !.active = TRUE]
           /\ UNCHANGED <<delivery, relay, guard, writer>>
  <2>1. /\ coord'.at = "idle" /\ coord'.state = "Running" /\ coord'.active = TRUE /\ LogOn'
        /\ UNCHANGED <<coord.failureGap, coord.gap, coord.wasFailed, coord.completed>>
    BY <1>3 DEF CsvInv, Typed, CoordType, LogOn
  <2>2. GapInv'
    BY <1>1, <1>3 DEF CsvInv, GapInv
  <2>3. PlaceInv'
    BY <1>1, <1>2, <1>3, <2>1 DEF CsvInv, PlaceInv, Closing, Creating
  <2>4. StateInv'
    <3>1. guard.at = "wait"
      BY <1>2, <1>3 DEF CsvInv, PlaceInv, HealthInv
    <3> QED BY <1>1, <1>2, <1>3, <2>1, <3>1 DEF CsvInv, StateInv
  <2>5. HealthInv'
    BY <1>1, <1>2, <1>3, <2>1 DEF CsvInv, HealthInv, queues
  <2>6. FreshInv'
    BY <1>1, <1>2, <1>3, <2>1 DEF CsvInv, FreshInv, File
  <2>7. StreamInv'
    BY <1>1, <1>2, <1>3, <2>1 DEF CsvInv, StreamInv, File, Late, queues
  <2>8. CompletedInv'
    BY <1>1, <1>2, <1>3, <2>1 DEF CsvInv, CompletedInv
  <2> QED BY <1>1, <2>2, <2>3, <2>4, <2>5, <2>6, <2>7, <2>8 DEF CsvInv
<1>4. CASE /\ coord' = [coord EXCEPT !.at = "idle", !.state = "Failed", !.failureGap = delivery.gap]
           /\ delivery' = NoDelivery
           /\ relay' = [relay EXCEPT !.at = "off"] /\ guard' = AbortedGuard
           /\ writer' = [writer EXCEPT !.at = "off"]
  <2>1. /\ coord'.at = "idle" /\ coord'.state = "Failed" /\ coord'.active = FALSE /\ ~LogOn'
        /\ UNCHANGED <<coord.gap, coord.wasFailed, coord.completed>>
    BY <1>2, <1>4 DEF CsvInv, Typed, CoordType, LogOn
  <2>2. /\ writer'.at = "off" /\ writer'.log = writer.log /\ writer'.failed = writer.failed
        /\ writer'.state = writer.state
    BY <1>4 DEF CsvInv, Typed, WriterTyped, WriterType
  <2>3. relay'.at = "off" /\ guard'.at # "wait" /\ ~delivery'.on /\ delivery'.gap = NoGap
    <3>1. relay'.at = "off"
      BY <1>4 DEF CsvInv, Typed, HandsTyped
    <3> QED BY <1>4, <3>1 DEF AbortedGuard, NoGuard, NoDelivery
  <2>4. GapInv'
    BY <2>3 DEF GapInv
  <2>5. PlaceInv'
    BY <1>2, <2>1, <2>2, <2>3 DEF CsvInv, PlaceInv, Closing, Creating
  <2>6. StateInv'
    BY <1>2, <2>1, <2>2, <2>3 DEF StateInv
  <2>7. HealthInv' /\ StreamInv'
    BY <2>1 DEF HealthInv, StreamInv
  <2>8. FreshInv'
    BY <1>1, <2>1, <2>2 DEF CsvInv, FreshInv
  <2>9. CompletedInv'
    BY <1>1, <1>2, <2>1, <2>2 DEF CsvInv, CompletedInv
  <2> QED BY <1>1, <2>4, <2>5, <2>6, <2>7, <2>8, <2>9 DEF CsvInv
<1> QED BY <1>3, <1>4 DEF CheckStart, StopDelivery

-----------------------------------------------------------------------------
(***************************************************************************)
(* The stop of a log.                                                      *)
(***************************************************************************)
LEMMA StopStep == ASSUME CsvInv, Stop PROVE CsvInv'
<1>1. /\ Typed' /\ coord.at = "idle" /\ coord.active
      /\ UNCHANGED <<delivery, published, queues, relay, orders, writer, guard, disk, logs>>
  BY StopTypes DEF Stop
<1>2. /\ coord'.at = "disable" /\ coord'.active = FALSE /\ coord'.wasFailed = (coord.state = "Failed")
      /\ coord'.state = (IF coord.state = "Failed" THEN "Failed" ELSE "Finalizing")
      /\ UNCHANGED <<coord.failureGap, coord.gap, coord.completed>>
  BY DEF CsvInv, Typed, CoordType, Stop
<1>3. LogOn /\ LogOn' /\ coord.completed = 0
  BY <1>1, <1>2 DEF LogOn, CsvInv, CompletedInv
<1>4. GapInv'
  BY <1>1 DEF CsvInv, GapInv
<1>5. PlaceInv'
  BY <1>1, <1>2, <1>3 DEF CsvInv, PlaceInv, Closing, Creating
<1>6. StateInv'
  BY <1>1, <1>2, <1>3 DEF CsvInv, StateInv
<1>7. HealthInv'
  BY <1>1, <1>2, <1>3 DEF CsvInv, HealthInv, queues
<1>8. FreshInv'
  BY <1>1, <1>2, <1>3 DEF CsvInv, FreshInv, File
<1>9. StreamInv'
  BY <1>1, <1>2, <1>3 DEF CsvInv, StreamInv, File, Late, queues
<1>10. CompletedInv'
  BY <1>1, <1>2, <1>3 DEF CsvInv, CompletedInv, File
<1> QED BY <1>1, <1>4, <1>5, <1>6, <1>7, <1>8, <1>9, <1>10 DEF CsvInv

\* the pending gap is put aside, at the end of the way
LEMMA DisableDeliveryStep == ASSUME CsvInv, DisableDelivery PROVE CsvInv'
<1>1. /\ Typed' /\ coord.at = "disable" /\ UNCHANGED <<published, queues, relay, writer, guard, disk, logs>>
      /\ delivery' = NoDelivery
      /\ orders' = IF relay.at = "done" THEN orders ELSE Append(orders, "Finalize")
  BY DisableDeliveryTypes DEF DisableDelivery, StopDelivery
<1>2. /\ coord'.at = "finalize"
      /\ coord'.gap = (IF delivery.gap # NoGap THEN delivery.gap ELSE coord.failureGap)
      /\ coord'.failureGap = (IF delivery.gap # NoGap THEN coord.failureGap ELSE NoGap)
      /\ UNCHANGED <<coord.state, coord.active, coord.wasFailed, coord.completed>>
  <2> DEFINE g == IF delivery.gap # NoGap THEN delivery.gap ELSE coord.failureGap
             h == IF delivery.gap # NoGap THEN coord.failureGap ELSE NoGap
  <2>1. coord' = [coord EXCEPT !.at = "finalize", !.gap = g, !.failureGap = h]
    BY DEF DisableDelivery
  <2> HIDE DEF g, h
  <2>2. /\ coord'.at = "finalize" /\ coord'.gap = g /\ coord'.failureGap = h
        /\ UNCHANGED <<coord.state, coord.active, coord.wasFailed, coord.completed>>
    BY <2>1 DEF CsvInv, Typed, CoordType
  <2> QED BY <2>2 DEF g, h
<1>3. LogOn /\ LogOn' /\ ~coord.active /\ coord.gap = NoGap /\ writer.at = "ready" /\ coord.completed = 0
      /\ ~delivery'.on /\ delivery'.gap = NoGap
  BY <1>1, <1>2 DEF LogOn, CsvInv, PlaceInv, CompletedInv, NoDelivery
<1>4. GapInv'
  BY <1>3 DEF GapInv
<1>5. PlaceInv'
  BY <1>1, <1>2, <1>3 DEF CsvInv, PlaceInv, Closing, Creating
<1>6. StateInv'
  BY <1>1, <1>2, <1>3 DEF CsvInv, StateInv
<1>7. HealthInv'
  <2> SUFFICES ASSUME ~writer.failed PROVE HealthInv'
    BY <1>1 DEF HealthInv
  <2>1. /\ guard.at = "wait" /\ coord.state # "Failed" /\ coord.failureGap = NoGap
        /\ orders = <<>> /\ relay.at \in {"run", "send"}
        /\ relay.at # "send" => relay.item = NoGap
        /\ writer.state = "Running"
    BY <1>1, <1>3 DEF CsvInv, HealthInv
  <2>2. orders' = <<"Finalize">>
    BY <1>1, <2>1
  <2>3. \A i \in DOMAIN orders' : orders'[i] = "Finalize"
    BY <2>2
  <2> QED BY <1>1, <1>2, <1>3, <2>1, <2>3 DEF HealthInv, Closing
<1>8. FreshInv'
  BY <1>1, <1>2, <1>3 DEF CsvInv, FreshInv, File
<1>9. StreamInv'
  <2> SUFFICES ASSUME ~writer.failed PROVE StreamInv'
    BY <1>1 DEF StreamInv
  <2>1. PICK a, b, c, d, e, f \in 0 .. MaxSamples :
            /\ Link(0, File.rows, a) /\ Link(a, writer.rows, b) /\ Link(b, sink, c)
            /\ Link(c, GapSeq(relay.item), d) /\ Link(d, source, e)
            /\ Link(e, GapSeq(delivery.gap), f) /\ Link(f, Late, published)
            /\ writer.samples + writer.dropped = b
    BY <1>1, <1>3 DEF CsvInv, StreamInv
  <2>2. f = published
    BY <1>3, <2>1 DEF Late, GapSeq, Link, End
  <2>3. coord'.gap = delivery.gap
    BY <1>2, <1>3 DEF CsvInv, HealthInv
  <2>4. Late' = GapSeq(delivery.gap)
    BY <1>1, <1>3, <2>3 DEF Late
  <2>5. Link(e, GapSeq(delivery'.gap), e)
    BY <1>3, LinkGap, NoGapIsGap
  <2>6. \E x, y, z, d2, e2, f2 \in 0 .. MaxSamples :
            /\ Link(0, File'.rows, x) /\ Link(x, writer'.rows, y) /\ Link(y, sink', z)
            /\ Link(z, GapSeq(relay'.item), d2) /\ Link(d2, source', e2)
            /\ Link(e2, GapSeq(delivery'.gap), f2) /\ Link(f2, Late', published')
            /\ writer'.samples + writer'.dropped = y
    <3>1. File'.rows = File.rows /\ writer' = writer /\ sink' = sink /\ relay' = relay /\ source' = source
          /\ published' = published
      BY <1>1 DEF File, queues
    <3> QED BY <2>1, <2>2, <2>4, <2>5, <3>1
  <2> QED BY <2>6 DEF StreamInv
<1>10. CompletedInv'
  BY <1>1, <1>2, <1>3 DEF CsvInv, CompletedInv, File
<1> QED BY <1>1, <1>4, <1>5, <1>6, <1>7, <1>8, <1>9, <1>10 DEF CsvInv

LEMMA AwaitRelayStep == ASSUME CsvInv, AwaitRelay PROVE CsvInv'
<1>1. /\ Typed' /\ coord.at = "finalize" /\ relay.at = "done"
      /\ UNCHANGED <<delivery, published, queues, relay, orders, guard, disk, logs>>
  BY AwaitRelayTypes DEF AwaitRelay
<1>2. /\ coord'.at = "stopping"
      /\ UNCHANGED <<coord.state, coord.active, coord.wasFailed, coord.completed, coord.gap, coord.failureGap>>
  BY DEF CsvInv, Typed, CoordType, AwaitRelay
<1>3. LogOn /\ LogOn' /\ ~coord.active /\ writer.at = "ready" /\ coord.completed = 0
  BY <1>1, <1>2 DEF LogOn, CsvInv, PlaceInv, CompletedInv
<1>4. /\ writer'.at = "stop" /\ writer'.log = writer.log /\ writer'.state = writer.state
      /\ writer'.failed = writer.failed /\ writer'.rows = writer.rows
      /\ writer'.samples = writer.samples /\ writer'.dropped = writer.dropped
  BY DEF CsvInv, Typed, WriterTyped, WriterType, AwaitRelay
<1>5. GapInv'
  BY <1>1 DEF CsvInv, GapInv
<1>6. PlaceInv'
  BY <1>1, <1>2, <1>3, <1>4 DEF CsvInv, PlaceInv, Closing, Creating
<1>7. StateInv'
  BY <1>1, <1>2, <1>3 DEF CsvInv, StateInv
<1>8. HealthInv'
  BY <1>1, <1>2, <1>3, <1>4 DEF CsvInv, HealthInv, queues, Closing
<1>9. FreshInv'
  BY <1>1, <1>2, <1>3, <1>4 DEF CsvInv, FreshInv, File
<1>10. StreamInv'
  <2>1. Late' = Late /\ File' = File
    BY <1>1, <1>2, <1>3, <1>4 DEF Late, File
  <2> QED BY <1>1, <1>2, <1>3, <1>4, <2>1 DEF CsvInv, StreamInv, queues
<1>11. CompletedInv'
  BY <1>1, <1>2, <1>3, <1>4 DEF CsvInv, CompletedInv, File
<1> QED BY <1>1, <1>5, <1>6, <1>7, <1>8, <1>9, <1>10, <1>11 DEF CsvInv

\* a log that comes to its end without a failure has counted every sample
LEMMA AnsweredCounts ==
    ASSUME CsvInv, coord.at = "stopping", writer.at = "answered", ~writer.failed
    PROVE  /\ File.sidecar.samples + File.sidecar.dropped = published
           /\ writer.log \in 1 .. MaxLogs /\ writer.log <= logs
<1>1. LogOn
  BY DEF LogOn
<1>2. PICK a, b, c, d, e, f \in 0 .. MaxSamples :
            /\ Link(0, File.rows, a) /\ Link(a, writer.rows, b) /\ Link(b, sink, c)
            /\ Link(c, GapSeq(relay.item), d) /\ Link(d, source, e)
            /\ Link(e, GapSeq(delivery.gap), f) /\ Link(f, Late, published)
            /\ writer.samples + writer.dropped = b
  BY <1>1 DEF CsvInv, StreamInv
<1>3. b = c
  BY <1>1, <1>2 DEF CsvInv, HealthInv, Closing, Link, End
<1>4. c = f
  BY <1>2, NothingBehind
<1>5. f = published
  BY <1>2 DEF Late, Link, End
<1>6. Typing
  BY InLog DEF CsvInv
<1> QED BY <1>1, <1>2, <1>3, <1>4, <1>5, <1>6 DEF CsvInv, CompletedInv, Typing

LEMMA StopReturnsStep == ASSUME CsvInv, StopReturns PROVE CsvInv'
<1> DEFINE ok == writer.state = "Completed" /\ ~coord.wasFailed
           state == IF ok THEN "Idle" ELSE "Failed"
           completed == IF ok THEN writer.log ELSE 0
<1>1. /\ Typed' /\ coord.at = "stopping" /\ writer.at = "answered"
      /\ guard' = AbortedGuard /\ relay' = NoRelay /\ writer' = NoWriter /\ sink' = <<>>
      /\ UNCHANGED <<delivery, published, source, disk, logs>>
  BY StopReturnsTypes DEF StopReturns
<1>2. /\ coord'.at = "idle" /\ coord'.gap = NoGap /\ coord'.state = state /\ coord'.completed = completed
      /\ coord'.active = coord.active
  <2>1. coord' = [coord EXCEPT !.at = "idle", !.gap = NoGap, !.state = state, !.completed = completed]
    BY DEF StopReturns
  <2> HIDE DEF state, completed
  <2> QED BY <2>1 DEF CsvInv, Typed, CoordType
<1>3. LogOn /\ ~coord.active /\ ~LogOn'
  BY <1>1, <1>2 DEF LogOn, CsvInv, PlaceInv
<1>4. relay'.at = "off" /\ guard'.at # "wait" /\ (guard'.at = "store" => guard.at = "store")
  BY <1>1 DEF AbortedGuard, NoGuard, NoRelay
<1>5. ok => ~writer.failed
  BY DEF CsvInv, PlaceInv
<1>6. ~delivery.on
  <2>1. coord.at = "stopping" => ~delivery.on
    BY <1>3 DEF CsvInv, PlaceInv
  <2> QED BY <1>1, <2>1
<1>7. GapInv'
  BY <1>1 DEF CsvInv, GapInv
<1>8. PlaceInv'
  BY <1>1, <1>2, <1>3, <1>4, <1>6, Blank DEF PlaceInv, Closing, Creating
<1>9. StateInv'
  <2>1. guard.at = "store" => ~ok
    <3>1. ~writer.failed => guard.at = "wait"
      BY <1>3 DEF CsvInv, HealthInv
    <3> QED BY <1>5, <3>1
  <2> QED BY <1>1, <1>2, <1>3, <1>4, <1>6, <2>1 DEF StateInv
<1>10. HealthInv' /\ StreamInv'
  BY <1>3 DEF HealthInv, StreamInv
<1>11. FreshInv'
  <2>1. ok => source = <<>>
    BY <1>1, <1>5, NothingBehind
  <2> QED BY <1>1, <1>2, <2>1, Blank DEF CsvInv, FreshInv
<1>12. CompletedInv'
  <2>1. 0 <= logs
    BY DEF CsvInv, Typed, CountsTyped
  <2>2. CASE ok
    <3>1. /\ File.sidecar.samples + File.sidecar.dropped = published
          /\ writer.log \in 1 .. MaxLogs /\ writer.log <= logs
      BY <1>1, <1>5, <2>2, AnsweredCounts
    <3> QED BY <1>1, <1>2, <1>3, <2>1, <2>2, <3>1, Blank DEF CompletedInv, File
  <2>3. CASE ~ok
    BY <1>1, <1>2, <1>3, <2>1, <2>3, Blank DEF CompletedInv
  <2> QED BY <2>2, <2>3
<1> QED BY <1>1, <1>7, <1>8, <1>9, <1>10, <1>11, <1>12 DEF CsvInv

LEMMA DropCoordinatorStep == ASSUME CsvInv, DropCoordinator PROVE CsvInv'
<1>1. /\ Typed' /\ coord.at = "idle" /\ UNCHANGED <<published, disk, logs>>
      /\ delivery' = NoDelivery /\ coord' = [NewCoordinator EXCEPT !.at = "gone"]
      /\ source' = <<>> /\ relay' = NoRelay /\ guard' = NoGuard
      /\ writer' = IF coord.active THEN [writer EXCEPT !.at = "shutdown"] ELSE NoWriter
  BY DropCoordinatorTypes DEF DropCoordinator, StopDelivery
<1>2. /\ coord'.at = "gone" /\ coord'.active = FALSE /\ coord'.state = "Idle" /\ coord'.gap = NoGap
      /\ coord'.completed = 0 /\ ~LogOn' /\ ~delivery'.on /\ delivery'.gap = NoGap
      /\ relay'.at = "off" /\ guard'.at = "off"
  BY <1>1 DEF NewCoordinator, LogOn, NoDelivery, NoRelay, NoGuard
<1>3. /\ writer'.at \in {"off", "shutdown"} /\ (writer'.failed <=> writer'.state = "Failed")
      /\ writer'.log <= logs /\ (writer'.at = "shutdown" => File'.made)
  <2>1. CASE coord.active
    <3>1. /\ writer'.at = "shutdown" /\ writer'.log = writer.log /\ writer'.failed = writer.failed
          /\ writer'.state = writer.state
      BY <1>1, <2>1 DEF CsvInv, Typed, WriterTyped, WriterType
    <3>2. writer.at = "ready"
      BY <1>1, <2>1 DEF CsvInv, PlaceInv, LogOn
    <3> QED BY <1>1, <3>1, <3>2 DEF CsvInv, PlaceInv, CompletedInv, FreshInv, File
  <2>2. CASE ~coord.active
    <3>1. 0 <= logs
      BY DEF CsvInv, Typed, CountsTyped
    <3> QED BY <1>1, <2>2, <3>1, Blank
  <2> QED BY <2>1, <2>2
<1>4. GapInv' /\ PlaceInv' /\ StateInv' /\ HealthInv' /\ StreamInv'
  BY <1>2, <1>3 DEF GapInv, PlaceInv, StateInv, HealthInv, StreamInv, Creating, Closing
<1>5. FreshInv'
  BY <1>1, <1>2, <1>3 DEF CsvInv, FreshInv
<1>6. CompletedInv'
  BY <1>1, <1>2, <1>3 DEF CompletedInv
<1> QED BY <1>1, <1>4, <1>5, <1>6 DEF CsvInv

LEMMA RestartStep == ASSUME CsvInv, Restart PROVE CsvInv'
<1>1. /\ Typed' /\ delivery' = NoDelivery /\ source' = <<>> /\ relay' = NoRelay /\ guard' = NoGuard
      /\ writer' = NoWriter /\ coord' = NewCoordinator /\ logs' = 0
  BY RestartTypes DEF Restart
<1>2. /\ coord'.at = "idle" /\ coord'.active = FALSE /\ coord'.state = "Idle" /\ coord'.gap = NoGap
      /\ coord'.completed = 0 /\ ~LogOn' /\ ~delivery'.on /\ delivery'.gap = NoGap
      /\ relay'.at = "off" /\ guard'.at = "off"
  BY <1>1 DEF NewCoordinator, LogOn, NoDelivery, NoRelay, NoGuard
<1>3. GapInv' /\ PlaceInv' /\ StateInv' /\ HealthInv' /\ StreamInv'
  BY <1>1, <1>2, Blank DEF GapInv, PlaceInv, StateInv, HealthInv, StreamInv, Creating, Closing
<1>4. \A l \in 1 .. MaxLogs : ~disk'[l].made => disk'[l].rows = <<>>
  <2>1. PICK keep \in [1 .. MaxLogs -> 0 .. MaxSamples] :
          /\ \A l \in 1 .. MaxLogs : keep[l] \in disk[l].synced .. Len(disk[l].rows)
          /\ disk' = [l \in 1 .. MaxLogs |->
                        [disk[l] EXCEPT !.rows = SubSeq(@, 1, keep[l]), !.synced = keep[l]]]
    BY DEF Restart
  <2> SUFFICES ASSUME NEW l \in 1 .. MaxLogs, ~disk'[l].made PROVE disk'[l].rows = <<>>
    OBVIOUS
  <2> DEFINE k == keep[l]
             rows == SubSeq(disk[l].rows, 1, k)
  <2>2. disk'[l] = [disk[l] EXCEPT !.rows = rows, !.synced = k]
    BY <2>1
  <2>3. disk[l] \in FileType
    BY DEF CsvInv, Typed, WriterTyped
  <2>4. disk'[l].made = disk[l].made /\ disk'[l].rows = rows
    <3> HIDE DEF rows, k
    <3> QED BY <2>2, <2>3 DEF FileType
  <2>5. disk[l].rows = <<>>
    BY <2>4 DEF CsvInv, FreshInv
  <2>6. k = 0
    <3>1. keep[l] \in disk[l].synced .. Len(disk[l].rows) /\ disk[l].synced \in Nat
      BY <2>1, <2>3 DEF FileType
    <3> QED BY <2>5, <3>1
  <2>7. SubSeq(<<>>, 1, 0) = <<>>
    OBVIOUS
  <2> QED BY <2>4, <2>5, <2>6, <2>7
<1>5. FreshInv'
  BY <1>1, <1>2, <1>4, Blank DEF FreshInv
<1>6. CompletedInv'
  BY <1>1, <1>2, Blank DEF CompletedInv
<1> QED BY <1>1, <1>3, <1>5, <1>6 DEF CsvInv

-----------------------------------------------------------------------------
(***************************************************************************)
(* Publication, guard and relay.                                           *)
(***************************************************************************)
LEMMA PublishStep == ASSUME CsvInv, Publish PROVE CsvInv'
<1> DEFINE n == published + 1
           P == Published(n)
<1>1. /\ Typed' /\ delivery.on /\ published < MaxSamples /\ published' = n
      /\ source' = source \o P.items
      /\ UNCHANGED <<relay, orders, sink, writer, guard, coord, disk, logs>>
  BY PublishTypes DEF Publish
<1>2. delivery'.on = TRUE /\ delivery'.gap = P.gap
  BY DEF Publish, CsvInv, Typed, HandsTyped
<1>3. /\ P.gap \in Gaps /\ P.items \in Seq(Records)
      /\ P.gap # NoGap =>
            P.gap.kind = "gap" /\ P.gap.to = n /\ P.gap.count = P.gap.to - P.gap.from + 1
      /\ \A e \in 0 .. MaxSamples : Link(e, GapSeq(delivery.gap), published) =>
            \E e2 \in 0 .. MaxSamples : Link(e, P.items, e2) /\ Link(e2, GapSeq(P.gap), n)
  BY <1>1, PublishedHas DEF CsvInv
<1>4. /\ LogOn /\ LogOn' /\ coord.gap = NoGap /\ coord.completed = 0
      /\ coord.at \in {"check", "disable", "idle"} /\ (coord.at = "idle" => coord.active)
      /\ coord.at \notin {"starting", "enable"}
  <2>1. coord.at \in {"check", "disable"} \/ coord.active
    BY <1>1 DEF CsvInv, PlaceInv
  <2> QED BY <1>1, <2>1 DEF CsvInv, PlaceInv, LogOn, CompletedInv, StateInv
<1> HIDE DEF n, P
<1>5. GapInv'
  BY <1>1, <1>2, <1>3 DEF GapInv
<1>6. PlaceInv'
  BY <1>1, <1>2, <1>4 DEF CsvInv, PlaceInv
<1>7. StateInv'
  BY <1>1, <1>2, <1>4 DEF CsvInv, StateInv
<1>8. HealthInv'
  <2>1. relay.at # "done" \/ writer.failed
    BY <1>4 DEF CsvInv, HealthInv
  <2> QED BY <1>1, <1>2, <1>4, <2>1 DEF CsvInv, HealthInv
<1>9. FreshInv'
  BY <1>1, <1>4 DEF CsvInv, FreshInv, File
<1>10. StreamInv'
  <2> SUFFICES ASSUME ~writer.failed PROVE StreamInv'
    BY <1>1 DEF StreamInv
  <2>1. PICK a, b, c, d, e, f \in 0 .. MaxSamples :
            /\ Link(0, File.rows, a) /\ Link(a, writer.rows, b) /\ Link(b, sink, c)
            /\ Link(c, GapSeq(relay.item), d) /\ Link(d, source, e)
            /\ Link(e, GapSeq(delivery.gap), f) /\ Link(f, Late, published)
            /\ writer.samples + writer.dropped = b
    BY <1>4 DEF CsvInv, StreamInv
  <2>2. Late = <<>> /\ Late' = <<>>
    BY <1>1, <1>4 DEF Late, GapSeq
  <2>3. f = published
    BY <2>1, <2>2 DEF Link, End
  <2>4. PICK e2 \in 0 .. MaxSamples : Link(e, P.items, e2) /\ Link(e2, GapSeq(P.gap), n)
    BY <1>3, <2>1, <2>3
  <2>5. Link(d, source', e2)
    <3>1. source \in Seq(Records)
      BY DEF CsvInv, Typed, QueuesTyped
    <3> QED BY <1>1, <1>3, <2>1, <2>4, <3>1, LinkCat
  <2>6. n \in 0 .. MaxSamples /\ Link(n, <<>>, n)
    BY <1>1, LinkEmpty DEF Typed, CountsTyped
  <2>7. \E x, y, z, d2, e3, f2 \in 0 .. MaxSamples :
            /\ Link(0, File'.rows, x) /\ Link(x, writer'.rows, y) /\ Link(y, sink', z)
            /\ Link(z, GapSeq(relay'.item), d2) /\ Link(d2, source', e3)
            /\ Link(e3, GapSeq(delivery'.gap), f2) /\ Link(f2, Late', published')
            /\ writer'.samples + writer'.dropped = y
    <3>1. File'.rows = File.rows /\ writer' = writer /\ sink' = sink /\ relay' = relay
      BY <1>1 DEF File
    <3> QED BY <1>1, <1>2, <2>1, <2>2, <2>4, <2>5, <2>6, <3>1
  <2> QED BY <2>7 DEF StreamInv
<1>11. CompletedInv'
  BY <1>1, <1>4 DEF CsvInv, CompletedInv, File
<1> QED BY <1>1, <1>5, <1>6, <1>7, <1>8, <1>9, <1>10, <1>11 DEF CsvInv

\* the guard acts when the writer has failed
LEMMA GuardStopsStep == ASSUME CsvInv, GuardStops PROVE CsvInv'
<1>1. /\ Typed' /\ guard.at = "wait" /\ writer.failed
      /\ delivery' = NoDelivery /\ guard'.at = "store"
      /\ UNCHANGED <<published, queues, relay, orders, writer, coord, disk, logs>>
  BY GuardStopsTypes DEF GuardStops, StopDelivery, CsvInv, PlaceInv
<1>2. LogOn /\ LogOn' /\ ~delivery'.on /\ delivery'.gap = NoGap
  BY <1>1 DEF CsvInv, PlaceInv, LogOn, NoDelivery
<1>3. GapInv'
  BY <1>2 DEF GapInv
<1>4. PlaceInv'
  BY <1>1, <1>2 DEF CsvInv, PlaceInv
<1>5. StateInv'
  BY <1>1, <1>2 DEF CsvInv, StateInv
<1>6. HealthInv' /\ StreamInv'
  BY <1>1 DEF HealthInv, StreamInv
<1>7. FreshInv'
  BY <1>1, <1>2 DEF CsvInv, FreshInv, File, queues
<1>8. CompletedInv'
  BY <1>1, <1>2 DEF CsvInv, CompletedInv, File
<1> QED BY <1>1, <1>3, <1>4, <1>5, <1>6, <1>7, <1>8 DEF CsvInv

LEMMA GuardStoresStep == ASSUME CsvInv, GuardStores PROVE CsvInv'
<1>1. /\ Typed' /\ guard.at = "store" /\ guard'.at = "done"
      /\ UNCHANGED <<delivery, published, queues, relay, writer, disk, logs>>
  BY GuardStoresTypes DEF GuardStores
<1>2. /\ coord'.state = "Failed"
      /\ UNCHANGED <<coord.at, coord.active, coord.gap, coord.wasFailed, coord.completed>>
  BY DEF CsvInv, Typed, CoordType, GuardStores
<1>3. LogOn' = LogOn /\ (coord.state = "Failed" \/ LogOn) /\ (LogOn => writer.failed)
  <2>1. coord.state = "Failed" \/ LogOn
    BY <1>1 DEF CsvInv, StateInv
  <2>2. LogOn => writer.failed
    BY <1>1 DEF CsvInv, HealthInv
  <2> QED BY <1>2, <2>1, <2>2 DEF LogOn
<1>4. coord.at \notin {"enable", "check"} => ~delivery.on
  BY <1>1 DEF CsvInv, StateInv
<1>11. coord.at \notin {"gone", "starting"}
  BY <1>3 DEF CsvInv, StateInv, PlaceInv, LogOn
<1>5. GapInv'
  BY <1>1 DEF CsvInv, GapInv
<1>6. PlaceInv'
  BY <1>1, <1>2, <1>3 DEF CsvInv, PlaceInv
<1>7. StateInv'
  BY <1>1, <1>2, <1>3, <1>4, <1>11 DEF CsvInv, StateInv
<1>8. HealthInv' /\ StreamInv'
  BY <1>1, <1>3 DEF HealthInv, StreamInv
<1>9. FreshInv'
  BY <1>1, <1>2, <1>3, <1>11 DEF CsvInv, FreshInv, File, queues
<1>10. CompletedInv'
  BY <1>1, <1>2, <1>3 DEF CsvInv, CompletedInv, File
<1> QED BY <1>1, <1>5, <1>6, <1>7, <1>8, <1>9, <1>10 DEF CsvInv

LEMMA RelayObeysStep == ASSUME CsvInv, RelayObeys PROVE CsvInv'
<1>1. /\ Typed' /\ relay.at = "run" /\ orders # <<>> /\ orders' = Tail(orders)
      /\ UNCHANGED <<delivery, published, queues, writer, guard, coord, disk, logs>>
  BY RelayObeysTypes DEF RelayObeys
<1>2. /\ relay'.at = (IF Head(orders) = "Finalize" THEN "drain" ELSE "discard")
      /\ relay'.item = relay.item
  BY DEF CsvInv, Typed, HandsTyped, RelayObeys
<1>3. LogOn /\ LogOn' = LogOn /\ coord.at # "stopping"
  BY <1>1 DEF CsvInv, PlaceInv, LogOn
<1>4. GapInv'
  BY <1>1 DEF CsvInv, GapInv
<1>5. PlaceInv'
  BY <1>1, <1>2, <1>3 DEF CsvInv, PlaceInv
<1>6. StateInv'
  BY <1>1, <1>3 DEF CsvInv, StateInv
<1>7. HealthInv'
  <2> SUFFICES ASSUME ~writer.failed PROVE HealthInv'
    BY <1>1 DEF HealthInv
  <2>1. /\ guard.at = "wait" /\ coord.state # "Failed" /\ coord.failureGap = NoGap
        /\ \A i \in DOMAIN orders : orders[i] = "Finalize"
        /\ coord.at \in {"finalize", "stopping"} /\ ~delivery.on /\ relay.item = NoGap
        /\ writer.state = IF writer.at = "answered" THEN "Completed" ELSE "Running"
        /\ writer.at \in Closing => sink = <<>>
        /\ writer.at \in Closing \ {"finalize"} => writer.rows = <<>>
    BY <1>1, <1>3 DEF CsvInv, HealthInv
  <2>2. orders \in Seq({"Finalize", "Abort"})
    BY DEF CsvInv, Typed, QueuesTyped
  <2>3. Head(orders) = "Finalize" /\ \A i \in DOMAIN orders' : orders'[i] = "Finalize"
    <3>1. Len(orders) \in Nat \ {0} /\ DOMAIN orders = 1 .. Len(orders) /\ Head(orders) = orders[1]
      BY <1>1, <2>2
    <3>2. /\ Tail(orders) \in Seq({"Finalize", "Abort"}) /\ Len(Tail(orders)) = Len(orders) - 1
          /\ \A i \in 1 .. Len(orders) - 1 : Tail(orders)[i] = orders[i + 1]
      BY <1>1, <2>2
    <3>3. DOMAIN Tail(orders) = 1 .. Len(orders) - 1
      <4>1. \A v \in Seq({"Finalize", "Abort"}) : DOMAIN v = 1 .. Len(v)
        OBVIOUS
      <4> QED BY <3>2, <4>1
    <3>4. \A i \in 1 .. Len(orders) - 1 : i + 1 \in 1 .. Len(orders)
      BY <3>1
    <3> QED BY <1>1, <2>1, <3>1, <3>2, <3>3, <3>4
  <2> QED BY <1>1, <1>2, <2>1, <2>3 DEF HealthInv, queues
<1>8. FreshInv'
  BY <1>1, <1>2, <1>3 DEF CsvInv, FreshInv, File, queues
<1>9. StreamInv'
  BY <1>1, <1>2, <1>3 DEF CsvInv, StreamInv, File, Late, queues
<1>10. CompletedInv'
  BY <1>1, <1>3 DEF CsvInv, CompletedInv, File
<1> QED BY <1>1, <1>4, <1>5, <1>6, <1>7, <1>8, <1>9, <1>10 DEF CsvInv

\* the first of the source goes into the relay's hands
LEMMA RelayTakesStep == ASSUME CsvInv, RelayTakes PROVE CsvInv'
<1> DEFINE r == Head(source)
<1>1. /\ Typed' /\ source # <<>> /\ source' = Tail(source)
      /\ UNCHANGED <<delivery, published, orders, sink, writer, guard, coord, disk, logs>>
      /\ \/ relay.at = "run" /\ orders = <<>> /\ relay' = [at |-> "send", item |-> r]
         \/ relay.at = "drain" /\ relay' = [at |-> "drain_send", item |-> r]
         \/ relay.at = "discard" /\ relay' = relay
  BY RelayTakesTypes DEF RelayTakes
<1>2. LogOn /\ LogOn' = LogOn /\ coord.at \notin {"stopping", "enable", "starting"}
      /\ (coord.at = "idle" => coord.active)
  BY <1>1 DEF CsvInv, PlaceInv, LogOn, FreshInv
<1>3. GapInv'
  BY <1>1 DEF CsvInv, GapInv
<1>4. PlaceInv'
  BY <1>1, <1>2 DEF CsvInv, PlaceInv
<1>5. StateInv'
  BY <1>1, <1>2 DEF CsvInv, StateInv
<1>6. HealthInv'
  BY <1>1, <1>2 DEF CsvInv, HealthInv
<1>7. FreshInv'
  BY <1>1, <1>2 DEF CsvInv, FreshInv, File
<1>8. StreamInv'
  <2> SUFFICES ASSUME ~writer.failed PROVE StreamInv'
    BY <1>1 DEF StreamInv
  <2>1. PICK a, b, c, d, e, f \in 0 .. MaxSamples :
            /\ Link(0, File.rows, a) /\ Link(a, writer.rows, b) /\ Link(b, sink, c)
            /\ Link(c, GapSeq(relay.item), d) /\ Link(d, source, e)
            /\ Link(e, GapSeq(delivery.gap), f) /\ Link(f, Late, published)
            /\ writer.samples + writer.dropped = b
    BY <1>2 DEF CsvInv, StreamInv
  <2>2. relay.item = NoGap /\ relay'.item = r
    BY <1>1, <1>2 DEF CsvInv, HealthInv
  <2>3. c = d
    BY <2>1, <2>2, LinkGap, NoGapIsGap
  <2>4. r \in Records /\ Follows(r, d) /\ Link(r.to, source', e)
    <3>1. source \in Seq(Records)
      BY DEF CsvInv, Typed, QueuesTyped
    <3> QED BY <1>1, <2>1, <3>1, LinkTail
  <2> HIDE DEF r
  <2>5. r.to \in 0 .. MaxSamples /\ r # NoGap /\ r \in Gaps
    BY <2>4, CsvAssumption DEF Records, NoGap, Gaps
  <2>6. Link(c, GapSeq(r), r.to)
    BY <2>3, <2>4, <2>5, LinkGap
  <2>7. \E x, y, z, d2, e2, f2 \in 0 .. MaxSamples :
            /\ Link(0, File'.rows, x) /\ Link(x, writer'.rows, y) /\ Link(y, sink', z)
            /\ Link(z, GapSeq(relay'.item), d2) /\ Link(d2, source', e2)
            /\ Link(e2, GapSeq(delivery'.gap), f2) /\ Link(f2, Late', published')
            /\ writer'.samples + writer'.dropped = y
    <3>1. File'.rows = File.rows /\ writer' = writer /\ sink' = sink /\ delivery' = delivery
          /\ published' = published /\ Late' = Late
      BY <1>1 DEF File, Late
    <3> QED BY <2>1, <2>2, <2>4, <2>5, <2>6, <3>1
  <2> QED BY <2>7 DEF StreamInv
<1>9. CompletedInv'
  BY <1>1, <1>2 DEF CsvInv, CompletedInv, File
<1> QED BY <1>1, <1>3, <1>4, <1>5, <1>6, <1>7, <1>8, <1>9 DEF CsvInv

\* and from there into the writer's queue
LEMMA RelaySendsStep == ASSUME CsvInv, RelaySends PROVE CsvInv'
<1>1. /\ Typed' /\ relay.at \in {"send", "drain_send"} /\ sink' = Append(sink, relay.item)
      /\ relay'.at = (IF relay.at = "send" THEN "run" ELSE "drain") /\ relay'.item = NoGap
      /\ relay.item \in Records
      /\ UNCHANGED <<delivery, published, source, orders, writer, guard, coord, disk, logs>>
  BY RelaySendsTypes DEF RelaySends, CsvInv, Typed, HandsTyped
<1>2. LogOn /\ LogOn' = LogOn /\ coord.at # "stopping" /\ writer.at = "ready"
  BY <1>1 DEF CsvInv, PlaceInv, LogOn
<1>3. coord.at # "starting" /\ (coord.at = "enable" => writer.failed)
  <2>1. relay.item # NoGap
    BY <1>1, CsvAssumption DEF Records, NoGap
  <2> QED BY <1>1, <1>2, <2>1 DEF CsvInv, FreshInv, PlaceInv, Creating
<1>4. GapInv'
  BY <1>1 DEF CsvInv, GapInv
<1>5. PlaceInv'
  BY <1>1, <1>2 DEF CsvInv, PlaceInv
<1>6. StateInv'
  BY <1>1, <1>2 DEF CsvInv, StateInv
<1>7. HealthInv'
  <2> SUFFICES ASSUME ~writer.failed PROVE HealthInv'
    BY <1>1 DEF HealthInv
  <2>1. /\ guard.at = "wait" /\ coord.state # "Failed" /\ coord.failureGap = NoGap
        /\ relay.at \in {"run", "send", "drain", "drain_send", "done"}
        /\ \A i \in DOMAIN orders : orders[i] = "Finalize"
        /\ coord.at \notin {"finalize", "stopping"} => orders = <<>> /\ relay.at \in {"run", "send"}
        /\ coord.at \in {"finalize", "stopping"} => ~delivery.on
        /\ writer.state = "Running"
    BY <1>2 DEF CsvInv, HealthInv
  <2> QED BY <1>1, <1>2, <2>1 DEF HealthInv, Closing
<1>8. FreshInv'
  BY <1>1, <1>2, <1>3 DEF CsvInv, FreshInv, File
<1>9. StreamInv'
  <2> SUFFICES ASSUME ~writer.failed PROVE StreamInv'
    BY <1>1 DEF StreamInv
  <2>1. PICK a, b, c, d, e, f \in 0 .. MaxSamples :
            /\ Link(0, File.rows, a) /\ Link(a, writer.rows, b) /\ Link(b, sink, c)
            /\ Link(c, GapSeq(relay.item), d) /\ Link(d, source, e)
            /\ Link(e, GapSeq(delivery.gap), f) /\ Link(f, Late, published)
            /\ writer.samples + writer.dropped = b
    BY <1>2, <1>3 DEF CsvInv, StreamInv
  <2>2. Follows(relay.item, c) /\ d = relay.item.to
    <3>1. relay.item # NoGap /\ relay.item \in Gaps
      BY <1>1, CsvAssumption DEF Records, NoGap, Gaps
    <3> QED BY <2>1, <3>1, LinkGap
  <2>3. Link(b, sink', d)
    <3>1. sink \in Seq(Records)
      BY DEF CsvInv, Typed, QueuesTyped
    <3> QED BY <1>1, <2>1, <2>2, <3>1, LinkAppend
  <2>4. Link(d, GapSeq(relay'.item), d)
    BY <1>1, LinkGap, NoGapIsGap
  <2>5. \E x, y, z, d2, e2, f2 \in 0 .. MaxSamples :
            /\ Link(0, File'.rows, x) /\ Link(x, writer'.rows, y) /\ Link(y, sink', z)
            /\ Link(z, GapSeq(relay'.item), d2) /\ Link(d2, source', e2)
            /\ Link(e2, GapSeq(delivery'.gap), f2) /\ Link(f2, Late', published')
            /\ writer'.samples + writer'.dropped = y
    <3>1. File'.rows = File.rows /\ writer' = writer /\ source' = source /\ delivery' = delivery
          /\ published' = published /\ Late' = Late
      BY <1>1 DEF File, Late
    <3> QED BY <2>1, <2>3, <2>4, <3>1
  <2> QED BY <2>5 DEF StreamInv
<1>10. CompletedInv'
  BY <1>1, <1>2 DEF CsvInv, CompletedInv, File
<1> QED BY <1>1, <1>4, <1>5, <1>6, <1>7, <1>8, <1>9, <1>10 DEF CsvInv

LEMMA RelayEndsStep == ASSUME CsvInv, RelayEnds PROVE CsvInv'
<1>1. /\ Typed' /\ relay.at \in {"drain", "discard"} /\ source = <<>>
      /\ relay'.at = "done" /\ relay'.item = relay.item
      /\ UNCHANGED <<delivery, published, queues, orders, writer, guard, coord, disk, logs>>
  BY RelayEndsTypes DEF RelayEnds, CsvInv, Typed, HandsTyped
<1>2. LogOn /\ LogOn' = LogOn /\ coord.at # "stopping"
  BY <1>1 DEF CsvInv, PlaceInv, LogOn
<1>3. GapInv'
  BY <1>1 DEF CsvInv, GapInv
<1>4. PlaceInv'
  BY <1>1, <1>2 DEF CsvInv, PlaceInv
<1>5. StateInv'
  BY <1>1, <1>2 DEF CsvInv, StateInv
<1>6. HealthInv'
  BY <1>1, <1>2 DEF CsvInv, HealthInv, queues
<1>7. FreshInv'
  BY <1>1, <1>2 DEF CsvInv, FreshInv, File, queues
<1>8. StreamInv'
  BY <1>1, <1>2 DEF CsvInv, StreamInv, File, Late, queues
<1>9. CompletedInv'
  BY <1>1, <1>2 DEF CsvInv, CompletedInv, File
<1> QED BY <1>1, <1>3, <1>4, <1>5, <1>6, <1>7, <1>8, <1>9 DEF CsvInv

-----------------------------------------------------------------------------
(***************************************************************************)
(* A flush and what it has still to update.                                *)
(***************************************************************************)
LEMMA FlushBegins ==
    ASSUME NEW w \in WriterType, w.flush = "none", w.at \in {"ready", "stop", "finalize"}, ~w.failed,
           \/ Counted(w)
           \/ \E synced \in BOOLEAN : FlushLogger(w, synced)
    PROVE  FlushInv'
BY DEF Counted, FlushLogger, WriterType, FlushInv

LEMMA FailureEndsFlush ==
    ASSUME NEW w \in WriterType, w.flush = "none", NEW pending, LoggerFails(w, pending)
    PROVE  FlushInv'
BY DEF LoggerFails, WriterType, FlushInv

LEMMA StopEndsFlush ==
    ASSUME writer \in WriterType, writer.flush = "none", NEW w \in WriterType, w.flush = "none", StopWith(w)
    PROVE  FlushInv'
<1>1. PICK v \in {writer, w} : LoggerFails([v EXCEPT !.at = "answered"], coord.gap)
  BY DEF StopWith
<1> DEFINE u == [v EXCEPT !.at = "answered"]
<1>2. u \in WriterType /\ u.flush = "none"
  BY DEF WriterType, Closing
<1>3. LoggerFails(u, coord.gap)
  BY <1>1
<1> HIDE DEF u
<1> QED BY <1>2, <1>3, FailureEndsFlush

LEMMA WrittenFlushes ==
    ASSUME NEW w \in WriterType, NEW r \in Records
    PROVE  /\ Written(w, r) \in WriterType /\ Written(w, r).flush = w.flush
           /\ Written(w, r).at = w.at /\ Written(w, r).failed = w.failed
<1>1. Written(w, r) \in WriterType /\ Written(w, r).at = w.at /\ Written(w, r).failed = w.failed
  BY WrittenHas
<1>2. Written(w, r).flush = w.flush
  BY DEF Written, WriterType
<1> QED BY <1>1, <1>2

LEMMA WriteItemFlush == ASSUME CsvInv, FlushInv, WriteItem PROVE FlushInv'
<1>1. writer.at = "ready" /\ writer.flush = "none" /\ writer \in WriterType /\ Head(sink) \in Records
  BY DEF WriteItem, CsvInv, Typed, WriterTyped, QueuesTyped
<1> DEFINE w == Written(writer, Head(sink))
<1>2. w \in WriterType /\ w.flush = "none" /\ w.at = "ready" /\ w.failed = writer.failed
  BY <1>1, WrittenFlushes
<1>3. \/ writer.failed /\ writer' = writer
      \/ ~writer.failed /\ (Counted(w) \/ LoggerFails(writer, NoGap) \/ LoggerFails(w, NoGap))
  BY DEF WriteItem
<1> HIDE DEF w
<1> QED BY <1>1, <1>2, <1>3, FlushBegins, FailureEndsFlush DEF FlushInv

LEMMA MaintainFlush == ASSUME CsvInv, FlushInv, Maintain PROVE FlushInv'
<1>1. writer.at = "ready" /\ writer.flush = "none" /\ ~writer.failed /\ writer \in WriterType
  BY DEF Maintain, CsvInv, Typed, WriterTyped
<1>2. (\E synced \in BOOLEAN : FlushLogger(writer, synced)) \/ LoggerFails(writer, NoGap)
  BY DEF Maintain
<1> QED BY <1>1, <1>2, FlushBegins, FailureEndsFlush

LEMMA StopDrainsFlush == ASSUME CsvInv, FlushInv, StopDrains PROVE FlushInv'
<1>1. /\ writer.at = "stop" /\ writer.flush = "none" /\ ~writer.failed /\ writer \in WriterType
      /\ Head(sink) \in Records
  BY DEF StopDrains, CsvInv, Typed, WriterTyped, QueuesTyped
<1> DEFINE w == Written(writer, Head(sink))
<1>2. w \in WriterType /\ w.flush = "none" /\ w.at = "stop" /\ ~w.failed
  BY <1>1, WrittenFlushes
<1>3. Counted(w) \/ StopWith(w)
  BY DEF StopDrains
<1> HIDE DEF w
<1> QED BY <1>1, <1>2, <1>3, FlushBegins, StopEndsFlush

LEMMA StopWritesGapFlush == ASSUME CsvInv, FlushInv, StopWritesGap PROVE FlushInv'
<1>1. /\ writer.at = "stop" /\ writer.flush = "none" /\ ~writer.failed /\ writer \in WriterType
      /\ coord.gap \in Gaps
  BY DEF StopWritesGap, CsvInv, Typed, WriterTyped, CoordType
<1> DEFINE w == IF coord.gap = NoGap THEN writer ELSE Written(writer, coord.gap)
           u == [w EXCEPT !.at = "finalize"]
<1>2. w \in WriterType /\ w.flush = "none" /\ ~w.failed
  BY <1>1, WrittenFlushes DEF Gaps
<1>3. writer' = u \/ Counted(u) \/ StopWith(w)
  BY DEF StopWritesGap
<1> HIDE DEF w
<1>4. u \in WriterType /\ u.flush = "none" /\ u.at = "finalize" /\ ~u.failed
  BY <1>2 DEF WriterType, Closing
<1> HIDE DEF u
<1>5. writer' = u => FlushInv'
  BY <1>4 DEF FlushInv
<1> QED BY <1>1, <1>2, <1>3, <1>4, <1>5, FlushBegins, StopEndsFlush

LEMMA UpdateFlush == ASSUME CsvInv, FlushInv, UpdateSidecar \/ UpdateCheckpoint PROVE FlushInv'
<1>1. writer \in WriterType /\ writer.flush # "none"
  BY DEF UpdateSidecar, UpdateCheckpoint, CsvInv, Typed, WriterTyped
<1>2. CASE FlushFails
  <2> DEFINE u == [writer EXCEPT !.flush = "none"]
             v == [u EXCEPT !.at = "answered"]
  <2>1. u \in WriterType /\ u.flush = "none" /\ v \in WriterType /\ v.flush = "none"
    BY <1>1 DEF WriterType, Closing
  <2>2. LoggerFails(v, coord.gap) \/ LoggerFails(u, NoGap)
    BY <1>2 DEF FlushFails
  <2> HIDE DEF u, v
  <2> QED BY <2>1, <2>2, FailureEndsFlush
<1>3. CASE writer' = [writer EXCEPT !.flush = "checkpoint"]
  BY <1>1, <1>3 DEF FlushInv, WriterType
<1>4. CASE writer' = [writer EXCEPT !.flush = "none"]
  BY <1>1, <1>4 DEF FlushInv, WriterType
<1> QED BY <1>2, <1>3, <1>4 DEF UpdateSidecar, UpdateCheckpoint

\* the steps that end the writer's work on the files, none with a flush under way
LEMMA ClosingFlush ==
    ASSUME CsvInv, FlushInv,
           StopFailed \/ SyncRows \/ CompleteSidecar \/ RemoveCheckpoint \/ WriterShutsDown
    PROVE  FlushInv'
<1>1. writer \in WriterType /\ writer.flush = "none"
  BY DEF CsvInv, Typed, WriterTyped, FlushInv, StopFailed, SyncRows, CompleteSidecar, RemoveCheckpoint,
         WriterShutsDown
<1>2. ASSUME NEW at \in {"answered", "off"}, NEW gap, LoggerFails([writer EXCEPT !.at = at], gap)
      PROVE  FlushInv'
  <2> DEFINE u == [writer EXCEPT !.at = at]
  <2>1. u \in WriterType /\ u.flush = "none"
    BY <1>1 DEF WriterType, Closing
  <2>2. LoggerFails(u, gap)
    BY <1>2
  <2> HIDE DEF u
  <2> QED BY <2>1, <2>2, FailureEndsFlush
<1>3. CASE StopFailed
  BY <1>2, <1>3 DEF StopFailed
<1>4. CASE SyncRows
  <2>1. writer' = [writer EXCEPT !.at = "completed", !.rows = <<>>] => FlushInv'
    BY <1>1 DEF FlushInv, WriterType
  <2> QED BY <1>2, <1>4, <2>1 DEF SyncRows
<1>5. CASE CompleteSidecar
  <2>1. writer' = [writer EXCEPT !.at = "unlink"] => FlushInv'
    BY <1>1 DEF FlushInv, WriterType
  <2> QED BY <1>2, <1>5, <2>1 DEF CompleteSidecar
<1>6. CASE RemoveCheckpoint
  <2>1. writer' = [writer EXCEPT !.at = "answered", !.state = "Completed"] => FlushInv'
    BY <1>1 DEF FlushInv, WriterType
  <2> QED BY <1>2, <1>6, <2>1 DEF RemoveCheckpoint
<1>7. CASE WriterShutsDown
  <2>1. writer' = NoWriter => FlushInv'
    BY DEF FlushInv, NoWriter
  <2> QED BY <1>2, <1>7, <2>1 DEF WriterShutsDown
<1> QED BY <1>3, <1>4, <1>5, <1>6, <1>7

\* a log that starts, is given up or closed by the coordinator
LEMMA CoordinatorFlush ==
    ASSUME CsvInv, FlushInv,
           \/ Start \/ CreateFile \/ CreateSidecar \/ CreateCheckpoint \/ CheckStart
           \/ AwaitRelay \/ StopReturns \/ DropCoordinator \/ Restart
    PROVE  FlushInv'
<1>1. writer \in WriterType /\ coord \in CoordType
  BY DEF CsvInv, Typed, WriterTyped
<1>2. writer' = NoWriter => FlushInv'
  BY DEF FlushInv, NoWriter
<1>3. writer' = writer => FlushInv'
  BY DEF FlushInv
<1>4. CASE Start
  <2>1. writer' = [NoWriter EXCEPT !.at = "create", !.log = logs'] => FlushInv'
    BY DEF FlushInv, NoWriter
  <2> QED BY <1>3, <1>4, <2>1 DEF Start
<1>5. CASE CreateFile \/ CreateSidecar \/ CreateCheckpoint
  <2>1. writer.flush = "none"
    BY <1>5 DEF FlushInv, CreateFile, CreateSidecar, CreateCheckpoint
  <2>2. \/ writer' = NoWriter
        \/ writer' = [writer EXCEPT !.at = "sidecar"]
        \/ writer' = [writer EXCEPT !.at = "checkpoint"]
        \/ writer' = [writer EXCEPT !.at = "ready", !.state = "Running"]
    BY <1>5 DEF CreateFile, CreateSidecar, CreateCheckpoint, StartFails
  <2> QED BY <1>1, <1>2, <2>1, <2>2 DEF FlushInv, WriterType
<1>6. CASE CheckStart
  <2>1. CASE writer' = [writer EXCEPT !.at = "off"] /\ (coord.state = "Failed" \/ writer.state # "Running")
    <3>1. coord.at = "check" /\ writer.at = "ready" /\ LogOn
      BY <1>6 DEF CheckStart, CsvInv, PlaceInv, LogOn
    <3>2. writer.failed
      BY <2>1, <3>1 DEF CsvInv, HealthInv
    <3>3. writer.flush = "none"
      BY <1>1, <3>2 DEF FlushInv
    <3> QED BY <1>1, <2>1, <3>3 DEF FlushInv, WriterType
  <2> QED BY <1>3, <1>6, <2>1 DEF CheckStart
<1>7. CASE AwaitRelay
  <2>1. writer.flush = "none" /\ writer' = [writer EXCEPT !.at = "stop"]
    BY <1>7 DEF AwaitRelay
  <2> QED BY <1>1, <2>1 DEF FlushInv, WriterType
<1>8. CASE StopReturns
  BY <1>2, <1>8 DEF StopReturns
<1>9. CASE DropCoordinator
  <2>1. writer' = [writer EXCEPT !.at = "shutdown"] => FlushInv'
    BY <1>1 DEF FlushInv, WriterType
  <2> QED BY <1>2, <1>9, <2>1 DEF DropCoordinator
<1>10. CASE Restart
  BY <1>2, <1>10 DEF Restart
<1> QED BY <1>4, <1>5, <1>6, <1>7, <1>8, <1>9, <1>10

LEMMA FlushSteps == ASSUME CsvInv, FlushInv, [Next]_vars PROVE FlushInv'
<1>1. writer' = writer => FlushInv'
  BY DEF FlushInv
<1>2. Publish \/ Stop \/ EnableDelivery \/ DisableDelivery \/ GuardStops \/ GuardStores \/ RelayStep \/ UNCHANGED vars
        => writer' = writer
  BY DEF Publish, Stop, EnableDelivery, DisableDelivery, GuardStops, GuardStores, RelayStep, RelayObeys,
         RelayTakes, RelaySends, RelayEnds, vars
<1> QED BY <1>1, <1>2, WriteItemFlush, MaintainFlush, StopDrainsFlush, StopWritesGapFlush, UpdateFlush,
           ClosingFlush, CoordinatorFlush DEF Next, WriterStep, CoordinatorStep

-----------------------------------------------------------------------------
(***************************************************************************)
(* The theorems.                                                           *)
(***************************************************************************)
LEMMA CsvInit == Init => CsvInv
<1> SUFFICES ASSUME Init PROVE CsvInv
  OBVIOUS
<1>1. /\ coord.at = "idle" /\ coord.active = FALSE /\ coord.state = "Idle" /\ coord.gap = NoGap
      /\ coord.completed = 0 /\ ~LogOn /\ ~delivery.on /\ delivery.gap = NoGap
      /\ relay.at = "off" /\ guard.at = "off"
  BY DEF Init, NewCoordinator, LogOn, NoDelivery, NoRelay, NoGuard
<1>2. QueuesTyped /\ HandsTyped
  BY EmptyQueue, NoGapIsGap DEF Init, QueuesTyped, HandsTyped, NoDelivery, NoRelay, NoGuard
<1>3. WriterTyped
  BY Blank DEF Init, WriterTyped
<1>4. CountsTyped /\ coord \in CoordType
  BY CsvAssumption, Blank DEF Init, CountsTyped
<1>5. GapInv /\ PlaceInv /\ StateInv /\ HealthInv /\ StreamInv
  BY <1>1, Blank DEF Init, GapInv, PlaceInv, StateInv, HealthInv, StreamInv, Creating, Closing
<1>6. FreshInv
  BY <1>1, Blank DEF Init, FreshInv
<1>7. CompletedInv
  BY <1>1, Blank DEF Init, CompletedInv
<1> QED BY <1>2, <1>3, <1>4, <1>5, <1>6, <1>7 DEF CsvInv, Typed

LEMMA CsvStutters == ASSUME CsvInv, UNCHANGED vars PROVE CsvInv'
<1>1. Typed' /\ GapInv' /\ PlaceInv' /\ StateInv'
  BY DEF vars, CsvInv, Typed, QueuesTyped, HandsTyped, WriterTyped, CountsTyped, GapInv, PlaceInv, StateInv, LogOn
<1>2. HealthInv' /\ FreshInv'
  BY DEF vars, CsvInv, HealthInv, FreshInv, LogOn, File
<1>3. StreamInv' /\ CompletedInv'
  BY DEF vars, CsvInv, StreamInv, CompletedInv, LogOn, File, Late
<1> QED BY <1>1, <1>2, <1>3 DEF CsvInv

LEMMA CsvSteps == CsvInv /\ FlushInv /\ [Next]_vars => CsvInv'
BY PublishStep, StartStep, StopStep, DropCoordinatorStep, MaintainStep, RestartStep, EnableDeliveryStep,
   CheckStartStep, DisableDeliveryStep, AwaitRelayStep, StopReturnsStep, GuardStopsStep, GuardStoresStep,
   RelayObeysStep, RelayTakesStep, RelaySendsStep, RelayEndsStep, CreateFileStep, CreateSidecarStep,
   CreateCheckpointStep, WriteItemStep, StopDrainsStep, StopWritesGapStep, StopFailedStep, SyncRowsStep,
   CompleteSidecarStep, RemoveCheckpointStep, WriterShutsDownStep, UpdateStep, CsvStutters
   DEF Next, WriterStep, RelayStep, CoordinatorStep

\* The invariant holds throughout a log's life: who may disturb it, what is on its
\* way and what a flush has still to update (csv_lifecycle.rs, csv_writer.rs).
THEOREM CsvInvHolds == CsvSpec => [](CsvInv /\ FlushInv)
<1>1. Init => CsvInv /\ FlushInv
  BY CsvInit DEF Init, NoWriter, FlushInv
<1>2. (CsvInv /\ FlushInv) /\ [Next]_vars => (CsvInv /\ FlushInv)'
  BY CsvSteps, FlushSteps
<1> QED BY <1>1, <1>2, PTL DEF CsvSpec

\* Between the publication and the file no sample is lost, repeated or out of
\* order, for queues and logs of any size (csv_delivery.rs, csv_lifecycle.rs and
\* csv_writer.rs together).
THEOREM NoHole == CsvSpec => []NoHoleInStream
<1>1. ASSUME CsvInv, FlushInv PROVE NoHoleInStream
  <2>1. CsvTypeOK
    <3>1. \A l \in 1 .. MaxLogs : disk[l].rows \in Seq(Records) /\ disk[l].synced \in 0 .. Len(disk[l].rows)
      <4> SUFFICES ASSUME NEW l \in 1 .. MaxLogs
                   PROVE  disk[l].rows \in Seq(Records) /\ disk[l].synced \in 0 .. Len(disk[l].rows)
        OBVIOUS
      <4>1. disk[l].rows \in Seq(Records) /\ disk[l].synced \in Nat /\ disk[l].synced <= Len(disk[l].rows)
        BY <1>1 DEF CsvInv, Typed, WriterTyped, FileType
      <4>2. Len(disk[l].rows) \in Nat
        BY <4>1
      <4> QED BY <4>1, <4>2
    <3>2. writer.at \in {"off", "create", "sidecar", "checkpoint", "ready", "stop", "finalize", "completed",
                         "unlink", "answered", "shutdown"}
          /\ writer.state \in {"Idle", "Running", "Completed", "Failed"}
          /\ writer.flush \in {"none", "sidecar", "checkpoint"}
      BY <1>1 DEF CsvInv, Typed, WriterTyped, WriterType, Creating, Closing
    <3>3. /\ coord.at \in {"idle", "starting", "enable", "check", "disable", "finalize", "stopping", "gone"}
          /\ coord.state \in {"Idle", "Starting", "Running", "Finalizing", "Failed"}
      BY <1>1 DEF CsvInv, Typed, CoordType
    <3>4. /\ delivery.on \in BOOLEAN /\ delivery.gap \in Records \cup {NoGap}
          /\ relay.at \in {"off", "run", "send", "drain", "drain_send", "discard", "done"}
          /\ guard.at \in {"off", "wait", "store", "done"}
      BY <1>1 DEF CsvInv, Typed, HandsTyped, Gaps
    <3> QED BY <1>1, <3>1, <3>2, <3>3, <3>4 DEF CsvInv, Typed, QueuesTyped, CountsTyped, CsvTypeOK
  <2>2. ASSUME Delivering PROVE Link(0, Stream, published) /\ Stream \in Seq(Records)
    <3>1. LogOn /\ coord.at # "enable" /\ ~writer.failed /\ writer.log # 0
      BY <2>2 DEF Delivering, LogOn
    <3>2. PICK a, b, c, d, e, f \in 0 .. MaxSamples :
            /\ Link(0, File.rows, a) /\ Link(a, writer.rows, b) /\ Link(b, sink, c)
            /\ Link(c, GapSeq(relay.item), d) /\ Link(d, source, e)
            /\ Link(e, GapSeq(delivery.gap), f) /\ Link(f, Late, published)
      BY <1>1, <3>1 DEF CsvInv, StreamInv
    <3>3. /\ File.rows \in Seq(Records) /\ writer.rows \in Seq(Records) /\ sink \in Seq(Records)
          /\ source \in Seq(Records)
      <4>1. writer.log \in 1 .. MaxLogs
        BY <1>1, <3>1, CsvAssumption DEF CsvInv, Typed, WriterTyped, WriterType
      <4> QED BY <1>1, <4>1 DEF CsvInv, Typed, WriterTyped, QueuesTyped, WriterType, FileType, File
    <3>4. GapSeq(relay.item) \in Seq(Records) /\ GapSeq(delivery.gap) \in Seq(Records)
      <4>1. relay.item \in Gaps /\ delivery.gap \in Gaps
        BY <1>1 DEF CsvInv, Typed, HandsTyped
      <4> QED BY <4>1, LinkGap
    <3>5. Late \in Seq(Records)
      <4>1. coord.gap \in Gaps
        BY <1>1 DEF CsvInv, Typed, CoordType
      <4> QED BY <4>1, LinkGap, EmptyQueue DEF Late
    <3> DEFINE s1 == File.rows \o writer.rows
               s2 == s1 \o sink
               s3 == s2 \o GapSeq(relay.item)
               s4 == s3 \o source
               s5 == s4 \o GapSeq(delivery.gap)
               s6 == s5 \o Late
    <3>6. \A s, t \in Seq(Records) : s \o t \in Seq(Records)
      OBVIOUS
    <3>7. s1 \in Seq(Records) /\ Link(0, s1, b)
      BY <3>2, <3>3, <3>6, LinkCat
    <3> HIDE DEF s1
    <3>8. s2 \in Seq(Records) /\ Link(0, s2, c)
      BY <3>2, <3>3, <3>6, <3>7, LinkCat
    <3> HIDE DEF s2
    <3>9. s3 \in Seq(Records) /\ Link(0, s3, d)
      BY <3>2, <3>4, <3>6, <3>8, LinkCat
    <3> HIDE DEF s3
    <3>10. s4 \in Seq(Records) /\ Link(0, s4, e)
      BY <3>2, <3>3, <3>6, <3>9, LinkCat
    <3> HIDE DEF s4
    <3>11. s5 \in Seq(Records) /\ Link(0, s5, f)
      BY <3>2, <3>4, <3>6, <3>10, LinkCat
    <3> HIDE DEF s5
    <3>12. s6 \in Seq(Records) /\ Link(0, s6, published)
      BY <3>2, <3>5, <3>6, <3>11, LinkCat
    <3>13. s6 = Stream
      BY DEF s1, s2, s3, s4, s5, s6, Stream, Late
    <3> QED BY <3>12, <3>13
  <2>3. ASSUME Delivering
        PROVE  /\ \A i \in DOMAIN Stream :
                     /\ Stream[i].from = IF i = 1 THEN 1 ELSE Stream[i - 1].to + 1
                     /\ Stream[i].kind = "gap" => Stream[i].count = Stream[i].to - Stream[i].from + 1
               /\ published = IF Stream = <<>> THEN 0 ELSE Last(Stream).to
    <3> HIDE DEF Stream
    <3>1. Chained(Stream, 0) /\ End(Stream, 0) = published
      BY <2>2, <2>3 DEF Link
    <3>2. ASSUME NEW i \in DOMAIN Stream
          PROVE  /\ Stream[i].from = IF i = 1 THEN 1 ELSE Stream[i - 1].to + 1
                 /\ Stream[i].kind = "gap" => Stream[i].count = Stream[i].to - Stream[i].from + 1
      BY <3>1 DEF Chained
    <3> QED BY <3>1, <3>2 DEF End, Last
  <2> QED BY <2>1, <2>3 DEF NoHoleInStream
<1> QED BY <1>1, CsvInvHolds, PTL

-----------------------------------------------------------------------------
(***************************************************************************)
(* The promise of CsvLog.                                                  *)
(***************************************************************************)
NoLog == [samples |-> 0, dropped |-> 0]

LEMMA LogInit == ASSUME Init PROVE Log!Init
<1>1. LogPhase = "idle"
  BY DEF Init, LogPhase, NewCoordinator, NoDelivery
<1> QED BY <1>1 DEF Init, Log!Init, Log!NoAccount, LogAccount

\* what the phase of a log says
PhasesSay ==
    /\ coord.at = "gone" => LogPhase = "failed"
    /\ delivery.on /\ coord.at # "enable" => LogPhase = "open"
    /\ coord.at \in {"check", "disable", "finalize", "stopping"} /\ coord.state # "Failed" => LogPhase = "open"
    /\ coord.at = "check" => LogPhase = "open"
    /\ coord.at \in {"disable", "finalize", "stopping"} /\ coord.state = "Failed" => LogPhase = "failed"
    /\ coord.at = "idle" /\ coord.active => LogPhase = IF coord.state = "Failed" THEN "failed" ELSE "open"
    /\ coord.at \in {"starting", "enable"} => LogPhase = IF coord.completed # 0 THEN "completed" ELSE "idle"
    /\ coord.at = "idle" /\ ~coord.active =>
          LogPhase = IF coord.state = "Failed" THEN "failed"
                     ELSE IF coord.completed # 0 THEN "completed" ELSE "idle"
    /\ LogPhase \in {"idle", "open", "completed", "failed"}
    /\ LogPhase # "completed" => LogAccount = NoLog

LEMMA Phases == CsvInv => PhasesSay
BY DEF CsvInv, PlaceInv, StateInv, LogPhase, LogAccount, NoLog, Typed, CoordType, PhasesSay

LEMMA PhasesNext == CsvInv' => PhasesSay'
BY Phases, PTL

\* a step that leaves the phase, the samples and the account alone
LEMMA LogStays ==
    ASSUME UNCHANGED <<delivery.on, coord.at, coord.state, coord.completed, published>>,
           coord.completed # 0 => disk'[coord.completed].sidecar = disk[coord.completed].sidecar
    PROVE  UNCHANGED Log!vars
BY DEF Log!vars, LogPhase, LogAccount

\* the file of a log reported before is not the one being written
LEMMA FileStays ==
    ASSUME CsvInv, LogOn \/ coord.at = "starting",
           \A l \in 1 .. MaxLogs : l # writer.log => disk'[l] = disk[l]
    PROVE  coord.completed # 0 => disk'[coord.completed].sidecar = disk[coord.completed].sidecar
<1> SUFFICES ASSUME coord.completed # 0 PROVE disk'[coord.completed].sidecar = disk[coord.completed].sidecar
  OBVIOUS
<1>1. coord.completed \in 1 .. MaxLogs
  BY CsvAssumption DEF CsvInv, Typed, CoordType
<1>2. coord.completed # writer.log
  BY DEF CsvInv, CompletedInv, LogOn
<1> QED BY <1>1, <1>2

\* what the writer does goes unnoticed
LEMMA WriterUnnoticed ==
    ASSUME CsvInv, Steady, LogOn \/ coord.completed = 0, disk' = disk \/ FileStep
    PROVE  UNCHANGED Log!vars
<1>1. coord.completed # 0 => disk'[coord.completed].sidecar = disk[coord.completed].sidecar
  BY FileStays DEF FileStep
<1> QED BY <1>1, LogStays DEF Steady

\* a step keeps the promise: it is one of the abstract log, or goes unnoticed
Promised == Log!Next \/ UNCHANGED Log!vars

LEMMA Unnoticed ==
    ASSUME LogPhase' = LogPhase, published' = published,
           LogPhase = "completed" =>
               coord'.completed = coord.completed
               /\ disk'[coord.completed].sidecar = disk[coord.completed].sidecar
    PROVE  Promised
BY DEF Promised, Log!vars, LogAccount

LEMMA Fails ==
    ASSUME LogPhase \in {"idle", "open", "completed", "failed"}, LogPhase' = "failed", published' = published
    PROVE  Promised
<1>1. LogAccount' = NoLog
  BY DEF LogAccount, NoLog
<1>2. CASE LogPhase = "failed"
  BY <1>2, Unnoticed
<1>3. CASE LogPhase # "failed"
  BY <1>1, <1>3 DEF Promised, Log!Next, Log!Fail, Log!NoAccount, NoLog
<1> QED BY <1>2, <1>3

LEMMA PublishPromised == ASSUME CsvInv, Publish PROVE Promised
<1>1. /\ CsvInv' /\ PhasesSay /\ PhasesSay'
      /\ delivery.on /\ published' = published + 1 /\ delivery'.on = delivery.on /\ coord' = coord
  BY PublishStep, Phases, PhasesNext DEF Publish, CsvInv, Typed, HandsTyped
<1>2. coord.at # "enable"
  BY <1>1 DEF CsvInv, PlaceInv
<1>3. LogPhase = "open" /\ LogPhase' = "open"
  BY <1>1, <1>2 DEF PhasesSay
<1>4. LogAccount' = LogAccount
  BY <1>3 DEF LogAccount
<1> QED BY <1>1, <1>3, <1>4 DEF Promised, Log!Next, Log!Offer

LEMMA StartPromised == ASSUME CsvInv, Start PROVE Promised
<1>1. CsvInv' /\ PhasesSay /\ PhasesSay' /\ coord.at = "idle" /\ UNCHANGED <<delivery, published, disk>>
  BY StartStep, Phases, PhasesNext DEF Start
<1>2. CASE coord' = coord
  BY <1>1, <1>2, LogStays DEF Promised
<1>3. CASE coord' = [coord EXCEPT !.at = "starting", !.state = "Starting", !.failureGap = NoGap]
           /\ ~coord.active /\ coord.state = "Idle"
  <2>1. coord'.at = "starting" /\ coord'.completed = coord.completed
    BY <1>3 DEF CsvInv, Typed, CoordType
  <2>2. LogPhase' = LogPhase
    BY <1>1, <1>3, <2>1 DEF PhasesSay
  <2> QED BY <1>1, <2>1, <2>2, Unnoticed
<1> QED BY <1>2, <1>3 DEF Start

\* the steps that create the files of a log
LEMMA CreatingPromised ==
    ASSUME CsvInv, CsvInv', coord.at = "starting",
           coord' = coord \/ (coord'.at = "enable" /\ CoordStays)
           \/ (coord'.at = "idle" /\ coord'.state = "Idle" /\ CoordStays),
           published' = published, \A l \in 1 .. MaxLogs : l # writer.log => disk'[l] = disk[l]
    PROVE  Promised
<1>1. PhasesSay /\ PhasesSay' /\ ~coord.active /\ coord'.completed = coord.completed
      /\ coord'.active = coord.active
  BY Phases, PhasesNext DEF CsvInv, PlaceInv, CoordStays
<1>2. LogPhase' = LogPhase
  BY <1>1 DEF PhasesSay
<1>3. coord.completed # 0 => disk'[coord.completed].sidecar = disk[coord.completed].sidecar
  BY FileStays
<1>4. LogPhase = "completed" => coord.completed # 0
  BY <1>1 DEF PhasesSay
<1> QED BY <1>1, <1>2, <1>3, <1>4, Unnoticed

LEMMA CreateFilePromised == ASSUME CsvInv, CreateFile PROVE Promised
<1>1. /\ CsvInv' /\ writer.at = "create" /\ coord.at = "starting" /\ published' = published
  BY CreateFileStep DEF CreateFile, CsvInv, PlaceInv, Creating
<1>2. coord' = coord \/ (coord'.at = "idle" /\ coord'.state = "Idle" /\ CoordStays)
  BY StartFailed DEF CreateFile, CsvInv
<1>3. \A l \in 1 .. MaxLogs : l # writer.log => disk'[l] = disk[l]
  BY DEF CreateFile, CsvInv, Typed, WriterTyped
<1> QED BY <1>1, <1>2, <1>3, CreatingPromised

LEMMA CreateSidecarPromised == ASSUME CsvInv, CreateSidecar PROVE Promised
<1>1. /\ CsvInv' /\ writer.at = "sidecar" /\ coord.at = "starting" /\ published' = published
  BY CreateSidecarStep DEF CreateSidecar, CsvInv, PlaceInv, Creating
<1>2. coord' = coord \/ (coord'.at = "idle" /\ coord'.state = "Idle" /\ CoordStays)
  BY StartFailed DEF CreateSidecar, CsvInv
<1>3. \A l \in 1 .. MaxLogs : l # writer.log => disk'[l] = disk[l]
  BY DEF CreateSidecar, CsvInv, Typed, WriterTyped
<1> QED BY <1>1, <1>2, <1>3, CreatingPromised

LEMMA CreateCheckpointPromised == ASSUME CsvInv, CreateCheckpoint PROVE Promised
<1>1. /\ CsvInv' /\ writer.at = "checkpoint" /\ coord.at = "starting" /\ published' = published
  BY CreateCheckpointStep DEF CreateCheckpoint, CsvInv, PlaceInv, Creating
<1>2. \/ coord'.at = "enable" /\ CoordStays
      \/ coord'.at = "idle" /\ coord'.state = "Idle" /\ CoordStays
  <2>1. CASE StartFails
    BY <2>1, StartFailed DEF CsvInv
  <2>2. CASE coord' = [coord EXCEPT !.at = "enable"]
    BY <2>2 DEF CoordStays, CsvInv, Typed, CoordType
  <2> QED BY <2>1, <2>2 DEF CreateCheckpoint
<1>3. \A l \in 1 .. MaxLogs : l # writer.log => disk'[l] = disk[l]
  BY DEF CreateCheckpoint, CsvInv, Typed, WriterTyped
<1> QED BY <1>1, <1>2, <1>3, CreatingPromised

LEMMA EnableDeliveryPromised == ASSUME CsvInv, EnableDelivery PROVE Promised
<1>1. CsvInv' /\ PhasesSay /\ PhasesSay' /\ coord.at = "enable" /\ coord'.at = "check" /\ published' = 0
  BY EnableDeliveryStep, Phases, PhasesNext DEF EnableDelivery, CsvInv, Typed, CoordType
<1>2. LogPhase \in {"idle", "completed"} /\ LogPhase' = "open"
  BY <1>1 DEF PhasesSay
<1>3. LogAccount' = NoLog
  BY <1>2 DEF LogAccount, NoLog
<1> QED BY <1>1, <1>2, <1>3 DEF Promised, Log!Next, Log!Open, Log!NoAccount, NoLog

LEMMA CheckStartPromised == ASSUME CsvInv, CheckStart PROVE Promised
<1>1. CsvInv' /\ PhasesSay /\ PhasesSay' /\ coord.at = "check" /\ published' = published /\ ~coord.active
  BY CheckStartStep, Phases, PhasesNext DEF CheckStart, CsvInv, PlaceInv
<1>2. LogPhase = "open"
  BY <1>1 DEF PhasesSay
<1>3. CASE coord' = [coord EXCEPT !.at = "idle", !.state = "Failed", !.failureGap = delivery.gap]
  <2>1. coord'.at = "idle" /\ coord'.state = "Failed" /\ ~coord'.active
    BY <1>1, <1>3 DEF CsvInv, Typed, CoordType
  <2>2. LogPhase' = "failed"
    BY <1>1, <2>1 DEF PhasesSay
  <2> QED BY <1>1, <1>2, <2>2, Fails
<1>4. CASE coord' = [coord EXCEPT !.at = "idle", !.state = "Running", !.active = TRUE]
  <2>1. coord'.at = "idle" /\ coord'.state = "Running" /\ coord'.active
    BY <1>4 DEF CsvInv, Typed, CoordType
  <2>2. LogPhase' = "open"
    BY <1>1, <2>1 DEF PhasesSay
  <2> QED BY <1>1, <1>2, <2>2, Unnoticed
<1> QED BY <1>3, <1>4 DEF CheckStart

LEMMA StopPromised == ASSUME CsvInv, Stop PROVE Promised
<1>1. CsvInv' /\ PhasesSay /\ PhasesSay' /\ coord.at = "idle" /\ coord.active /\ published' = published
  BY StopStep, Phases, PhasesNext DEF Stop
<1>2. coord'.at = "disable" /\ (coord'.state = "Failed" <=> coord.state = "Failed")
  BY DEF Stop, CsvInv, Typed, CoordType
<1>3. LogPhase' = LogPhase /\ LogPhase # "completed"
  BY <1>1, <1>2 DEF PhasesSay
<1> QED BY <1>1, <1>3, Unnoticed

LEMMA DisableDeliveryPromised == ASSUME CsvInv, DisableDelivery PROVE Promised
<1>1. CsvInv' /\ PhasesSay /\ PhasesSay' /\ coord.at = "disable" /\ published' = published
  BY DisableDeliveryStep, Phases, PhasesNext DEF DisableDelivery
<1>2. coord'.at = "finalize" /\ coord'.state = coord.state
  BY DEF DisableDelivery, CsvInv, Typed, CoordType
<1>3. LogPhase' = LogPhase /\ LogPhase # "completed"
  BY <1>1, <1>2 DEF PhasesSay
<1> QED BY <1>1, <1>3, Unnoticed

LEMMA AwaitRelayPromised == ASSUME CsvInv, AwaitRelay PROVE Promised
<1>1. CsvInv' /\ PhasesSay /\ PhasesSay' /\ coord.at = "finalize" /\ published' = published
  BY AwaitRelayStep, Phases, PhasesNext DEF AwaitRelay
<1>2. coord'.at = "stopping" /\ coord'.state = coord.state
  BY DEF AwaitRelay, CsvInv, Typed, CoordType
<1>3. LogPhase' = LogPhase /\ LogPhase # "completed"
  BY <1>1, <1>2 DEF PhasesSay
<1> QED BY <1>1, <1>3, Unnoticed

\* the only step that reports a log completed
LEMMA StopReturnsPromised == ASSUME CsvInv, StopReturns PROVE Promised
<1> DEFINE ok == writer.state = "Completed" /\ ~coord.wasFailed
<1>1. /\ CsvInv' /\ PhasesSay /\ PhasesSay' /\ coord.at = "stopping" /\ writer.at = "answered"
      /\ published' = published /\ disk' = disk
  BY StopReturnsStep, Phases, PhasesNext DEF StopReturns
<1>2. /\ coord'.at = "idle" /\ coord'.active = coord.active /\ ~coord.active
      /\ coord'.state = (IF ok THEN "Idle" ELSE "Failed")
      /\ coord'.completed = (IF ok THEN writer.log ELSE 0)
  BY <1>1 DEF StopReturns, CsvInv, Typed, CoordType, PlaceInv
<1>3. CASE ~ok
  <2>1. LogPhase' = "failed" /\ LogPhase \in {"open", "failed"}
    BY <1>1, <1>2, <1>3 DEF PhasesSay
  <2> QED BY <1>1, <2>1, Fails
<1>4. CASE ok
  <2>1. ~writer.failed /\ LogOn
    BY <1>1, <1>4 DEF CsvInv, PlaceInv, LogOn
  <2>2. coord.state # "Failed"
    BY <2>1 DEF CsvInv, HealthInv
  <2>3. /\ File.sidecar.samples + File.sidecar.dropped = published
        /\ writer.log \in 1 .. MaxLogs
    BY <1>1, <2>1, AnsweredCounts
  <2>4. LogPhase = "open" /\ LogPhase' = "completed"
    <3>1. coord'.completed # 0
      BY <1>2, <1>4, <2>3
    <3> QED BY <1>1, <1>2, <1>4, <2>2, <3>1 DEF PhasesSay
  <2>5. LogAccount' = [samples |-> File.sidecar.samples, dropped |-> File.sidecar.dropped]
    BY <1>1, <1>2, <1>4, <2>4 DEF LogAccount, File
  <2>6. /\ File.sidecar.samples \in 0 .. published
        /\ File.sidecar.dropped = published - File.sidecar.samples
    <3>1. File.sidecar.samples \in Nat /\ File.sidecar.dropped \in Nat /\ published \in Nat
      BY <2>3 DEF CsvInv, Typed, WriterTyped, CountsTyped, FileType, SidecarType, File
    <3> QED BY <2>3, <3>1
  <2>7. Log!Complete
    BY <1>1, <2>4, <2>5, <2>6 DEF Log!Complete
  <2> QED BY <2>7 DEF Promised, Log!Next
<1> QED BY <1>3, <1>4

LEMMA DropCoordinatorPromised == ASSUME CsvInv, DropCoordinator PROVE Promised
<1>1. CsvInv' /\ PhasesSay /\ PhasesSay' /\ published' = published /\ coord'.at = "gone"
  BY DropCoordinatorStep, Phases, PhasesNext DEF DropCoordinator, NewCoordinator
<1>2. LogPhase \in {"idle", "open", "completed", "failed"} /\ LogPhase' = "failed"
  BY <1>1 DEF PhasesSay
<1> QED BY <1>1, <1>2, Fails

LEMMA GuardStopsPromised == ASSUME CsvInv, GuardStops PROVE Promised
<1>1. CsvInv' /\ PhasesSay /\ PhasesSay' /\ UNCHANGED <<coord, disk, published>>
  BY GuardStopsStep, Phases, PhasesNext DEF GuardStops
<1>2. coord \in CoordType
  BY DEF CsvInv, Typed
<1>3. LogPhase' = LogPhase
  BY <1>1, <1>2 DEF PhasesSay, CoordType
<1> QED BY <1>1, <1>3, Unnoticed

LEMMA GuardStoresPromised == ASSUME CsvInv, GuardStores PROVE Promised
<1>1. CsvInv' /\ PhasesSay /\ PhasesSay' /\ UNCHANGED <<disk, published>>
  BY GuardStoresStep, Phases, PhasesNext DEF GuardStores
<1>2. /\ coord \in CoordType /\ coord'.at = coord.at /\ coord'.state = "Failed"
      /\ coord'.active = coord.active /\ coord'.completed = coord.completed
  BY DEF GuardStores, CsvInv, Typed, CoordType
<1>3. CASE coord.at \in {"enable", "check"}
  <2>1. LogPhase' = LogPhase
    BY <1>1, <1>2, <1>3 DEF PhasesSay
  <2> QED BY <1>1, <1>2, <2>1, Unnoticed
<1>4. CASE coord.at \notin {"enable", "check"}
  <2>1. coord.at \in {"idle", "disable", "finalize", "stopping"}
    BY <1>2, <1>4 DEF GuardStores, CsvInv, StateInv, PlaceInv, LogOn, CoordType
  <2>2. LogPhase \in {"idle", "open", "completed", "failed"} /\ LogPhase' = "failed"
    BY <1>1, <1>2, <2>1 DEF PhasesSay
  <2> QED BY <1>1, <2>2, Fails
<1> QED BY <1>3, <1>4

LEMMA RestartPromised == ASSUME CsvInv, Restart PROVE Promised
<1>1. CsvInv' /\ PhasesSay' /\ published' = 0 /\ coord' = NewCoordinator
  BY RestartStep, PhasesNext DEF Restart
<1>2. LogPhase' = "idle"
  BY <1>1 DEF NewCoordinator, PhasesSay
<1>3. LogAccount' = NoLog
  BY <1>2 DEF LogAccount, NoLog
<1> QED BY <1>1, <1>2, <1>3 DEF Promised, Log!Next, Log!Restart, Log!NoAccount, NoLog

LEMMA RelayPromised == ASSUME CsvInv, RelayStep PROVE Promised
<1>1. UNCHANGED <<delivery, coord, disk, published>>
  BY DEF RelayStep, RelayObeys, RelayTakes, RelaySends, RelayEnds
<1> QED BY <1>1, LogStays DEF Promised

LEMMA FileStepPromised ==
    ASSUME CsvInv, Steady, writer.at \in {"ready", "stop"} \cup Closing, disk' = disk \/ FileStep
    PROVE  Promised
<1>1. LogOn
  BY DEF CsvInv, PlaceInv
<1> QED BY <1>1, WriterUnnoticed DEF Promised

\* the steps of a writer that has its files
LEMMA WriterPromised ==
    ASSUME CsvInv,
           \/ WriteItem \/ Maintain \/ StopDrains \/ StopWritesGap \/ StopFailed
           \/ SyncRows \/ CompleteSidecar \/ RemoveCheckpoint
    PROVE  Promised
<1>1. Typed
  BY DEF CsvInv
<1>2. CASE WriteItem
  <2>1. Steady /\ writer.at = "ready"
    BY <1>2 DEF WriteItem, Steady
  <2>2. disk' = disk \/ FileStep
    BY <1>1, <1>2, WriteItemDoes DEF Goes, Breaks
  <2> QED BY <2>1, <2>2, FileStepPromised
<1>3. CASE Maintain
  <2>1. Steady /\ writer.at = "ready"
    BY <1>3 DEF Maintain, Steady, queues
  <2>2. FileStep
    BY <1>1, <1>3, MaintainDoes DEF Goes, Breaks
  <2> QED BY <2>1, <2>2, FileStepPromised
<1>4. CASE StopDrains
  <2>1. Steady /\ writer.at = "stop"
    BY <1>4 DEF StopDrains, Steady
  <2>2. FileStep
    BY <1>1, <1>4, StopDrainsDoes DEF Goes, Breaks
  <2> QED BY <2>1, <2>2, FileStepPromised
<1>5. CASE StopWritesGap
  <2>1. Steady /\ writer.at = "stop"
    BY <1>5 DEF StopWritesGap, Steady, queues
  <2>2. disk' = disk \/ FileStep
    BY <1>1, <1>5, StopWritesGapDoes DEF Goes, Breaks
  <2> QED BY <2>1, <2>2, FileStepPromised
<1>6. CASE StopFailed
  <2>1. Steady /\ writer.at = "stop"
    BY <1>6 DEF StopFailed, Steady, queues
  <2>2. FileStep
    BY <1>1, <1>6, StopFailedDoes DEF Breaks
  <2> QED BY <2>1, <2>2, FileStepPromised
<1>7. CASE SyncRows
  <2>1. Steady /\ writer.at \in Closing
    BY <1>7 DEF SyncRows, Steady, queues, Closing
  <2>2. FileStep
    BY <1>1, <1>7, SyncRowsDoes DEF Goes, Breaks
  <2> QED BY <2>1, <2>2, FileStepPromised
<1>8. CASE CompleteSidecar
  <2>1. Steady /\ writer.at \in Closing
    BY <1>8 DEF CompleteSidecar, Steady, queues, Closing
  <2>2. FileStep
    BY <1>1, <1>8, CompleteSidecarDoes DEF Goes, Breaks
  <2> QED BY <2>1, <2>2, FileStepPromised
<1>9. CASE RemoveCheckpoint
  <2>1. Steady /\ writer.at \in Closing
    BY <1>9 DEF RemoveCheckpoint, Steady, queues, Closing
  <2>2. FileStep
    BY <1>1, <1>9, RemoveCheckpointDoes DEF Goes, Breaks
  <2> QED BY <2>1, <2>2, FileStepPromised
<1> QED BY <1>2, <1>3, <1>4, <1>5, <1>6, <1>7, <1>8, <1>9

\* a writer shut down by the end of the session has no log to report
LEMMA WriterShutsDownPromised == ASSUME CsvInv, WriterShutsDown PROVE Promised
<1>1. Steady /\ writer.at = "shutdown"
  BY DEF WriterShutsDown, Steady, queues
<1>2. disk' = disk \/ FileStep
  BY WriterShutsDownDoes DEF CsvInv, Breaks
<1>3. coord.at = "gone" /\ coord' = coord /\ delivery' = delivery /\ published' = published
  BY <1>1 DEF Steady, CsvInv, PlaceInv, Creating, Closing, Typed, CoordType, LogOn
<1>4. LogPhase = "failed" /\ LogPhase' = "failed"
  BY <1>3 DEF LogPhase
<1> QED BY <1>3, <1>4, Unnoticed

LEMMA UpdatePromised == ASSUME CsvInv, FlushInv, UpdateSidecar \/ UpdateCheckpoint PROVE Promised
<1>1. Steady /\ writer.at \in {"ready", "stop", "finalize", "shutdown"}
  BY DEF UpdateSidecar, UpdateCheckpoint, Steady, queues, FlushInv
<1>2. FileStep
  BY UpdateDoes DEF CsvInv, Goes, Breaks
<1>3. CASE writer.at # "shutdown"
  BY <1>1, <1>2, <1>3, FileStepPromised DEF Closing
<1>4. CASE writer.at = "shutdown"
  <2>1. coord.at = "gone" /\ coord' = coord /\ delivery' = delivery /\ published' = published
    BY <1>1, <1>4 DEF Steady, CsvInv, PlaceInv, Creating, Closing, Typed, CoordType, LogOn
  <2>2. LogPhase = "failed" /\ LogPhase' = "failed"
    BY <2>1 DEF LogPhase
  <2> QED BY <2>1, <2>2, Unnoticed
<1> QED BY <1>3, <1>4

LEMMA StutterPromised == ASSUME UNCHANGED vars PROVE Promised
<1>1. UNCHANGED <<delivery, coord, disk, published>>
  BY DEF vars
<1> QED BY <1>1, LogStays DEF Promised

\* The queues, the tasks and the files together implement the promise of
\* CsvLog: a log reported Completed accounts, as a row or in the count of a gap,
\* for every sample offered to it, whatever the sizes of the queues and whenever
\* the process ends (csv_lifecycle.rs and csv_writer.rs).
THEOREM LogPromise == CsvSpec => ImplementsCsvLog
<1>1. Init => Log!Init
  BY LogInit
<1>2. CsvInv /\ FlushInv /\ [Next]_vars => Promised
  BY PublishPromised, StartPromised, StopPromised, DropCoordinatorPromised, RestartPromised,
     EnableDeliveryPromised, CheckStartPromised, DisableDeliveryPromised, AwaitRelayPromised,
     StopReturnsPromised, GuardStopsPromised, GuardStoresPromised, RelayPromised, CreateFilePromised,
     CreateSidecarPromised, CreateCheckpointPromised, WriterPromised, WriterShutsDownPromised,
     UpdatePromised, StutterPromised
     DEF Next, WriterStep, CoordinatorStep
<1>3. CsvInv /\ FlushInv /\ [Next]_vars => [Log!Next]_(Log!vars)
  BY <1>2 DEF Promised
<1> QED BY <1>1, <1>3, CsvInvHolds, PTL DEF CsvSpec, ImplementsCsvLog, Log!Spec

=============================================================================

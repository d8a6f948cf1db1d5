---------------------------- MODULE BusActorProofs ----------------------------
(***************************************************************************)
(* The bus actor implements the port its clients rely on, and keeps the    *)
(* timing of frames, for every set of requests, every assignment of        *)
(* classes, deadlines and operations, every capacity and every bound.      *)
(*                                                                         *)
(* The refinement needs to know that a request the actor may still answer  *)
(* waits in exactly one place: its channel, its pending queue or the hands *)
(* of the actor.  Nothing that only looks at one answer says that; the     *)
(* invariant QueueInv does.                                                *)
(***************************************************************************)
EXTENDS BusActor, SequenceTheorems, TLAPS

-----------------------------------------------------------------------------
(***************************************************************************)
(* Queues as sequences without repetition.                                 *)
(***************************************************************************)
Elements(s) == {s[i] : i \in DOMAIN s}

Distinct(s) == \A i, j \in DOMAIN s : s[i] = s[j] => i = j

\* Sending to a channel, and push of a pending queue.
LEMMA AppendElements ==
    ASSUME NEW S, NEW s \in Seq(S), NEW r \in S
    PROVE  /\ Append(s, r) \in Seq(S) /\ Len(Append(s, r)) = Len(s) + 1
           /\ Elements(Append(s, r)) = Elements(s) \cup {r}
           /\ Distinct(s) /\ r \notin Elements(s) => Distinct(Append(s, r))
<1>1. /\ Append(s, r) \in Seq(S) /\ Len(Append(s, r)) = Len(s) + 1
      /\ DOMAIN Append(s, r) = DOMAIN s \cup {Len(s) + 1}
      /\ \A i \in DOMAIN s : Append(s, r)[i] = s[i]
      /\ Append(s, r)[Len(s) + 1] = r
  OBVIOUS
<1>2. Elements(Append(s, r)) = Elements(s) \cup {r}
  BY <1>1 DEF Elements
<1>3. ASSUME Distinct(s), r \notin Elements(s) PROVE Distinct(Append(s, r))
  BY <1>1, <1>3 DEF Elements, Distinct
<1> QED BY <1>1, <1>2, <1>3

\* Receiving from a channel.
LEMMA TailElements ==
    ASSUME NEW S, NEW s \in Seq(S), s # <<>>
    PROVE  /\ Head(s) \in S /\ Head(s) \in Elements(s)
           /\ Tail(s) \in Seq(S) /\ Len(Tail(s)) <= Len(s)
           /\ Elements(Tail(s)) \subseteq Elements(s)
           /\ Distinct(s) => Distinct(Tail(s)) /\ Head(s) \notin Elements(Tail(s))
<1>1. /\ Head(s) = s[1] /\ 1 \in DOMAIN s /\ Tail(s) \in Seq(S)
      /\ Len(Tail(s)) = Len(s) - 1
      /\ \A i \in DOMAIN Tail(s) : i \in Nat /\ i + 1 \in DOMAIN s /\ i + 1 # 1 /\ Tail(s)[i] = s[i + 1]
  OBVIOUS
<1>2. Elements(Tail(s)) \subseteq Elements(s) /\ Head(s) \in Elements(s)
  BY <1>1 DEF Elements
<1>3. ASSUME Distinct(s) PROVE Distinct(Tail(s)) /\ Head(s) \notin Elements(Tail(s))
  <2>1. ASSUME NEW i \in DOMAIN Tail(s), NEW j \in DOMAIN Tail(s), Tail(s)[i] = Tail(s)[j]
        PROVE  i = j
    BY <1>1, <1>3, <2>1 DEF Distinct
  <2>2. ASSUME NEW i \in DOMAIN Tail(s) PROVE Tail(s)[i] # Head(s)
    BY <1>1, <1>3, <2>2 DEF Distinct
  <2> QED BY <2>1, <2>2 DEF Distinct, Elements
<1> QED BY <1>1, <1>2, <1>3

\* Removing the selected request from a pending queue.
LEMMA WithoutElements ==
    ASSUME NEW S, NEW s \in Seq(S), NEW i \in DOMAIN s
    PROVE  /\ Without(s, i) \in Seq(S)
           /\ Elements(Without(s, i)) \subseteq Elements(s)
           /\ Distinct(s) => Distinct(Without(s, i)) /\ s[i] \notin Elements(Without(s, i))
<1> DEFINE a == SubSeq(s, 1, i - 1)
           b == SubSeq(s, i + 1, Len(s))
           At(j) == IF j < i THEN j ELSE j + 1
<1>1. i \in Nat /\ i >= 1 /\ i <= Len(s) /\ Len(s) \in Nat /\ DOMAIN s = 1 .. Len(s)
  OBVIOUS
<1>2. a \in Seq(S) /\ Len(a) = i - 1 /\ \A j \in 1 .. i - 1 : a[j] = s[j]
  BY <1>1
<1>3. b \in Seq(S) /\ Len(b) = Len(s) - i /\ \A j \in 1 .. Len(s) - i : b[j] = s[i + j]
  BY <1>1
<1>4. Without(s, i) = a \o b
  BY DEF Without
<1> HIDE DEF a, b
<1>5. /\ Without(s, i) \in Seq(S)
      /\ Len(Without(s, i)) = Len(s) - 1
      /\ DOMAIN Without(s, i) = 1 .. Len(s) - 1
      /\ \A j \in 1 .. Len(s) - 1 : Without(s, i)[j] = s[At(j)]
  <2>1. /\ a \o b \in Seq(S)
        /\ Len(a \o b) = Len(a) + Len(b)
        /\ \A j \in 1 .. Len(a) + Len(b) :
              (a \o b)[j] = IF j <= Len(a) THEN a[j] ELSE b[j - Len(a)]
    BY <1>2, <1>3, ConcatProperties
  <2>2. Len(a) + Len(b) = Len(s) - 1
    BY <1>1, <1>2, <1>3
  <2>3. DOMAIN (a \o b) = 1 .. Len(s) - 1
    BY <2>1, <2>2
  <2>4. ASSUME NEW j \in 1 .. Len(s) - 1 PROVE (a \o b)[j] = s[At(j)]
    <3>1. CASE j < i
      <4>1. j <= Len(a) /\ j \in 1 .. i - 1
        BY <1>1, <1>2, <3>1
      <4> QED BY <1>2, <2>1, <2>2, <3>1, <4>1
    <3>2. CASE ~(j < i)
      <4>1. (a \o b)[j] = b[j - Len(a)]
        BY <1>1, <1>2, <2>1, <2>2, <3>2
      <4>2. j - Len(a) \in 1 .. Len(s) - i /\ i + (j - Len(a)) = j + 1
        BY <1>1, <1>2, <3>2
      <4> QED BY <1>3, <3>2, <4>1, <4>2
    <3> QED BY <3>1, <3>2
  <2> QED BY <1>4, <2>1, <2>2, <2>3, <2>4
<1>6. \A j \in 1 .. Len(s) - 1 : At(j) \in DOMAIN s /\ At(j) # i
  BY <1>1
<1>7. \A j, k \in 1 .. Len(s) - 1 : At(j) = At(k) => j = k
  BY <1>1
<1> HIDE DEF At
<1>8. Elements(Without(s, i)) \subseteq Elements(s)
  BY <1>5, <1>6 DEF Elements
<1>9. ASSUME Distinct(s) PROVE Distinct(Without(s, i)) /\ s[i] \notin Elements(Without(s, i))
  <2>1. ASSUME NEW j \in DOMAIN Without(s, i), NEW k \in DOMAIN Without(s, i),
               Without(s, i)[j] = Without(s, i)[k]
        PROVE  j = k
    BY <1>5, <1>6, <1>7, <1>9, <2>1 DEF Distinct
  <2>2. ASSUME NEW j \in DOMAIN Without(s, i) PROVE Without(s, i)[j] # s[i]
    BY <1>1, <1>5, <1>6, <1>9, <2>2 DEF Distinct
  <2> QED BY <2>1, <2>2 DEF Distinct, Elements
<1> QED BY <1>5, <1>8, <1>9

LEMMA ElementsInSet ==
    ASSUME NEW S, NEW s \in Seq(S)
    PROVE  Elements(s) \subseteq S
<1>1. \A i \in DOMAIN s : s[i] \in S
  OBVIOUS
<1> QED BY <1>1 DEF Elements

LEMMA DrainsFiveClasses == Len(DrainOrder) = 5 /\ \A i \in 1 .. 5 : DrainOrder[i] \in Classes
<1>1. Len(DrainOrder) = 5
  BY DEF DrainOrder
<1>2. /\ DrainOrder[1] = Safety /\ DrainOrder[2] = "Interactive"
      /\ DrainOrder[3] = "TelemetryCritical" /\ DrainOrder[4] = "Telemetry"
      /\ DrainOrder[5] = "Background"
  BY DEF DrainOrder
<1>3. \A i \in 1 .. 5 : i = 1 \/ i = 2 \/ i = 3 \/ i = 4 \/ i = 5
  OBVIOUS
<1> QED BY <1>1, <1>2, <1>3 DEF Classes, NonSafety

-----------------------------------------------------------------------------
(***************************************************************************)
(* The inductive invariant.  A request that may still be refused waits in  *)
(* one queue of its class and nowhere else.                                *)
(***************************************************************************)
Serving == {"t35", "io", "retry"}

Queued(c) == Elements(channel[c]) \cup Elements(pending[c])

QueueInv == \A c \in Classes :
    /\ Distinct(channel[c]) /\ Distinct(pending[c])
    /\ Elements(channel[c]) \cap Elements(pending[c]) = {}
    /\ \A r \in Queued(c) :
          /\ Class[r] = c /\ answer[r] = "waiting" /\ sent[r] = 0
          /\ pc \in Serving => command # r

(***************************************************************************)
(* The request in the actor's hands, and how often it was transmitted.     *)
(***************************************************************************)
ServeInv ==
    /\ \A r \in Requests : answer[r] = "new" => sent[r] = 0
    /\ pc \in Serving => command \in Requests /\ answer[command] = "waiting"
    /\ pc = "t35" => sent[command] = 0
    /\ pc \in {"io", "retry"} => sent[command] = retries + 1
    /\ pc = "io" /\ command \in Writes => retries = 0
    /\ pc = "retry" => command \in Reads /\ retries < ReadAttempts - 1

(***************************************************************************)
(* Whatever sleep the actor ends before it transmits ends in silence.      *)
(***************************************************************************)
FrameInv ==
    /\ lineFree <= now + T35
    /\ pc \in {"drain", "top", "idle", "t35"} => lineFree <= quiet
    /\ pc = "retry" => lineFree <= wake

ActorInv == TypeOK /\ QueueInv /\ ServeInv /\ FrameInv

LEMMA QueuedAreRequests ==
    ASSUME TypeOK, NEW c \in Classes
    PROVE  Queued(c) \subseteq Requests
<1>1. channel[c] \in Seq(Requests) /\ pending[c] \in Seq(Requests)
  BY DEF TypeOK
<1>2. Elements(channel[c]) \subseteq Requests /\ Elements(pending[c]) \subseteq Requests
  BY <1>1, ElementsInSet
<1> QED BY <1>2 DEF Queued

LEMMA ActorInit == Init => ActorInv
<1> SUFFICES ASSUME Init PROVE ActorInv
  OBVIOUS
<1> USE BusActorAssumption, BusScheduleAssumption
<1>1. \A c \in Classes : channel[c] = <<>> /\ pending[c] = <<>>
  BY DEF Init
<1>2. TypeOK
  <2>1. answer \in [Requests -> Port!Answers] /\ sent \in [Requests -> 0 .. ReadAttempts]
    BY DEF Init, Port!PortInit, Port!Requests, Requests, Port!Answers
  <2>2. /\ channel \in [Classes -> Seq(Requests)] /\ pending \in [Classes -> Seq(Requests)]
        /\ \A c \in Classes : Len(channel[c]) <= Capacity[c]
    <3>1. <<>> \in Seq(Requests) /\ Len(<<>>) = 0 /\ \A c \in Classes : Capacity[c] \in Nat
      OBVIOUS
    <3>2. \A n \in Nat : 0 <= n
      OBVIOUS
    <3> QED BY <1>1, <3>1, <3>2 DEF Init
  <2>3. burst \in 0 .. SafetyBurstLimit /\ wrr \in 0 .. ScheduleLength - 1
    BY DEF Init, ScheduleLength
  <2>4. drained \in 0 .. Len(DrainOrder) /\ retries \in 0 .. ReadAttempts - 1
    BY DrainsFiveClasses DEF Init
  <2>5. /\ wake \in Nat /\ quiet \in Nat /\ lineFree \in Nat /\ cancelled \in BOOLEAN
        /\ command \in Requests \cup {NoCommand}
    BY DEF Init
  <2>6. pc \in Awaits \cup {"drain", "top", "stopped"}
    BY DEF Init
  <2>7. now \in 0 .. MaxTime
    BY DEF Init
  <2> QED BY <2>1, <2>2, <2>3, <2>4, <2>5, <2>6, <2>7 DEF TypeOK
<1>3. QueueInv
  BY <1>1 DEF QueueInv, Queued, Elements, Distinct
<1>4. ServeInv
  BY DEF Init, ServeInv, Serving, Port!PortInit, Port!Requests, Requests
<1>5. FrameInv
  BY DEF Init, FrameInv
<1> QED BY <1>2, <1>3, <1>4, <1>5 DEF ActorInv

(***************************************************************************)
(* Draining a channel into its pending queue.                              *)
(***************************************************************************)
LEMMA PushStep ==
    ASSUME TypeOK, QueueInv, ServeInv,
           NEW c \in Classes, Push(c),
           pc \notin Serving, pc' \notin Serving, UNCHANGED sent
    PROVE  /\ channel' \in [Classes -> Seq(Requests)]
           /\ pending' \in [Classes -> Seq(Requests)]
           /\ \A d \in Classes : Len(channel'[d]) <= Capacity[d]
           /\ answer' \in [Requests -> Port!Answers]
           /\ QueueInv'
           /\ ServeInv'
           /\ \/ UNCHANGED answer
              \/ \E r \in Requests : Port!Refuse(r)
<1> USE BusActorAssumption
<1> DEFINE r == Head(channel[c])
<1>1. channel[c] \in Seq(Requests) /\ channel[c] # <<>> /\ pending[c] \in Seq(Requests)
  BY DEF Push, TypeOK
<1>2. /\ r \in Requests /\ r \in Elements(channel[c])
      /\ Tail(channel[c]) \in Seq(Requests) /\ Len(Tail(channel[c])) <= Len(channel[c])
      /\ Elements(Tail(channel[c])) \subseteq Elements(channel[c])
      /\ Distinct(channel[c]) =>
            Distinct(Tail(channel[c])) /\ r \notin Elements(Tail(channel[c]))
  BY <1>1, TailElements
<1>3. /\ Append(pending[c], r) \in Seq(Requests)
      /\ Elements(Append(pending[c], r)) = Elements(pending[c]) \cup {r}
      /\ Distinct(pending[c]) /\ r \notin Elements(pending[c]) => Distinct(Append(pending[c], r))
  BY <1>1, <1>2, AppendElements
<1>4. /\ Distinct(channel[c]) /\ Distinct(pending[c]) /\ r \notin Elements(pending[c])
      /\ Class[r] = c /\ answer[r] = "waiting" /\ sent[r] = 0
  BY <1>2 DEF QueueInv, Queued
<1>5. /\ channel' = [channel EXCEPT ![c] = Tail(@)]
      /\ pending' = IF OverLimit(r) THEN pending ELSE [pending EXCEPT ![c] = Append(@, r)]
      /\ answer' = IF OverLimit(r) THEN [answer EXCEPT ![r] = "QueueFull"] ELSE answer
  BY DEF Push
<1> HIDE DEF r
<1>6. /\ channel' \in [Classes -> Seq(Requests)]
      /\ pending' \in [Classes -> Seq(Requests)]
      /\ answer' \in [Requests -> Port!Answers]
  BY <1>2, <1>3, <1>5 DEF TypeOK, Port!Answers, Port!Refusals
<1>7. \A d \in Classes : Len(channel'[d]) <= Capacity[d]
  <2>1. Len(Tail(channel[c])) \in Nat /\ Len(channel[c]) \in Nat
    BY <1>1, <1>2
  <2> QED BY <1>2, <1>5, <2>1 DEF TypeOK
<1>8. \A d \in Classes : d # c => channel'[d] = channel[d] /\ pending'[d] = pending[d]
  BY <1>5 DEF TypeOK
<1>9. /\ channel'[c] = Tail(channel[c])
      /\ pending'[c] = IF OverLimit(r) THEN pending[c] ELSE Append(pending[c], r)
  BY <1>5 DEF TypeOK
<1>10. \A x \in Requests : x # r \/ ~OverLimit(r) => answer'[x] = answer[x]
  BY <1>5 DEF TypeOK
<1>11. QueueInv'
  <2> SUFFICES ASSUME NEW d \in Classes
               PROVE  /\ Distinct(channel'[d]) /\ Distinct(pending'[d])
                      /\ Elements(channel'[d]) \cap Elements(pending'[d]) = {}
                      /\ \A x \in Elements(channel'[d]) \cup Elements(pending'[d]) :
                            Class[x] = d /\ answer'[x] = "waiting" /\ sent[x] = 0
    BY DEF QueueInv, Queued
  <2>0. \A x \in Elements(channel[d]) \cup Elements(pending[d]) : x \in Requests
    BY DEF Elements, TypeOK
  <2>1. CASE d # c
    BY <1>4, <1>8, <1>10, <2>0, <2>1 DEF QueueInv, Queued
  <2>2. CASE d = c
    <3>1. Distinct(channel'[c]) /\ Distinct(pending'[c])
      BY <1>2, <1>3, <1>4, <1>9
    <3>2. Elements(channel'[c]) \cap Elements(pending'[c]) = {}
      <4>1. Elements(channel[c]) \cap Elements(pending[c]) = {}
        BY DEF QueueInv
      <4>2. CASE OverLimit(r)
        BY <1>2, <1>9, <4>1, <4>2
      <4>3. CASE ~OverLimit(r)
        <5>1. channel'[c] = Tail(channel[c]) /\ pending'[c] = Append(pending[c], r)
          BY <1>9, <4>3
        <5>2. r \notin Elements(Tail(channel[c]))
          BY <1>2, <1>4
        <5> QED BY <1>2, <1>3, <4>1, <5>1, <5>2
      <4> QED BY <4>2, <4>3
    <3>3. \A x \in Elements(channel'[c]) \cup Elements(pending'[c]) :
             /\ x \in Queued(c)
             /\ OverLimit(r) => x # r
      BY <1>2, <1>3, <1>4, <1>9 DEF Queued
    <3> QED BY <1>10, <2>0, <2>2, <3>1, <3>2, <3>3 DEF QueueInv, Queued
  <2> QED BY <2>1, <2>2
<1>12. ServeInv'
  <2>1. \A x \in Requests : answer'[x] = "new" => answer[x] = "new"
    BY <1>4, <1>5 DEF TypeOK
  <2> QED BY <2>1 DEF ServeInv, Serving
<1>13. UNCHANGED answer \/ \E x \in Requests : Port!Refuse(x)
  <2>1. CASE OverLimit(r)
    BY <1>2, <1>4, <1>5, <2>1 DEF Port!Refuse, Port!Refusals
  <2> QED BY <1>5, <2>1
<1> QED BY <1>6, <1>7, <1>11, <1>12, <1>13

(***************************************************************************)
(* Taking the selected request out of its pending queue.                   *)
(***************************************************************************)
LEMMA ServeStep ==
    ASSUME TypeOK, QueueInv, ServeInv, pc = "top",
           NEW c \in Classes, Serve(c), UNCHANGED <<sent, channel>>
    PROVE  /\ pending' \in [Classes -> Seq(Requests)]
           /\ answer' \in [Requests -> Port!Answers]
           /\ command' \in Requests \cup {NoCommand}
           /\ pc' \in {"drain", "t35"}
           /\ QueueInv'
           /\ ServeInv'
           /\ \/ UNCHANGED answer
              \/ \E r \in Requests : Port!Refuse(r)
<1> USE BusActorAssumption
<1>1. PICK i \in DOMAIN pending[c] :
         /\ pending' = [pending EXCEPT ![c] = Without(@, i)]
         /\ answer' = IF Expired(pending[c][i])
                      THEN [answer EXCEPT ![pending[c][i]] = "TimeoutBeforeSend"] ELSE answer
         /\ command' = IF Expired(pending[c][i]) THEN NoCommand ELSE pending[c][i]
         /\ pc' = IF Expired(pending[c][i]) THEN "drain" ELSE "t35"
  BY DEF Serve
<1> DEFINE r == pending[c][i]
<1>2. pending[c] \in Seq(Requests) /\ r \in Requests /\ r \in Elements(pending[c])
  <2>1. pending[c] \in Seq(Requests)
    BY DEF TypeOK
  <2>2. r \in Elements(pending[c])
    BY DEF Elements
  <2> QED BY <2>1, <2>2, ElementsInSet
<1>3. /\ Without(pending[c], i) \in Seq(Requests)
      /\ Elements(Without(pending[c], i)) \subseteq Elements(pending[c])
      /\ Distinct(pending[c]) =>
            Distinct(Without(pending[c], i)) /\ r \notin Elements(Without(pending[c], i))
  BY <1>2, WithoutElements
<1>4. /\ Distinct(pending[c]) /\ r \notin Elements(channel[c])
      /\ Class[r] = c /\ answer[r] = "waiting" /\ sent[r] = 0
  BY <1>2 DEF QueueInv, Queued
<1>5. /\ answer' = IF Expired(r) THEN [answer EXCEPT ![r] = "TimeoutBeforeSend"] ELSE answer
      /\ command' = IF Expired(r) THEN NoCommand ELSE r
      /\ pc' = IF Expired(r) THEN "drain" ELSE "t35"
  BY <1>1
<1> HIDE DEF r
<1>6. /\ pending' \in [Classes -> Seq(Requests)]
      /\ answer' \in [Requests -> Port!Answers]
      /\ command' \in Requests \cup {NoCommand}
      /\ pc' \in {"drain", "t35"}
  BY <1>1, <1>2, <1>3, <1>5 DEF TypeOK, Port!Answers, Port!Refusals
<1>7. /\ \A d \in Classes : d # c => pending'[d] = pending[d]
      /\ pending'[c] = Without(pending[c], i)
  BY <1>1 DEF TypeOK
<1>8. \A x \in Requests : x # r => answer'[x] = answer[x]
  BY <1>5 DEF TypeOK
<1>9. QueueInv'
  <2> SUFFICES ASSUME NEW d \in Classes
               PROVE  /\ Distinct(channel[d]) /\ Distinct(pending'[d])
                      /\ Elements(channel[d]) \cap Elements(pending'[d]) = {}
                      /\ \A x \in Elements(channel[d]) \cup Elements(pending'[d]) :
                            /\ Class[x] = d /\ answer'[x] = "waiting" /\ sent[x] = 0
                            /\ pc' \in Serving => command' # x
    BY DEF QueueInv, Queued
  <2>1. /\ Elements(pending'[d]) \subseteq Elements(pending[d])
        /\ Distinct(pending'[d])
    BY <1>3, <1>4, <1>7 DEF QueueInv
  <2>2. \A x \in Elements(channel[d]) \cup Elements(pending[d]) :
           x \in Requests /\ Class[x] = d /\ answer[x] = "waiting" /\ sent[x] = 0
    BY QueuedAreRequests DEF QueueInv, Queued
  <2>3. \A x \in Elements(channel[d]) \cup Elements(pending'[d]) : x # r
    <3>1. CASE d # c
      BY <1>4, <2>1, <2>2, <3>1
    <3>2. CASE d = c
      BY <1>3, <1>4, <1>7, <3>2
    <3> QED BY <3>1, <3>2
  <2>4. pc' \in Serving => command' = r
    BY <1>5 DEF Serving
  <2> QED BY <1>8, <2>1, <2>2, <2>3, <2>4 DEF QueueInv
<1>10. ServeInv'
  <2>1. \A x \in Requests : answer'[x] = "new" => answer[x] = "new"
    BY <1>4, <1>5 DEF TypeOK
  <2>2. pc' = "t35" => command' = r /\ answer' = answer
    BY <1>5
  <2> QED BY <1>2, <1>4, <1>6, <2>1, <2>2 DEF ServeInv, Serving
<1>11. UNCHANGED answer \/ \E x \in Requests : Port!Refuse(x)
  <2>1. CASE Expired(r)
    BY <1>2, <1>4, <1>5, <2>1 DEF Port!Refuse, Port!Refusals
  <2> QED BY <1>5, <2>1
<1> QED BY <1>6, <1>9, <1>10, <1>11

(***************************************************************************)
(* The steps that leave the queues alone and answer or transmit at most    *)
(* the request in hand.                                                    *)
(***************************************************************************)
LEMMA QueuesKept ==
    ASSUME TypeOK, QueueInv, UNCHANGED queueVars,
           \A r \in Requests : \/ pc \in Serving /\ r = command
                               \/ answer'[r] = answer[r] /\ sent'[r] = sent[r],
           pc' \in Serving => pc \in Serving /\ command' = command
    PROVE  QueueInv'
<1>1. channel' = channel /\ pending' = pending
  BY DEF queueVars
<1>2. \A c \in Classes : \A r \in Queued(c) : r \in Requests
  BY DEF Queued, Elements, TypeOK
<1> QED BY <1>1, <1>2 DEF QueueInv, Queued

(***************************************************************************)
(* The exchange ends with a result for the request in hand.                *)
(***************************************************************************)
LEMMA FinishStep ==
    ASSUME TypeOK, QueueInv, ServeInv, pc \in {"io", "retry"},
           NEW result \in Port!Results(command), Finish(result)
    PROVE  /\ answer' \in [Requests -> Port!Answers]
           /\ quiet' \in Nat
           /\ QueueInv'
           /\ ServeInv'
           /\ Port!Complete(command)
<1> USE BusActorAssumption
<1>1. /\ command \in Requests /\ answer[command] = "waiting"
      /\ sent[command] = retries + 1 /\ retries \in Nat /\ pc \in Serving
  BY DEF ServeInv, Serving, TypeOK
<1>2. /\ answer' = [answer EXCEPT ![command] = result]
      /\ quiet' = now + T35 /\ pc' = "drain" /\ command' = NoCommand
      /\ UNCHANGED <<sent, queueVars, retries>>
  BY DEF Finish, queueVars
<1>3. result \in Port!Answers /\ result # "new"
  BY DEF Port!Results, Port!ReadResults, Port!WriteResults, Port!Answers
<1>4. answer' \in [Requests -> Port!Answers] /\ quiet' \in Nat
  BY <1>1, <1>2, <1>3 DEF TypeOK
<1>5. \A r \in Requests : r # command => answer'[r] = answer[r]
  BY <1>2 DEF TypeOK
<1>6. QueueInv'
  BY <1>1, <1>2, <1>5, QueuesKept DEF Serving
<1>7. ServeInv'
  <2>1. answer'[command] = result
    BY <1>1, <1>2 DEF TypeOK
  <2> QED BY <1>2, <1>3, <1>5, <2>1 DEF ServeInv, Serving
<1>8. Port!Complete(command)
  <2>1. sent[command] > 0
    BY <1>1
  <2> QED BY <1>1, <1>2, <2>1 DEF Port!Complete
<1> QED BY <1>4, <1>6, <1>7, <1>8

(***************************************************************************)
(* Sending to a channel: the request is new, so it waits nowhere yet.      *)
(***************************************************************************)
LEMMA SubmitStep ==
    ASSUME ActorInv, NEW r \in Requests, Submit(r)
    PROVE  ActorInv' /\ (Port!Accept(r) \/ Port!Refuse(r))
<1> USE BusActorAssumption
<1> DEFINE c == Class[r]
           sends == ~(pc = "stopped" \/ Len(channel[c]) >= Capacity[c])
<1>1. /\ answer[r] = "new" /\ sent[r] = 0 /\ c \in Classes
      /\ TypeOK /\ QueueInv /\ ServeInv /\ FrameInv
  BY DEF Submit, ActorInv, ServeInv
<1>2. /\ channel' = IF sends THEN [channel EXCEPT ![c] = Append(@, r)] ELSE channel
      /\ UNCHANGED <<now, sent, pending, burst, wrr, pc, drained, serveVars, quiet,
                     cancelled, lineFree>>
  BY DEF Submit
<1>3. /\ answer' = [answer EXCEPT ![r] = IF sends THEN "waiting" ELSE answer'[r]]
      /\ ~sends => answer'[r] \in {"Shutdown", "QueueFull"}
  BY <1>1 DEF Submit, TypeOK
<1>4. channel[c] \in Seq(Requests) /\ pending[c] \in Seq(Requests)
  BY <1>1 DEF TypeOK
<1>5. /\ Append(channel[c], r) \in Seq(Requests)
      /\ Len(Append(channel[c], r)) = Len(channel[c]) + 1
      /\ Elements(Append(channel[c], r)) = Elements(channel[c]) \cup {r}
      /\ Distinct(channel[c]) /\ r \notin Elements(channel[c]) => Distinct(Append(channel[c], r))
  BY <1>4, AppendElements
<1> HIDE DEF sends
<1>6. TypeOK'
  <2>1. answer' \in [Requests -> Port!Answers]
    BY <1>1, <1>3 DEF TypeOK, Port!Answers, Port!Refusals
  <2>2. channel' \in [Classes -> Seq(Requests)]
    BY <1>1, <1>2, <1>5 DEF TypeOK
  <2>3. ASSUME NEW d \in Classes PROVE Len(channel'[d]) <= Capacity[d]
    <3>1. CASE d = c /\ sends
      <4>1. Len(channel[c]) \in Nat /\ Capacity[c] \in Nat /\ ~(Len(channel[c]) >= Capacity[c])
        BY <1>1, <1>4, <3>1 DEF sends
      <4>2. channel'[c] = Append(channel[c], r)
        BY <1>1, <1>2, <3>1 DEF TypeOK
      <4> QED BY <1>5, <3>1, <4>1, <4>2
    <3>2. CASE ~(d = c /\ sends)
      BY <1>1, <1>2, <3>2 DEF TypeOK
    <3> QED BY <3>1, <3>2
  <2> QED BY <1>1, <1>2, <2>1, <2>2, <2>3 DEF TypeOK, serveVars
<1>7. \A x \in Requests : x # r => answer'[x] = answer[x]
  BY <1>1, <1>3 DEF TypeOK
<1>8. answer'[r] # "new" /\ (sends => answer'[r] = "waiting")
  BY <1>1, <1>3 DEF TypeOK
<1>9. \A d \in Classes : \A x \in Queued(d) : x \in Requests /\ x # r
  BY <1>1, QueuedAreRequests DEF QueueInv
<1>10. pc \in Serving => command # r
  BY <1>1 DEF ServeInv
<1>11. QueueInv'
  <2> SUFFICES ASSUME NEW d \in Classes
               PROVE  /\ Distinct(channel'[d]) /\ Distinct(pending[d])
                      /\ Elements(channel'[d]) \cap Elements(pending[d]) = {}
                      /\ \A x \in Elements(channel'[d]) \cup Elements(pending[d]) :
                            /\ Class[x] = d /\ answer'[x] = "waiting" /\ sent[x] = 0
                            /\ pc \in Serving => command # x
    BY <1>2 DEF QueueInv, Queued, serveVars
  <2>1. CASE d = c /\ sends
    <3>1. channel'[d] = Append(channel[c], r)
      BY <1>1, <1>2, <2>1 DEF TypeOK
    <3>2. Distinct(channel[c]) /\ r \notin Elements(channel[c]) /\ r \notin Elements(pending[c])
      BY <1>1, <1>9 DEF QueueInv, Queued
    <3>3. Distinct(channel'[d]) /\ Distinct(pending[d])
      BY <1>1, <1>5, <2>1, <3>1, <3>2 DEF QueueInv
    <3>4. Elements(channel[d]) \cap Elements(pending[d]) = {}
      BY <1>1 DEF QueueInv
    <3>5. Elements(channel'[d]) = Elements(channel[d]) \cup {r}
      BY <1>5, <2>1, <3>1
    <3>6. Elements(channel'[d]) \cap Elements(pending[d]) = {}
      BY <2>1, <3>2, <3>4, <3>5
    <3>7. /\ Class[r] = d /\ answer'[r] = "waiting" /\ sent[r] = 0
          /\ pc \in Serving => command # r
      BY <1>1, <1>8, <1>10, <2>1
    <3>8. ASSUME NEW x \in Queued(d)
          PROVE  /\ Class[x] = d /\ answer'[x] = "waiting" /\ sent[x] = 0
                 /\ pc \in Serving => command # x
      BY <1>1, <1>7, <1>9 DEF QueueInv
    <3> QED BY <3>3, <3>5, <3>6, <3>7, <3>8 DEF Queued
  <2>2. CASE ~(d = c /\ sends)
    <3>1. channel'[d] = channel[d]
      BY <1>1, <1>2, <2>2 DEF TypeOK
    <3> QED BY <1>1, <1>7, <1>9, <3>1 DEF QueueInv, Queued
  <2> QED BY <2>1, <2>2
<1>12. ServeInv'
  BY <1>1, <1>2, <1>7, <1>8, <1>10 DEF ServeInv, serveVars
<1>13. FrameInv'
  BY <1>1, <1>2 DEF FrameInv, serveVars
<1>14. Port!Accept(r) \/ Port!Refuse(r)
  <2>1. CASE sends
    BY <1>1, <1>2, <1>3, <2>1 DEF Port!Accept
  <2>2. CASE ~sends
    BY <1>1, <1>2, <1>3, <2>2 DEF Port!Refuse, Port!Refusals
  <2> QED BY <2>1, <2>2
<1> QED BY <1>6, <1>11, <1>12, <1>13, <1>14 DEF ActorInv

(***************************************************************************)
(* Cancelled at its top or aborted at an await, the actor drops its queues.*)
(***************************************************************************)
LEMMA StopStep ==
    ASSUME ActorInv, Stop
    PROVE  ActorInv' /\ Port!Abandon
<1> USE BusActorAssumption
<1>1. /\ Port!Abandon
      /\ channel' = [c \in Classes |-> <<>>] /\ pending' = [c \in Classes |-> <<>>]
      /\ pc' = "stopped" /\ command' = NoCommand
      /\ UNCHANGED <<now, sent, burst, wrr, drained, retries, wake, quiet, cancelled, lineFree>>
      /\ TypeOK /\ ServeInv /\ FrameInv
  BY DEF Stop, ActorInv, Port!Abandon
<1>2. answer' = [r \in Requests |-> IF answer[r] = "waiting" THEN "Shutdown" ELSE answer[r]]
  BY <1>1 DEF Port!Abandon, Port!Requests, Requests
<1>3. \A c \in Classes : channel'[c] = <<>> /\ pending'[c] = <<>>
  BY <1>1
<1>4. TypeOK'
  <2>1. answer' \in [Requests -> Port!Answers]
    BY <1>1, <1>2 DEF TypeOK, Port!Answers
  <2>2. /\ channel' \in [Classes -> Seq(Requests)] /\ pending' \in [Classes -> Seq(Requests)]
        /\ \A c \in Classes : Len(channel'[c]) <= Capacity[c]
    BY <1>1, <1>3
  <2> QED BY <1>1, <2>1, <2>2 DEF TypeOK
<1>5. QueueInv'
  BY <1>3 DEF QueueInv, Queued, Elements, Distinct
<1>6. ServeInv'
  BY <1>1, <1>2 DEF ServeInv, Serving
<1>7. FrameInv'
  BY <1>1 DEF FrameInv
<1> QED BY <1>1, <1>4, <1>5, <1>6, <1>7 DEF ActorInv

(***************************************************************************)
(* What a step of the actor is to its port.                                *)
(***************************************************************************)
PortStep ==
    \/ \E r \in Requests :
          Port!Accept(r) \/ Port!Refuse(r) \/ Port!Transmit(r) \/ Port!Complete(r)
    \/ Port!Abandon
    \/ UNCHANGED portVars

LEMMA ActorStep ==
    ASSUME ActorInv, [Next]_vars
    PROVE  ActorInv' /\ PortStep
<1> USE BusActorAssumption, BusScheduleAssumption
<1>0. TypeOK /\ QueueInv /\ ServeInv /\ FrameInv
  BY DEF ActorInv
<1>1. CASE Tick
  <2>1. now < MaxTime /\ now' = now + 1
        /\ UNCHANGED <<answer, sent, channel, pending, burst, wrr, pc, drained, command,
                       retries, wake, quiet, cancelled, lineFree>>
    BY <1>1 DEF Tick, portVars, queueVars, serveVars
  <2>2. TypeOK'
    BY <1>0, <2>1 DEF TypeOK
  <2>3. QueueInv' /\ ServeInv'
    BY <1>0, <2>1 DEF QueueInv, Queued, ServeInv
  <2>4. FrameInv'
    BY <1>0, <2>1 DEF FrameInv, TypeOK
  <2> QED BY <2>1, <2>2, <2>3, <2>4 DEF ActorInv, PortStep, portVars
<1>2. CASE Shutdown \/ UNCHANGED vars
  <2>1. /\ UNCHANGED <<now, answer, sent, channel, pending, burst, wrr, pc, drained, command,
                       retries, wake, quiet, lineFree>>
        /\ cancelled' \in BOOLEAN
    BY <1>0, <1>2 DEF Shutdown, TypeOK, vars, portVars, queueVars, serveVars
  <2>2. TypeOK'
    BY <1>0, <2>1 DEF TypeOK
  <2>3. QueueInv' /\ ServeInv' /\ FrameInv'
    BY <1>0, <2>1 DEF QueueInv, Queued, ServeInv, FrameInv
  <2> QED BY <2>1, <2>2, <2>3 DEF ActorInv, PortStep, portVars
<1>3. CASE \E r \in Requests : Submit(r)
  BY <1>3, SubmitStep DEF PortStep
<1>4. CASE DrainOne \/ WakeReceived
  <2>1. PICK c \in Classes : Push(c)
    <3>1. CASE DrainOne
      <4>1. drained \in 0 .. 5 /\ drained < 5 /\ Push(DrainOrder[drained + 1])
        BY <1>0, <3>1, DrainsFiveClasses DEF DrainOne, TypeOK
      <4>2. drained + 1 \in 1 .. 5
        BY <4>1
      <4> QED BY <4>1, <4>2, DrainsFiveClasses
    <3>2. CASE WakeReceived
      BY <3>2 DEF WakeReceived
    <3> QED BY <1>4, <3>1, <3>2
  <2>2. /\ pc \in {"drain", "idle"} /\ pc' = "drain"
        /\ UNCHANGED <<now, sent, burst, wrr, drained, command, retries, wake, quiet,
                       cancelled, lineFree>>
    BY <1>4 DEF DrainOne, WakeReceived, serveVars
  <2>3. /\ channel' \in [Classes -> Seq(Requests)]
        /\ pending' \in [Classes -> Seq(Requests)]
        /\ \A d \in Classes : Len(channel'[d]) <= Capacity[d]
        /\ answer' \in [Requests -> Port!Answers]
        /\ QueueInv' /\ ServeInv'
        /\ UNCHANGED answer \/ \E r \in Requests : Port!Refuse(r)
    BY <1>0, <2>1, <2>2, PushStep DEF Serving
  <2>4. TypeOK'
    BY <1>0, <2>2, <2>3 DEF TypeOK
  <2>5. FrameInv'
    BY <1>0, <2>2 DEF FrameInv
  <2> QED BY <2>2, <2>3, <2>4, <2>5 DEF ActorInv, PortStep, portVars
<1>5. CASE DrainNext \/ Idle \/ WakeCancelled
  <2>1. /\ pc \in {"drain", "top", "idle"} /\ pc' \in {"drain", "top", "idle"}
        /\ UNCHANGED <<now, answer, sent, channel, pending, burst, wrr, command, retries,
                       wake, quiet, cancelled, lineFree>>
    BY <1>5 DEF DrainNext, Idle, WakeCancelled, portVars, queueVars, serveVars
  <2>2. drained' \in 0 .. Len(DrainOrder)
    <3>1. drained \in 0 .. 5
      BY <1>0, DrainsFiveClasses DEF TypeOK
    <3>2. drained' = drained \/ drained' = 0 \/ (drained < 5 /\ drained' = drained + 1)
      BY <1>5, DrainsFiveClasses DEF DrainNext, Idle, WakeCancelled
    <3>3. drained' \in 0 .. 5
      BY <3>1, <3>2
    <3> QED BY <3>3, DrainsFiveClasses
  <2>3. TypeOK'
    BY <1>0, <2>1, <2>2 DEF TypeOK, Awaits
  <2>4. QueueInv' /\ ServeInv'
    BY <1>0, <2>1 DEF QueueInv, Queued, ServeInv, Serving
  <2>5. FrameInv'
    BY <1>0, <2>1 DEF FrameInv
  <2> QED BY <2>1, <2>3, <2>4, <2>5 DEF ActorInv, PortStep, portVars
<1>6. CASE Stop
  BY <1>6, StopStep DEF PortStep
<1>7. CASE SelectSafety \/ SelectNonSafety
  <2>1. PICK c \in Classes : Serve(c)
    <3>1. CASE SelectSafety
      BY <3>1 DEF SelectSafety, Classes
    <3>2. CASE SelectNonSafety
      BY <3>2 DEF SelectNonSafety, SlotAfter, Slot, Classes, NonSafety
    <3> QED BY <1>7, <3>1, <3>2
  <2>2. /\ pc = "top"
        /\ UNCHANGED <<now, sent, channel, drained, retries, wake, quiet, cancelled, lineFree>>
    BY <1>7 DEF SelectSafety, SelectNonSafety
  <2>3. burst' \in 0 .. SafetyBurstLimit
    <3>1. burst \in 0 .. SafetyBurstLimit /\ SafetyBurstLimit \in Nat
      BY <1>0 DEF TypeOK
    <3>2. \/ burst' = 0 \/ burst' = SafetyBurstLimit
          \/ (burst < SafetyBurstLimit /\ burst' = burst + 1)
      BY <1>7, <3>1 DEF SelectSafety, SelectNonSafety, NextBurst
    <3> QED BY <3>1, <3>2
  <2>4. wrr' \in 0 .. ScheduleLength - 1
    <3>1. CASE SelectSafety
      BY <1>0, <3>1 DEF SelectSafety, TypeOK
    <3>2. CASE SelectNonSafety
      <4>1. PICK k \in 0 .. 10 : wrr' = NextSlot(wrr, k)
        BY <3>2 DEF SelectNonSafety, ScheduleLength
      <4>2. wrr \in 0 .. 10
        BY <1>0 DEF TypeOK, ScheduleLength
      <4>3. (wrr + k + 1) % 11 \in 0 .. 10
        BY <4>1, <4>2
      <4> QED BY <4>1, <4>3 DEF NextSlot, ScheduleLength
    <3> QED BY <1>7, <3>1, <3>2
  <2>5. /\ pending' \in [Classes -> Seq(Requests)]
        /\ answer' \in [Requests -> Port!Answers]
        /\ command' \in Requests \cup {NoCommand}
        /\ pc' \in {"drain", "t35"}
        /\ QueueInv' /\ ServeInv'
        /\ UNCHANGED answer \/ \E r \in Requests : Port!Refuse(r)
    BY <1>0, <2>1, <2>2, ServeStep
  <2>6. TypeOK'
    BY <1>0, <2>2, <2>3, <2>4, <2>5 DEF TypeOK, Awaits
  <2>7. FrameInv'
    BY <1>0, <2>2, <2>5 DEF FrameInv
  <2> QED BY <2>2, <2>5, <2>6, <2>7 DEF ActorInv, PortStep, portVars
<1>8. CASE AfterSilence \/ Retry
  <2>1. /\ command \in Requests /\ answer[command] = "waiting"
        /\ pc \in Serving /\ retries \in Nat
    BY <1>0, <1>8 DEF AfterSilence, Retry, ServeInv, Serving, TypeOK
  <2>2. UNCHANGED <<now, channel, pending, burst, wrr, drained, wake, quiet, cancelled, lineFree>>
    BY <1>8 DEF AfterSilence, Retry, queueVars
  <2>3. CASE pc = "t35" /\ Expired(command)
    <3>1. /\ answer' = [answer EXCEPT ![command] = "TimeoutBeforeSend"] /\ sent[command] = 0
          /\ pc' = "drain" /\ command' = NoCommand /\ UNCHANGED sent /\ retries' = 0
      BY <1>0, <1>8, <2>3 DEF AfterSilence, Retry, ServeInv
    <3>2. \A r \in Requests : r # command => answer'[r] = answer[r]
      BY <1>0, <3>1 DEF TypeOK
    <3>3. answer'[command] = "TimeoutBeforeSend"
      BY <1>0, <2>1, <3>1 DEF TypeOK
    <3>4. QueueInv'
      BY <1>0, <2>1, <2>2, <3>1, <3>2, QueuesKept DEF queueVars, Serving
    <3>5. ServeInv'
      BY <1>0, <3>1, <3>2, <3>3 DEF ServeInv, Serving
    <3>6. TypeOK'
      <4>1. answer' \in [Requests -> Port!Answers]
        BY <1>0, <2>1, <3>1 DEF TypeOK, Port!Answers, Port!Refusals
      <4> QED BY <1>0, <2>2, <3>1, <4>1 DEF TypeOK
    <3>7. FrameInv'
      BY <1>0, <2>2, <2>3, <3>1 DEF FrameInv
    <3>8. Port!Refuse(command)
      BY <2>1, <3>1 DEF Port!Refuse, Port!Refusals
    <3> QED BY <2>1, <3>4, <3>5, <3>6, <3>7, <3>8 DEF ActorInv, PortStep
  <2>4. CASE ~(pc = "t35" /\ Expired(command))
    <3>1. /\ sent' = [sent EXCEPT ![command] = @ + 1]
          /\ pc' = "io" /\ UNCHANGED <<answer, command>>
      BY <1>0, <1>8, <2>4 DEF AfterSilence, Retry
    <3>2. /\ sent'[command] = sent[command] + 1 /\ sent[command] \in Nat
          /\ \A r \in Requests : r # command => sent'[r] = sent[r]
      BY <1>0, <2>1, <3>1 DEF TypeOK
    <3>3. /\ sent[command] + 1 <= ReadAttempts
          /\ sent[command] < Port!Attempts(command)
          /\ retries' \in 0 .. ReadAttempts - 1
          /\ sent[command] = retries'
          /\ command \in Writes => retries' = 0
      <4>1. CASE AfterSilence
        <5>1. sent[command] = 0 /\ retries' = 0
          BY <1>0, <4>1 DEF AfterSilence, ServeInv
        <5> QED BY <5>1 DEF Port!Attempts
      <4>2. CASE Retry
        <5>1. /\ sent[command] = retries + 1 /\ retries' = retries + 1
              /\ command \in Reads /\ retries < ReadAttempts - 1
          BY <1>0, <4>2 DEF Retry, ServeInv
        <5>2. command \notin Writes
          BY <5>1
        <5> QED BY <2>1, <5>1, <5>2 DEF Port!Attempts
      <4> QED BY <1>8, <4>1, <4>2
    <3>4. QueueInv'
      BY <1>0, <2>1, <2>2, <3>1, <3>2, QueuesKept DEF queueVars, Serving
    <3>5. ServeInv'
      <4>1. sent'[command'] = retries' + 1
        BY <3>1, <3>2, <3>3
      <4>2. \A r \in Requests : answer'[r] = "new" => sent'[r] = 0
        BY <1>0, <2>1, <3>1, <3>2 DEF ServeInv
      <4> QED BY <2>1, <3>1, <3>3, <4>1, <4>2 DEF ServeInv, Serving
    <3>6. TypeOK'
      <4>1. sent' \in [Requests -> 0 .. ReadAttempts]
        <5>1. sent \in [Requests -> 0 .. ReadAttempts]
          BY <1>0 DEF TypeOK
        <5>2. sent[command] + 1 \in 0 .. ReadAttempts
          <6>1. sent[command] \in Nat /\ sent[command] + 1 <= ReadAttempts
            BY <3>2, <3>3
          <6>2. \A n \in Nat : n + 1 <= ReadAttempts => n + 1 \in 0 .. ReadAttempts
            OBVIOUS
          <6> QED BY <6>1, <6>2
        <5> QED BY <2>1, <3>1, <5>1, <5>2
      <4> QED BY <1>0, <2>2, <3>1, <3>3, <4>1 DEF TypeOK, Awaits
    <3>7. FrameInv'
      BY <1>0, <2>2, <3>1 DEF FrameInv
    <3>8. Port!Transmit(command)
      BY <2>1, <3>1, <3>3 DEF Port!Transmit
    <3> QED BY <2>1, <3>4, <3>5, <3>6, <3>7, <3>8 DEF ActorInv, PortStep
  <2> QED BY <2>3, <2>4
<1>9. CASE ReadReturns \/ RetryExpired \/ WriteReturns
  <2>1. PICK result \in Port!Results(command) : Finish(result)
    <3>1. CASE ReadReturns
      BY <3>1 DEF ReadReturns, Port!Results
    <3>2. CASE RetryExpired
      BY <1>0, <3>2 DEF RetryExpired, ServeInv, Port!Results, Port!ReadResults
    <3>3. CASE WriteReturns
      BY <3>3 DEF WriteReturns, Port!Results
    <3> QED BY <1>9, <3>1, <3>2, <3>3
  <2>2. /\ pc \in {"io", "retry"} /\ command \in Requests
        /\ pc' = "drain" /\ command' = NoCommand /\ quiet' = now + T35
        /\ UNCHANGED <<now, sent, channel, pending, burst, wrr, drained, retries, wake, cancelled>>
    BY <1>0, <1>9, <2>1 DEF ReadReturns, RetryExpired, WriteReturns, Finish, queueVars,
       ServeInv, Serving
  <2>3. /\ answer' \in [Requests -> Port!Answers] /\ quiet' \in Nat
        /\ QueueInv' /\ ServeInv' /\ Port!Complete(command)
    BY <1>0, <2>1, <2>2, FinishStep
  <2>4. lineFree' \in Nat /\ lineFree' <= now + T35
    BY <1>0, <1>9 DEF ReadReturns, RetryExpired, WriteReturns, FrameInv, TypeOK
  <2>5. TypeOK'
    BY <1>0, <2>2, <2>3, <2>4 DEF TypeOK
  <2>6. FrameInv'
    BY <2>2, <2>4 DEF FrameInv
  <2> QED BY <2>2, <2>3, <2>5, <2>6 DEF ActorInv, PortStep
<1>10. CASE ReadFails
  <2>1. /\ pc = "io" /\ pc' = "retry" /\ command \in Reads /\ retries < ReadAttempts - 1
        /\ wake' = now + T35 /\ lineFree' = now + T35
        /\ UNCHANGED <<now, answer, sent, channel, pending, burst, wrr, drained, command,
                       retries, quiet, cancelled>>
    BY <1>10 DEF ReadFails, portVars, queueVars
  <2>2. TypeOK'
    BY <1>0, <2>1 DEF TypeOK, Awaits
  <2>3. QueueInv'
    BY <1>0, <2>1, QueuesKept DEF queueVars, Serving
  <2>4. ServeInv'
    BY <1>0, <2>1 DEF ServeInv, Serving
  <2>5. FrameInv'
    BY <1>0, <2>1 DEF FrameInv, TypeOK
  <2> QED BY <2>1, <2>2, <2>3, <2>4, <2>5 DEF ActorInv, PortStep, portVars
<1> QED BY <1>1, <1>2, <1>3, <1>4, <1>5, <1>6, <1>7, <1>8, <1>9, <1>10 DEF Next, ActorNext

LEMMA SpecActorInv == Spec => []ActorInv
<1>1. ActorInv /\ [Next]_vars => ActorInv'
  BY ActorStep
<1> QED BY <1>1, ActorInit, PTL DEF Spec

-----------------------------------------------------------------------------
\* Every reachable state has the types, and no queue is longer than its capacity,
\* whatever classes, deadlines, operations and capacities the bus is built with.
THEOREM BusActorTypes == Spec => []TypeOK
<1>1. ActorInv => TypeOK
  BY DEF ActorInv
<1> QED BY <1>1, SpecActorInv, PTL

\* The actor implements the contract its callers rely on: one answer per request, no
\* refusal of what was transmitted, one transmission per write, ReadAttempts per read.
THEOREM KeepsPortContract == Spec => PortContract
<1>1. Init => Port!PortInit
  BY DEF Init
<1>2. ActorInv /\ [Next]_vars => [Port!PortNext]_(Port!portVars)
  <2> SUFFICES ASSUME ActorInv, [Next]_vars PROVE [Port!PortNext]_(Port!portVars)
    OBVIOUS
  <2>1. PortStep
    BY ActorStep
  <2> QED BY <2>1 DEF PortStep, Port!PortNext, Port!portVars, portVars, Port!Requests, Requests
<1> QED BY <1>1, <1>2, SpecActorInv, PTL DEF Spec, PortContract, Port!PortSpec

\* Every frame, retries included, starts in silence and before its deadline.  A
\* deadline lies within the bound of the clock, so a sleeper that the bound wakes finds
\* its request expired.
THEOREM FramesInSilence == Spec => FramesKeepTime
<1>1. ActorInv => TypeOK
  BY DEF ActorInv
<1>2. ActorInv /\ [Next]_vars => [Transmits => now >= lineFree /\ now < Deadline[command]]_vars
  <2> SUFFICES ASSUME ActorInv, Next, pc' = "io", pc # "io"
               PROVE  now >= lineFree /\ now < Deadline[command]
    BY DEF Transmits
  <2> USE BusActorAssumption
  <2>0. TypeOK /\ ServeInv /\ FrameInv
    BY DEF ActorInv
  <2>1. AfterSilence \/ Retry
    BY DEF Next, ActorNext, Tick, Shutdown, Submit, DrainOne, DrainNext, Stop, Idle,
           WakeCancelled, WakeReceived, SelectSafety, SelectNonSafety, Serve, ReadReturns,
           ReadFails, RetryExpired, WriteReturns, Finish
  <2>2. /\ command \in Requests
        /\ (pc = "t35" /\ Elapsed(quiet)) \/ (pc = "retry" /\ Elapsed(wake))
        /\ ~Expired(command)
    BY <2>0, <2>1 DEF AfterSilence, Retry, ServeInv, Serving
  <2>3. now < Deadline[command] /\ now # MaxTime
    BY <2>0, <2>2 DEF Expired, TypeOK
  <2>4. now >= lineFree
    BY <2>0, <2>2, <2>3 DEF Elapsed, FrameInv, TypeOK
  <2> QED BY <2>3, <2>4
<1> QED BY <1>1, <1>2, SpecActorInv, PTL DEF Spec, FramesKeepTime
=============================================================================

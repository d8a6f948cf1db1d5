--------------------------- MODULE MonitoringProofs ---------------------------
(***************************************************************************)
(* What the monitoring runtime promises however its threads interleave,    *)
(* for every profile, budget and bound: the plan polls the selections, and *)
(* a log does not outlive its session.                                     *)
(*                                                                         *)
(* Neither is inductive.  The threads compute an update from selections    *)
(* they read before they take the lock again, so the invariant has to say, *)
(* for every thread on its way, what it read is still good for.            *)
(***************************************************************************)
EXTENDS Monitoring, FiniteSetTheorems, TLAPS

-----------------------------------------------------------------------------
(***************************************************************************)
(* The Scope: a channel has one place, a panel one axis.                   *)
(***************************************************************************)
ScopeSound(s) ==
    /\ s \in Seq(ScopeChannel)
    /\ \A i, j \in DOMAIN s : s[i].param = s[j].param => i = j
    /\ \A i, j \in DOMAIN s : s[i].panel = s[j].panel => Axis[s[i].param] = Axis[s[j].param]

\* Append: one more channel, where every channel of the panel has its axis
LEMMA AddSound ==
    ASSUME NEW s, ScopeSound(s), NEW p \in Params, NEW panel \in 1 .. MaxPanels
    PROVE  ScopeSound(Add(s, p, panel))
<1>1. CASE Contains(s, p) \/ Len(s) >= MaxChannels \/ ~AxisFits(s, p, panel)
  BY <1>1 DEF Add
<1>2. CASE ~(Contains(s, p) \/ Len(s) >= MaxChannels \/ ~AxisFits(s, p, panel))
  <2> DEFINE c == [param |-> p, panel |-> panel]
             a == Append(s, c)
  <2>1. c \in ScopeChannel /\ c.param = p /\ c.panel = panel
    BY DEF ScopeChannel
  <2>2. s \in Seq(ScopeChannel)
    BY DEF ScopeSound
  <2> HIDE DEF c
  <2>3. /\ a \in Seq(ScopeChannel) /\ Len(a) = Len(s) + 1
        /\ DOMAIN a = 1 .. Len(s) + 1 /\ DOMAIN s = 1 .. Len(s) /\ Len(s) \in Nat
        /\ a[Len(s) + 1] = c
        /\ \A i \in DOMAIN s : a[i] = s[i]
    BY <2>1, <2>2
  <2>4. \A i \in DOMAIN s : s[i].param # p
    BY <1>2 DEF Contains, Channels
  <2>5. \A i \in DOMAIN s : s[i].panel = panel => Axis[s[i].param] = Axis[p]
    BY <1>2, <2>4 DEF AxisFits, OnPanel
  <2> HIDE DEF a
  <2>6. \A i, j \in DOMAIN a : a[i].param = a[j].param => i = j
    BY <2>1, <2>3, <2>4 DEF ScopeSound
  <2>7. \A i, j \in DOMAIN a : a[i].panel = a[j].panel => Axis[a[i].param] = Axis[a[j].param]
    BY <2>1, <2>3, <2>5 DEF ScopeSound
  <2>8. Add(s, p, panel) = a
    BY <1>2 DEF Add, a, c
  <2> QED
    BY <2>3, <2>6, <2>7, <2>8 DEF ScopeSound
<1> QED
  BY <1>1, <1>2

LEMMA AddAutoSound ==
    ASSUME NEW s, ScopeSound(s), NEW p \in Params
    PROVE  ScopeSound(AddAuto(s, p))
<1> DEFINE same == {i \in DOMAIN s : Axis[s[i].param] = Axis[p]}
           first == CHOOSE i \in same : \A j \in same : i <= j
           empty == {n \in 1 .. MaxPanels : OnPanel(s, n) = {}}
           lowest == CHOOSE n \in empty : \A k \in empty : n <= k
<1>1. s \in Seq(ScopeChannel)
  BY DEF ScopeSound
<1>2. ASSUME NEW S \in SUBSET Nat, S # {}
      PROVE  \E i \in S : \A j \in S : i <= j
  <2> DEFINE R == OpToRel(<, Nat)
  <2>1. \A x, y \in Nat : y < x => <<y, x>> \in R
    BY Zenon DEF OpToRel
  <2>2. IsWellFoundedOn(R, Nat)
    BY NatLessThanWellFounded
  <2> HIDE DEF R
  <2>3. PICK x \in S : \A y \in S : <<y, x>> \notin R
    BY <1>2, <2>2, WFMin
  <2>4. S \in SUBSET Nat /\ x \in Nat
    BY <1>2, <2>3
  <2>5. ASSUME NEW y \in S
        PROVE  x <= y
    <3>1. y \in Nat
      BY <2>4
    <3>2. y < x => <<y, x>> \in R
      BY <2>1, <2>4, <3>1
    <3>3. <<y, x>> \notin R
      BY <2>3
    <3> QED
      BY <2>4, <3>1, <3>2, <3>3
  <2> QED
    BY <2>3, <2>5
<1>3. CASE Contains(s, p)
  BY <1>3 DEF AddAuto
<1>4. CASE ~Contains(s, p) /\ same # {}
  <2>1. same \in SUBSET Nat
    BY <1>1
  <2>2. first \in same
    BY <1>2, <1>4, <2>1
  <2>3. s[first].panel \in 1 .. MaxPanels
    <3>1. s[first] \in ScopeChannel
      BY <1>1, <2>2
    <3> QED
      BY <3>1 DEF ScopeChannel
  <2>4. AddAuto(s, p) = Add(s, p, s[first].panel)
    BY <1>4 DEF AddAuto
  <2> QED
    BY <2>3, <2>4, AddSound
<1>5. CASE ~Contains(s, p) /\ same = {} /\ empty # {}
  <2>1. lowest \in empty
    <3>1. empty \in SUBSET Nat
      BY ScopeAssumption
    <3>2. \E n \in empty : \A k \in empty : n <= k
      BY <1>2, <1>5, <3>1
    <3> HIDE DEF empty
    <3> QED
      BY <3>2
  <2>2. AddAuto(s, p) = Add(s, p, lowest)
    BY <1>5 DEF AddAuto
  <2> QED
    BY <2>1, <2>2, AddSound
<1>6. CASE ~Contains(s, p) /\ same = {} /\ empty = {}
  BY <1>6 DEF AddAuto
<1> QED
  BY <1>3, <1>4, <1>5, <1>6

LEMMA RemoveSound ==
    ASSUME NEW s, ScopeSound(s), NEW p \in Params
    PROVE  ScopeSound(Remove(s, p))
<1>1. CASE ~Contains(s, p)
  BY <1>1 DEF Remove
<1>2. CASE Contains(s, p)
  <2> DEFINE place == CHOOSE i \in DOMAIN s : s[i].param = p
             r == [i \in 1 .. Len(s) - 1 |-> IF i < place THEN s[i] ELSE s[i + 1]]
             from(i) == IF i < place THEN i ELSE i + 1
  <2>1. s \in Seq(ScopeChannel) /\ DOMAIN s = 1 .. Len(s) /\ Len(s) \in Nat
    BY DEF ScopeSound
  <2>2. place \in DOMAIN s
    BY <1>2 DEF Contains, Channels
  <2> HIDE DEF place
  <2>3. \A i \in 1 .. Len(s) - 1 : from(i) \in DOMAIN s /\ r[i] = s[from(i)]
    BY <2>1, <2>2
  <2>4. \A i, j \in 1 .. Len(s) - 1 : from(i) = from(j) => i = j
    BY <2>1, <2>2
  <2>5. DOMAIN r = 1 .. Len(s) - 1 /\ Len(s) - 1 \in Nat
    BY <2>1, <2>2
  <2>5a. \A i \in 1 .. Len(s) - 1 : s[from(i)] \in ScopeChannel
    BY <2>1, <2>3
  <2> HIDE DEF from
  <2>6. r \in [1 .. Len(s) - 1 -> ScopeChannel]
    <3>1. \A i \in 1 .. Len(s) - 1 : r[i] \in ScopeChannel
      BY <2>3, <2>5a
    <3> QED
      BY <3>1
  <2>6a. r \in Seq(ScopeChannel)
    BY <2>5, <2>6
  <2> HIDE DEF r
  <2>7. \A i, j \in DOMAIN r : r[i].param = r[j].param => i = j
    BY <2>3, <2>4, <2>5 DEF ScopeSound
  <2>8. ASSUME NEW i \in DOMAIN r, NEW j \in DOMAIN r, r[i].panel = r[j].panel
        PROVE  Axis[r[i].param] = Axis[r[j].param]
    <3>1. /\ r[i] = s[from(i)] /\ from(i) \in DOMAIN s
          /\ r[j] = s[from(j)] /\ from(j) \in DOMAIN s
      BY <2>3, <2>5
    <3> QED
      BY <2>8, <3>1 DEF ScopeSound
  <2>9. Remove(s, p) = r
    BY <1>2 DEF Remove, r, place
  <2> QED
    BY <2>6a, <2>7, <2>8, <2>9 DEF ScopeSound
<1> QED
  BY <1>1, <1>2

\* moving a channel keeps the channels
LEMMA MoveSound ==
    ASSUME NEW s, ScopeSound(s), NEW p \in Params, NEW panel \in 1 .. MaxPanels
    PROVE  ScopeSound(MoveToPanel(s, p, panel)) /\ Channels(MoveToPanel(s, p, panel)) = Channels(s)
<1>1. CASE ~Contains(s, p) \/ ~AxisFits(s, p, panel)
  BY <1>1 DEF MoveToPanel
<1>2. CASE Contains(s, p) /\ AxisFits(s, p, panel)
  <2> DEFINE m == [i \in DOMAIN s |->
                     IF s[i].param = p THEN [s[i] EXCEPT !.panel = panel] ELSE s[i]]
  <2>1. s \in Seq(ScopeChannel) /\ DOMAIN s = 1 .. Len(s) /\ Len(s) \in Nat
    BY DEF ScopeSound
  <2>2. \A i \in DOMAIN s : /\ m[i] \in ScopeChannel
                            /\ m[i].param = s[i].param
                            /\ m[i].panel = IF s[i].param = p THEN panel ELSE s[i].panel
    <3> SUFFICES ASSUME NEW i \in DOMAIN s
                 PROVE  /\ m[i] \in ScopeChannel
                        /\ m[i].param = s[i].param
                        /\ m[i].panel = IF s[i].param = p THEN panel ELSE s[i].panel
      OBVIOUS
    <3>1. s[i] \in ScopeChannel
      BY <2>1
    <3>2. m[i] = IF s[i].param = p THEN [s[i] EXCEPT !.panel = panel] ELSE s[i]
      OBVIOUS
    <3> QED
      BY <3>1, <3>2 DEF ScopeChannel
  <2>3. DOMAIN m = DOMAIN s
    OBVIOUS
  <2> HIDE DEF m
  <2>4. m \in Seq(ScopeChannel)
    <3>0. m = [i \in 1 .. Len(s) |-> m[i]]
      BY <2>1 DEF m
    <3>1. m \in [1 .. Len(s) -> ScopeChannel]
      BY <2>1, <2>2, <3>0
    <3> QED
      BY <2>1, <3>1
  <2>5. \A i, j \in DOMAIN m : m[i].param = m[j].param => i = j
    BY <2>2, <2>3 DEF ScopeSound
  <2>6. \A i \in DOMAIN s : s[i].param # p /\ s[i].panel = panel => Axis[s[i].param] = Axis[p]
    BY <1>2 DEF AxisFits, OnPanel
  <2>7. ASSUME NEW i \in DOMAIN m, NEW j \in DOMAIN m, m[i].panel = m[j].panel
        PROVE  Axis[m[i].param] = Axis[m[j].param]
    BY <2>2, <2>3, <2>6, <2>7 DEF ScopeSound
  <2>8. Channels(m) = Channels(s)
    BY <2>2, <2>3 DEF Channels
  <2>9. MoveToPanel(s, p, panel) = m
    BY <1>2 DEF MoveToPanel, m
  <2> QED
    BY <2>4, <2>5, <2>7, <2>8, <2>9 DEF ScopeSound
<1> QED
  BY <1>1, <1>2

\* the axis groups of a panel are one group, or none
LEMMA SoundShowsOneAxis ==
    ASSUME NEW s, ScopeSound(s)
    PROVE  /\ \A n \in 1 .. MaxPanels : Cardinality(AxisGroups(s, n)) <= 1
           /\ Cardinality(Channels(s)) = Len(s)
<1>1. s \in Seq(ScopeChannel) /\ DOMAIN s = 1 .. Len(s) /\ Len(s) \in Nat
  BY DEF ScopeSound
<1>2. ASSUME NEW n \in 1 .. MaxPanels
      PROVE  Cardinality(AxisGroups(s, n)) <= 1
  <2>1. \A p, q \in OnPanel(s, n) : Axis[p] = Axis[q]
    BY DEF ScopeSound, OnPanel
  <2>2. \A p \in OnPanel(s, n) : {q \in OnPanel(s, n) : Axis[q] = Axis[p]} = OnPanel(s, n)
    BY <2>1
  <2>3. CASE OnPanel(s, n) = {}
    <3>1. AxisGroups(s, n) = {}
      BY <2>3 DEF AxisGroups
    <3> QED
      BY <3>1, FS_EmptySet
  <2>4. CASE OnPanel(s, n) # {}
    <3>1. AxisGroups(s, n) = {OnPanel(s, n)}
      BY <2>2, <2>4 DEF AxisGroups
    <3> QED
      BY <3>1, FS_Singleton
  <2> QED
    BY <2>3, <2>4
<1>3. Cardinality(Channels(s)) = Len(s)
  <2> DEFINE f == [i \in 1 .. Len(s) |-> s[i].param]
  <2>1. f \in Bijection(1 .. Len(s), Channels(s))
    <3>1. f \in [1 .. Len(s) -> Channels(s)]
      BY <1>1 DEF Channels
    <3>2. \A i, j \in 1 .. Len(s) : f[i] = f[j] => i = j
      BY <1>1 DEF ScopeSound
    <3>3. \A p \in Channels(s) : \E i \in 1 .. Len(s) : f[i] = p
      BY <1>1 DEF Channels
    <3> HIDE DEF f
    <3> QED
      BY <3>1, <3>2, <3>3 DEF Bijection, Injection, Surjection, IsInjective
  <2>2. ExistsBijection(1 .. Len(s), Channels(s))
    BY <2>1 DEF ExistsBijection
  <2> QED
    BY <1>1, <2>2, FS_CountingElements
<1> QED
  BY <1>2, <1>3
-----------------------------------------------------------------------------
(***************************************************************************)
(* Types: of what the runtime keeps, of a selection somebody has read, of  *)
(* the loop and the spawned tasks.                                         *)
(***************************************************************************)
ActiveType ==
    [on : BOOLEAN, scope : SUBSET Params, browser : SUBSET Params, csv : SUBSET Params,
     pending : SUBSET Params, plan : SUBSET (Reasons \X Params)]

Results == {"Idle", "Running", "Completed", "Failed"}

TaskType ==
    [at : TaskKinds, gen : Nat, sel : Selection, stale : BOOLEAN, result : Results]

LoopType ==
    [at : {"idle", "store", "csv_stop", "clear", "clear_store"}, sel : Selection, stale : BOOLEAN,
     result : Results]

LogType == [life : {"Idle", "Running", "Broken", "Failed"}, csv : SUBSET Params]

Typed ==
    /\ phase \in {"Connected", "Lost", "Faulted", "Down"}
    /\ ScopeSound(scope)
    /\ visible \in SUBSET Params /\ csvSelected \in SUBSET Params
    /\ nextLogging \in Nat /\ csvStatus \in StatusViews
    /\ inbox \in Seq(StatusViews)
    /\ active \in ActiveType
    /\ verified \in BOOLEAN /\ browserGen \in Nat /\ refreshGen \in Nat
    /\ loop \in LoopType
    /\ tasks \in SUBSET TaskType
    /\ log \in LogType
    /\ raced \in BOOLEAN /\ refused \in BOOLEAN

LEMMA TaskTyped ==
    ASSUME NEW k \in TaskKinds, NEW g \in Nat, NEW sel \in Selection, NEW r \in Results
    PROVE  /\ Task(k, g, sel, r) \in TaskType
           /\ Task(k, g, sel, r).at = k
           /\ Task(k, g, sel, r).gen = g
           /\ Task(k, g, sel, r).sel = sel
           /\ Task(k, g, sel, r).result = r
           /\ Task(k, g, sel, r).stale = FALSE
BY DEF Task, TaskType

LEMMA NothingTyped == Nothing \in Selection
BY DEF Nothing, Selection

\* what is read under the lock, with one selection replaced
LEMMA ReadTyped ==
    ASSUME NEW s \in ActiveType, NEW V \in SUBSET Params
    PROVE  /\ Read(s) \in Selection
           /\ Read(s).scope = s.scope /\ Read(s).browser = s.browser /\ Read(s).csv = s.csv
           /\ [Read(s) EXCEPT !.scope = V] = [scope |-> V, browser |-> s.browser, csv |-> s.csv]
           /\ [Read(s) EXCEPT !.browser = V] = [scope |-> s.scope, browser |-> V, csv |-> s.csv]
           /\ [Read(s) EXCEPT !.csv = V] = [scope |-> s.scope, browser |-> s.browser, csv |-> V]
           /\ [Read(s) EXCEPT !.scope = V] \in Selection
           /\ [Read(s) EXCEPT !.browser = V] \in Selection
           /\ [Read(s) EXCEPT !.csv = V] \in Selection
BY DEF Read, ActiveType, Selection

LEMMA OvertakeTyped ==
    ASSUME NEW t
    PROVE  /\ t \in TaskType =>
                 /\ Overtake(t) \in TaskType
                 /\ Overtake(t).at = t.at /\ Overtake(t).gen = t.gen
                 /\ Overtake(t).sel = t.sel /\ Overtake(t).result = t.result
                 /\ t.at \in Storing => Overtake(t).stale
                 /\ t.at \notin Storing => Overtake(t) = t
           /\ t \in LoopType =>
                 /\ Overtake(t) \in LoopType
                 /\ Overtake(t).at = t.at
                 /\ Overtake(t).sel = t.sel /\ Overtake(t).result = t.result
                 /\ t.at \in Storing => Overtake(t).stale
                 /\ t.at \notin Storing => Overtake(t) = t
BY DEF Overtake, TaskType, LoopType

LEMMA OvertakeAllTyped ==
    ASSUME NEW ts \in SUBSET TaskType
    PROVE  OvertakeAll(ts) \in SUBSET TaskType
BY OvertakeTyped DEF OvertakeAll

LEMMA SubscriptionsTyped ==
    ASSUME NEW s, s.scope \in SUBSET Params, s.browser \in SUBSET Params, s.csv \in SUBSET Params
    PROVE  Subscriptions(s) \in SUBSET (Reasons \X Params)
<1>1. Dashboard \in SUBSET Params
  BY MonitoringAssumption
<1> QED
  BY <1>1 DEF Subscriptions, Reasons

\* a store takes the selections and their plan over, or changes nothing
LEMMA StoreOutcome ==
    ASSUME active \in ActiveType, NEW t, t.sel \in Selection, ReconfigureAll(t)
    PROVE  \/ /\ active.on /\ ~Rejected(Subscriptions(t.sel))
              /\ active' \in ActiveType
              /\ active'.on
              /\ active'.scope = t.sel.scope
              /\ active'.browser = t.sel.browser
              /\ active'.csv = t.sel.csv
              /\ active'.pending = active.pending
              /\ active'.plan = Subscriptions(t.sel)
              /\ Subscriptions(active') = Subscriptions(t.sel)
              /\ raced' = (raced \/ t.stale)
              /\ refused' = refused
           \/ /\ ~(active.on /\ ~Rejected(Subscriptions(t.sel)))
              /\ refused' = (refused \/ active.on)
              /\ active' = active /\ raced' = raced
<1> DEFINE plan == Subscriptions(t.sel)
<1>1. CASE ~(active.on /\ ~Rejected(plan))
  BY <1>1 DEF ReconfigureAll
<1>2. CASE active.on /\ ~Rejected(plan)
  <2>1. /\ active' = [active EXCEPT !.scope = t.sel.scope, !.browser = t.sel.browser,
                                    !.csv = t.sel.csv, !.plan = plan]
        /\ raced' = (raced \/ t.stale)
        /\ UNCHANGED refused
    BY <1>2, Zenon DEF ReconfigureAll
  <2>2. plan \in SUBSET (Reasons \X Params)
    BY SubscriptionsTyped DEF Selection
  <2> HIDE DEF plan
  <2>3. active' = [on |-> active.on, scope |-> t.sel.scope, browser |-> t.sel.browser,
                   csv |-> t.sel.csv, pending |-> active.pending, plan |-> plan]
    BY <2>1 DEF ActiveType
  <2>4. /\ active' \in ActiveType
        /\ active'.on = active.on
        /\ active'.scope = t.sel.scope
        /\ active'.browser = t.sel.browser
        /\ active'.csv = t.sel.csv
        /\ active'.pending = active.pending
        /\ active'.plan = plan
    BY <2>2, <2>3 DEF ActiveType, Selection
  <2>5. Subscriptions(active') = Subscriptions(t.sel)
    BY <2>4 DEF Subscriptions
  <2> QED
    BY <1>2, <2>1, <2>4, <2>5 DEF plan
<1> QED
  BY <1>1, <1>2

LEMMA TypedInit == Init => Typed
<1> SUFFICES ASSUME Init
             PROVE  Typed
  OBVIOUS
<1>1. ScopeSound(scope)
  BY DEF Init, ScopeSound
<1>2. active \in ActiveType
  <2>1. Subscriptions(Nothing) \in SUBSET (Reasons \X Params)
    BY SubscriptionsTyped DEF Nothing
  <2>2. active = [on |-> TRUE, scope |-> {}, browser |-> {}, csv |-> {}, pending |-> {},
                  plan |-> Subscriptions(Nothing)]
    BY DEF Init, Stopped
  <2> QED
    BY <2>1, <2>2 DEF ActiveType
<1>3. loop \in LoopType
  BY NothingTyped DEF Init, Idle, LoopType, Results
<1>4. /\ inbox \in Seq(StatusViews) /\ csvStatus \in StatusViews /\ log \in LogType
      /\ phase \in {"Connected", "Lost", "Faulted", "Down"}
      /\ visible \in SUBSET Params /\ csvSelected \in SUBSET Params
      /\ nextLogging \in Nat /\ browserGen \in Nat /\ refreshGen \in Nat
      /\ tasks \in SUBSET TaskType
  BY DEF Init, StatusViews, LogType
<1>5. verified \in BOOLEAN /\ raced \in BOOLEAN /\ refused \in BOOLEAN
  BY DEF Init
<1> QED
  BY <1>1, <1>2, <1>3, <1>4, <1>5 DEF Typed

\* the loop after an action of the operator
LEMMA LoopTyped ==
    ASSUME active \in ActiveType, NEW V \in SUBSET Params, loop \in LoopType
    PROVE  /\ Idle \in LoopType /\ Idle.at = "idle"
           /\ LET l == [Idle EXCEPT !.at = "store", !.sel = [Read(active) EXCEPT !.scope = V]]
              IN  /\ l \in LoopType /\ l.at = "store" /\ ~l.stale
                  /\ l.sel = [scope |-> V, browser |-> active.browser, csv |-> active.csv]
           /\ LET l == [loop EXCEPT !.at = "clear_store", !.sel = [Read(active) EXCEPT !.csv = {}],
                                    !.stale = FALSE]
              IN  /\ l \in LoopType /\ l.at = "clear_store" /\ ~l.stale
                  /\ l.sel = [scope |-> active.scope, browser |-> active.browser, csv |-> {}]
           /\ LET l == [Idle EXCEPT !.at = "csv_stop"]
              IN  l \in LoopType /\ l.at = "csv_stop"
           /\ \A r \in Results : LET l == [loop EXCEPT !.at = "clear", !.result = r]
                                 IN  l \in LoopType /\ l.at = "clear"
<1> DEFINE s1 == [Read(active) EXCEPT !.scope = V]
           s2 == [Read(active) EXCEPT !.csv = {}]
<1>1. /\ s1 \in Selection /\ s1 = [scope |-> V, browser |-> active.browser, csv |-> active.csv]
      /\ s2 \in Selection /\ s2 = [scope |-> active.scope, browser |-> active.browser, csv |-> {}]
  BY ReadTyped
<1> HIDE DEF s1, s2
<1>2. Idle \in LoopType /\ Idle.at = "idle"
  BY NothingTyped DEF Idle, LoopType, Results
<1>3. LET l == [Idle EXCEPT !.at = "store", !.sel = s1]
      IN  l \in LoopType /\ l.at = "store" /\ ~l.stale /\ l.sel = s1
  BY <1>1 DEF Idle, LoopType, Results
<1>4. LET l == [loop EXCEPT !.at = "clear_store", !.sel = s2, !.stale = FALSE]
      IN  l \in LoopType /\ l.at = "clear_store" /\ ~l.stale /\ l.sel = s2
  BY <1>1 DEF LoopType
<1>5. LET l == [Idle EXCEPT !.at = "csv_stop"]
      IN  l \in LoopType /\ l.at = "csv_stop"
  BY NothingTyped DEF Idle, LoopType, Results
<1>6. \A r \in Results : LET l == [loop EXCEPT !.at = "clear", !.result = r]
                         IN  l \in LoopType /\ l.at = "clear"
  BY DEF LoopType
<1> QED
  BY <1>1, <1>2, <1>3, <1>4, <1>5, <1>6 DEF s1, s2

LEMMA ChannelsTyped ==
    ASSUME NEW s, ScopeSound(s)
    PROVE  Channels(s) \in SUBSET Params
<1>1. \A i \in DOMAIN s : s[i] \in ScopeChannel
  BY DEF ScopeSound
<1> QED
  BY <1>1 DEF Channels, ScopeChannel

LEMMA TypedStep == Typed /\ [Next]_vars => Typed'
<1> SUFFICES ASSUME Typed, [Next]_vars
             PROVE  Typed'
  OBVIOUS
<1> USE DEF Typed
<1>a. /\ active \in ActiveType /\ loop \in LoopType /\ tasks \in SUBSET TaskType
      /\ Idle \in LoopType
  BY LoopTyped
<1>b. \A t \in tasks : /\ t \in TaskType /\ t.sel \in Selection /\ t.result \in Results
                         /\ t.gen \in Nat
  BY DEF TaskType
<1>c. \A r \in StatusViews : Report(r) => inbox' \in Seq(StatusViews)
  BY DEF Report
<1>1. CASE UNCHANGED vars
  BY <1>1 DEF vars, appVars, runVars
<1>2. ASSUME NEW p \in Params, ToggleScopeParameter(p)
      PROVE  Typed'
  <2>1. ScopeSound(scope')
    BY <1>2, RemoveSound, AddAutoSound DEF ToggleScopeParameter
  <2>2. loop' \in LoopType
    BY <1>2, <2>1, LoopTyped, ChannelsTyped DEF ToggleScopeParameter, Reconfigure
  <2> QED
    BY <1>2, <2>1, <2>2 DEF ToggleScopeParameter, runVars
<1>3. ASSUME NEW p \in Params, NEW n \in 1 .. MaxPanels, MoveScopeParameter(p, n)
      PROVE  Typed'
  <2>1. ScopeSound(scope')
    BY <1>3, MoveSound DEF MoveScopeParameter
  <2>2. loop' \in LoopType
    BY <1>3, <2>1, LoopTyped, ChannelsTyped DEF MoveScopeParameter, Reconfigure
  <2> QED
    BY <1>3, <2>1, <2>2 DEF MoveScopeParameter, runVars
<1>4. CASE StoreReconfigure
  <2>1. active' \in ActiveType /\ raced' \in BOOLEAN /\ refused' \in BOOLEAN
    <3>1. ReconfigureAll(loop) /\ loop.sel \in Selection
      BY <1>4 DEF StoreReconfigure, LoopType
    <3>2. loop.stale \in BOOLEAN /\ active.on \in BOOLEAN
      BY DEF LoopType, ActiveType
    <3> QED
      BY <3>1, <3>2, StoreOutcome
  <2>2. tasks' \in SUBSET TaskType
    BY <1>4, OvertakeAllTyped DEF StoreReconfigure
  <2> QED
    BY <1>4, <1>a, <2>1, <2>2 DEF StoreReconfigure, appVars
<1>5. ASSUME NEW V \in Views, SetVisible(V)
      PROVE  Typed'
  <2>1. V \in SUBSET Params
    BY MonitoringAssumption
  <2>2. browserGen' \in Nat /\ Task("debounce", browserGen', Nothing, "Idle") \in TaskType
    <3>1. browserGen + 1 \in Nat /\ "debounce" \in TaskKinds /\ "Idle" \in Results
      BY DEF TaskKinds, Results
    <3>2. Task("debounce", browserGen + 1, Nothing, "Idle") \in TaskType
      BY <3>1, TaskTyped, NothingTyped
    <3>3. browserGen' = browserGen + 1
      BY <1>5 DEF SetVisible
    <3> QED
      BY <3>1, <3>2, <3>3
  <2>3. active' \in ActiveType
    BY <1>5, <2>1 DEF SetVisible, ActiveType
  <2>4. tasks' \in SUBSET TaskType
    BY <1>5, <2>2 DEF SetVisible
  <2> QED
    BY <1>5, <2>1, <2>2, <2>3, <2>4 DEF SetVisible
<1>6. ASSUME NEW t \in tasks, ApplyPending(t)
      PROVE  Typed'
  <2> DEFINE u == Task("store", 0, [Read(active) EXCEPT !.browser = active.pending], "Idle")
  <2>1. active.pending \in SUBSET Params
    BY DEF ActiveType
  <2>2. u \in TaskType
    BY <2>1, TaskTyped, ReadTyped DEF TaskKinds, Storing, Results
  <2>3. tasks' \in SUBSET TaskType
    BY <1>6, <2>2 DEF ApplyPending
  <2> QED
    BY <1>6, <2>3 DEF ApplyPending, appVars, runVars
<1>7. ASSUME NEW p \in Params, RefreshParameter(p)
      PROVE  Typed'
  <2> DEFINE plan == Subscriptions(active) \cup {<<"refresh", p>>}
  <2>1. refreshGen' \in Nat /\ Task("refresh", refreshGen', Nothing, "Idle") \in TaskType
    <3>1. refreshGen + 1 \in Nat /\ "refresh" \in TaskKinds /\ "Idle" \in Results
      BY DEF TaskKinds, Results
    <3>2. Task("refresh", refreshGen + 1, Nothing, "Idle") \in TaskType
      BY <3>1, TaskTyped, NothingTyped
    <3>3. refreshGen' = refreshGen + 1
      BY <1>7 DEF RefreshParameter
    <3> QED
      BY <3>1, <3>2, <3>3
  <2>2. plan \in SUBSET (Reasons \X Params)
    BY SubscriptionsTyped DEF Reasons, ActiveType
  <2>3. CASE active.on /\ ~Rejected(plan)
    BY <1>7, <2>1, <2>2, <2>3 DEF RefreshParameter, ActiveType
  <2>4. CASE ~(active.on /\ ~Rejected(plan))
    <3>1. refused' = (refused \/ active.on) /\ UNCHANGED <<active, tasks>>
      BY <1>7, <2>4 DEF RefreshParameter
    <3>2. refused' \in BOOLEAN
      BY <3>1 DEF ActiveType
    <3> QED
      BY <1>7, <2>1, <3>1, <3>2 DEF RefreshParameter
  <2> QED
    BY <2>3, <2>4
<1>8. ASSUME NEW t \in tasks, RestoreAfterRefresh(t)
      PROVE  Typed'
  <2>1. Task("store", 0, Read(active), "Idle") \in TaskType
    BY TaskTyped, ReadTyped DEF TaskKinds, Storing, Results
  <2> QED
    BY <1>8, <2>1 DEF RestoreAfterRefresh, appVars, runVars
<1>9. ASSUME NEW t \in tasks, StoreTask(t)
      PROVE  Typed'
  <2>1. active' \in ActiveType /\ raced' \in BOOLEAN /\ refused' \in BOOLEAN
    <3>1. ReconfigureAll(t)
      BY <1>9 DEF StoreTask
    <3>2. t.stale \in BOOLEAN /\ active.on \in BOOLEAN
      BY DEF TaskType, ActiveType
    <3> QED
      BY <1>b, <3>1, <3>2, StoreOutcome
  <2>2. tasks' \in SUBSET TaskType /\ loop' \in LoopType
    BY <1>9, OvertakeAllTyped, OvertakeTyped DEF StoreTask
  <2> QED
    BY <1>9, <2>1, <2>2 DEF StoreTask, appVars
<1>10. ASSUME NEW p \in Params, ToggleCsvParameter(p)
       PROVE  Typed'
  BY <1>10 DEF ToggleCsvParameter, runVars
<1>11. CASE StartCsvLogging
  <2> DEFINE sel == [Read(active) EXCEPT !.csv = csvSelected]
             plan == Subscriptions(sel)
  <2>1. /\ sel \in Selection /\ sel.csv = csvSelected
        /\ Task("csv_start", nextLogging, sel, "Idle") \in TaskType
    <3>0. sel \in Selection
          /\ sel = [scope |-> active.scope, browser |-> active.browser, csv |-> csvSelected]
      BY ReadTyped
    <3>1. sel \in Selection /\ sel.csv = csvSelected
      BY <3>0
    <3>2. "csv_start" \in TaskKinds /\ "Idle" \in Results
      BY DEF TaskKinds, Results
    <3> HIDE DEF sel
    <3> QED
      BY <3>1, <3>2, TaskTyped
  <2>2. plan \in SUBSET (Reasons \X Params)
    BY <2>1, SubscriptionsTyped DEF Selection
  <2>3. csvStatus' \in StatusViews /\ nextLogging' \in Nat /\ raced' \in BOOLEAN
    <3>1. nextLogging + 1 \in Nat
      OBVIOUS
    <3> QED
      BY <1>11, <3>1 DEF StartCsvLogging, StatusViews
  <2>4. OvertakeAll(tasks) \in SUBSET TaskType
    BY OvertakeAllTyped
  <2>5. CASE verified /\ active.on /\ ~Rejected(plan)
    <3>1. /\ active' = [active EXCEPT !.csv = csvSelected, !.plan = plan]
          /\ tasks' = OvertakeAll(tasks) \cup {Task("csv_start", nextLogging, sel, "Idle")}
          /\ UNCHANGED refused
      BY <1>11, <2>5 DEF StartCsvLogging
    <3> HIDE DEF plan, sel
    <3>2. active' \in ActiveType
      BY <2>2, <3>1 DEF ActiveType
    <3> QED
      BY <1>11, <2>1, <2>3, <2>4, <3>1, <3>2 DEF StartCsvLogging
  <2>6. CASE ~(verified /\ active.on /\ ~Rejected(plan))
    <3>1. refused' = (refused \/ active.on) /\ UNCHANGED <<active, tasks>>
      BY <1>11, <2>6 DEF StartCsvLogging
    <3>2. refused' \in BOOLEAN
      BY <3>1 DEF ActiveType
    <3> QED
      BY <1>11, <2>3, <3>1, <3>2 DEF StartCsvLogging
  <2> QED
    BY <2>5, <2>6
<1>12. ASSUME NEW t \in tasks, CsvStart(t)
       PROVE  Typed'
  <2>1. /\ Task("status", t.gen, Nothing, "Idle") \in TaskType
        /\ Task("clear", t.gen, Nothing, "Failed") \in TaskType
    <3>1. /\ "status" \in TaskKinds /\ "clear" \in TaskKinds
          /\ "Idle" \in Results /\ "Failed" \in Results /\ t.gen \in Nat
      BY <1>b DEF TaskKinds, Results
    <3> QED
      BY <3>1, TaskTyped, NothingTyped
  <2>2. t.sel.csv \in SUBSET Params
    BY <1>b DEF Selection
  <2>3. log' \in LogType
    BY <1>12, <2>2 DEF CsvStart, LogType
  <2>4. inbox' \in Seq(StatusViews)
    BY <1>12, <1>c DEF CsvStart, StatusViews
  <2>5. tasks' \in SUBSET TaskType
    BY <1>12, <2>1 DEF CsvStart
  <2> QED
    BY <1>12, <2>3, <2>4, <2>5 DEF CsvStart, appVars, runVars
<1>13. CASE StopCsvLogging
  <2>1. loop' \in LoopType
    BY <1>13, LoopTyped DEF StopCsvLogging
  <2> QED
    BY <1>13, <2>1 DEF StopCsvLogging, runVars, StatusViews
<1>14. CASE CsvStop
  <2>1. PICK ok \in (IF log.life = "Running" THEN {TRUE, FALSE} ELSE {log.life = "Idle"}) :
          /\ log' = [life |-> IF ok THEN "Idle" ELSE "Failed", csv |-> {}]
          /\ loop' = [loop EXCEPT !.at = "clear", !.result = IF ok THEN "Completed" ELSE "Failed"]
    BY <1>14 DEF CsvStop
  <2>2. log' \in LogType
    BY <2>1 DEF LogType
  <2>3. loop' \in LoopType
    BY <2>1, LoopTyped DEF Results
  <2>4. raced' \in BOOLEAN
    BY <1>14 DEF CsvStop
  <2> QED
    BY <1>14, <2>2, <2>3, <2>4 DEF CsvStop, appVars, runVars
<1>15. CASE StopClears
  <2>1. loop' \in LoopType
    BY <1>15, LoopTyped DEF StopClears
  <2>2. inbox' \in Seq(StatusViews)
    <3>1. loop.result \in StatusViews
      BY DEF LoopType, Results, StatusViews
    <3> QED
      BY <1>15, <1>c, <3>1 DEF StopClears
  <2> QED
    BY <1>15, <2>1, <2>2 DEF StopClears, appVars, runVars
<1>16. CASE StopStores
  <2>1. active' \in ActiveType /\ raced' \in BOOLEAN /\ refused' \in BOOLEAN
    <3>1. ReconfigureAll(loop) /\ loop.sel \in Selection
      BY <1>16 DEF StopStores, LoopType
    <3>2. loop.stale \in BOOLEAN /\ active.on \in BOOLEAN
      BY DEF LoopType, ActiveType
    <3> QED
      BY <3>1, <3>2, StoreOutcome
  <2>2. tasks' \in SUBSET TaskType
    BY <1>16, OvertakeAllTyped DEF StopStores
  <2>3. inbox' \in Seq(StatusViews)
    <3>1. loop.result \in StatusViews
      BY DEF LoopType, Results, StatusViews
    <3> QED
      BY <1>16, <1>c, <3>1 DEF StopStores
  <2> QED
    BY <1>16, <1>a, <2>1, <2>2, <2>3 DEF StopStores, appVars
<1>17. CASE WriterFails
  BY <1>17 DEF WriterFails, appVars, runVars, LogType
<1>18. ASSUME NEW t \in tasks, StatusRead(t)
       PROVE  Typed'
  <2>1. /\ Task("status_send", t.gen, Nothing, "Running") \in TaskType
        /\ Task("status_send", t.gen, Nothing, "Failed") \in TaskType
    <3>1. /\ "status_send" \in TaskKinds /\ "Running" \in Results /\ "Failed" \in Results
          /\ t.gen \in Nat
      BY <1>b DEF TaskKinds, Results
    <3> QED
      BY <3>1, TaskTyped, NothingTyped
  <2>2. tasks' \in SUBSET TaskType
    BY <1>18, <2>1 DEF StatusRead
  <2> QED
    BY <1>18, <2>2 DEF StatusRead, appVars, runVars
<1>19. ASSUME NEW t \in tasks, StatusSend(t)
       PROVE  Typed'
  <2>1. /\ Task("status", t.gen, Nothing, "Idle") \in TaskType
        /\ Task("clear", t.gen, Nothing, "Idle") \in TaskType
    <3>1. "status" \in TaskKinds /\ "clear" \in TaskKinds /\ "Idle" \in Results /\ t.gen \in Nat
      BY <1>b DEF TaskKinds, Results
    <3> QED
      BY <3>1, TaskTyped, NothingTyped
  <2>2. inbox' \in Seq(StatusViews)
    BY <1>19, <1>b, <1>c DEF StatusSend, Results, StatusViews
  <2> QED
    BY <1>19, <2>1, <2>2 DEF StatusSend, appVars, runVars
<1>20. ASSUME NEW t \in tasks, TaskClears(t)
       PROVE  Typed'
  <2>1. Task("clear_store", t.gen, [Read(active) EXCEPT !.csv = {}], t.result) \in TaskType
    BY <1>b, TaskTyped, ReadTyped DEF TaskKinds, Storing
  <2>2. inbox' \in Seq(StatusViews)
    BY <1>20, <1>c DEF TaskClears, StatusViews
  <2> QED
    BY <1>20, <2>1, <2>2 DEF TaskClears, appVars, runVars
<1>21. ASSUME NEW t \in tasks, TaskClearStores(t)
       PROVE  Typed'
  <2>1. active' \in ActiveType /\ raced' \in BOOLEAN /\ refused' \in BOOLEAN
    <3>1. ReconfigureAll(t)
      BY <1>21 DEF TaskClearStores
    <3>2. t.stale \in BOOLEAN /\ active.on \in BOOLEAN
      BY DEF TaskType, ActiveType
    <3> QED
      BY <1>b, <3>1, <3>2, StoreOutcome
  <2>2. tasks' \in SUBSET TaskType /\ loop' \in LoopType
    BY <1>21, OvertakeAllTyped, OvertakeTyped DEF TaskClearStores
  <2>3. inbox' \in Seq(StatusViews)
    BY <1>21, <1>c DEF TaskClearStores, StatusViews
  <2> QED
    BY <1>21, <2>1, <2>2, <2>3 DEF TaskClearStores, appVars
<1>22. CASE Deliver
  <2>1. csvStatus' \in StatusViews /\ inbox' \in Seq(StatusViews)
    BY <1>22 DEF Deliver
  <2> QED
    BY <1>22, <2>1 DEF Deliver, runVars
<1>23. CASE TransportLost
  BY <1>23 DEF TransportLost
<1>24. CASE Resume
  BY <1>24 DEF Resume, ActiveType
<1>25. ASSUME NEW to \in {"Faulted", "Down"}, Teardown(to)
       PROVE  Typed'
  <2>1. loop' \in LoopType
    BY <1>25, LoopTyped DEF Teardown
  <2> QED
    BY <1>25, <2>1 DEF Teardown, runVars, StatusViews
<1>26. CASE StopPlanner
  <2>1. tasks' \in SUBSET TaskType
    BY <1>26, OvertakeAllTyped DEF StopPlanner
  <2>2. active' \in ActiveType
    BY <1>26 DEF StopPlanner, Stopped, ActiveType
  <2>3. browserGen + 1 \in Nat /\ refreshGen + 1 \in Nat
    OBVIOUS
  <2>4. browserGen' \in Nat /\ refreshGen' \in Nat
    BY <1>26, <2>3 DEF StopPlanner
  <2> QED
    BY <1>26, <2>1, <2>2, <2>4 DEF StopPlanner, appVars
<1> QED
  BY <1>1, <1>2, <1>3, <1>4, <1>5, <1>6, <1>7, <1>8, <1>9, <1>10, <1>11, <1>12, <1>13, <1>14,
     <1>15, <1>16, <1>17, <1>18, <1>19, <1>20, <1>21, <1>22, <1>23, <1>24, <1>25, <1>26
     DEF Next, LoopStep, TaskStep, OperatorStep, Environment

-----------------------------------------------------------------------------
(***************************************************************************)
(* The inductive invariant.  Every update of the selections is computed    *)
(* from what its thread read; FreshInv says what a reader that nobody      *)
(* overtook can rely on, and the others say which update is still under    *)
(* way where a selection is not yet the one last asked for.                *)
(***************************************************************************)

\* a reader that was not overtaken differs from the selections kept in what it
\* is about to change only
FreshInv ==
    active.on =>
        /\ \A t \in tasks : t.at \in Storing /\ ~t.stale =>
              /\ t.sel.scope = active.scope
              /\ t.at = "store" => t.sel.csv = active.csv
              /\ t.at = "clear_store" => t.sel.browser = active.browser
        /\ loop.at \in Storing /\ ~loop.stale =>
              /\ loop.sel.browser = active.browser
              /\ loop.at = "store" => loop.sel.csv = active.csv
              /\ loop.at = "clear_store" => loop.sel.scope = active.scope

\* the selections kept fit the budget, and so do they without their log
AdmittedInv ==
    active.on =>
        /\ ~Rejected(Subscriptions(active))
        /\ \A t \in tasks : t.at = "clear_store" => ~Rejected(Subscriptions(t.sel))

\* the loop stores a Scope that changed before it does anything else
ScopeInv ==
    active.on /\ ~raced /\ ~refused =>
        /\ loop.at = "store" => loop.sel.scope = Channels(scope)
        /\ loop.at # "store" => active.scope = Channels(scope)

\* the rows last shown have a debounce or a store of their own on the way
Debouncing ==
    \/ \E t \in tasks : t.at = "debounce" /\ t.gen = browserGen
    \/ \E t \in tasks : t.at = "store" /\ t.sel.browser = visible

BrowserInv ==
    active.on =>
        /\ active.pending = visible
        /\ ~raced /\ ~refused =>
              \/ Debouncing
              \/ /\ active.browser = visible
                 /\ \A t \in tasks : t.at \in Storing /\ ~t.stale => t.sel.browser = visible

\* a plan with a refreshed parameter has its timer, or the store of that timer
PlanInv ==
    active.on =>
        /\ PlanCoversSelections
        /\ ~raced /\ ~refused =>
              \/ active.plan = Subscriptions(active)
              \/ \E t \in tasks : t.at = "refresh" /\ t.gen = refreshGen
              \/ \E t \in tasks : t.at = "store"

\* a log runs, or its start task has yet to start it
Live == log.life = "Running" \/ (log.life = "Idle" /\ \E t \in tasks : t.at = "csv_start")

\* while one does the session is up, the view shows it or the loop is stopping
\* it, and nobody clears the selection
Expected ==
    /\ active.on
    /\ \/ loop.at = "csv_stop"
       \/ /\ csvStatus \in {"Starting", "Running"}
          /\ phase \in {"Connected", "Lost"}
          /\ loop.at \in {"idle", "store"}
    /\ \A i \in DOMAIN inbox : inbox[i] = "Running"
    /\ \A t \in tasks : /\ t.at # "clear"
                        /\ t.at = "clear_store" => t.stale

LogInv ==
    ~raced /\ log.life \in {"Idle", "Running"} =>
        /\ \A t \in tasks : t.at = "status_send" => t.result = "Running"
        /\ \A t, u \in tasks : t.at = "csv_start" /\ u.at = "csv_start" => t = u
        /\ \A t \in tasks : t.at = "csv_start" => log.life = "Idle"
        /\ Live => Expected

\* what the log takes is what the plan polls for it
CsvInv ==
    active.on /\ ~raced /\ ~refused =>
        /\ log.life = "Running" => log.csv = active.csv
        /\ \A t \in tasks : t.at = "csv_start" /\ log.life = "Idle" => t.sel.csv = active.csv

MonInv == Typed /\ FreshInv /\ AdmittedInv /\ ScopeInv /\ BrowserInv /\ PlanInv /\ LogInv /\ CsvInv

-----------------------------------------------------------------------------
(***************************************************************************)
(* After a store everybody else who was about to store is overtaken, and   *)
(* nothing else about the tasks changes.                                   *)
(***************************************************************************)
LEMMA OvertakeAllHas ==
    ASSUME NEW ts \in SUBSET TaskType
    PROVE  /\ \A u \in OvertakeAll(ts) :
                 \E t \in ts : /\ u.at = t.at /\ u.gen = t.gen /\ u.sel = t.sel
                               /\ u.result = t.result
                               /\ u.at \notin Storing => u = t
           /\ \A u \in OvertakeAll(ts) : u.at \in Storing => u.stale
           /\ \A t \in ts : t.at \notin Storing => t \in OvertakeAll(ts)
           /\ \A t \in ts : \E u \in OvertakeAll(ts) :
                 u.at = t.at /\ u.gen = t.gen /\ u.sel = t.sel
BY OvertakeTyped DEF OvertakeAll

LEMMA StoreEffect ==
    ASSUME Typed
    PROVE  /\ StoreReconfigure =>
                 /\ loop.at = "store" /\ ReconfigureAll(loop) /\ loop.sel \in Selection
                 /\ loop.stale \in BOOLEAN
                 /\ loop' = Idle /\ loop'.at = "idle"
                 /\ tasks' = OvertakeAll(tasks)
                 /\ UNCHANGED <<appVars, inbox, log>>
           /\ StopStores =>
                 /\ loop.at = "clear_store" /\ ReconfigureAll(loop) /\ loop.sel \in Selection
                 /\ loop.stale \in BOOLEAN
                 /\ loop' = Idle /\ loop'.at = "idle"
                 /\ tasks' = OvertakeAll(tasks)
                 /\ UNCHANGED <<appVars, log>>
           /\ \A t \in tasks : StoreTask(t) \/ TaskClearStores(t) =>
                 /\ ReconfigureAll(t) /\ t.sel \in Selection /\ t.stale \in BOOLEAN
                 /\ t.at \in Storing
                 /\ StoreTask(t) => t.at = "store" /\ UNCHANGED inbox
                 /\ TaskClearStores(t) => t.at = "clear_store"
                 /\ loop'.at = loop.at /\ loop'.sel = loop.sel
                 /\ loop'.at \in Storing => loop'.stale
                 /\ tasks' = OvertakeAll(tasks \ {t})
                 /\ UNCHANGED <<appVars, log>>
<1> USE DEF Typed
<1>1. loop.sel \in Selection /\ loop.stale \in BOOLEAN
  BY DEF LoopType
<1>2. \A t \in tasks : t.sel \in Selection /\ t.stale \in BOOLEAN
  BY DEF TaskType
<1>3. StoreReconfigure =>
         /\ loop.at = "store" /\ ReconfigureAll(loop)
         /\ loop' = Idle /\ loop'.at = "idle"
         /\ tasks' = OvertakeAll(tasks)
         /\ UNCHANGED <<appVars, inbox, log>>
  BY DEF StoreReconfigure, Idle
<1>4. StopStores =>
         /\ loop.at = "clear_store" /\ ReconfigureAll(loop)
         /\ loop' = Idle /\ loop'.at = "idle"
         /\ tasks' = OvertakeAll(tasks)
         /\ UNCHANGED <<appVars, log>>
  BY DEF StopStores, Idle
<1>5. ASSUME NEW t \in tasks, StoreTask(t) \/ TaskClearStores(t)
      PROVE  /\ ReconfigureAll(t) /\ t.at \in Storing
             /\ StoreTask(t) => t.at = "store" /\ UNCHANGED inbox
             /\ TaskClearStores(t) => t.at = "clear_store"
             /\ loop'.at = loop.at /\ loop'.sel = loop.sel
             /\ loop'.at \in Storing => loop'.stale
             /\ tasks' = OvertakeAll(tasks \ {t})
             /\ UNCHANGED <<appVars, log>>
  <2>1. loop' = Overtake(loop)
    BY <1>5 DEF StoreTask, TaskClearStores
  <2>2. /\ loop'.at = loop.at /\ loop'.sel = loop.sel
        /\ loop'.at \in Storing => loop'.stale
    BY <2>1, OvertakeTyped
  <2> QED
    BY <1>5, <2>2 DEF StoreTask, TaskClearStores, Storing
<1> QED
  BY <1>1, <1>2, <1>3, <1>4, <1>5

\* what the timers and the clearing tasks store
LEMMA ReaderTasks ==
    ASSUME Typed
    PROVE  /\ LET w == Task("store", 0, [Read(active) EXCEPT !.browser = active.pending], "Idle")
              IN  /\ w.at = "store" /\ w.sel.scope = active.scope
                  /\ w.sel.browser = active.pending /\ w.sel.csv = active.csv
           /\ LET w == Task("store", 0, Read(active), "Idle")
              IN  /\ w.at = "store" /\ w.sel.scope = active.scope
                  /\ w.sel.browser = active.browser /\ w.sel.csv = active.csv
           /\ \A t \in tasks :
                 LET w == Task("clear_store", t.gen, [Read(active) EXCEPT !.csv = {}], t.result)
                 IN  /\ w.at = "clear_store" /\ w.sel.scope = active.scope
                     /\ w.sel.browser = active.browser /\ w.sel.csv = {}
<1> DEFINE s1 == [Read(active) EXCEPT !.browser = active.pending]
           s2 == Read(active)
           s3 == [Read(active) EXCEPT !.csv = {}]
<1>1. active \in ActiveType /\ active.pending \in SUBSET Params
  BY DEF Typed, ActiveType
<1>2. /\ s1 = [scope |-> active.scope, browser |-> active.pending, csv |-> active.csv]
      /\ s2 = [scope |-> active.scope, browser |-> active.browser, csv |-> active.csv]
      /\ s3 = [scope |-> active.scope, browser |-> active.browser, csv |-> {}]
  BY <1>1, ReadTyped DEF Read
<1> HIDE DEF s1, s2, s3
<1>3. \A g, r : /\ Task("store", g, s1, r).at = "store" /\ Task("store", g, s1, r).sel = s1
                /\ Task("store", g, s2, r).at = "store" /\ Task("store", g, s2, r).sel = s2
                /\ Task("clear_store", g, s3, r).at = "clear_store"
                /\ Task("clear_store", g, s3, r).sel = s3
  BY DEF Task
<1>4. /\ s1.scope = active.scope /\ s1.browser = active.pending /\ s1.csv = active.csv
      /\ s2.scope = active.scope /\ s2.browser = active.browser /\ s2.csv = active.csv
      /\ s3.scope = active.scope /\ s3.browser = active.browser /\ s3.csv = {}
  BY <1>2
<1>5. LET w == Task("store", 0, s1, "Idle")
      IN  /\ w.at = "store" /\ w.sel.scope = active.scope
          /\ w.sel.browser = active.pending /\ w.sel.csv = active.csv
  <2>1. Task("store", 0, s1, "Idle").at = "store" /\ Task("store", 0, s1, "Idle").sel = s1
    BY <1>3, Zenon
  <2> QED
    BY <1>4, <2>1
<1>6. LET w == Task("store", 0, s2, "Idle")
      IN  /\ w.at = "store" /\ w.sel.scope = active.scope
          /\ w.sel.browser = active.browser /\ w.sel.csv = active.csv
  BY <1>3, <1>4, Zenon
<1>7. \A t \in tasks :
         LET w == Task("clear_store", t.gen, s3, t.result)
         IN  /\ w.at = "clear_store" /\ w.sel.scope = active.scope
             /\ w.sel.browser = active.browser /\ w.sel.csv = {}
  <2> SUFFICES ASSUME NEW t \in tasks
               PROVE  LET w == Task("clear_store", t.gen, s3, t.result)
                      IN  /\ w.at = "clear_store" /\ w.sel.scope = active.scope
                          /\ w.sel.browser = active.browser /\ w.sel.csv = {}
    BY Zenon
  <2>1. /\ Task("clear_store", t.gen, s3, t.result).at = "clear_store"
        /\ Task("clear_store", t.gen, s3, t.result).sel = s3
    BY DEF Task
  <2> QED
    BY <1>4, <2>1
<1> QED
  BY <1>5, <1>6, <1>7 DEF s1, s2, s3

\* the loop goes for the lock with the Scope that changed
LEMMA ScopeChanges ==
    ASSUME Typed
    PROVE  \A p \in Params, n \in 1 .. MaxPanels :
              ToggleScopeParameter(p) \/ MoveScopeParameter(p, n) =>
                 /\ loop.at = "idle"
                 /\ ~active.on => loop'.at = "idle"
                 /\ active.on => /\ loop'.at = "store"
                                 /\ loop'.sel.scope = Channels(scope')
                                 /\ loop'.sel.browser = active.browser
                                 /\ loop'.sel.csv = active.csv
                 /\ UNCHANGED <<phase, visible, csvSelected, csvStatus, inbox, runVars, tasks, log,
                                raced, refused>>
<1> USE DEF Typed
<1> SUFFICES ASSUME NEW p \in Params, NEW n \in 1 .. MaxPanels,
                    ToggleScopeParameter(p) \/ MoveScopeParameter(p, n)
             PROVE  /\ loop.at = "idle"
                    /\ ~active.on => loop'.at = "idle"
                    /\ active.on => /\ loop'.at = "store"
                                    /\ loop'.sel.scope = Channels(scope')
                                    /\ loop'.sel.browser = active.browser
                                    /\ loop'.sel.csv = active.csv
                    /\ UNCHANGED <<phase, visible, csvSelected, csvStatus, inbox, runVars, tasks,
                                   log, raced, refused>>
  BY Zenon
<1>1. /\ Reconfigure /\ loop = Idle
      /\ UNCHANGED <<phase, visible, csvSelected, csvStatus, inbox, runVars, tasks, log,
                     raced, refused>>
  BY DEF ToggleScopeParameter, MoveScopeParameter, Operator
<1>2. ScopeSound(scope')
  BY RemoveSound, AddAutoSound, MoveSound DEF ToggleScopeParameter, MoveScopeParameter
<1>3. Channels(scope') \in SUBSET Params
  BY <1>2, ChannelsTyped
<1>4. Idle.at = "idle"
  BY DEF Idle
<1>5. CASE active.on
  <2> DEFINE l == [Idle EXCEPT !.at = "store",
                               !.sel = [Read(active) EXCEPT !.scope = Channels(scope')]]
  <2>1. /\ l.at = "store"
        /\ l.sel = [scope |-> Channels(scope'), browser |-> active.browser, csv |-> active.csv]
    BY <1>3, LoopTyped
  <2>2. loop' = l
    BY <1>1, <1>5 DEF Reconfigure
  <2> HIDE DEF l
  <2> QED
    BY <1>1, <1>4, <1>5, <2>1, <2>2
<1>6. CASE ~active.on
  BY <1>1, <1>4, <1>6 DEF Reconfigure
<1> QED
  BY <1>5, <1>6

-----------------------------------------------------------------------------
(***************************************************************************)
(* The steps that read or store no selection.                              *)
(***************************************************************************)
Aside ==
    \/ UNCHANGED vars
    \/ \E p \in Params : ToggleCsvParameter(p)
    \/ \E t \in tasks : CsvStart(t) \/ StatusRead(t) \/ StatusSend(t)
    \/ StopCsvLogging \/ CsvStop \/ StopClears \/ WriterFails
    \/ Deliver \/ TransportLost \/ Resume \/ Teardown("Faulted") \/ Teardown("Down")

LEMMA StepKinds ==
    ASSUME [Next]_vars
    PROVE  \/ Aside
           \/ \E p \in Params, n \in 1 .. MaxPanels :
                 ToggleScopeParameter(p) \/ MoveScopeParameter(p, n)
           \/ StoreReconfigure \/ StopStores
           \/ \E t \in tasks : StoreTask(t) \/ TaskClearStores(t)
           \/ \E V \in Views : SetVisible(V)
           \/ \E t \in tasks : ApplyPending(t)
           \/ \E t \in tasks : RestoreAfterRefresh(t)
           \/ \E t \in tasks : TaskClears(t)
           \/ \E p \in Params : RefreshParameter(p)
           \/ StartCsvLogging \/ StopPlanner
BY ScopeAssumption DEF Next, LoopStep, TaskStep, OperatorStep, Environment, Aside

Timers == {"store", "clear_store", "debounce", "refresh"}

LEMMA AsideFrame ==
    ASSUME Typed, Aside
    PROVE  /\ UNCHANGED <<scope, visible, active, browserGen, refreshGen, refused>>
           /\ raced => raced'
           /\ loop' = loop \/ (loop.at # "store" /\ loop'.at # "store")
           /\ \A u \in tasks' : u \in tasks \/ u.at \notin Timers \cup {"csv_start"}
           /\ \A u \in tasks : u \in tasks' \/ u.at \notin Timers
<1> DEFINE Framed ==
      /\ UNCHANGED <<scope, visible, active, browserGen, refreshGen, refused>>
      /\ raced => raced'
      /\ loop' = loop \/ (loop.at # "store" /\ loop'.at # "store")
      /\ \A u \in tasks' : u \in tasks \/ u.at \notin Timers \cup {"csv_start"}
      /\ \A u \in tasks : u \in tasks' \/ u.at \notin Timers
<1>a. /\ Idle.at = "idle" /\ active \in ActiveType /\ loop \in LoopType
      /\ \A k, g, s, r : Task(k, g, s, r).at = k
  BY DEF Idle, Typed, Task
<1>1. UNCHANGED vars => Framed
  BY DEF vars, appVars, runVars
<1>2. (\E p \in Params : ToggleCsvParameter(p)) => Framed
  BY DEF ToggleCsvParameter, runVars
<1>3. ASSUME NEW t \in tasks, CsvStart(t)
      PROVE  Framed
  <2>1. /\ \A u \in tasks' : u \in tasks \/ u.at \in {"status", "clear"}
        /\ \A u \in tasks : u \in tasks' \/ u.at = "csv_start"
    BY <1>3, <1>a DEF CsvStart
  <2> QED
    BY <1>3, <2>1 DEF CsvStart, appVars, runVars, Timers
<1>4. ASSUME NEW t \in tasks, StatusRead(t)
      PROVE  Framed
  <2>1. /\ \A u \in tasks' : u \in tasks \/ u.at = "status_send"
        /\ \A u \in tasks : u \in tasks' \/ u.at = "status"
    BY <1>4, <1>a DEF StatusRead
  <2> QED
    BY <1>4, <2>1 DEF StatusRead, appVars, runVars, Timers
<1>5. ASSUME NEW t \in tasks, StatusSend(t)
      PROVE  Framed
  <2>1. /\ \A u \in tasks' : u \in tasks \/ u.at \in {"status", "clear"}
        /\ \A u \in tasks : u \in tasks' \/ u.at = "status_send"
    BY <1>5, <1>a DEF StatusSend
  <2> QED
    BY <1>5, <2>1 DEF StatusSend, appVars, runVars, Timers
<1>6. StopCsvLogging => Framed
  <2> SUFFICES ASSUME StopCsvLogging
               PROVE  Framed
    OBVIOUS
  <2>1. loop'.at # "store" /\ loop.at # "store"
    BY <1>a, LoopTyped DEF StopCsvLogging, Operator
  <2> QED
    BY <2>1 DEF StopCsvLogging, runVars
<1>7. CsvStop => Framed
  <2> SUFFICES ASSUME CsvStop
               PROVE  Framed
    OBVIOUS
  <2>1. loop'.at # "store" /\ loop.at # "store"
    BY <1>a DEF CsvStop, LoopType
  <2> QED
    BY <2>1 DEF CsvStop, appVars, runVars
<1>8. StopClears => Framed
  <2> SUFFICES ASSUME StopClears
               PROVE  Framed
    OBVIOUS
  <2>1. loop'.at # "store" /\ loop.at # "store"
    BY <1>a, LoopTyped DEF StopClears
  <2> QED
    BY <2>1 DEF StopClears, appVars, runVars
<1>9. WriterFails => Framed
  BY DEF WriterFails, appVars, runVars
<1>10. Deliver => Framed
  BY DEF Deliver, runVars
<1>11. TransportLost \/ Resume => Framed
  BY DEF TransportLost, Resume
<1>12. ASSUME NEW to, Teardown(to)
       PROVE  Framed
  <2>1. loop'.at # "store" /\ loop.at # "store"
    BY <1>12, <1>a, LoopTyped DEF Teardown
  <2> QED
    BY <1>12, <2>1 DEF Teardown, runVars
<1> HIDE DEF Framed
<1>13. Framed
  BY <1>1, <1>2, <1>3, <1>4, <1>5, <1>6, <1>7, <1>8, <1>9, <1>10, <1>11, <1>12 DEF Aside
<1> QED
  BY <1>13 DEF Framed

\* what the steps that read selections change
LEMMA ReadFrame ==
    ASSUME Typed
    PROVE  /\ \A V \in Views : SetVisible(V) =>
                 /\ UNCHANGED <<scope, refreshGen, loop, log, raced, refused>>
                 /\ active'.on = active.on
                 /\ active'.scope = active.scope /\ active'.browser = active.browser
                 /\ active'.csv = active.csv /\ active'.plan = active.plan
                 /\ active.on => /\ visible' = V /\ active'.pending = V
                                 /\ browserGen' = browserGen + 1
                                 /\ tasks' = tasks \cup {Task("debounce", browserGen', Nothing, "Idle")}
                 /\ ~active.on => tasks' = tasks
           /\ \A t \in tasks : ApplyPending(t) \/ RestoreAfterRefresh(t) \/ TaskClears(t) =>
                 UNCHANGED <<appVars, runVars, loop, log, raced, refused>>
           /\ \A p \in Params : RefreshParameter(p) =>
                 /\ UNCHANGED <<scope, visible, browserGen, loop, log, raced>>
                 /\ refused => refused'
                 /\ active'.on = active.on
                 /\ active'.scope = active.scope /\ active'.browser = active.browser
                 /\ active'.csv = active.csv /\ active'.pending = active.pending
                 /\ \/ /\ active.on
                       /\ active'.plan = Subscriptions(active) \cup {<<"refresh", p>>}
                       /\ tasks' = tasks \cup {Task("refresh", refreshGen', Nothing, "Idle")}
                    \/ (active.on => refused') /\ active' = active /\ tasks' = tasks
           /\ StartCsvLogging =>
                 /\ UNCHANGED <<scope, visible, browserGen, refreshGen, loop, log>>
                 /\ loop.at = "idle"
                 /\ raced => raced'
                 /\ refused => refused'
                 /\ active'.on = active.on
                 /\ active'.scope = active.scope /\ active'.browser = active.browser
                 /\ active'.pending = active.pending
                 /\ \/ /\ active.on
                       /\ active'.csv = csvSelected
                       /\ active'.plan = Subscriptions(active')
                       /\ tasks' = OvertakeAll(tasks) \cup
                                   {Task("csv_start", nextLogging,
                                         [scope |-> active.scope, browser |-> active.browser,
                                          csv |-> csvSelected], "Idle")}
                    \/ (active.on => refused' \/ ~verified) /\ active' = active /\ tasks' = tasks
<1> USE DEF Typed
<1>1. ASSUME NEW V \in Views, SetVisible(V)
      PROVE  /\ UNCHANGED <<scope, refreshGen, loop, log, raced, refused>>
             /\ active'.on = active.on
             /\ active'.scope = active.scope /\ active'.browser = active.browser
             /\ active'.csv = active.csv /\ active'.plan = active.plan
             /\ active.on => /\ visible' = V /\ active'.pending = V
                             /\ browserGen' = browserGen + 1
                             /\ tasks' = tasks \cup {Task("debounce", browserGen', Nothing, "Idle")}
             /\ ~active.on => tasks' = tasks
  BY <1>1 DEF SetVisible, ActiveType
<1>2. ASSUME NEW t \in tasks, ApplyPending(t) \/ RestoreAfterRefresh(t) \/ TaskClears(t)
      PROVE  UNCHANGED <<appVars, runVars, loop, log, raced, refused>>
  BY <1>2 DEF ApplyPending, RestoreAfterRefresh, TaskClears
<1>3. ASSUME NEW p \in Params, RefreshParameter(p)
      PROVE  /\ UNCHANGED <<scope, visible, browserGen, loop, log, raced>>
             /\ refused => refused'
             /\ active'.on = active.on
             /\ active'.scope = active.scope /\ active'.browser = active.browser
             /\ active'.csv = active.csv /\ active'.pending = active.pending
             /\ \/ /\ active.on
                   /\ active'.plan = Subscriptions(active) \cup {<<"refresh", p>>}
                   /\ tasks' = tasks \cup {Task("refresh", refreshGen', Nothing, "Idle")}
                \/ (active.on => refused') /\ active' = active /\ tasks' = tasks
  <2> DEFINE plan == Subscriptions(active) \cup {<<"refresh", p>>}
  <2>1. CASE active.on /\ ~Rejected(plan)
    <3>1. /\ active' = [active EXCEPT !.plan = plan]
          /\ tasks' = tasks \cup {Task("refresh", refreshGen', Nothing, "Idle")}
          /\ UNCHANGED <<scope, visible, browserGen, loop, log, raced, refused>>
      BY <1>3, <2>1 DEF RefreshParameter
    <3> QED
      BY <2>1, <3>1 DEF ActiveType
  <2>2. CASE ~(active.on /\ ~Rejected(plan))
    BY <1>3, <2>2 DEF RefreshParameter
  <2> QED
    BY <2>1, <2>2
<1>4. ASSUME StartCsvLogging
      PROVE  /\ UNCHANGED <<scope, visible, browserGen, refreshGen, loop, log>>
             /\ loop.at = "idle"
             /\ raced => raced'
             /\ refused => refused'
             /\ active'.on = active.on
             /\ active'.scope = active.scope /\ active'.browser = active.browser
             /\ active'.pending = active.pending
             /\ \/ /\ active.on
                   /\ active'.csv = csvSelected
                   /\ active'.plan = Subscriptions(active')
                   /\ tasks' = OvertakeAll(tasks) \cup
                               {Task("csv_start", nextLogging,
                                     [scope |-> active.scope, browser |-> active.browser,
                                      csv |-> csvSelected], "Idle")}
                \/ (active.on => refused' \/ ~verified) /\ active' = active /\ tasks' = tasks
  <2> DEFINE sel == [Read(active) EXCEPT !.csv = csvSelected]
             plan == Subscriptions(sel)
  <2>1. /\ UNCHANGED <<scope, visible, browserGen, refreshGen, loop, log>>
        /\ loop.at = "idle"
        /\ raced => raced'
    BY <1>4 DEF StartCsvLogging, Operator, Idle
  <2>2. sel = [scope |-> active.scope, browser |-> active.browser, csv |-> csvSelected]
    BY ReadTyped
  <2>3. CASE verified /\ active.on /\ ~Rejected(plan)
    <3>1. /\ active' = [active EXCEPT !.csv = csvSelected, !.plan = plan]
          /\ tasks' = OvertakeAll(tasks) \cup {Task("csv_start", nextLogging, sel, "Idle")}
          /\ UNCHANGED refused
      BY <1>4, <2>3 DEF StartCsvLogging
    <3> HIDE DEF plan, sel
    <3>2. /\ active'.on = active.on
          /\ active'.scope = active.scope /\ active'.browser = active.browser
          /\ active'.pending = active.pending
          /\ active'.csv = csvSelected
          /\ active'.plan = plan
      BY <3>1 DEF ActiveType
    <3>3. plan = Subscriptions(active')
      BY <2>2, <3>2 DEF Subscriptions, plan
    <3> QED
      BY <2>1, <2>2, <2>3, <3>1, <3>2, <3>3
  <2>4. CASE ~(verified /\ active.on /\ ~Rejected(plan))
    <3>1. refused' = (refused \/ active.on) /\ UNCHANGED <<active, tasks>>
      BY <1>4, <2>4 DEF StartCsvLogging
    <3> QED
      BY <2>1, <3>1
  <2> QED
    BY <2>3, <2>4
<1> QED
  BY <1>1, <1>2, <1>3, <1>4

-----------------------------------------------------------------------------
\* a reader that is not overtaken was not there, or nothing it read changed
LEMMA FreshFrame ==
    ASSUME FreshInv,
           active'.on => /\ active.on
                         /\ active'.scope = active.scope
                         /\ active'.browser = active.browser
                         /\ active'.csv = active.csv,
           \A u \in tasks' : u \in tasks \/ u.at \notin Storing,
           loop' = loop \/ loop'.at \notin Storing
    PROVE  FreshInv'
BY DEF FreshInv

LEMMA FreshStored ==
    ASSUME \A u \in tasks' : u.at \in Storing => u.stale,
           loop'.at \in Storing => loop'.stale
    PROVE  FreshInv'
BY DEF FreshInv

LEMMA FreshStep ==
    ASSUME Typed, FreshInv, [Next]_vars
    PROVE  FreshInv'
<1>a. /\ active \in ActiveType /\ tasks \in SUBSET TaskType
      /\ \A k, g, s, r : Task(k, g, s, r).at = k
      /\ \A k \in {"debounce", "refresh", "csv_start", "clear"} : k \notin Storing
  BY DEF Typed, Task, Storing
<1>1. CASE Aside
  <2>1. CASE StopClears
    <3>1. CASE active.on
      <4>1. /\ loop'.at = "clear_store"
            /\ loop'.sel = [scope |-> active.scope, browser |-> active.browser, csv |-> {}]
        BY <2>1, <3>1, LoopTyped DEF StopClears, Typed
      <4> QED
        BY <2>1, <4>1 DEF StopClears, runVars, FreshInv
    <3>2. CASE ~active.on
      BY <2>1, <3>2 DEF StopClears, runVars, FreshInv
    <3> QED
      BY <3>1, <3>2
  <2>2. CASE ~StopClears
    <3>1. loop' = loop \/ loop'.at \in {"idle", "csv_stop", "clear"}
      <4>1. /\ Idle.at = "idle" /\ [Idle EXCEPT !.at = "csv_stop"].at = "csv_stop"
            /\ \A k, r : [loop EXCEPT !.at = k, !.result = r].at = k
        BY DEF Idle, Typed, LoopType
      <4>2. CsvStop => loop'.at = "clear"
        BY <4>1 DEF CsvStop
      <4>3. StopCsvLogging \/ Teardown("Faulted") \/ Teardown("Down") =>
               loop'.at \in {"idle", "csv_stop"}
        BY <4>1 DEF StopCsvLogging, Teardown
      <4>4. \/ StopCsvLogging \/ Teardown("Faulted") \/ Teardown("Down") \/ CsvStop
            \/ loop' = loop
        BY <1>1, <2>2
           DEF Aside, vars, ToggleCsvParameter, CsvStart, StatusRead, StatusSend, WriterFails,
               Deliver, TransportLost, Resume
      <4> QED
        BY <4>2, <4>3, <4>4
    <3>2. \A u \in tasks' : u \in tasks \/ u.at \notin Storing
      BY <1>1, AsideFrame DEF Timers, Storing
    <3> QED
      BY <1>1, <3>1, <3>2, AsideFrame, FreshFrame DEF Storing
  <2> QED
    BY <2>1, <2>2
<1>2. ASSUME NEW p \in Params, NEW n \in 1 .. MaxPanels,
             ToggleScopeParameter(p) \/ MoveScopeParameter(p, n)
      PROVE  FreshInv'
  <2>1. /\ UNCHANGED <<runVars, tasks>>
        /\ ~active.on => loop'.at = "idle"
        /\ active.on => /\ loop'.at = "store"
                        /\ loop'.sel.browser = active.browser
                        /\ loop'.sel.csv = active.csv
    BY <1>2, ScopeChanges
  <2> QED
    BY <2>1 DEF runVars, FreshInv, Storing
<1>3. CASE StoreReconfigure \/ StopStores
  <2>1. tasks' = OvertakeAll(tasks) /\ loop'.at \notin Storing
    BY <1>3, StoreEffect DEF Storing
  <2> QED
    BY <1>a, <2>1, OvertakeAllHas, FreshStored
<1>4. ASSUME NEW t \in tasks, StoreTask(t) \/ TaskClearStores(t)
      PROVE  FreshInv'
  <2>1. tasks' = OvertakeAll(tasks \ {t}) /\ (loop'.at \in Storing => loop'.stale)
    BY <1>4, StoreEffect
  <2>2. \A u \in tasks' : u.at \in Storing => u.stale
    BY <1>a, <2>1, OvertakeAllHas
  <2> QED
    BY <2>1, <2>2, FreshStored
<1>5. ASSUME NEW V \in Views, SetVisible(V)
      PROVE  FreshInv'
  <2>1. \A u \in tasks' : u \in tasks \/ u.at \notin Storing
    BY <1>5, <1>a, ReadFrame
  <2> QED
    BY <1>5, <2>1, ReadFrame, FreshFrame
<1>6. ASSUME NEW t \in tasks, ApplyPending(t) \/ RestoreAfterRefresh(t) \/ TaskClears(t)
      PROVE  FreshInv'
  <2>1. active' = active /\ loop' = loop
    BY <1>6, ReadFrame DEF runVars
  <2>2. PICK w : /\ w.at \in Storing /\ w.sel.scope = active.scope
                 /\ w.at = "store" => w.sel.csv = active.csv
                 /\ w.at = "clear_store" => w.sel.browser = active.browser
                 /\ tasks' \in {tasks \ {t}, (tasks \ {t}) \cup {w}}
    <3> DEFINE w1 == Task("store", 0, [Read(active) EXCEPT !.browser = active.pending], "Idle")
               w2 == Task("store", 0, Read(active), "Idle")
               w3 == Task("clear_store", t.gen, [Read(active) EXCEPT !.csv = {}], t.result)
    <3>1. /\ w1.at = "store" /\ w1.sel.scope = active.scope /\ w1.sel.csv = active.csv
          /\ w2.at = "store" /\ w2.sel.scope = active.scope /\ w2.sel.csv = active.csv
          /\ w3.at = "clear_store" /\ w3.sel.scope = active.scope
          /\ w3.sel.browser = active.browser
      BY ReaderTasks
    <3>2. \/ tasks' \in {tasks \ {t}, (tasks \ {t}) \cup {w1}}
          \/ tasks' \in {tasks \ {t}, (tasks \ {t}) \cup {w2}}
          \/ tasks' \in {tasks \ {t}, (tasks \ {t}) \cup {w3}}
      BY <1>6 DEF ApplyPending, RestoreAfterRefresh, TaskClears
    <3> QED
      BY <3>1, <3>2 DEF Storing
  <2>3. \A u \in tasks' : u \in tasks \/ u = w
    BY <2>2
  <2> QED
    BY <2>1, <2>2, <2>3 DEF FreshInv
<1>7. ASSUME NEW p \in Params, RefreshParameter(p)
      PROVE  FreshInv'
  <2>1. \A u \in tasks' : u \in tasks \/ u.at \notin Storing
    BY <1>7, <1>a, ReadFrame
  <2> QED
    BY <1>7, <2>1, ReadFrame, FreshFrame
<1>8. CASE StartCsvLogging
  <2>1. loop' = loop /\ loop.at \notin Storing
    BY <1>8, ReadFrame DEF Storing
  <2>2. CASE tasks' = tasks /\ active' = active
    BY <2>1, <2>2, FreshFrame
  <2>3. CASE ~(tasks' = tasks /\ active' = active)
    <3>1. PICK w : w.at = "csv_start" /\ tasks' = OvertakeAll(tasks) \cup {w}
      BY <1>8, <1>a, <2>3, ReadFrame
    <3>2. \A u \in tasks' : u.at \in Storing => u.stale
      BY <1>a, <3>1, OvertakeAllHas
    <3> QED
      BY <2>1, <3>2, FreshStored
  <2> QED
    BY <2>2, <2>3
<1>9. CASE StopPlanner
  BY <1>9 DEF StopPlanner, Stopped, FreshInv
<1> QED
  BY <1>1, <1>2, <1>3, <1>4, <1>5, <1>6, <1>7, <1>8, <1>9, StepKinds

-----------------------------------------------------------------------------
LEMMA ScopeFrame ==
    ASSUME ScopeInv,
           active'.on => active.on /\ active'.scope = active.scope,
           scope' = scope,
           \/ loop'.at = loop.at /\ loop'.sel = loop.sel
           \/ loop.at # "store" /\ loop'.at # "store",
           raced => raced', refused => refused'
    PROVE  ScopeInv'
BY DEF ScopeInv

LEMMA ScopeStep ==
    ASSUME Typed, FreshInv, ScopeInv, [Next]_vars
    PROVE  ScopeInv'
<1>a. active \in ActiveType
  BY DEF Typed
<1>1. CASE Aside
  BY <1>1, AsideFrame, ScopeFrame
<1>2. ASSUME NEW p \in Params, NEW n \in 1 .. MaxPanels,
             ToggleScopeParameter(p) \/ MoveScopeParameter(p, n)
      PROVE  ScopeInv'
  BY <1>2, ScopeChanges DEF ScopeInv, runVars
<1>3. CASE StoreReconfigure \/ StopStores
  <2>1. /\ ReconfigureAll(loop) /\ loop.sel \in Selection /\ loop.at \in Storing
        /\ loop'.at = "idle" /\ scope' = scope
    BY <1>3, StoreEffect DEF appVars, Storing
  <2>2. CASE active.on /\ ~Rejected(Subscriptions(loop.sel))
    <3>1. active'.scope = loop.sel.scope /\ raced' = (raced \/ loop.stale) /\ refused' = refused
      BY <1>a, <2>1, <2>2, StoreOutcome
    <3> QED
      BY <1>3, <2>1, <2>2, <3>1, StoreEffect DEF ScopeInv, FreshInv
  <2>3. CASE ~(active.on /\ ~Rejected(Subscriptions(loop.sel)))
    <3>1. active' = active /\ refused' = (refused \/ active.on)
      BY <1>a, <2>1, <2>3, StoreOutcome
    <3> QED
      BY <3>1 DEF ScopeInv
  <2> QED
    BY <2>2, <2>3
<1>4. ASSUME NEW t \in tasks, StoreTask(t) \/ TaskClearStores(t)
      PROVE  ScopeInv'
  <2>1. /\ ReconfigureAll(t) /\ t.sel \in Selection /\ t.at \in Storing
        /\ loop'.at = loop.at /\ loop'.sel = loop.sel /\ scope' = scope
    BY <1>4, StoreEffect DEF appVars
  <2>2. CASE active.on /\ ~Rejected(Subscriptions(t.sel))
    <3>1. active'.scope = t.sel.scope /\ raced' = (raced \/ t.stale) /\ refused' = refused
      BY <1>a, <2>1, <2>2, StoreOutcome
    <3> QED
      BY <2>1, <2>2, <3>1 DEF ScopeInv, FreshInv
  <2>3. CASE ~(active.on /\ ~Rejected(Subscriptions(t.sel)))
    <3>1. active' = active /\ refused' = (refused \/ active.on)
      BY <1>a, <2>1, <2>3, StoreOutcome
    <3> QED
      BY <3>1 DEF ScopeInv
  <2> QED
    BY <2>2, <2>3
<1>5. ASSUME NEW V \in Views, SetVisible(V)
      PROVE  ScopeInv'
  BY <1>5, ReadFrame, ScopeFrame
<1>6. ASSUME NEW t \in tasks, ApplyPending(t) \/ RestoreAfterRefresh(t) \/ TaskClears(t)
      PROVE  ScopeInv'
  BY <1>6, ReadFrame, ScopeFrame DEF appVars, runVars
<1>7. ASSUME NEW p \in Params, RefreshParameter(p)
      PROVE  ScopeInv'
  BY <1>7, ReadFrame, ScopeFrame
<1>8. CASE StartCsvLogging
  BY <1>8, ReadFrame, ScopeFrame
<1>9. CASE StopPlanner
  BY <1>9 DEF StopPlanner, Stopped, ScopeInv
<1> QED
  BY <1>1, <1>2, <1>3, <1>4, <1>5, <1>6, <1>7, <1>8, <1>9, StepKinds

-----------------------------------------------------------------------------
LEMMA BrowserFrame ==
    ASSUME BrowserInv,
           active'.on => /\ active.on /\ active'.pending = active.pending
                         /\ active'.browser = active.browser,
           visible' = visible, browserGen' = browserGen,
           raced => raced', refused => refused',
           \A u \in tasks : u.at \in {"debounce", "store"} =>
              \E w \in tasks' : w.at = u.at /\ w.gen = u.gen /\ w.sel = u.sel,
           \A u \in tasks' : u.at \in Storing /\ ~u.stale =>
              u \in tasks \/ u.sel.browser = active.browser
    PROVE  BrowserInv'
<1> SUFFICES ASSUME active'.on
             PROVE  BrowserInv'
  BY DEF BrowserInv
<1>1. active.on /\ active'.pending = active.pending /\ active'.browser = active.browser
  OBVIOUS
<1>2. active'.pending = visible'
  BY <1>1 DEF BrowserInv
<1>3. ASSUME ~raced', ~refused'
      PROVE  \/ Debouncing'
             \/ /\ active'.browser = visible'
                /\ \A u \in tasks' : u.at \in Storing /\ ~u.stale => u.sel.browser = visible'
  <2>1. CASE Debouncing
    <3>1. Debouncing'
      BY <2>1 DEF Debouncing
    <3> QED
      BY <3>1
  <2>2. CASE ~Debouncing
    BY <1>1, <1>3, <2>2 DEF BrowserInv
  <2> QED
    BY <2>1, <2>2
<1> QED
  BY <1>2, <1>3 DEF BrowserInv

LEMMA BrowserStep ==
    ASSUME Typed, FreshInv, BrowserInv, [Next]_vars
    PROVE  BrowserInv'
<1>a. /\ active \in ActiveType /\ tasks \in SUBSET TaskType
      /\ \A k, g, s, r : Task(k, g, s, r).at = k /\ Task(k, g, s, r).gen = g
      /\ "debounce" \notin Storing /\ "csv_start" \notin Storing /\ "refresh" \notin Storing
  BY DEF Typed, Task, Storing
<1>1. CASE Aside
  <2>1. /\ \A u \in tasks : u.at \in {"debounce", "store"} => u \in tasks'
        /\ \A u \in tasks' : u.at \in Storing => u \in tasks
    BY <1>1, AsideFrame DEF Timers, Storing
  <2> QED
    BY <1>1, <2>1, AsideFrame, BrowserFrame
<1>2. ASSUME NEW p \in Params, NEW n \in 1 .. MaxPanels,
             ToggleScopeParameter(p) \/ MoveScopeParameter(p, n)
      PROVE  BrowserInv'
  BY <1>2, ScopeChanges, BrowserFrame DEF runVars
<1>3. CASE StoreReconfigure \/ StopStores
  <2>1. /\ ReconfigureAll(loop) /\ loop.sel \in Selection /\ loop.at \in Storing
        /\ visible' = visible /\ browserGen' = browserGen
        /\ tasks' = OvertakeAll(tasks)
    BY <1>3, StoreEffect DEF appVars, Storing, StoreReconfigure, StopStores
  <2>2. /\ \A u \in tasks : \E w \in tasks' : w.at = u.at /\ w.gen = u.gen /\ w.sel = u.sel
        /\ \A u \in tasks' : u.at \in Storing => u.stale
    BY <1>a, <2>1, OvertakeAllHas
  <2>3. CASE active.on /\ ~Rejected(Subscriptions(loop.sel))
    <3>1. /\ active'.browser = loop.sel.browser /\ active'.pending = active.pending
          /\ raced' = (raced \/ loop.stale) /\ refused' = refused
      BY <1>a, <2>1, <2>3, StoreOutcome
    <3>2. CASE loop.stale
      BY <2>1, <2>3, <3>1, <3>2 DEF BrowserInv
    <3>3. CASE ~loop.stale
      <4>1. active'.browser = active.browser
        BY <2>1, <2>3, <3>1, <3>3 DEF FreshInv
      <4> QED
        BY <2>1, <2>2, <2>3, <3>1, <4>1, BrowserFrame
    <3> QED
      BY <3>2, <3>3
  <2>4. CASE ~(active.on /\ ~Rejected(Subscriptions(loop.sel)))
    <3>1. active' = active /\ refused' = (refused \/ active.on)
      BY <1>a, <2>1, <2>4, StoreOutcome
    <3> QED
      BY <2>1, <3>1 DEF BrowserInv
  <2> QED
    BY <2>3, <2>4
<1>4. ASSUME NEW t \in tasks, StoreTask(t) \/ TaskClearStores(t)
      PROVE  BrowserInv'
  <2>1. /\ ReconfigureAll(t) /\ t.sel \in Selection /\ t.at \in Storing
        /\ t.at # "store" => t.at = "clear_store"
        /\ visible' = visible /\ browserGen' = browserGen
        /\ tasks' = OvertakeAll(tasks \ {t})
    BY <1>4, StoreEffect DEF appVars, Storing, StoreTask, TaskClearStores
  <2>2. /\ \A u \in tasks \ {t} : \E w \in tasks' : w.at = u.at /\ w.gen = u.gen /\ w.sel = u.sel
        /\ \A u \in tasks' : u.at \in Storing => u.stale
    BY <1>a, <2>1, OvertakeAllHas
  <2>3. CASE active.on /\ ~Rejected(Subscriptions(t.sel))
    <3>1. /\ active'.browser = t.sel.browser /\ active'.pending = active.pending
          /\ raced' = (raced \/ t.stale) /\ refused' = refused
      BY <1>a, <2>1, <2>3, StoreOutcome
    <3>2. active'.pending = visible'
      BY <2>1, <2>3, <3>1 DEF BrowserInv
    <3>3. ASSUME ~raced', ~refused'
          PROVE  Debouncing' \/ active'.browser = visible'
      <4>1. ~raced /\ ~refused /\ ~t.stale
        BY <3>1, <3>3
      <4>2. CASE \E u \in tasks : u.at = "debounce" /\ u.gen = browserGen
        <5>1. PICK u \in tasks : u.at = "debounce" /\ u.gen = browserGen
          BY <4>2
        <5>2. u \in tasks \ {t}
          BY <1>a, <2>1, <5>1
        <5>3. PICK w \in tasks' : w.at = u.at /\ w.gen = u.gen
          BY <2>2, <5>2
        <5> QED
          BY <2>1, <5>1, <5>3 DEF Debouncing
      <4>3. CASE \E u \in tasks \ {t} : u.at = "store" /\ u.sel.browser = visible
        BY <2>1, <2>2, <4>3 DEF Debouncing
      <4>4. CASE t.sel.browser = visible
        BY <2>1, <3>1, <4>4
      <4>5. \/ \E u \in tasks : u.at = "debounce" /\ u.gen = browserGen
            \/ \E u \in tasks : u.at = "store" /\ u.sel.browser = visible
            \/ t.sel.browser = visible
        BY <2>1, <2>3, <4>1 DEF BrowserInv, Debouncing
      <4> QED
        BY <4>2, <4>3, <4>4, <4>5
    <3> QED
      BY <2>2, <3>2, <3>3 DEF BrowserInv
  <2>4. CASE ~(active.on /\ ~Rejected(Subscriptions(t.sel)))
    <3>1. active' = active /\ refused' = (refused \/ active.on)
      BY <1>a, <2>1, <2>4, StoreOutcome
    <3> QED
      BY <2>1, <3>1 DEF BrowserInv
  <2> QED
    BY <2>3, <2>4
<1>5. ASSUME NEW V \in Views, SetVisible(V)
      PROVE  BrowserInv'
  <2>1. CASE active.on
    <3>1. /\ visible' = V /\ active'.pending = V
          /\ tasks' = tasks \cup {Task("debounce", browserGen', Nothing, "Idle")}
      BY <1>5, <2>1, ReadFrame
    <3>2. Debouncing'
      BY <1>a, <3>1 DEF Debouncing
    <3> QED
      BY <3>1, <3>2 DEF BrowserInv
  <2>2. CASE ~active.on
    BY <1>5, <2>2, ReadFrame DEF BrowserInv
  <2> QED
    BY <2>1, <2>2
<1>6. ASSUME NEW t \in tasks, ApplyPending(t)
      PROVE  BrowserInv'
  <2> DEFINE w == Task("store", 0, [Read(active) EXCEPT !.browser = active.pending], "Idle")
  <2>1. /\ t.at = "debounce"
        /\ UNCHANGED <<visible, active, browserGen, raced, refused>>
        /\ tasks' = (tasks \ {t}) \cup IF t.gen = browserGen /\ active.on THEN {w} ELSE {}
    BY <1>6 DEF ApplyPending, appVars, runVars
  <2>2. w.at = "store" /\ w.sel.browser = active.pending
    BY ReaderTasks
  <2> HIDE DEF w
  <2>3. CASE active.on /\ t.gen = browserGen
    <3>1. w \in tasks' /\ (w.sel.browser = visible)
      BY <2>1, <2>2, <2>3 DEF BrowserInv
    <3>2. Debouncing'
      BY <2>1, <2>2, <3>1 DEF Debouncing
    <3> QED
      BY <2>1, <3>2 DEF BrowserInv
  <2>4. CASE active.on /\ t.gen # browserGen
    <3>1. tasks' = tasks \ {t}
      BY <2>1, <2>4
    <3>2. Debouncing => Debouncing'
      BY <2>1, <2>4, <3>1 DEF Debouncing
    <3> QED
      BY <2>1, <3>1, <3>2 DEF BrowserInv
  <2>5. CASE ~active.on
    BY <2>1, <2>5 DEF BrowserInv
  <2> QED
    BY <2>3, <2>4, <2>5
<1>7. ASSUME NEW t \in tasks, RestoreAfterRefresh(t) \/ TaskClears(t)
      PROVE  BrowserInv'
  <2>1. /\ t.at \in {"refresh", "clear"}
        /\ UNCHANGED <<visible, active, browserGen, raced, refused>>
    BY <1>7 DEF RestoreAfterRefresh, TaskClears, appVars, runVars
  <2>2. PICK w : /\ w.sel.browser = active.browser
                 /\ tasks' \in {tasks \ {t}, (tasks \ {t}) \cup {w}}
    <3> DEFINE w1 == Task("store", 0, Read(active), "Idle")
               w2 == Task("clear_store", t.gen, [Read(active) EXCEPT !.csv = {}], t.result)
    <3>1. w1.sel.browser = active.browser /\ w2.sel.browser = active.browser
      BY ReaderTasks
    <3>2. \/ tasks' \in {tasks \ {t}, (tasks \ {t}) \cup {w1}}
          \/ tasks' \in {tasks \ {t}, (tasks \ {t}) \cup {w2}}
      BY <1>7 DEF RestoreAfterRefresh, TaskClears
    <3> QED
      BY <3>1, <3>2
  <2> QED
    BY <2>1, <2>2, BrowserFrame
<1>8. ASSUME NEW p \in Params, RefreshParameter(p)
      PROVE  BrowserInv'
  <2>1. /\ \A u \in tasks' : u \in tasks \/ u.at = "refresh"
        /\ \A u \in tasks : u \in tasks'
    BY <1>8, <1>a, ReadFrame
  <2> QED
    BY <1>8, <1>a, <2>1, ReadFrame, BrowserFrame
<1>9. CASE StartCsvLogging
  <2>1. CASE tasks' = tasks
    BY <1>9, <2>1, ReadFrame, BrowserFrame
  <2>2. CASE tasks' # tasks
    <3>1. PICK w : w.at = "csv_start" /\ tasks' = OvertakeAll(tasks) \cup {w}
      BY <1>9, <1>a, <2>2, ReadFrame
    <3>2. /\ \A u \in tasks : \E v \in tasks' : v.at = u.at /\ v.gen = u.gen /\ v.sel = u.sel
          /\ \A u \in tasks' : u.at \in Storing => u.stale
      BY <1>a, <3>1, OvertakeAllHas
    <3> QED
      BY <1>9, <3>2, ReadFrame, BrowserFrame
  <2> QED
    BY <2>1, <2>2
<1>10. CASE StopPlanner
  BY <1>10 DEF StopPlanner, Stopped, BrowserInv
<1> QED
  BY <1>1, <1>2, <1>3, <1>4, <1>5, <1>6, <1>7, <1>8, <1>9, <1>10, StepKinds

-----------------------------------------------------------------------------
LEMMA PlanFrame ==
    ASSUME PlanInv,
           active'.on => /\ active.on /\ active'.plan = active.plan
                         /\ active'.scope = active.scope /\ active'.browser = active.browser
                         /\ active'.csv = active.csv,
           refreshGen' = refreshGen,
           raced => raced', refused => refused',
           \A u \in tasks : u.at \in {"refresh", "store"} =>
              \E w \in tasks' : w.at = u.at /\ w.gen = u.gen
    PROVE  PlanInv'
<1> SUFFICES ASSUME active'.on
             PROVE  PlanInv'
  BY DEF PlanInv
<1>1. active.on /\ active'.plan = active.plan /\ Subscriptions(active') = Subscriptions(active)
  BY DEF Subscriptions
<1>2. PlanCoversSelections'
  BY <1>1 DEF PlanInv, PlanCoversSelections
<1> QED
  BY <1>1, <1>2 DEF PlanInv

LEMMA PlanStored ==
    ASSUME active'.on => active'.plan = Subscriptions(active')
    PROVE  PlanInv'
BY DEF PlanInv, PlanCoversSelections

LEMMA PlanStep ==
    ASSUME Typed, PlanInv, [Next]_vars
    PROVE  PlanInv'
<1>a. /\ active \in ActiveType /\ tasks \in SUBSET TaskType
      /\ \A k, g, s, r : Task(k, g, s, r).at = k /\ Task(k, g, s, r).gen = g
  BY DEF Typed, Task
<1>1. CASE Aside
  <2>1. \A u \in tasks : u.at \in {"refresh", "store"} => u \in tasks'
    BY <1>1, AsideFrame DEF Timers
  <2> QED
    BY <1>1, <2>1, AsideFrame, PlanFrame
<1>2. ASSUME NEW p \in Params, NEW n \in 1 .. MaxPanels,
             ToggleScopeParameter(p) \/ MoveScopeParameter(p, n)
      PROVE  PlanInv'
  BY <1>2, ScopeChanges, PlanFrame DEF runVars
<1>3. ASSUME NEW t, ReconfigureAll(t), t.sel \in Selection, refreshGen' = refreshGen
      PROVE  PlanInv'
  <2>1. CASE active.on /\ ~Rejected(Subscriptions(t.sel))
    BY <1>a, <1>3, <2>1, StoreOutcome, PlanStored
  <2>2. CASE ~(active.on /\ ~Rejected(Subscriptions(t.sel)))
    <3>1. active' = active /\ refused' = (refused \/ active.on)
      BY <1>a, <1>3, <2>2, StoreOutcome
    <3> QED
      BY <3>1 DEF PlanInv, PlanCoversSelections
  <2> QED
    BY <2>1, <2>2
<1>4. CASE StoreReconfigure \/ StopStores
  BY <1>3, <1>4, StoreEffect DEF StoreReconfigure, StopStores
<1>5. ASSUME NEW t \in tasks, StoreTask(t) \/ TaskClearStores(t)
      PROVE  PlanInv'
  BY <1>3, <1>5, StoreEffect DEF StoreTask, TaskClearStores
<1>6. ASSUME NEW V \in Views, SetVisible(V)
      PROVE  PlanInv'
  <2>1. \A u \in tasks : u \in tasks'
    BY <1>6, ReadFrame
  <2> QED
    BY <1>6, <2>1, ReadFrame, PlanFrame
<1>7. ASSUME NEW t \in tasks, ApplyPending(t) \/ TaskClears(t)
      PROVE  PlanInv'
  <2>1. \A u \in tasks : u.at \in {"refresh", "store"} => u \in tasks'
    BY <1>7 DEF ApplyPending, TaskClears
  <2> QED
    BY <1>7, <2>1, ReadFrame, PlanFrame DEF runVars
<1>8. ASSUME NEW t \in tasks, RestoreAfterRefresh(t)
      PROVE  PlanInv'
  <2>1. /\ t.at = "refresh"
        /\ tasks' = (tasks \ {t}) \cup
                    IF t.gen = refreshGen /\ active.on
                    THEN {Task("store", 0, Read(active), "Idle")} ELSE {}
        /\ UNCHANGED <<active, refreshGen, raced, refused>>
    BY <1>8 DEF RestoreAfterRefresh, runVars
  <2>2. CASE active.on /\ t.gen = refreshGen
    <3>1. \E u \in tasks' : u.at = "store"
      BY <1>a, <2>1, <2>2
    <3> QED
      BY <2>1, <3>1 DEF PlanInv, PlanCoversSelections
  <2>3. CASE active.on /\ t.gen # refreshGen
    BY <2>1, <2>3 DEF PlanInv, PlanCoversSelections
  <2>4. CASE ~active.on
    BY <2>1, <2>4 DEF PlanInv
  <2> QED
    BY <2>2, <2>3, <2>4
<1>9. ASSUME NEW p \in Params, RefreshParameter(p)
      PROVE  PlanInv'
  <2>1. CASE active' = active /\ tasks' = tasks /\ (active.on => refused')
    BY <2>1 DEF PlanInv, PlanCoversSelections
  <2>2. CASE /\ active.on
             /\ active'.plan = Subscriptions(active) \cup {<<"refresh", p>>}
             /\ tasks' = tasks \cup {Task("refresh", refreshGen', Nothing, "Idle")}
    <3>1. Subscriptions(active') = Subscriptions(active)
      BY <1>9, ReadFrame DEF Subscriptions
    <3>2. PlanCoversSelections'
      BY <2>2, <3>1 DEF PlanCoversSelections
    <3>3. \E u \in tasks' : u.at = "refresh" /\ u.gen = refreshGen'
      BY <1>a, <2>2
    <3> QED
      BY <3>2, <3>3 DEF PlanInv
  <2> QED
    BY <1>9, <2>1, <2>2, ReadFrame
<1>10. CASE StartCsvLogging
  <2>1. CASE active' = active /\ tasks' = tasks
    BY <1>10, <2>1, ReadFrame, PlanFrame
  <2>2. CASE active'.plan = Subscriptions(active')
    BY <2>2, PlanStored
  <2> QED
    BY <1>10, <2>1, <2>2, ReadFrame
<1>11. CASE StopPlanner
  BY <1>11 DEF StopPlanner, Stopped, PlanInv
<1> QED
  BY <1>1, <1>2, <1>4, <1>5, <1>6, <1>7, <1>8, <1>9, <1>10, <1>11, StepKinds

-----------------------------------------------------------------------------
\* a selection without its log needs no more of the bus than with it
LEMMA RejectedMonotone ==
    ASSUME NEW small, NEW large \in SUBSET (Reasons \X Params), small \subseteq large,
           ~Rejected(large)
    PROVE  ~Rejected(small)
<1> DEFINE S == {d[2] : d \in small}
           L == {d[2] : d \in large}
<1>1. S \subseteq L /\ L \subseteq Params
  <2>1. \A d \in large : d[2] \in Params
    OBVIOUS
  <2> QED
    BY <2>1
<1>2. IsFiniteSet(L) /\ IsFiniteSet(S) /\ Cardinality(S) <= Cardinality(L)
  BY <1>1, ScopeAssumption, FS_Subset
<1>3. Cardinality(S) \in Nat /\ Cardinality(L) \in Nat
  BY <1>2, FS_CardinalityType
<1>4. Cardinality(L) <= Budget
  BY <1>3, MonitoringAssumption DEF Rejected
<1>5. Budget \in Nat
  BY MonitoringAssumption
<1> HIDE DEF S, L
<1>6. ~(Cardinality(S) > Budget)
  BY <1>2, <1>3, <1>4, <1>5
<1> QED
  BY <1>6 DEF Rejected, S

LEMMA AdmittedFrame ==
    ASSUME AdmittedInv,
           active'.on => /\ active.on
                         /\ active'.scope = active.scope /\ active'.browser = active.browser
                         /\ active'.csv = active.csv,
           \A u \in tasks' : u.at = "clear_store" =>
              \E w \in tasks : w.at = "clear_store" /\ u.sel = w.sel
    PROVE  AdmittedInv'
<1> SUFFICES ASSUME active'.on
             PROVE  AdmittedInv'
  BY DEF AdmittedInv
<1>1. Subscriptions(active') = Subscriptions(active)
  BY DEF Subscriptions
<1>2. \A u \in tasks' : u.at = "clear_store" => ~Rejected(Subscriptions(u.sel))
  BY DEF AdmittedInv
<1> QED
  BY <1>1, <1>2 DEF AdmittedInv, Rejected

LEMMA AdmittedStep ==
    ASSUME Typed, AdmittedInv, [Next]_vars
    PROVE  AdmittedInv'
<1>a. /\ active \in ActiveType /\ tasks \in SUBSET TaskType
      /\ \A k, g, s, r : Task(k, g, s, r).at = k
  BY DEF Typed, Task
<1>1. CASE Aside
  <2>1. \A u \in tasks' : u.at = "clear_store" => u \in tasks
    BY <1>1, AsideFrame DEF Timers
  <2> QED
    BY <1>1, <2>1, AsideFrame, AdmittedFrame
<1>2. ASSUME NEW p \in Params, NEW n \in 1 .. MaxPanels,
             ToggleScopeParameter(p) \/ MoveScopeParameter(p, n)
      PROVE  AdmittedInv'
  BY <1>2, ScopeChanges, AdmittedFrame DEF runVars
<1>3. ASSUME NEW t, ReconfigureAll(t), t.sel \in Selection,
             \A u \in tasks' : \E w \in tasks : u.at = w.at /\ u.sel = w.sel
      PROVE  AdmittedInv'
  <2>1. CASE active.on /\ ~Rejected(Subscriptions(t.sel))
    <3>1. Subscriptions(active') = Subscriptions(t.sel) /\ active'.on
      BY <1>a, <1>3, <2>1, StoreOutcome
    <3>2. ~Rejected(Subscriptions(active'))
      BY <2>1, <3>1
    <3>3. \A u \in tasks' : u.at = "clear_store" => ~Rejected(Subscriptions(u.sel))
      BY <1>3, <2>1 DEF AdmittedInv
    <3> QED
      BY <3>2, <3>3 DEF AdmittedInv, Rejected
  <2>2. CASE ~(active.on /\ ~Rejected(Subscriptions(t.sel)))
    <3>1. active' = active
      BY <1>a, <1>3, <2>2, StoreOutcome
    <3>2. \A u \in tasks' : u.at = "clear_store" =>
             \E w \in tasks : w.at = "clear_store" /\ u.sel = w.sel
      BY <1>3
    <3> QED
      BY <3>1, <3>2, AdmittedFrame
  <2> QED
    BY <2>1, <2>2
<1>4. CASE StoreReconfigure \/ StopStores
  <2>1. ReconfigureAll(loop) /\ loop.sel \in Selection /\ tasks' = OvertakeAll(tasks)
    BY <1>4, StoreEffect
  <2>2. \A u \in tasks' : \E w \in tasks : u.at = w.at /\ u.sel = w.sel
    BY <1>a, <2>1, OvertakeAllHas
  <2> QED
    BY <1>3, <2>1, <2>2
<1>5. ASSUME NEW t \in tasks, StoreTask(t) \/ TaskClearStores(t)
      PROVE  AdmittedInv'
  <2>1. ReconfigureAll(t) /\ t.sel \in Selection /\ tasks' = OvertakeAll(tasks \ {t})
    BY <1>5, StoreEffect
  <2>2. \A u \in tasks' : \E w \in tasks : u.at = w.at /\ u.sel = w.sel
    BY <1>a, <2>1, OvertakeAllHas
  <2> QED
    BY <1>3, <2>1, <2>2
<1>6. ASSUME NEW V \in Views, SetVisible(V)
      PROVE  AdmittedInv'
  <2>1. \A u \in tasks' : u.at = "clear_store" => u \in tasks
    BY <1>6, <1>a, ReadFrame
  <2> QED
    BY <1>6, <2>1, ReadFrame, AdmittedFrame
<1>7. ASSUME NEW t \in tasks, ApplyPending(t) \/ RestoreAfterRefresh(t)
      PROVE  AdmittedInv'
  <2>1. \A u \in tasks' : u.at = "clear_store" => u \in tasks
    BY <1>7, <1>a DEF ApplyPending, RestoreAfterRefresh
  <2> QED
    BY <1>7, <2>1, ReadFrame, AdmittedFrame DEF runVars
<1>8. ASSUME NEW t \in tasks, TaskClears(t)
      PROVE  AdmittedInv'
  <2> DEFINE w == Task("clear_store", t.gen, [Read(active) EXCEPT !.csv = {}], t.result)
  <2>1. active' = active
    BY <1>8 DEF TaskClears, runVars
  <2>2. CASE active.on
    <3>1. tasks' = (tasks \ {t}) \cup {w}
      BY <1>8, <2>2 DEF TaskClears
    <3>2. w.sel.scope = active.scope /\ w.sel.browser = active.browser /\ w.sel.csv = {}
      BY ReaderTasks
    <3> HIDE DEF w
    <3>3. Subscriptions(w.sel) \subseteq Subscriptions(active)
      BY <3>2 DEF Subscriptions
    <3>4. Subscriptions(active) \in SUBSET (Reasons \X Params)
      BY <1>a, SubscriptionsTyped DEF ActiveType
    <3>5. ~Rejected(Subscriptions(active))
      BY <2>2 DEF AdmittedInv
    <3>6. ~Rejected(Subscriptions(w.sel))
      BY <3>3, <3>4, <3>5, RejectedMonotone
    <3>7. \A u \in tasks' : u.at = "clear_store" => ~Rejected(Subscriptions(u.sel))
      BY <2>2, <3>1, <3>6 DEF AdmittedInv
    <3> QED
      BY <2>1, <3>5, <3>7 DEF AdmittedInv, Rejected
  <2>3. CASE ~active.on
    BY <2>1, <2>3 DEF AdmittedInv
  <2> QED
    BY <2>2, <2>3
<1>9. ASSUME NEW p \in Params, RefreshParameter(p)
      PROVE  AdmittedInv'
  <2>1. \A u \in tasks' : u.at = "clear_store" => u \in tasks
    BY <1>9, <1>a, ReadFrame
  <2> QED
    BY <1>9, <2>1, ReadFrame, AdmittedFrame
<1>10. CASE StartCsvLogging
  <2> DEFINE sel == [Read(active) EXCEPT !.csv = csvSelected]
             plan == Subscriptions(sel)
  <2>1. CASE verified /\ active.on /\ ~Rejected(plan)
    <3>1. /\ active' = [active EXCEPT !.csv = csvSelected, !.plan = plan]
          /\ tasks' = OvertakeAll(tasks) \cup {Task("csv_start", nextLogging, sel, "Idle")}
      BY <1>10, <2>1 DEF StartCsvLogging
    <3>2. /\ sel.scope = active.scope /\ sel.browser = active.browser /\ sel.csv = csvSelected
      <4>1. sel = [scope |-> active.scope, browser |-> active.browser, csv |-> csvSelected]
        BY <1>a, ReadTyped DEF Typed
      <4> QED
        BY <4>1
    <3>3. plan = Subscriptions(active')
      <4>1. /\ active'.scope = active.scope /\ active'.browser = active.browser
            /\ active'.csv = csvSelected
        BY <1>a, <3>1 DEF ActiveType
      <4> QED
        BY <3>2, <4>1 DEF Subscriptions
    <3>4. \A u \in tasks' : u.at = "clear_store" => \E w \in tasks : u.at = w.at /\ u.sel = w.sel
      BY <1>a, <3>1, OvertakeAllHas
    <3> HIDE DEF plan, sel
    <3>5. \A u \in tasks' : u.at = "clear_store" => ~Rejected(Subscriptions(u.sel))
      BY <2>1, <3>4 DEF AdmittedInv
    <3> QED
      BY <2>1, <3>3, <3>5 DEF AdmittedInv, Rejected
  <2>2. CASE ~(verified /\ active.on /\ ~Rejected(plan))
    <3>1. UNCHANGED <<active, tasks>>
      BY <1>10, <2>2 DEF StartCsvLogging
    <3> QED
      BY <3>1, AdmittedFrame
  <2> QED
    BY <2>1, <2>2
<1>11. CASE StopPlanner
  BY <1>11 DEF StopPlanner, Stopped, AdmittedInv
<1> QED
  BY <1>1, <1>2, <1>4, <1>5, <1>6, <1>7, <1>8, <1>9, <1>10, <1>11, StepKinds

-----------------------------------------------------------------------------
(***************************************************************************)
(* The log.                                                                *)
(***************************************************************************)
LEMMA RacedStays ==
    ASSUME Typed, [Next]_vars
    PROVE  raced => raced'
<1>1. CASE \/ \E p \in Params, n \in 1 .. MaxPanels :
                 ToggleScopeParameter(p) \/ MoveScopeParameter(p, n)
           \/ StopPlanner
  BY <1>1, ScopeChanges DEF StopPlanner
<1>2. ASSUME NEW t, ReconfigureAll(t), t.sel \in Selection
      PROVE  raced => raced'
  BY <1>2, StoreOutcome DEF Typed
<1> QED
  BY <1>1, <1>2, StepKinds, AsideFrame, StoreEffect, ReadFrame

\* the log is left alone, and so is who starts it, reports it or clears it
LEMMA LogFrame ==
    ASSUME LogInv, raced => raced', log' = log, active'.on = active.on,
           inbox' = inbox, csvStatus' = csvStatus,
           phase \in {"Connected", "Lost"} => phase' \in {"Connected", "Lost"},
           loop.at = "csv_stop" => loop'.at = "csv_stop",
           loop.at \in {"idle", "store"} => loop'.at \in {"idle", "store"},
           \A u \in tasks' : u.at \in {"csv_start", "status_send", "clear"} => u \in tasks,
           \A u \in tasks' : u.at = "clear_store" =>
              u.stale \/ \E w \in tasks : w.at = "clear_store" /\ u.stale = w.stale
    PROVE  LogInv'
<1> SUFFICES ASSUME ~raced, ~raced', log.life \in {"Idle", "Running"}
             PROVE  LogInv'
  BY DEF LogInv
<1>1. /\ \A t \in tasks' : t.at = "status_send" => t.result = "Running"
      /\ \A t, u \in tasks' : t.at = "csv_start" /\ u.at = "csv_start" => t = u
      /\ \A t \in tasks' : t.at = "csv_start" => log.life = "Idle"
  BY DEF LogInv
<1>2. ASSUME Live'
      PROVE  Expected'
  <2>1. Live
    BY <1>2 DEF Live
  <2>2. Expected
    BY <2>1 DEF LogInv
  <2> QED
    BY <2>2 DEF Expected
<1> QED
  BY <1>1, <1>2 DEF LogInv

\* the log ends without a start task, or nobody was about to be Expected
LEMMA LogOver ==
    ASSUME LogInv, raced => raced',
           ~raced' /\ log'.life \in {"Idle", "Running"} => log.life \in {"Idle", "Running"},
           \A u \in tasks' : u.at = "csv_start" => u \in tasks,
           ~raced' => ~Live',
           \A u \in tasks' : u.at = "status_send" => u \in tasks \/ u.result = "Running"
    PROVE  LogInv'
<1> SUFFICES ASSUME ~raced, ~raced', log'.life \in {"Idle", "Running"}
             PROVE  LogInv'
  BY DEF LogInv
<1>1. /\ \A t \in tasks' : t.at = "status_send" => t.result = "Running"
      /\ \A t, u \in tasks' : t.at = "csv_start" /\ u.at = "csv_start" => t = u
  BY DEF LogInv
<1>2. \A t \in tasks' : t.at = "csv_start" => log'.life = "Idle"
  BY DEF LogInv, Live
<1> QED
  BY <1>1, <1>2 DEF LogInv

LEMMA StartNotLive ==
    ASSUME Typed, LogInv, StartCsvLogging, ~raced'
    PROVE  /\ ~raced /\ ~Live
           /\ inbox = <<>> /\ phase = "Connected" /\ csvStatus' = "Starting"
           /\ loop.at = "idle" /\ loop' = loop /\ log' = log
           /\ \A t \in tasks : t.at \notin {"clear", "status_send"}
           /\ UNCHANGED <<phase, inbox>>
<1>1. /\ ~raced /\ loop.at = "idle" /\ csvStatus \notin Busy
      /\ inbox = <<>> /\ phase = "Connected" /\ csvStatus' = "Starting"
      /\ loop' = loop /\ log' = log
      /\ \A t \in tasks : t.at \notin {"clear", "status_send"}
      /\ UNCHANGED <<phase, inbox>>
  BY DEF StartCsvLogging, Operator, Idle
<1>2. ~Expected
  BY <1>1 DEF Expected, Busy
<1>3. ~Live
  BY <1>1, <1>2 DEF LogInv, Live
<1> QED
  BY <1>1, <1>3

LEMMA LogStep ==
    ASSUME Typed, AdmittedInv, LogInv, [Next]_vars
    PROVE  LogInv'
<1>a. /\ active \in ActiveType /\ tasks \in SUBSET TaskType /\ inbox \in Seq(StatusViews)
      /\ \A k, g, s, r : Task(k, g, s, r).at = k /\ Task(k, g, s, r).result = r
      /\ raced => raced'
      /\ Idle.at = "idle"
  BY RacedStays DEF Typed, Task, Idle
<1>1. CASE UNCHANGED vars
  BY <1>1, LogFrame DEF vars, appVars, runVars
<1>2. ASSUME NEW p \in Params, NEW n \in 1 .. MaxPanels,
             ToggleScopeParameter(p) \/ MoveScopeParameter(p, n)
      PROVE  LogInv'
  BY <1>2, <1>a, ScopeChanges, LogFrame DEF runVars
<1>3. ASSUME NEW t, ReconfigureAll(t), t.sel \in Selection
      PROVE  active'.on = active.on
  BY <1>3, <1>a, StoreOutcome
<1>4. CASE StoreReconfigure
  <2>1. /\ ReconfigureAll(loop) /\ loop.sel \in Selection
        /\ loop.at = "store" /\ loop'.at = "idle"
        /\ tasks' = OvertakeAll(tasks)
        /\ UNCHANGED <<appVars, inbox, log>>
    BY <1>4, StoreEffect
  <2>2. active'.on = active.on
    BY <1>3, <2>1
  <2>3. /\ \A u \in tasks' : u.at \in {"csv_start", "status_send", "clear"} => u \in tasks
        /\ \A u \in tasks' : u.at = "clear_store" => u.stale
    BY <1>a, <2>1, OvertakeAllHas DEF Storing
  <2> QED
    BY <1>a, <2>1, <2>2, <2>3, LogFrame DEF appVars
<1>5. CASE StopStores
  <2>1. /\ loop.at = "clear_store" /\ tasks' = OvertakeAll(tasks) /\ log' = log
    BY <1>5, StoreEffect
  <2>2. \A u \in tasks' : u.at \in {"csv_start", "status_send", "clear"} => u \in tasks
    BY <1>a, <2>1, OvertakeAllHas DEF Storing
  <2>3. ~raced => ~Live
    BY <2>1 DEF LogInv, Live, Expected
  <2>4. ~raced' => ~Live'
    BY <1>a, <2>1, <2>2, <2>3 DEF Live
  <2> QED
    BY <1>a, <2>1, <2>2, <2>4, LogOver
<1>6. ASSUME NEW t \in tasks, StoreTask(t)
      PROVE  LogInv'
  <2>1. /\ ReconfigureAll(t) /\ t.sel \in Selection
        /\ loop'.at = loop.at
        /\ tasks' = OvertakeAll(tasks \ {t})
        /\ UNCHANGED <<appVars, inbox, log>>
    BY <1>6, StoreEffect
  <2>2. active'.on = active.on
    BY <1>3, <2>1
  <2>3. /\ \A u \in tasks' : u.at \in {"csv_start", "status_send", "clear"} => u \in tasks
        /\ \A u \in tasks' : u.at = "clear_store" => u.stale
    BY <1>a, <2>1, OvertakeAllHas DEF Storing
  <2> QED
    BY <1>a, <2>1, <2>2, <2>3, LogFrame DEF appVars
<1>7. ASSUME NEW t \in tasks, TaskClearStores(t)
      PROVE  LogInv'
  <2>1. /\ ReconfigureAll(t) /\ t.sel \in Selection
        /\ t.at = "clear_store" /\ log' = log
        /\ tasks' = OvertakeAll(tasks \ {t})
    BY <1>7, StoreEffect
  <2>2. \A u \in tasks' : u.at \in {"csv_start", "status_send", "clear"} => u \in tasks
    BY <1>a, <2>1, OvertakeAllHas DEF Storing
  <2>3. ~raced' => ~Live
    <3> SUFFICES ASSUME ~raced', Live
                 PROVE  FALSE
      OBVIOUS
    <3>1. active.on /\ t.stale
      BY <1>a, <2>1 DEF LogInv, Live, Expected
    <3>2. ~Rejected(Subscriptions(t.sel))
      BY <2>1, <3>1 DEF AdmittedInv
    <3>3. raced' = (raced \/ t.stale)
      BY <1>a, <2>1, <3>1, <3>2, StoreOutcome
    <3> QED
      BY <3>1, <3>3
  <2>4. ~raced' => ~Live'
    BY <2>1, <2>2, <2>3 DEF Live
  <2> QED
    BY <1>a, <2>1, <2>2, <2>4, LogOver
<1>8. ASSUME NEW V \in Views, SetVisible(V)
      PROVE  LogInv'
  <2>1. \A u \in tasks' : u \in tasks \/ u.at = "debounce"
    BY <1>8, <1>a, ReadFrame
  <2> QED
    BY <1>8, <1>a, <2>1, ReadFrame, LogFrame DEF SetVisible
<1>9. ASSUME NEW t \in tasks, ApplyPending(t) \/ RestoreAfterRefresh(t)
      PROVE  LogInv'
  <2>1. \A u \in tasks' : u \in tasks \/ u.at = "store"
    BY <1>9, <1>a DEF ApplyPending, RestoreAfterRefresh
  <2> QED
    BY <1>9, <1>a, <2>1, ReadFrame, LogFrame DEF appVars, runVars, ApplyPending, RestoreAfterRefresh
<1>10. ASSUME NEW t \in tasks, TaskClears(t)
       PROVE  LogInv'
  <2>1. /\ \A u \in tasks' : u \in tasks \/ u.at = "clear_store"
        /\ t.at = "clear" /\ log' = log
    BY <1>10, <1>a DEF TaskClears
  <2>2. ~raced => ~Live
    BY <2>1 DEF LogInv, Live, Expected
  <2>3. ~raced' => ~Live'
    BY <1>a, <2>1, <2>2 DEF Live
  <2> QED
    BY <1>a, <2>1, <2>3, LogOver
<1>11. ASSUME NEW p \in Params, RefreshParameter(p)
       PROVE  LogInv'
  <2>1. \A u \in tasks' : u \in tasks \/ u.at = "refresh"
    BY <1>11, <1>a, ReadFrame
  <2> QED
    BY <1>11, <1>a, <2>1, ReadFrame, LogFrame DEF RefreshParameter
<1>12. ASSUME NEW p \in Params, ToggleCsvParameter(p)
       PROVE  LogInv'
  BY <1>12, <1>a, LogFrame DEF ToggleCsvParameter, runVars
<1>13. CASE StartCsvLogging
  <2> SUFFICES ASSUME ~raced'
               PROVE  LogInv'
    BY DEF LogInv
  <2>1. /\ ~raced /\ ~Live
        /\ inbox = <<>> /\ phase = "Connected" /\ csvStatus' = "Starting"
        /\ loop.at = "idle" /\ loop' = loop /\ log' = log
        /\ \A t \in tasks : t.at \notin {"clear", "status_send"}
        /\ UNCHANGED <<phase, inbox>>
    BY <1>13, StartNotLive
  <2>2. CASE tasks' = tasks
    BY <2>1, <2>2, LogOver DEF Live
  <2>3. CASE tasks' # tasks
    <3>1. PICK w : /\ w.at = "csv_start" /\ tasks' = OvertakeAll(tasks) \cup {w}
                   /\ active.on /\ active'.on
      BY <1>13, <1>a, <2>3, ReadFrame
    <3>2. /\ \A u \in tasks' : \/ u = w
                               \/ \E v \in tasks : u.at = v.at /\ (u.at \notin Storing => u = v)
          /\ \A u \in tasks' : u.at \in Storing => u.stale
          /\ "clear_store" \in Storing /\ "csv_start" \notin Storing
      BY <1>a, <3>1, OvertakeAllHas DEF Storing
    <3>3. \A u \in tasks' : /\ u.at \notin {"clear", "status_send"}
                            /\ u.at = "clear_store" => u.stale
      BY <2>1, <3>1, <3>2
    <3>4. Expected'
      BY <2>1, <3>1, <3>3 DEF Expected
    <3>5. log.life = "Idle" => \A u \in tasks' : u.at = "csv_start" => u = w
      BY <2>1, <3>1, <3>2 DEF Live
    <3>6. log.life # "Running"
      BY <2>1 DEF Live
    <3> QED
      BY <2>1, <3>3, <3>4, <3>5, <3>6 DEF LogInv
  <2> QED
    BY <2>2, <2>3
<1>14. ASSUME NEW t \in tasks, CsvStart(t)
       PROVE  LogInv'
  <2> SUFFICES ASSUME ~raced', log'.life \in {"Idle", "Running"}
               PROVE  LogInv'
    BY DEF LogInv
  <2>1. /\ t.at = "csv_start" /\ loop.at # "csv_stop" /\ loop' = loop
        /\ ~raced /\ log.life = "Idle" /\ active' = active
        /\ UNCHANGED <<phase, csvStatus>>
    <3>1. /\ t.at = "csv_start" /\ loop.at # "csv_stop" /\ loop' = loop
          /\ ~raced /\ log.life \in {"Idle", "Running"} /\ active' = active
          /\ UNCHANGED <<phase, csvStatus>>
      BY <1>14, <1>a DEF CsvStart, appVars, runVars
    <3> QED
      BY <3>1 DEF LogInv
  <2>2. Expected /\ \A u \in tasks : u.at = "csv_start" => u = t
    BY <2>1 DEF LogInv, Live
  <2>3. CASE /\ log' = [life |-> "Running", csv |-> t.sel.csv]
             /\ Report("Running")
             /\ tasks' = (tasks \ {t}) \cup {Task("status", t.gen, Nothing, "Idle")}
    <3>1. /\ \A u \in tasks' : u \in tasks \/ u.at = "status"
          /\ \A u \in tasks' : u.at # "csv_start"
      BY <1>a, <2>2, <2>3
    <3>2. \A i \in DOMAIN inbox' : inbox'[i] = "Running"
      BY <1>a, <2>2, <2>3 DEF Report, Expected
    <3>3. Expected'
      BY <2>1, <2>2, <3>1, <3>2 DEF Expected
    <3>4. \A u \in tasks' : u.at = "status_send" => u.result = "Running"
      BY <2>1, <3>1 DEF LogInv
    <3> QED
      BY <3>1, <3>3, <3>4 DEF LogInv
  <2>4. CASE /\ tasks' = (tasks \ {t}) \cup {Task("clear", t.gen, Nothing, "Failed")}
             /\ log' \in {log, [log EXCEPT !.life = "Failed"]}
    <3>1. /\ \A u \in tasks' : u \in tasks \/ u.at = "clear"
          /\ \A u \in tasks' : u.at # "csv_start"
      BY <1>a, <2>2, <2>4
    <3>2. log' = log
      BY <2>4 DEF Typed, LogType
    <3> QED
      BY <1>a, <2>1, <3>1, <3>2, LogOver DEF Live
  <2> QED
    BY <1>14, <2>1, <2>3, <2>4 DEF CsvStart
<1>15. CASE StopCsvLogging
  <2> SUFFICES ASSUME ~raced', log'.life \in {"Idle", "Running"}
               PROVE  LogInv'
    BY DEF LogInv
  <2>1. /\ UNCHANGED <<inbox, active, tasks, log, raced>>
        /\ active.on => loop'.at = "csv_stop"
    BY <1>15, LoopTyped DEF StopCsvLogging, Typed, runVars
  <2>2. Live' => Expected'
    BY <2>1 DEF LogInv, Live, Expected
  <2> QED
    BY <2>1, <2>2 DEF LogInv
<1>16. CASE CsvStop
  <2> SUFFICES ASSUME ~raced', log'.life \in {"Idle", "Running"}
               PROVE  LogInv'
    BY DEF LogInv
  <2>1. /\ \A u \in tasks : u.at # "csv_start"
        /\ tasks' = tasks
    BY <1>16 DEF CsvStop
  <2>2. PICK ok \in (IF log.life = "Running" THEN {TRUE, FALSE} ELSE {log.life = "Idle"}) :
          log' = [life |-> IF ok THEN "Idle" ELSE "Failed", csv |-> {}]
    BY <1>16 DEF CsvStop
  <2>3. log'.life = "Idle" /\ log.life \in {"Idle", "Running"}
    BY <2>2
  <2> QED
    BY <1>a, <2>1, <2>3, LogOver DEF Live
<1>17. CASE StopClears
  <2>1. /\ loop.at = "clear" /\ UNCHANGED <<tasks, log>>
    BY <1>17 DEF StopClears
  <2>2. ~raced => ~Live
    BY <2>1 DEF LogInv, Live, Expected
  <2>3. ~raced' => ~Live'
    BY <1>a, <2>1, <2>2 DEF Live
  <2> QED
    BY <1>a, <2>1, <2>3, LogOver
<1>18. CASE WriterFails
  <2>1. log'.life = "Broken"
    BY <1>18 DEF WriterFails, Typed, LogType
  <2> QED
    BY <2>1 DEF LogInv
<1>19. ASSUME NEW t \in tasks, StatusRead(t)
       PROVE  LogInv'
  <2> SUFFICES ASSUME ~raced', log.life \in {"Idle", "Running"}
               PROVE  LogInv'
    BY <1>19 DEF LogInv, StatusRead
  <2>1. \A u \in tasks' : u \in tasks \/ (u.at = "status_send" /\ u.result = "Running")
    BY <1>19, <1>a DEF StatusRead
  <2>2. UNCHANGED <<phase, csvStatus, inbox, active, loop, log, raced>>
    BY <1>19 DEF StatusRead, appVars, runVars
  <2>3. Live' => Expected'
    BY <2>1, <2>2 DEF LogInv, Live, Expected
  <2> QED
    BY <2>1, <2>2, <2>3 DEF LogInv
<1>20. ASSUME NEW t \in tasks, StatusSend(t)
       PROVE  LogInv'
  <2> SUFFICES ASSUME ~raced', log.life \in {"Idle", "Running"}
               PROVE  LogInv'
    BY <1>20 DEF LogInv, StatusSend
  <2>1. /\ UNCHANGED <<phase, csvStatus, active, loop, log, raced>>
        /\ t.at = "status_send" /\ Report(t.result)
    BY <1>20 DEF StatusSend, appVars, runVars
  <2>2. t.result = "Running"
    BY <2>1 DEF LogInv
  <2>3. \A u \in tasks' : u \in tasks \/ u.at = "status"
    BY <1>20, <1>a, <2>2 DEF StatusSend
  <2>4. (\A i \in DOMAIN inbox : inbox[i] = "Running") =>
           \A i \in DOMAIN inbox' : inbox'[i] = "Running"
    BY <1>a, <2>1, <2>2 DEF Report
  <2>5. Live' => Expected'
    BY <2>1, <2>3, <2>4 DEF LogInv, Live, Expected
  <2> QED
    BY <2>1, <2>3, <2>5 DEF LogInv
<1>21. CASE Deliver
  <2> SUFFICES ASSUME ~raced', log.life \in {"Idle", "Running"}
               PROVE  LogInv'
    BY <1>21 DEF LogInv, Deliver
  <2>1. /\ UNCHANGED <<phase, active, loop, tasks, log, raced>>
        /\ inbox # <<>> /\ csvStatus' = Head(inbox) /\ inbox' = Tail(inbox)
    BY <1>21 DEF Deliver, runVars
  <2>2. ASSUME Expected
        PROVE  Expected'
    <3>1. csvStatus' = "Running" /\ \A i \in DOMAIN inbox' : inbox'[i] = "Running"
      BY <1>a, <2>1, <2>2 DEF Expected
    <3> QED
      BY <2>1, <2>2, <3>1 DEF Expected
  <2>3. Live' => Expected'
    BY <2>1, <2>2 DEF LogInv, Live
  <2> QED
    BY <2>1, <2>3 DEF LogInv
<1>22. CASE TransportLost
  BY <1>22, <1>a, LogFrame DEF TransportLost
<1>23. CASE Resume
  BY <1>23, <1>a, LogFrame DEF Resume
<1>24. ASSUME NEW to, Teardown(to)
       PROVE  LogInv'
  <2> SUFFICES ASSUME ~raced', log'.life \in {"Idle", "Running"}
               PROVE  LogInv'
    BY DEF LogInv
  <2>1. /\ UNCHANGED <<inbox, active, tasks, log, raced>> /\ loop.at = "idle"
        /\ active.on /\ csvStatus \in {"Starting", "Running"} => loop'.at = "csv_stop"
    BY <1>24, <1>a, LoopTyped DEF Teardown, Typed, runVars
  <2>2. Live' => Expected'
    BY <2>1 DEF LogInv, Live, Expected
  <2> QED
    BY <2>1, <2>2 DEF LogInv
<1>25. CASE StopPlanner
  <2>1. /\ loop.at = "idle" /\ phase \in {"Faulted", "Down"} /\ log' = log
        /\ tasks' = OvertakeAll(tasks)
    BY <1>25, <1>a DEF StopPlanner
  <2>2. \A u \in tasks' : u.at \in {"csv_start", "status_send", "clear"} => u \in tasks
    BY <1>a, <2>1, OvertakeAllHas DEF Storing
  <2>3. ~raced => ~Live
    BY <2>1 DEF LogInv, Live, Expected
  <2>4. ~raced' => ~Live'
    BY <1>a, <2>1, <2>2, <2>3 DEF Live
  <2> QED
    BY <1>a, <2>1, <2>2, <2>4, LogOver
<1> QED
  BY <1>1, <1>2, <1>4, <1>5, <1>6, <1>7, <1>8, <1>9, <1>10, <1>11, <1>12, <1>13, <1>14, <1>15,
     <1>16, <1>17, <1>18, <1>19, <1>20, <1>21, <1>22, <1>23, <1>24, <1>25, StepKinds DEF Aside

-----------------------------------------------------------------------------
LEMMA CsvFrame ==
    ASSUME CsvInv,
           active'.on => active.on /\ active'.csv = active.csv,
           raced => raced', refused => refused',
           log'.life = "Running" => log' = log,
           log'.life = "Idle" => log.life = "Idle" \/ raced' \/ \A u \in tasks' : u.at # "csv_start",
           \A u \in tasks' : u.at = "csv_start" => u \in tasks
    PROVE  CsvInv'
BY DEF CsvInv

LEMMA CsvStep ==
    ASSUME Typed, FreshInv, LogInv, CsvInv, [Next]_vars
    PROVE  CsvInv'
<1>a. /\ active \in ActiveType /\ tasks \in SUBSET TaskType
      /\ \A k, g, s, r : Task(k, g, s, r).at = k /\ Task(k, g, s, r).sel = s
      /\ raced => raced'
      /\ "csv_start" \notin Storing /\ "csv_start" \notin Timers
  BY RacedStays DEF Typed, Task, Storing, Timers
<1>1. CASE Aside
  <2>1. /\ active' = active /\ (refused => refused')
        /\ \A u \in tasks' : u.at = "csv_start" => u \in tasks
    BY <1>1, AsideFrame
  <2>2. ASSUME NEW t \in tasks, CsvStart(t)
        PROVE  CsvInv'
    <3>1. CASE log' = [life |-> "Running", csv |-> t.sel.csv] /\ log.life = "Idle"
      <4>1. t.at = "csv_start" /\ refused' = refused /\ raced' = raced
        BY <2>2 DEF CsvStart
      <4> QED
        BY <2>1, <3>1, <4>1 DEF CsvInv
    <3>2. CASE log' \in {log, [log EXCEPT !.life = "Failed"]}
      <4>1. log' = log \/ log'.life = "Failed"
        BY <3>2 DEF Typed, LogType
      <4> QED
        BY <1>a, <2>1, <4>1, CsvFrame
    <3> QED
      BY <2>2, <3>1, <3>2 DEF CsvStart
  <2>3. CASE CsvStop
    <3>1. PICK ok \in (IF log.life = "Running" THEN {TRUE, FALSE} ELSE {log.life = "Idle"}) :
            log' = [life |-> IF ok THEN "Idle" ELSE "Failed", csv |-> {}]
      BY <2>3 DEF CsvStop
    <3>2. log'.life \in {"Idle", "Failed"}
      BY <3>1
    <3>3. raced' \/ \A u \in tasks : u.at # "csv_start"
      BY <2>3 DEF CsvStop
    <3> QED
      BY <1>a, <2>1, <3>2, <3>3, CsvFrame
  <2>4. CASE WriterFails
    <3>1. log'.life = "Broken"
      BY <2>4 DEF WriterFails, Typed, LogType
    <3> QED
      BY <1>a, <2>1, <3>1, CsvFrame
  <2>5. CASE log' = log
    BY <1>a, <2>1, <2>5, CsvFrame
  <2>6. \/ \E t \in tasks : CsvStart(t)
        \/ CsvStop \/ WriterFails \/ log' = log
    BY <1>1 DEF Aside, vars, ToggleCsvParameter, StatusRead, StatusSend, StopCsvLogging, StopClears,
                Deliver, TransportLost, Resume, Teardown
  <2> QED
    BY <2>2, <2>3, <2>4, <2>5, <2>6
<1>2. ASSUME NEW p \in Params, NEW n \in 1 .. MaxPanels,
             ToggleScopeParameter(p) \/ MoveScopeParameter(p, n)
      PROVE  CsvInv'
  BY <1>2, ScopeChanges, CsvFrame DEF runVars
<1>3. CASE StoreReconfigure \/ StopStores
  <2>1. /\ ReconfigureAll(loop) /\ loop.sel \in Selection /\ loop.at \in Storing
        /\ log' = log /\ tasks' = OvertakeAll(tasks)
    BY <1>3, StoreEffect DEF Storing
  <2>2. \A u \in tasks' : u.at = "csv_start" => u \in tasks
    BY <1>a, <2>1, OvertakeAllHas
  <2>3. CASE active.on /\ ~Rejected(Subscriptions(loop.sel))
    <3>1. active'.csv = loop.sel.csv /\ raced' = (raced \/ loop.stale) /\ refused' = refused
      BY <1>a, <2>1, <2>3, StoreOutcome
    <3>2. CASE StoreReconfigure
      <4>1. loop.at = "store"
        BY <3>2, StoreEffect
      <4>2. ~raced' => active'.csv = active.csv
        BY <2>1, <2>3, <3>1, <4>1 DEF FreshInv
      <4>3. CASE raced'
        BY <4>3 DEF CsvInv
      <4>4. CASE ~raced'
        BY <1>a, <2>1, <2>2, <2>3, <3>1, <4>2, <4>4, CsvFrame
      <4> QED
        BY <4>3, <4>4
    <3>3. CASE StopStores
      <4>1. loop.at = "clear_store"
        BY <3>3, StoreEffect
      <4>2. ~raced => ~Live
        BY <4>1 DEF LogInv, Live, Expected
      <4> QED
        BY <1>a, <2>1, <2>2, <4>2 DEF CsvInv, Live
    <3> QED
      BY <1>3, <3>2, <3>3
  <2>4. CASE ~(active.on /\ ~Rejected(Subscriptions(loop.sel)))
    <3>1. active' = active /\ refused' = (refused \/ active.on)
      BY <1>a, <2>1, <2>4, StoreOutcome
    <3> QED
      BY <3>1 DEF CsvInv
  <2> QED
    BY <2>3, <2>4
<1>4. ASSUME NEW t \in tasks, StoreTask(t) \/ TaskClearStores(t)
      PROVE  CsvInv'
  <2>1. /\ ReconfigureAll(t) /\ t.sel \in Selection
        /\ log' = log /\ tasks' = OvertakeAll(tasks \ {t})
    BY <1>4, StoreEffect
  <2>2. \A u \in tasks' : u.at = "csv_start" => u \in tasks
    BY <1>a, <2>1, OvertakeAllHas
  <2>3. CASE active.on /\ ~Rejected(Subscriptions(t.sel))
    <3>1. active'.csv = t.sel.csv /\ raced' = (raced \/ t.stale) /\ refused' = refused
      BY <1>a, <2>1, <2>3, StoreOutcome
    <3>2. CASE raced'
      BY <3>2 DEF CsvInv
    <3>3. CASE ~raced' /\ t.at = "store"
      <4>1. active'.csv = active.csv
        BY <2>3, <3>1, <3>3 DEF FreshInv, Storing
      <4> QED
        BY <1>a, <2>1, <2>2, <2>3, <3>1, <4>1, CsvFrame
    <3>4. CASE ~raced' /\ t.at = "clear_store"
      <4>1. ~raced /\ ~t.stale
        BY <3>1, <3>4
      <4>2. ~Live
        BY <3>4, <4>1 DEF LogInv, Live, Expected
      <4> QED
        BY <2>1, <2>2, <4>2 DEF CsvInv, Live
    <3> QED
      BY <1>4, <3>2, <3>3, <3>4, StoreEffect
  <2>4. CASE ~(active.on /\ ~Rejected(Subscriptions(t.sel)))
    <3>1. active' = active /\ refused' = (refused \/ active.on)
      BY <1>a, <2>1, <2>4, StoreOutcome
    <3> QED
      BY <3>1 DEF CsvInv
  <2> QED
    BY <2>3, <2>4
<1>5. ASSUME NEW V \in Views, SetVisible(V)
      PROVE  CsvInv'
  <2>1. \A u \in tasks' : u \in tasks \/ u.at = "debounce"
    BY <1>5, <1>a, ReadFrame
  <2> QED
    BY <1>5, <2>1, ReadFrame, CsvFrame
<1>6. ASSUME NEW t \in tasks, ApplyPending(t) \/ RestoreAfterRefresh(t) \/ TaskClears(t)
      PROVE  CsvInv'
  <2>1. \A u \in tasks' : u \in tasks \/ u.at \in Storing
    BY <1>6, <1>a DEF ApplyPending, RestoreAfterRefresh, TaskClears, Storing
  <2> QED
    BY <1>6, <1>a, <2>1, ReadFrame, CsvFrame DEF runVars
<1>7. ASSUME NEW p \in Params, RefreshParameter(p)
      PROVE  CsvInv'
  <2>1. \A u \in tasks' : u \in tasks \/ u.at = "refresh"
    BY <1>7, <1>a, ReadFrame
  <2> QED
    BY <1>7, <2>1, ReadFrame, CsvFrame
<1>8. CASE StartCsvLogging
  <2> SUFFICES ASSUME ~raced'
               PROVE  CsvInv'
    BY DEF CsvInv
  <2>1. ~raced /\ ~Live /\ log' = log
    BY <1>8, StartNotLive
  <2>2. CASE tasks' = tasks
    BY <2>1, <2>2 DEF CsvInv, Live
  <2>3. CASE tasks' # tasks
    <3>1. PICK w : /\ w.at = "csv_start" /\ w.sel.csv = csvSelected
                   /\ tasks' = OvertakeAll(tasks) \cup {w} /\ active'.csv = csvSelected
      <4> DEFINE w == Task("csv_start", nextLogging,
                           [scope |-> active.scope, browser |-> active.browser,
                            csv |-> csvSelected], "Idle")
      <4>1. tasks' = OvertakeAll(tasks) \cup {w} /\ active'.csv = csvSelected
        BY <1>8, <2>3, ReadFrame
      <4>2. w.at = "csv_start" /\ w.sel.csv = csvSelected
        BY DEF Task
      <4> QED
        BY <4>1, <4>2
    <3>2. \A u \in tasks' : u.at = "csv_start" => u = w \/ u \in tasks
      BY <1>a, <3>1, OvertakeAllHas
    <3> QED
      BY <2>1, <3>1, <3>2 DEF CsvInv, Live
  <2> QED
    BY <2>2, <2>3
<1>9. CASE StopPlanner
  BY <1>9 DEF StopPlanner, Stopped, CsvInv
<1> QED
  BY <1>1, <1>2, <1>3, <1>4, <1>5, <1>6, <1>7, <1>8, <1>9, StepKinds

-----------------------------------------------------------------------------
(***************************************************************************)
(* The theorems.                                                           *)
(***************************************************************************)
LEMMA MonInit == Init => MonInv
<1> SUFFICES ASSUME Init
             PROVE  MonInv
  OBVIOUS
<1>1. Typed
  BY TypedInit
<1>2. /\ active.on /\ active.scope = {} /\ active.browser = {} /\ active.csv = {}
      /\ active.pending = {} /\ active.plan = Subscriptions(Nothing)
      /\ Subscriptions(active) = Subscriptions(Nothing)
  <2>1. active = [on |-> TRUE, scope |-> {}, browser |-> {}, csv |-> {}, pending |-> {},
                  plan |-> Subscriptions(Nothing)]
    BY DEF Init, Stopped
  <2> QED
    BY <2>1 DEF Subscriptions, Nothing
<1>3. /\ loop.at = "idle" /\ tasks = {} /\ log.life = "Idle" /\ visible = {}
      /\ Channels(scope) = {}
  BY DEF Init, Idle, Channels
<1>4. FreshInv /\ ScopeInv /\ BrowserInv /\ LogInv /\ CsvInv
  BY <1>2, <1>3 DEF FreshInv, ScopeInv, BrowserInv, LogInv, CsvInv, Storing, Live
<1>5. PlanInv
  BY <1>2 DEF PlanInv, PlanCoversSelections
<1>6. AdmittedInv
  <2> DEFINE S == {d[2] : d \in Subscriptions(Nothing)}
  <2>1. S \subseteq Dashboard
    <3>1. \A d \in Subscriptions(Nothing) : d \in {"dashboard"} \X Dashboard
      BY DEF Subscriptions, Nothing
    <3>2. \A d \in {"dashboard"} \X Dashboard : d[2] \in Dashboard
      OBVIOUS
    <3> QED
      BY <3>1, <3>2
  <2>2. ~Rejected(Subscriptions(Nothing))
    <3>1. IsFiniteSet(Dashboard)
      BY ScopeAssumption, MonitoringAssumption, FS_Subset
    <3>2. IsFiniteSet(S) /\ Cardinality(S) <= Cardinality(Dashboard)
      BY <2>1, <3>1, FS_Subset
    <3>3. Cardinality(Dashboard) \in Nat /\ Cardinality(S) \in Nat
      BY <3>1, <3>2, FS_CardinalityType
    <3>4. Cardinality(Dashboard) <= Budget /\ Budget \in Nat
      BY MonitoringAssumption
    <3> HIDE DEF S
    <3>5. ~(Cardinality(S) > Budget)
      BY <3>2, <3>3, <3>4
    <3> QED
      BY <3>5 DEF Rejected, S
  <2> QED
    BY <1>2, <1>3, <2>2 DEF AdmittedInv, Rejected
<1> QED
  BY <1>1, <1>4, <1>5, <1>6 DEF MonInv

LEMMA MonStep == MonInv /\ [Next]_vars => MonInv'
BY TypedStep, FreshStep, AdmittedStep, ScopeStep, BrowserStep, PlanStep, LogStep, CsvStep
   DEF MonInv

\* The invariant of the monitoring runtime (reconfigure_all and its callers).
THEOREM MonInvHolds == Spec => []MonInv
<1>1. Init => MonInv
  BY MonInit
<1>2. MonInv /\ [Next]_vars => MonInv'
  BY MonStep
<1> QED
  BY <1>1, <1>2, PTL DEF Spec

LEMMA QuietIsCurrent ==
    ASSUME MonInv, active.on, Quiet, ~raced, ~refused
    PROVE  SelectionsAreCurrent
<1>1. loop.at = "idle"
  BY DEF Quiet, Idle
<1>2. active.scope = Channels(scope)
  BY <1>1 DEF MonInv, ScopeInv
<1>3. ~Debouncing /\ ~\E t \in tasks : t.at \in {"refresh", "store"}
  BY DEF Quiet, Debouncing
<1>4. active.browser = visible
  BY <1>3 DEF MonInv, BrowserInv
<1>5. active.plan = Subscriptions(active)
  BY <1>3 DEF MonInv, PlanInv
<1>6. log.life = "Running" => active.csv = log.csv
  BY DEF MonInv, CsvInv
<1> QED
  BY <1>2, <1>4, <1>5, <1>6 DEF SelectionsAreCurrent

\* The plan polls every selection the runtime remembers and nothing else but a
\* refreshed parameter, and once every update is stored the selections are the
\* ones last asked for, unless an update was overtaken or a plan rejected
\* (reconfigure, start_csv_logging and the timers of monitoring_runtime.rs).
THEOREM SelectionsArePolled == Spec => []PlanIsRequested
<1>1. MonInv => PlanIsRequested
  <2> SUFFICES ASSUME MonInv
               PROVE  PlanIsRequested
    OBVIOUS
  <2>1. PanelsShareAxis
    BY SoundShowsOneAxis DEF MonInv, Typed, PanelsShareAxis
  <2>2. active.on => PlanCoversSelections
    BY DEF MonInv, PlanInv
  <2> QED
    BY <2>1, <2>2, QuietIsCurrent DEF PlanIsRequested
<1> QED
  BY <1>1, MonInvHolds, PTL

\* When the planner has stopped no log runs, unless the stop overtook the task
\* that starts it (StopCsvLogging before StopPlanner in application.rs).
THEOREM LogEndsWithSession == Spec => []TeardownFinalizesLog
<1>1. MonInv => TeardownFinalizesLog
  BY DEF MonInv, LogInv, Live, Expected, TeardownFinalizesLog
<1> QED
  BY <1>1, MonInvHolds, PTL
=============================================================================

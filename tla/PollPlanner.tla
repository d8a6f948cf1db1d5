------------------------------ MODULE PollPlanner ------------------------------
(***************************************************************************)
(* build_plan of lantern-app/src/poll.rs: the subscriptions of all         *)
(* consumers become one demand per parameter, demands of a kind that lie   *)
(* close together share a Modbus read, and while the reads cost more of    *)
(* the bus than the budget the least important demand is slowed down or    *)
(* dropped.  Each turn of that loop is a step.  Times are in milliseconds, *)
(* the cost of a read in microseconds.                                     *)
(***************************************************************************)
EXTENDS Naturals, Sequences, SequencesExt, FiniteSets, FiniteSetsExt, Functions

CONSTANTS
    Params,         \* parameter ids, in the order of their numbers
    Register,       \* register of a parameter of the profile: table, start,
                    \* count, sealed (do_not_bridge), bridge (maximum_bridge_gap)
    Requests,       \* bound: sets of subscriptions a parameter may have
    BaudRate, BitsPerCharacter,
    BudgetPpm       \* share of the bus for cyclic reads, 700000 in the code

\* every known parameter fits a read, and no cadence is zero (poll.rs:186)
ASSUME PollAssumption ==
    /\ Params \subseteq Nat /\ DOMAIN Register \subseteq Params
    /\ BaudRate \in Nat \ {0} /\ BitsPerCharacter \in 9 .. 12 /\ BudgetPpm \in 1 .. 700000

VARIABLES
    asked,          \* the subscriptions, per parameter
    demand,         \* active: the demand of each parameter still polled
    slowed,         \* degradations, in order
    refused,        \* rejections: parameter -> reason
    blocks,         \* the finished plan
    at              \* "open", "plan", "done", or "frame" for a freeze frame

planVars == <<asked, demand, slowed, refused, blocks, at>>

-----------------------------------------------------------------------------
Frequencies == <<"Fast", "Normal", "Slow", "OnDemand">>

\* the derived Ord of FrequencyClass
FrequencyRank(f) == CHOOSE i \in DOMAIN Frequencies : Frequencies[i] = f

NextSlower(f) == IF f \in {"Fast", "Normal"} THEN Frequencies[FrequencyRank(f) + 1] ELSE "None"

PollReasons == {"DriveState", "Fault", "Dashboard", "Scope", "Csv", "ParameterBrowser", "Backup", "Diagnostics"}

\* periodic_class and request_class_rank: Background 0, Telemetry 1, Critical 2
ClassRank(reason) ==
    CASE reason \in {"DriveState", "Fault"} -> 2
      [] reason \in {"Backup", "Diagnostics"} -> 0
      [] OTHER -> 1

BudgetRank(reason) ==
    CASE reason = "Diagnostics" -> 0
      [] reason = "Backup" -> 1
      [] reason = "Csv" -> 2
      [] reason = "Scope" -> 3
      [] reason \in {"Dashboard", "ParameterBrowser"} -> 4
      [] reason = "Fault" -> 5
      [] reason = "DriveState" -> 6

\* ReadSubscription: a maximum age of zero is refused
Subscription == [reason : PollReasons, frequency : Range(Frequencies), age : Nat \ {0}]

ASSUME RequestsAssumption == \A set \in Requests : \A s \in set : s \in Subscription

\* PollCadences::default
Period(f) == CASE f = "Fast" -> 100 [] f = "Normal" -> 1000 [] f = "Slow" -> 10000 [] OTHER -> 0

Cyclic(p) == {s \in asked[p] : s.frequency # "OnDemand"}

\* frequency_for_age: the slowest of the requested and faster cadences whose
\* period the age allows
FrequencyForAge(f, age) ==
    LET fit == {g \in {"Fast", "Normal", "Slow"} : FrequencyRank(g) <= FrequencyRank(f) /\ Period(g) <= age}
    IN  IF fit = {} THEN "None" ELSE CHOOSE g \in fit : \A h \in fit : FrequencyRank(h) <= FrequencyRank(g)

\* Demand::from_parameter
DemandOf(p) ==
    LET age == Min({s.age : s \in Cyclic(p)})
        fastest == Frequencies[Min({FrequencyRank(s.frequency) : s \in Cyclic(p)})]
    IN  [frequency |-> FrequencyForAge(fastest, age),
         age |-> age,
         class |-> Max({ClassRank(s.reason) : s \in Cyclic(p)}),
         rank |-> Max({BudgetRank(s.reason) : s \in Cyclic(p)}),
         reasons |-> {s.reason : s \in Cyclic(p)}]

\* the rejections before the loop: PollRejectionReason
Reason(p) ==
    IF p \notin DOMAIN Register THEN "UnknownParameter"
    ELSE IF Cyclic(p) = {} THEN "OnDemandOnly"
    ELSE IF DemandOf(p).frequency = "None" THEN "MaximumAgeBelowFastCadence"
    ELSE "None"

-----------------------------------------------------------------------------
(***************************************************************************)
(* Blocks.                                                                 *)
(***************************************************************************)

\* lexicographic order of two tuples of numbers of the same length
Before(a, b) == \E i \in DOMAIN a : a[i] < b[i] /\ \A j \in 1 .. i - 1 : a[j] = b[j]

TableRank(p) == IF Register[p].table = "Input" THEN 0 ELSE 1

GroupKey(d, p) == <<d[p].class, FrequencyRank(d[p].frequency), TableRank(p)>>

Start(p) == Register[p].start

End(p) == Register[p].start + Register[p].count - 1

GroupStart(g) == Min({Start(p) : p \in Range(g)})

GroupEnd(g) == Max({End(p) : p \in Range(g)})

\* mutant: only the newcomer is asked about the gap
CanAppend_Newcomer(d, g, p) ==
    /\ GroupKey(d, g[1]) = GroupKey(d, p)
    /\ Max({GroupEnd(g), End(p)}) - GroupStart(g) + 1 <= 125
    /\ \/ Start(p) <= GroupEnd(g) + 1
       \/ ~Register[p].sealed /\ Start(p) - GroupEnd(g) - 1 <= Register[p].bridge

\* can_append: adjacent or overlapping registers always, a gap only where all
\* of the group and the newcomer allow it
CanAppend(d, g, p) ==
    /\ GroupKey(d, g[1]) = GroupKey(d, p)
    /\ Max({GroupEnd(g), End(p)}) - GroupStart(g) + 1 <= 125
    /\ \/ Start(p) <= GroupEnd(g) + 1
       \/ \A q \in Range(g) \cup {p} :
             ~Register[q].sealed /\ Start(p) - GroupEnd(g) - 1 <= Register[q].bridge

\* build_blocks: the groups of the demands d, in order of key, start and id
Groups(d) ==
    LET Key(p) == GroupKey(d, p) \o <<Start(p), p>>
        sorted == SetToSortSeq(DOMAIN d, LAMBDA p, q : Before(Key(p), Key(q)))
        Place(gs, p) == IF gs # <<>> /\ CanAppend(d, Last(gs), p)
                        THEN [gs EXCEPT ![Len(gs)] = Append(@, p)] ELSE Append(gs, <<p>>)
    IN  FoldLeft(Place, <<>>, sorted)

DivCeil(a, b) == (a + b - 1) \div b

\* estimate_read_transaction_cost and protocol_t35
TransactionCost(count) ==
    DivCeil((8 + 5 + 2 * count) * BitsPerCharacter * 1000000, BaudRate)
      + (IF BaudRate > 19200 THEN 1750 ELSE DivCeil(BitsPerCharacter * 3500000, BaudRate))

\* utilization_ppm of a group
GroupPpm(d, g) == DivCeil(TransactionCost(GroupEnd(g) - GroupStart(g) + 1) * 1000, Period(d[g[1]].frequency))

Utilization(d) == FoldLeft(LAMBDA n, g : n + GroupPpm(d, g), 0, Groups(d))

\* finalize_blocks: the order of the blocks, and a phase that spreads the
\* blocks of a period over it
Block(d, g, phase) ==
    [start |-> GroupStart(g), count |-> GroupEnd(g) - GroupStart(g) + 1, table |-> Register[g[1]].table,
     frequency |-> d[g[1]].frequency, class |-> d[g[1]].class,
     age |-> Min({d[p].age : p \in Range(g)}), phase |-> phase,
     reasons |-> UNION {d[p].reasons : p \in Range(g)},
     offsets |-> [p \in Range(g) |-> Start(p) - GroupStart(g)]]

Finalized(d) ==
    LET Key(g) == <<Period(d[g[1]].frequency), 2 - d[g[1]].class, TableRank(g[1]), GroupStart(g)>>
        order == SortSeq(Groups(d), LAMBDA g, h : Before(Key(g), Key(h)))
        Same(i) == {j \in DOMAIN order : d[order[j][1]].frequency = d[order[i][1]].frequency}
        Phase(i) == (Period(d[order[i][1]].frequency) * Cardinality({j \in Same(i) : j < i}))
                        \div Cardinality(Same(i))
    IN  [i \in DOMAIN order |-> Block(d, order[i], Phase(i))]

-----------------------------------------------------------------------------
\* build: subscriptions of any consumer for any parameter
PlannerInit ==
    /\ asked \in [Params -> Requests]
    /\ demand = <<>> /\ slowed = <<>> /\ refused = <<>> /\ blocks = <<>>
    /\ at = "open"

PlannerIdle ==
    /\ asked = <<>> /\ demand = <<>> /\ slowed = <<>> /\ refused = <<>> /\ blocks = <<>>
    /\ at = "off"

Asked == {p \in Params : asked[p] # {}}

OpenDemands ==
    /\ at = "open"
    /\ at' = "plan"
    /\ demand' = [p \in {q \in Asked : Reason(q) = "None"} |-> DemandOf(p)]
    /\ refused' = [p \in {q \in Asked : Reason(q) # "None"} |-> Reason(p)]
    /\ UNCHANGED <<asked, slowed, blocks>>

\* demand_priority_key
Priority(p) == <<demand[p].class, demand[p].rank, p>>

Candidate == CHOOSE p \in DOMAIN demand : \A q \in DOMAIN demand \ {p} : Before(Priority(p), Priority(q))

OverBudget == at = "plan" /\ demand # <<>> /\ Utilization(demand) > BudgetPpm

MayDegrade(p) ==
    /\ NextSlower(demand[p].frequency) # "None"
    /\ Period(NextSlower(demand[p].frequency)) <= demand[p].age

Degrade ==
    /\ OverBudget
    /\ LET p == Candidate
       IN  /\ MayDegrade(p)
           /\ demand' = [demand EXCEPT ![p].frequency = NextSlower(@)]
           /\ slowed' = Append(slowed, p)
    /\ UNCHANGED <<asked, refused, blocks, at>>

RejectForBudget ==
    /\ OverBudget
    /\ LET p == Candidate
       IN  /\ ~MayDegrade(p)
           /\ demand' = Restrict(demand, DOMAIN demand \ {p})
           /\ refused' = [q \in DOMAIN refused \cup {p} |-> IF q = p THEN "BudgetExceeded" ELSE refused[q]]
    /\ UNCHANGED <<asked, slowed, blocks, at>>

FinishPlan ==
    /\ at = "plan" /\ ~OverBudget
    /\ blocks' = Finalized(demand)
    /\ at' = "done"
    /\ UNCHANGED <<asked, demand, slowed, refused>>

\* build_fault_freeze_frame: the one-shot reads of a freeze frame, grouped by
\* the same rule without classes and cadences; an unknown parameter refuses it
FrameGroups(S) == Groups([p \in S |-> [class |-> 0, frequency |-> "Fast"]])

BuildFreezeFrame ==
    /\ at = "open"
    /\ at' = "frame"
    /\ blocks' = IF ~(Asked \subseteq DOMAIN Register) THEN <<>>
                 ELSE LET gs == FrameGroups(Asked)
                      IN  [i \in DOMAIN gs |->
                              [start |-> GroupStart(gs[i]), count |-> GroupEnd(gs[i]) - GroupStart(gs[i]) + 1,
                               offsets |-> [p \in Range(gs[i]) |-> Start(p) - GroupStart(gs[i])]]]
    /\ UNCHANGED <<asked, demand, slowed, refused>>

PlannerNext == BuildFreezeFrame \/ OpenDemands \/ Degrade \/ RejectForBudget \/ FinishPlan

-----------------------------------------------------------------------------
(***************************************************************************)
(* Properties.                                                             *)
(***************************************************************************)

Polled(b) == DOMAIN b.offsets

PlanAccountsForAll ==
    at = "done" =>
        /\ \A p \in Asked :
              LET by == {i \in DOMAIN blocks : p \in Polled(blocks[i])}
              IN  IF p \in DOMAIN refused THEN by = {} ELSE Cardinality(by) = 1
        /\ \A i \in DOMAIN blocks : \A p \in Polled(blocks[i]) :
              /\ \A s \in Cyclic(p) : Period(blocks[i].frequency) <= s.age
              /\ blocks[i].start + blocks[i].offsets[p] = Start(p)
              /\ End(p) <= blocks[i].start + blocks[i].count - 1
              /\ blocks[i].table = Register[p].table
        /\ Utilization(demand) <= BudgetPpm

LowestPaysFirst ==
    at \in {"plan", "done"} =>
        \A p \in Range(slowed) \cup {q \in DOMAIN refused : refused[q] = "BudgetExceeded"} :
            \A q \in DOMAIN demand \ {p} :
                LET mine == DemandOf(p) IN
                ~Before(<<demand[q].class, demand[q].rank>>, <<mine.class, mine.rank>>)

GapsAreAllowed ==
    \A i \in DOMAIN blocks :
        LET b == blocks[i]
            used == UNION {Start(p) .. End(p) : p \in Polled(b)}
        IN  /\ b.count <= 125
            /\ \A p \in Polled(b) :
                  LET before == {q \in Polled(b) : Start(q) < Start(p)}
                      gap == {r \in b.start .. Start(p) - 1 : \A s \in r .. Start(p) - 1 : s \notin used}
                  IN  gap # {} => \A q \in before \cup {p} :
                                     ~Register[q].sealed /\ Cardinality(gap) <= Register[q].bridge

\* A finished plan accounts for every subscribed parameter exactly once: it is
\* read by one block, whose cadence its strictest subscriber accepts and whose
\* registers contain it, or its rejection is reported; what is read costs no more
\* than the budget, however often grouping changed on the way, and the budget was
\* taken from the least important first (demand_priority_key, poll.rs:784).
\* Registers nobody asked for are read only inside a gap that the parameters
\* before it in the block and the one after it all allow, and no read exceeds the
\* 125 registers of the protocol (can_append, poll.rs:944 and fault_plan.rs:168).
PlanIsSound == PlanAccountsForAll /\ LowestPaysFirst /\ GapsAreAllowed
=============================================================================

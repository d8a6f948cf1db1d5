------------------------------ MODULE MCTelemetry ------------------------------
(***************************************************************************)
(* PollPlanner, Telemetry, Downsample and FaultTimeline for TLC.  A plan is *)
(* compiled, then executed, its histories drawn, its fault words followed:  *)
(* four questions that share no state, so that each behaviour asks one of   *)
(* them and leaves the others idle.                                         *)
(***************************************************************************)
EXTENDS PollPlanner, Telemetry, Downsample, FaultTimeline, TLC

\* five parameters in one table: bridged gaps, a sealed one, and one the
\* profile does not know
Input(start, count, sealed, bridge) ==
    [table |-> "Input", start |-> start, count |-> count, sealed |-> sealed, bridge |-> bridge]

MCRegister == 1 :> Input(10, 2, FALSE, 2) @@ 2 :> Input(14, 1, FALSE, 2)
                @@ 3 :> Input(15, 1, TRUE, 0) @@ 4 :> Input(17, 1, FALSE, 3)

Ask(reason, frequency, age) == [reason |-> reason, frequency |-> frequency, age |-> age]

\* consumers that agree and disagree about a parameter, one that can be slowed
\* down twice, one too impatient for any cadence, one that never polls
MCRequests ==
    { {}, {Ask("Fault", "Fast", 100)}, {Ask("Dashboard", "Normal", 2000)},
      {Ask("Scope", "Fast", 1000), Ask("Csv", "Slow", 400)}, {Ask("Csv", "Fast", 20000)},
      {Ask("Diagnostics", "OnDemand", 500)}, {Ask("Backup", "Slow", 50)} }

\* the age of parameter 1 shrinks under plan 2, which drops parameter 2; plan 3
\* brings it back and keeps no history of parameter 1
Slice(age, history) == [age |-> age, history |-> history]

MCPlans ==
    << << [period |-> 1, phase |-> 0, slices |-> 1 :> Slice(3, TRUE)],
          [period |-> 2, phase |-> 1, slices |-> 2 :> Slice(2, TRUE)] >>,
       << [period |-> 2, phase |-> 0, slices |-> 1 :> Slice(1, TRUE)] >>,
       << [period |-> 1, phase |-> 0, slices |-> 1 :> Slice(2, FALSE) @@ 2 :> Slice(2, TRUE)] >> >>

\* the strongest value is not the largest
MCValues == {-3, 0, 2}

\* fault words, and the freeze frame that fault 1 asks for
MCWords == {{}, {1}, {1, 2}}
MCFrameOf == {1} :> {"p"}
MCFrameBlock == "s" :> 1 @@ "p" :> 2

NoTelemetry ==
    /\ now = 1 /\ cell = [version |-> NoVersion, created |-> 0]
    /\ exec = [version |-> NoVersion, dues |-> <<>>, at |-> "down", block |-> 0] /\ turns = <<>>
    /\ queue = <<>> /\ notified = FALSE /\ pipe = NoState
    /\ task = [at |-> "down", timer |-> 0, result |-> <<>>]
    /\ caller = [at |-> "stopped", created |-> 0] /\ handleOps = 0

MCInit ==
    \/ PlannerInit /\ NoTelemetry /\ ChartIdle /\ FaultIdle
    \/ PlannerIdle /\ TelemetryInit /\ ChartIdle /\ FaultIdle
    \/ PlannerIdle /\ NoTelemetry /\ ChartInit /\ FaultIdle
    \/ PlannerIdle /\ NoTelemetry /\ ChartIdle /\ FaultInit

MCNext ==
    \/ PlannerNext /\ UNCHANGED <<telemetryVars, chartVars, faultVars>>
    \/ TelemetryNext /\ UNCHANGED <<planVars, chartVars, faultVars>>
    \/ RenderHistory /\ UNCHANGED <<planVars, telemetryVars, faultVars>>
    \/ FaultNext /\ UNCHANGED <<planVars, telemetryVars, chartVars>>

MCSpec == MCInit /\ [][MCNext]_<<planVars, telemetryVars, chartVars, faultVars>>
================================================================================

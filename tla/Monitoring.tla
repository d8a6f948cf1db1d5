------------------------------ MODULE Monitoring ------------------------------
(***************************************************************************)
(* MonitoringRuntime of vfd-lantern/src/monitoring_runtime.rs with the     *)
(* part of the application reducer that drives it.  The runtime keeps the  *)
(* selections (Scope, parameter browser, CSV) and the poll plan compiled   *)
(* from them behind one mutex.  Several threads change them: the           *)
(* application loop, the 120 ms debounce of the parameter browser, the     *)
(* timer that ends a refresh, the task that starts a CSV log and the task  *)
(* that reports its status.  Most of them read the selections, give the    *)
(* lock up and take it again to store what they computed.                  *)
(*                                                                         *)
(* The module follows the monitored session of a process from Start to     *)
(* its end: nothing reachable from the user interface starts a second one. *)
(* The CSV coordinator, held under its own mutex across a whole start or   *)
(* stop, is one step here; CsvLogging models what happens inside.          *)
(***************************************************************************)
EXTENDS ScopeSelection

CONSTANTS
    Dashboard,      \* parameters of the profile's telemetry preset
    Budget,         \* parameters the bus budget of a plan admits
    Views,          \* bound: the rows the parameter browser can show
    MaxOps,         \* bound: actions of the operator
    MaxInbox        \* bound: status messages waiting for the loop

ASSUME MonitoringAssumption ==
    /\ Dashboard \subseteq Params
    /\ Budget \in Nat /\ Cardinality(Dashboard) <= Budget
    /\ {} \in Views /\ Views \subseteq SUBSET Params
    /\ MaxOps \in Nat /\ MaxInbox \in Nat \ {0}

VARIABLES
    phase,          \* connectivity of the session: Connected, Lost, Faulted, Down
    scope,          \* monitoring.scope of the application
    visible,        \* parameters.visible
    csvSelected,    \* monitoring.csv_parameters
    nextLogging,    \* next_logging_id
    csvStatus,      \* monitoring.csv_status.state
    ops,            \* operator actions so far
    inbox,          \* CsvLoggingRuntimeStatus messages in the action channel
    active,         \* ActiveMonitoring and its plan, or Stopped
    verified,       \* verified_session is the session and the bus is open
    browserGen, refreshGen,
    loop,           \* what the application loop is doing
    tasks,          \* the spawned tasks
    log,            \* the CsvLoggingCoordinator
    raced,          \* history: an update was overtaken by another
    refused         \* history: a plan was rejected

appVars == <<phase, scope, visible, csvSelected, nextLogging, csvStatus, ops>>
runVars == <<active, verified, browserGen, refreshGen>>
vars == <<appVars, inbox, runVars, loop, tasks, log, raced, refused>>

StatusViews == {"Idle", "Starting", "Running", "Finalizing", "Completed", "Failed"}

Busy == {"Starting", "Running", "Finalizing"}

Reasons == {"dashboard", "scope", "browser", "csv", "refresh"}

Selection == [scope : SUBSET Params, browser : SUBSET Params, csv : SUBSET Params]

\* a selection read under the lock; stale: it was stored over since
Read(s) == [scope |-> s.scope, browser |-> s.browser, csv |-> s.csv]

Nothing == [scope |-> {}, browser |-> {}, csv |-> {}]

Stopped == [on |-> FALSE, scope |-> {}, browser |-> {}, csv |-> {}, pending |-> {}, plan |-> {}]

\* monitoring_subscriptions: every selected parameter with its reason
Subscriptions(s) ==
    ({"dashboard"} \X Dashboard) \cup ({"scope"} \X s.scope) \cup
    ({"browser"} \X s.browser) \cup ({"csv"} \X s.csv)

\* validate_monitoring_plan: a plan that leaves a subscription out is refused
Rejected(plan) == Cardinality({d[2] : d \in plan}) > Budget

Idle == [at |-> "idle", sel |-> Nothing, stale |-> FALSE, result |-> "Idle"]

\* a spawned task: what it does, its generation or the logging_id of its log,
\* the selection it has read
Task(kind, gen, sel, result) ==
    [at |-> kind, gen |-> gen, sel |-> sel, stale |-> FALSE, result |-> result]

Storing == {"store", "clear_store"}

TaskKinds == Storing \cup {"debounce", "refresh", "csv_start", "clear", "status", "status_send"}

TypeOK ==
    /\ phase \in {"Connected", "Lost", "Faulted", "Down"}
    /\ scope \in Seq(ScopeChannel) /\ Len(scope) <= MaxChannels
    /\ visible \subseteq Params /\ csvSelected \subseteq Params
    /\ nextLogging \in Nat /\ csvStatus \in StatusViews /\ ops \in 0 .. MaxOps
    /\ inbox \in Seq(StatusViews) /\ Len(inbox) <= MaxInbox + 2
    /\ active.on \in BOOLEAN /\ Read(active) \in Selection
    /\ active.pending \subseteq Params /\ active.plan \subseteq Reasons \X Params
    /\ verified \in BOOLEAN /\ browserGen \in Nat /\ refreshGen \in Nat
    /\ loop.at \in {"idle", "store", "csv_stop", "clear", "clear_store"}
    /\ \A t \in tasks : t.at \in TaskKinds /\ t.sel \in Selection
    /\ log.life \in {"Idle", "Running", "Broken", "Failed"} /\ log.csv \subseteq Params
    /\ raced \in BOOLEAN /\ refused \in BOOLEAN

Init ==
    /\ phase = "Connected"
    /\ scope = <<>> /\ visible = {} /\ csvSelected = {}
    /\ nextLogging = 1 /\ csvStatus = "Idle" /\ ops = 0 /\ inbox = <<>>
    /\ active = [Stopped EXCEPT !.on = TRUE, !.plan = Subscriptions(Nothing)]
    /\ verified = TRUE /\ browserGen = 0 /\ refreshGen = 0
    /\ loop = Idle /\ tasks = {}
    /\ log = [life |-> "Idle", csv |-> {}]
    /\ raced = FALSE /\ refused = FALSE

-----------------------------------------------------------------------------
(***************************************************************************)
(* The critical sections of the mutex.                                     *)
(***************************************************************************)

\* the selections are stored under a reader that has not stored yet
Overtake(t) == IF t.at \in Storing THEN [t EXCEPT !.stale = TRUE] ELSE t

OvertakeAll(ts) == {Overtake(t) : t \in ts}

\* reconfigure_all: compile, check, hand the plan to pipeline and executor,
\* keep the selections; an inactive runtime or a rejected plan changes nothing
ReconfigureAll(t) ==
    LET plan == Subscriptions(t.sel)
    IN  IF active.on /\ ~Rejected(plan)
        THEN /\ active' = [active EXCEPT !.scope = t.sel.scope, !.browser = t.sel.browser,
                                         !.csv = t.sel.csv, !.plan = plan]
             /\ raced' = (raced \/ t.stale)
             /\ UNCHANGED refused
        ELSE /\ refused' = (refused \/ active.on)
             /\ UNCHANGED <<active, raced>>

Report(status) == inbox' = Append(inbox, status)

Operator == loop = Idle /\ phase # "Down" /\ ops < MaxOps /\ ops' = ops + 1

-----------------------------------------------------------------------------
(***************************************************************************)
(* Scope and parameter browser: reduce_monitoring, reduce_parameters and   *)
(* the effects they emit.                                                  *)
(***************************************************************************)

\* mutant: only the Scope selection is carried over
Reconfigure_ScopeOnly ==
    loop' = IF active.on
            THEN [Idle EXCEPT !.at = "store", !.sel = [Nothing EXCEPT !.scope = Channels(scope')]]
            ELSE Idle

\* MonitoringEffect::Reconfigure: reconfigure reads the browser and CSV
\* parameters and gives the lock up
Reconfigure ==
    loop' = IF active.on
            THEN [Idle EXCEPT !.at = "store",
                              !.sel = [Read(active) EXCEPT !.scope = Channels(scope')]]
            ELSE Idle

ToggleScopeParameter(p) ==
    /\ Operator
    /\ scope' = IF Contains(scope, p) THEN Remove(scope, p) ELSE AddAuto(scope, p)
    /\ scope' # scope
    /\ Reconfigure
    /\ UNCHANGED <<phase, visible, csvSelected, nextLogging, csvStatus, inbox, runVars, tasks, log,
                   raced, refused>>

MoveScopeParameter(p, panel) ==
    /\ Operator
    /\ Contains(scope, p) /\ AxisFits(scope, p, panel)
    /\ scope' = MoveToPanel(scope, p, panel)
    /\ Reconfigure
    /\ UNCHANGED <<phase, visible, csvSelected, nextLogging, csvStatus, inbox, runVars, tasks, log,
                   raced, refused>>

\* the store of the loop's own Reconfigure
StoreReconfigure ==
    /\ loop.at = "store"
    /\ ReconfigureAll(loop)
    /\ loop' = Idle
    /\ tasks' = OvertakeAll(tasks)
    /\ UNCHANGED <<appVars, inbox, verified, browserGen, refreshGen, log>>

\* mutant: a debounce that is waiting is trusted to pick the new rows up
SetVisible_Once(V) ==
    /\ Operator
    /\ V # visible
    /\ visible' = V
    /\ browserGen' = browserGen + 1
    /\ active' = IF active.on THEN [active EXCEPT !.pending = V] ELSE active
    /\ tasks' = IF active.on /\ \A t \in tasks : t.at # "debounce"
                THEN tasks \cup {Task("debounce", browserGen', Nothing, "Idle")} ELSE tasks
    /\ UNCHANGED <<phase, scope, csvSelected, nextLogging, csvStatus, inbox, verified, refreshGen,
                   loop, log, raced, refused>>

\* SetVisible and set_parameter_browser: the generation moves on before the
\* runtime is found inactive
SetVisible(V) ==
    /\ Operator
    /\ V # visible
    /\ visible' = V
    /\ browserGen' = browserGen + 1
    /\ IF active.on
       THEN /\ active' = [active EXCEPT !.pending = V]
            /\ tasks' = tasks \cup {Task("debounce", browserGen', Nothing, "Idle")}
       ELSE UNCHANGED <<active, tasks>>
    /\ UNCHANGED <<phase, scope, csvSelected, nextLogging, csvStatus, inbox, verified, refreshGen,
                   loop, log, raced, refused>>

\* apply_pending_parameter_browser: an overtaken generation does nothing
ApplyPending(t) ==
    /\ t.at = "debounce"
    /\ tasks' = (tasks \ {t}) \cup
                IF t.gen = browserGen /\ active.on
                THEN {Task("store", 0, [Read(active) EXCEPT !.browser = active.pending], "Idle")}
                ELSE {}
    /\ UNCHANGED <<appVars, inbox, runVars, loop, log, raced, refused>>

\* refresh_parameter: one more subscription until its timer fires; the
\* generation moves on even when the plan is rejected
RefreshParameter(p) ==
    /\ Operator /\ phase = "Connected"
    /\ refreshGen' = refreshGen + 1
    /\ LET plan == Subscriptions(active) \cup {<<"refresh", p>>}
       IN  IF active.on /\ ~Rejected(plan)
           THEN /\ active' = [active EXCEPT !.plan = plan]
                /\ tasks' = tasks \cup {Task("refresh", refreshGen', Nothing, "Idle")}
                /\ UNCHANGED refused
           ELSE refused' = (refused \/ active.on) /\ UNCHANGED <<active, tasks>>
    /\ UNCHANGED <<phase, scope, visible, csvSelected, nextLogging, csvStatus, inbox, verified,
                   browserGen, loop, log, raced>>

\* restore_after_refresh
RestoreAfterRefresh(t) ==
    /\ t.at = "refresh"
    /\ tasks' = (tasks \ {t}) \cup
                IF t.gen = refreshGen /\ active.on
                THEN {Task("store", 0, Read(active), "Idle")} ELSE {}
    /\ UNCHANGED <<appVars, inbox, runVars, loop, log, raced, refused>>

\* the store of a timer
StoreTask(t) ==
    /\ t.at = "store"
    /\ ReconfigureAll(t)
    /\ tasks' = OvertakeAll(tasks \ {t})
    /\ loop' = Overtake(loop)
    /\ UNCHANGED <<appVars, inbox, verified, browserGen, refreshGen, log>>

-----------------------------------------------------------------------------
(***************************************************************************)
(* CSV logging.                                                            *)
(***************************************************************************)
ToggleCsvParameter(p) ==
    /\ Operator
    /\ csvStatus \notin Busy
    /\ csvSelected' = IF p \in csvSelected THEN csvSelected \ {p} ELSE csvSelected \cup {p}
    /\ UNCHANGED <<phase, scope, visible, nextLogging, csvStatus, inbox, runVars, loop, tasks, log,
                   raced, refused>>

\* StartCsvLogging and start_csv_logging: the parameters join the plan and a
\* task is spawned; a refusal of the runtime leaves the view at Starting.  An
\* earlier log whose end has still to clear the selection, or to be reported,
\* is a race.
StartCsvLogging ==
    /\ Operator
    /\ csvSelected # {} /\ csvStatus \notin Busy /\ phase = "Connected"
    /\ csvStatus' = "Starting" /\ nextLogging' = nextLogging + 1
    /\ LET sel == [Read(active) EXCEPT !.csv = csvSelected]
           plan == Subscriptions(sel)
       IN  IF verified /\ active.on /\ ~Rejected(plan)
           THEN /\ active' = [active EXCEPT !.csv = csvSelected, !.plan = plan]
                /\ tasks' = OvertakeAll(tasks) \cup {Task("csv_start", nextLogging, sel, "Idle")}
                /\ UNCHANGED refused
           ELSE refused' = (refused \/ active.on) /\ UNCHANGED <<active, tasks>>
    /\ raced' = (raced \/ inbox # <<>> \/ \E t \in tasks : t.at \in {"clear", "status_send"})
    /\ UNCHANGED <<phase, scope, visible, csvSelected, inbox, verified, browserGen, refreshGen, loop,
                   log>>

\* the spawned task: CsvLoggingCoordinator::start, refused unless it is idle;
\* it stays idle where the file cannot be created and has failed where the
\* writer fails while delivery is enabled
CsvStart(t) ==
    /\ t.at = "csv_start" /\ loop.at # "csv_stop"
    /\ \/ /\ log.life = "Idle"
          /\ log' = [life |-> "Running", csv |-> t.sel.csv]
          /\ Report("Running")
          /\ tasks' = (tasks \ {t}) \cup {Task("status", t.gen, Nothing, "Idle")}
       \/ /\ tasks' = (tasks \ {t}) \cup {Task("clear", t.gen, Nothing, "Failed")}
          /\ log' \in IF log.life = "Idle" THEN {log, [log EXCEPT !.life = "Failed"]} ELSE {log}
          /\ UNCHANGED inbox
    /\ UNCHANGED <<appVars, runVars, loop, raced, refused>>

\* StopCsvLogging: the loop goes for the coordinator's mutex
StopCsvLogging ==
    /\ Operator
    /\ csvStatus \in {"Starting", "Running"}
    /\ csvStatus' = "Finalizing"
    /\ loop' = IF active.on THEN [Idle EXCEPT !.at = "csv_stop"] ELSE Idle
    /\ UNCHANGED <<phase, scope, visible, csvSelected, nextLogging, inbox, runVars, tasks, log, raced,
                   refused>>

\* CsvLoggingCoordinator::stop, which may fail to finalise.  A task that has
\* not started its log yet is overtaken.
CsvStop ==
    /\ loop.at = "csv_stop"
    /\ \E ok \in (IF log.life = "Running" THEN {TRUE, FALSE} ELSE {log.life = "Idle"}) :
          /\ log' = [life |-> IF ok THEN "Idle" ELSE "Failed", csv |-> {}]
          /\ loop' = [loop EXCEPT !.at = "clear", !.result = IF ok THEN "Completed" ELSE "Failed"]
    /\ raced' = (raced \/ \E t \in tasks : t.at = "csv_start")
    /\ UNCHANGED <<appVars, inbox, runVars, tasks, refused>>

\* clear_csv_parameters of the loop, in its two critical sections
StopClears ==
    /\ loop.at = "clear"
    /\ loop' = IF active.on THEN [loop EXCEPT !.at = "clear_store",
                                              !.sel = [Read(active) EXCEPT !.csv = {}],
                                              !.stale = FALSE]
               ELSE Idle
    /\ IF active.on THEN UNCHANGED inbox ELSE Report(loop.result)
    /\ UNCHANGED <<appVars, runVars, tasks, log, raced, refused>>

StopStores ==
    /\ loop.at = "clear_store"
    /\ ReconfigureAll(loop)
    /\ Report(loop.result)
    /\ loop' = Idle
    /\ tasks' = OvertakeAll(tasks)
    /\ UNCHANGED <<appVars, verified, browserGen, refreshGen, log>>

\* the writer fails; the failure guard disables delivery
WriterFails ==
    /\ log.life = "Running"
    /\ log' = [log EXCEPT !.life = "Broken"]
    /\ UNCHANGED <<appVars, inbox, runVars, loop, tasks, raced, refused>>

\* spawn_csv_status_task: the status is read under the coordinator's mutex
\* and sent after it was given up
StatusRead(t) ==
    /\ t.at = "status" /\ loop.at # "csv_stop"
    /\ Len(inbox) < MaxInbox
    /\ tasks' = (tasks \ {t}) \cup
                CASE log.life = "Running" -> {Task("status_send", t.gen, Nothing, "Running")}
                  [] log.life = "Broken" -> {Task("status_send", t.gen, Nothing, "Failed")}
                  [] OTHER -> {}
    /\ UNCHANGED <<appVars, inbox, runVars, loop, log, raced, refused>>

StatusSend(t) ==
    /\ t.at = "status_send" /\ Len(inbox) < MaxInbox
    /\ Report(t.result)
    /\ tasks' = (tasks \ {t}) \cup
                {IF t.result = "Failed" THEN Task("clear", t.gen, Nothing, "Idle")
                 ELSE Task("status", t.gen, Nothing, "Idle")}
    /\ UNCHANGED <<appVars, runVars, loop, log, raced, refused>>

\* clear_csv_parameters of a task; the start task reports its failure after it
TaskClears(t) ==
    /\ t.at = "clear"
    /\ IF active.on
       THEN /\ tasks' = (tasks \ {t}) \cup
                        {Task("clear_store", t.gen, [Read(active) EXCEPT !.csv = {}], t.result)}
            /\ UNCHANGED inbox
       ELSE /\ tasks' = tasks \ {t}
            /\ IF t.result = "Failed" THEN Report("Failed") ELSE UNCHANGED inbox
    /\ UNCHANGED <<appVars, runVars, loop, log, raced, refused>>

TaskClearStores(t) ==
    /\ t.at = "clear_store" /\ Len(inbox) < MaxInbox
    /\ ReconfigureAll(t)
    /\ IF t.result = "Failed" THEN Report("Failed") ELSE UNCHANGED inbox
    /\ tasks' = OvertakeAll(tasks \ {t})
    /\ loop' = Overtake(loop)
    /\ UNCHANGED <<appVars, verified, browserGen, refreshGen, log>>

\* CsvLoggingRuntimeStatus reaches the reducer
Deliver ==
    /\ loop = Idle /\ inbox # <<>> /\ phase # "Down"
    /\ csvStatus' = Head(inbox)
    /\ inbox' = Tail(inbox)
    /\ UNCHANGED <<phase, scope, visible, csvSelected, nextLogging, ops, runVars, loop, tasks, log,
                   raced, refused>>

-----------------------------------------------------------------------------
(***************************************************************************)
(* The session around it.                                                  *)
(***************************************************************************)

\* bus_closed: the gate closes, the selections stay
TransportLost ==
    /\ loop = Idle /\ phase = "Connected"
    /\ phase' = "Lost" /\ verified' = FALSE
    /\ UNCHANGED <<scope, visible, csvSelected, nextLogging, csvStatus, ops, inbox, active, browserGen,
                   refreshGen, loop, tasks, log, raced, refused>>

Resume ==
    /\ loop = Idle /\ phase = "Lost"
    /\ phase' = "Connected" /\ verified' = active.on
    /\ UNCHANGED <<scope, visible, csvSelected, nextLogging, csvStatus, ops, inbox, active, browserGen,
                   refreshGen, loop, tasks, log, raced, refused>>

\* mutant: a log that is still starting is not stopped
Teardown_RunningOnly(to) ==
    /\ loop = Idle
    /\ phase \in (IF to = "Faulted" THEN {"Lost"} ELSE {"Connected", "Lost", "Faulted"})
    /\ phase' = to
    /\ csvStatus' = IF to = "Down" THEN "Idle" ELSE csvStatus
    /\ loop' = IF csvStatus = "Running" /\ active.on THEN [Idle EXCEPT !.at = "csv_stop"] ELSE Idle
    /\ UNCHANGED <<scope, visible, csvSelected, nextLogging, ops, inbox, runVars, tasks, log, raced, refused>>

\* an identity change or a shutdown: StopCsvLogging first where the view says
\* that a log is starting or running, then StopPlanner
Teardown(to) ==
    /\ loop = Idle
    /\ phase \in (IF to = "Faulted" THEN {"Lost"} ELSE {"Connected", "Lost", "Faulted"})
    /\ phase' = to
    /\ csvStatus' = IF to = "Down" THEN "Idle" ELSE csvStatus
    /\ loop' = IF csvStatus \in {"Starting", "Running"} /\ active.on
               THEN [Idle EXCEPT !.at = "csv_stop"] ELSE Idle
    /\ UNCHANGED <<scope, visible, csvSelected, nextLogging, ops, inbox, runVars, tasks, log, raced, refused>>

\* StopPlanner: stop takes the runtime down and retires both generations
StopPlanner ==
    /\ loop = Idle /\ phase \in {"Faulted", "Down"} /\ active.on
    /\ active' = Stopped /\ verified' = FALSE
    /\ browserGen' = browserGen + 1 /\ refreshGen' = refreshGen + 1
    /\ tasks' = OvertakeAll(tasks)
    /\ UNCHANGED <<appVars, inbox, loop, log, raced, refused>>

-----------------------------------------------------------------------------
LoopStep == StoreReconfigure \/ CsvStop \/ StopClears \/ StopStores \/ StopPlanner

TaskStep(t) ==
    \/ ApplyPending(t) \/ RestoreAfterRefresh(t) \/ StoreTask(t) \/ CsvStart(t)
    \/ StatusRead(t) \/ StatusSend(t) \/ TaskClears(t) \/ TaskClearStores(t)

OperatorStep ==
    \/ \E p \in Params : ToggleScopeParameter(p) \/ RefreshParameter(p) \/ ToggleCsvParameter(p)
    \/ \E p \in Params, n \in 1 .. MaxPanels : MoveScopeParameter(p, n)
    \/ \E V \in Views : SetVisible(V)
    \/ StartCsvLogging \/ StopCsvLogging

Environment == TransportLost \/ Resume \/ Teardown("Faulted") \/ Teardown("Down")

\* after an identity change or a shutdown the loop turns to StopPlanner first
Stopping == phase \in {"Faulted", "Down"} /\ active.on

Next ==
    \/ LoopStep
    \/ \E t \in tasks : TaskStep(t)
    \/ WriterFails
    \/ ~Stopping /\ (OperatorStep \/ Deliver \/ Environment)

(***************************************************************************)
(* The loop and the runtime's timers and start tasks are never left alone; *)
(* the operator, the status ticks and the environment owe nothing.         *)
(***************************************************************************)
Spec ==
    /\ Init /\ [][Next]_vars
    /\ WF_vars(LoopStep) /\ WF_vars(~Stopping /\ Deliver)
    /\ WF_vars(\E t \in tasks : ApplyPending(t) \/ RestoreAfterRefresh(t) \/ StoreTask(t))
    /\ WF_vars(\E t \in tasks : CsvStart(t) \/ TaskClears(t) \/ TaskClearStores(t))

-----------------------------------------------------------------------------
(***************************************************************************)
(* Properties.                                                             *)
(***************************************************************************)

Quiet == loop = Idle /\ \A t \in tasks : t.at \in {"status", "status_send"}

PanelsShareAxis ==
    /\ \A n \in 1 .. MaxPanels : Cardinality(AxisGroups(scope, n)) <= 1
    /\ Cardinality(Channels(scope)) = Len(scope)

PlanCoversSelections ==
    /\ Subscriptions(active) \subseteq active.plan
    /\ \A d \in active.plan \ Subscriptions(active) : d[1] = "refresh"

SelectionsAreCurrent ==
    /\ active.scope = Channels(scope)
    /\ active.browser = visible
    /\ active.plan = Subscriptions(active)
    /\ log.life = "Running" => active.csv = log.csv

\* However the updates interleave, the plan handed to the pipeline and the
\* executor polls every selection the runtime remembers, and nothing else but a
\* parameter being refreshed; and once every update has been stored the
\* selections are the ones last asked for on the Scope, in the browser and by a
\* log that runs - unless one update was computed from selections that another
\* replaced meanwhile, or a plan was rejected (reconfigure, monitoring_runtime.rs).
\* The Scope that selects shows one axis on a panel and a channel on one panel.
PlanIsRequested ==
    /\ PanelsShareAxis
    /\ active.on => PlanCoversSelections /\ (Quiet /\ ~raced /\ ~refused => SelectionsAreCurrent)

\* A teardown finalises the log before the planner stops: no log is left
\* running behind a session that has ended, except one whose start task the
\* stop overtook.
TeardownFinalizesLog ==
    ~active.on /\ ~raced => log.life # "Running"

\* The parameters the operator last scrolled to are polled in the end: a
\* debounce is overtaken only by a later one (set_parameter_browser).
BrowserTakesEffect ==
    \A V \in Views :
        visible = V ~> active.browser = V \/ visible # V \/ raced \/ refused \/ ~active.on
=============================================================================

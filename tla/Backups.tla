-------------------------------- MODULE Backups --------------------------------
(***************************************************************************)
(* Backups and the planning of a restore: BackupCoordinator                *)
(* (lantern-app/src/backup.rs), the backup files                           *)
(* (lantern-storage/src/backup.rs), build_restore_plan (restore.rs) and    *)
(* the screen's state (backup_restore_flow.rs), driven by tasks that       *)
(* execute_backup_restore spawns and that finish in any order.  How the    *)
(* restore is then executed, step by step, is RestoreRuntime's subject;    *)
(* here a confirmed plan is taken from the screen and leaves.              *)
(*                                                                         *)
(* A raw value is all of a value.  The profile is the active one: a file   *)
(* of another profile and a file of another drive are both "foreign".      *)
(***************************************************************************)
EXTENDS Naturals, Sequences, SequencesExt, FiniteSets, Functions, InOrder

CONSTANTS
    BackupParams,       \* sequence of the parameters included in a backup
    RestoreOrder,       \* restore_order of the profile
    Restorable,         \* parameters whose restore_eligibility is Eligible
    RawValues,
    BackupFiles,        \* backup files there are at the start
    MaxPanel, MaxBackupKeys, MaxDrops   \* bounds: changes at the drive's panel, keys, losses

Included == Range(BackupParams)

NoValues == [p \in {} |-> 0]

\* a file: damaged, or a BackupSnapshot
Backup(is, complete, values) == [is |-> is, complete |-> complete, values |-> values]

\* the restore order names no parameter twice; a complete backup that is on disk
\* at the start was written by a capture
ASSUME BackupAssumption ==
    /\ BackupParams \in Seq(Included) /\ Restorable \subseteq Included
    /\ RestoreOrder \in Seq(Range(RestoreOrder)) /\ IsInjective(RestoreOrder)
    /\ BackupFiles \in Seq(Range(BackupFiles))
    /\ \A file \in Range(BackupFiles) :
          /\ file.is \in {"mine", "foreign", "damaged"} /\ file.complete \in BOOLEAN
          /\ file = Backup(file.is, file.complete, file.values)
          /\ file.is = "mine" /\ file.complete => DOMAIN file.values = Included

VARIABLES
    panel,          \* parameter -> raw value of the drive
    linked,         \* the session is connected
    disk,           \* sequence of the backup files
    screen,         \* BackupRestoreState
    jobs,           \* tasks that have not reported
    coordinator,    \* the BackupCoordinator's mutex: {} or {job}
    backupKeys, panelChanges, drops

backupVars == <<panel, linked, disk, screen, jobs, coordinator, backupKeys, panelChanges, drops>>

NoBackup == Backup("none", FALSE, NoValues)
NoRestorePlan == [steps |-> <<>>, skipped |-> {}, source |-> NoBackup, current |-> NoBackup]

Job(kind, path, source) ==
    [kind |-> kind, path |-> path, source |-> source, at |-> "start", read |-> 0,
     values |-> NoValues, failed |-> FALSE, plan |-> NoRestorePlan]

\* Default of BackupRestoreState
EmptyScreen == [path |-> 0, source |-> NoBackup, current |-> NoBackup, prepared |-> NoRestorePlan]

BackupsInit ==
    /\ panel \in [Included -> RawValues] /\ linked = TRUE
    /\ disk = BackupFiles /\ screen = EmptyScreen
    /\ jobs = {} /\ coordinator = {}
    /\ backupKeys = 0 /\ panelChanges = 0 /\ drops = 0

BackupsIdle ==
    /\ panel = NoValues /\ linked = TRUE
    /\ disk = <<>> /\ screen = EmptyScreen
    /\ jobs = {} /\ coordinator = {}
    /\ backupKeys = MaxBackupKeys /\ panelChanges = MaxPanel /\ drops = MaxDrops

-----------------------------------------------------------------------------
(***************************************************************************)
(* The drive and the link.                                                 *)
(***************************************************************************)

PanelChanges(p, v) ==
    /\ panelChanges < MaxPanel /\ panel[p] # v
    /\ panel' = [panel EXCEPT ![p] = v]
    /\ panelChanges' = panelChanges + 1
    /\ UNCHANGED <<linked, disk, screen, jobs, coordinator, backupKeys, drops>>

\* clear_session: the loaded source stays
ClearSession(s) == [s EXCEPT !.current = NoBackup, !.prepared = NoRestorePlan]

\* PortRemoved clears the screen, a transport lost on the manual path does not
LinkLost(removed) ==
    /\ linked /\ drops < MaxDrops
    /\ linked' = FALSE
    /\ screen' = IF removed THEN ClearSession(screen) ELSE screen
    /\ drops' = drops + 1
    /\ UNCHANGED <<panel, disk, jobs, coordinator, backupKeys, panelChanges>>

\* the same drive is identified again
Reconnected ==
    /\ ~linked /\ drops \in 1 .. MaxDrops
    /\ linked' = TRUE
    /\ UNCHANGED <<panel, disk, screen, jobs, coordinator, backupKeys, panelChanges, drops>>

-----------------------------------------------------------------------------
(***************************************************************************)
(* Keys: reduce_backup_restore.                                            *)
(***************************************************************************)

Spawns(job) == jobs' = jobs \cup {job}

\* a press counts against the bound; identical tasks would be one element
BackupKey == backupKeys < MaxBackupKeys /\ backupKeys' = backupKeys + 1

CaptureKey ==
    /\ BackupKey /\ linked
    /\ Job("Capture", 0, NoBackup) \notin jobs /\ Spawns(Job("Capture", 0, NoBackup))
    /\ UNCHANGED <<panel, linked, disk, screen, coordinator, panelChanges, drops>>

LoadSource(path) ==
    /\ BackupKey
    /\ Job("Load", path, NoBackup) \notin jobs /\ Spawns(Job("Load", path, NoBackup))
    /\ screen' = [screen EXCEPT !.path = path, !.prepared = NoRestorePlan]
    /\ UNCHANGED <<panel, linked, disk, coordinator, panelChanges, drops>>

PrepareKey ==
    /\ BackupKey /\ linked
    /\ screen.source.is # "none" /\ screen.source.complete
    /\ Job("Prepare", 0, screen.source) \notin jobs /\ Spawns(Job("Prepare", 0, screen.source))
    /\ screen' = [screen EXCEPT !.prepared = NoRestorePlan]
    /\ UNCHANGED <<panel, linked, disk, coordinator, panelChanges, drops>>

\* ConfirmRestore with the text of the plan, which is taken; ClearPrepared
ConfirmOrClear ==
    /\ BackupKey /\ linked /\ screen.prepared # NoRestorePlan
    /\ screen' = [screen EXCEPT !.prepared = NoRestorePlan]
    /\ UNCHANGED <<panel, linked, disk, jobs, coordinator, panelChanges, drops>>

-----------------------------------------------------------------------------
(***************************************************************************)
(* Tasks.                                                                  *)
(***************************************************************************)

Becomes(job, new) == jobs' = (jobs \ {job}) \cup {new}

\* decode_backup: only a file whose hash and fields fit is a backup
DecodeBackup(file) == IF file.is = "damaged" THEN NoBackup ELSE file

\* source_loaded: whatever path the screen shows by now, this is its source
LoadFinished(job) ==
    /\ job.kind = "Load"
    /\ jobs' = jobs \ {job}
    /\ screen' = [screen EXCEPT !.source = DecodeBackup(disk[job.path])]
    /\ UNCHANGED <<panel, linked, disk, coordinator, backupKeys, panelChanges, drops>>

\* capture takes the coordinator and looks at the session first
CaptureStart(job) ==
    /\ job.kind \in {"Capture", "Prepare"} /\ job.at = "start" /\ coordinator = {}
    /\ IF linked
       THEN LET reading == [job EXCEPT !.at = "read"]
            IN  Becomes(job, reading) /\ coordinator' = {reading}
       ELSE jobs' = jobs \ {job} /\ UNCHANGED coordinator
    /\ UNCHANGED <<panel, linked, disk, screen, backupKeys, panelChanges, drops>>

\* the values read so far and one more
WithValue(values, p) == [q \in DOMAIN values \cup {p} |-> IF q = p THEN panel[p] ELSE values[q]]

\* mutant: a read that failed is passed over
AfterRead_Forgets(job, p, good) ==
    IF ~good THEN [job EXCEPT !.read = @ + 1]
    ELSE IF ~linked THEN [job EXCEPT !.read = Len(BackupParams), !.failed = TRUE]
    ELSE [job EXCEPT !.read = @ + 1, !.values = WithValue(@, p)]

\* one parameter: a failed read is recorded, a lost session ends the capture
AfterRead(job, p, good) ==
    IF ~good THEN [job EXCEPT !.read = @ + 1, !.failed = TRUE]
    ELSE IF ~linked THEN [job EXCEPT !.read = Len(BackupParams), !.failed = TRUE]
    ELSE [job EXCEPT !.read = @ + 1, !.values = WithValue(@, p)]

CaptureRead(job, good) ==
    /\ job.at = "read" /\ job.read < Len(BackupParams) /\ (linked \/ ~good)
    /\ LET next == AfterRead(job, BackupParams[job.read + 1], good)
       IN  Becomes(job, next) /\ coordinator' = {next}
    /\ UNCHANGED <<panel, linked, disk, screen, backupKeys, panelChanges, drops>>

\* the answer of the last read was on its way when the link went down
CaptureLateAnswer(job) ==
    /\ job.at = "read" /\ job.read < Len(BackupParams) /\ ~linked
    /\ LET next == AfterRead(job, BackupParams[job.read + 1], TRUE)
       IN  Becomes(job, next) /\ coordinator' = {next}
    /\ UNCHANGED <<panel, linked, disk, screen, backupKeys, panelChanges, drops>>

\* the last look at the session, and persist_backup_unique
Captured(job) == Backup("mine", ~job.failed /\ linked, job.values)

\* write_backup: a new file, or none
WriteBackup(backup, stored) == disk' = IF stored THEN Append(disk, backup) ELSE disk

CaptureFinished(job, stored) ==
    /\ job.at = "read" /\ job.read = Len(BackupParams)
    /\ coordinator' = {}
    /\ WriteBackup(Captured(job), stored)
    /\ IF ~stored
       THEN jobs' = jobs \ {job} /\ UNCHANGED screen
       ELSE IF job.kind = "Capture"
       THEN /\ jobs' = jobs \ {job}
            /\ screen' = [screen EXCEPT !.current = Captured(job), !.prepared = NoRestorePlan]
       ELSE /\ Becomes(job, [job EXCEPT !.at = "plan", !.plan.current = Captured(job)])
            /\ UNCHANGED screen
    /\ UNCHANGED <<panel, linked, backupKeys, panelChanges, drops>>

-----------------------------------------------------------------------------
(***************************************************************************)
(* build_restore_plan.                                                     *)
(***************************************************************************)

\* semantic_backup_diff of a parameter that is in one of the two backups
DiffStatus(source, current, p) ==
    IF p \notin DOMAIN current.values THEN "OnlyLeft"
    ELSE IF p \notin DOMAIN source.values THEN "OnlyRight"
    ELSE IF p \notin Restorable THEN "NotRestorable"
    ELSE IF source.values[p] = current.values[p] THEN "Unchanged"
    ELSE "Changed"

\* validate_backup_values: a parameter the profile does not have refuses all
ValuesAreValid(backup) == DOMAIN backup.values \subseteq Included

\* the places in the profile's order of the parameters that changed
ChangedPlaces(source, current) ==
    {i \in DOMAIN RestoreOrder : /\ RestoreOrder[i] \in DOMAIN source.values \cup DOMAIN current.values
                                 /\ DiffStatus(source, current, RestoreOrder[i]) = "Changed"}

StepOrder(source, current) ==
    LET way == Ascending(ChangedPlaces(source, current))
    IN  [k \in DOMAIN way |-> RestoreOrder[way[k]]]

BuildRestorePlan(source, current) ==
    LET order == StepOrder(source, current)
    IN  [steps |-> [i \in DOMAIN order |-> [param |-> order[i], old |-> current.values[order[i]],
                                            target |-> source.values[order[i]]]],
         skipped |-> (DOMAIN source.values \cup DOMAIN current.values \cup Range(RestoreOrder)) \ Range(order),
         source |-> source, current |-> current]

\* a refusal: the captures, the session, the profile and drive, the values, and
\* a plan that has nothing to do
PlanRefused(source, current) ==
    \/ ~source.complete \/ ~current.complete \/ ~linked
    \/ source.is = "foreign"
    \/ ~ValuesAreValid(source) \/ ~ValuesAreValid(current)
    \/ StepOrder(source, current) = <<>>

\* the fresh read of every old value
OldValuesHold(plan) == \A i \in DOMAIN plan.steps : panel[plan.steps[i].param] = plan.steps[i].old

\* allowed: the session is armed and idle, the profile trusted, the drive
\* stopped and every read answered
PrepareRestorePlan(job, allowed) ==
    /\ job.kind = "Prepare" /\ job.at = "plan"
    /\ LET plan == BuildRestorePlan(job.source, job.plan.current)
       IN  IF ~allowed \/ PlanRefused(job.source, job.plan.current) \/ ~OldValuesHold(plan)
           THEN jobs' = jobs \ {job}
           ELSE Becomes(job, [job EXCEPT !.at = "reply", !.plan = plan])
    /\ UNCHANGED <<panel, linked, disk, screen, coordinator, backupKeys, panelChanges, drops>>

\* restore_prepared: whatever was loaded or cleared in the meantime
RestorePrepared(job) ==
    /\ job.at = "reply"
    /\ jobs' = jobs \ {job}
    /\ screen' = [screen EXCEPT !.current = job.plan.current, !.prepared = job.plan]
    /\ UNCHANGED <<panel, linked, disk, coordinator, backupKeys, panelChanges, drops>>

BackupsNext ==
    \/ \E p \in Included, v \in RawValues : PanelChanges(p, v)
    \/ \E removed \in BOOLEAN : LinkLost(removed)
    \/ Reconnected
    \/ CaptureKey \/ PrepareKey \/ ConfirmOrClear
    \/ \E path \in DOMAIN disk : LoadSource(path)
    \/ \E job \in jobs :
          \/ LoadFinished(job) \/ CaptureStart(job) \/ CaptureLateAnswer(job)
          \/ RestorePrepared(job)
          \/ \E good \in BOOLEAN : CaptureRead(job, good) \/ CaptureFinished(job, good) \/ PrepareRestorePlan(job, good)

BackupsSpec == BackupsInit /\ [][BackupsNext]_backupVars

-----------------------------------------------------------------------------
(***************************************************************************)
(* Properties.                                                             *)
(***************************************************************************)

CompleteBackupIsWhole ==
    \A i \in DOMAIN disk : disk[i].is = "mine" /\ disk[i].complete => DOMAIN disk[i].values = Included

\* A backup that calls itself complete has every parameter of the profile, with
\* reads that failed, links that were lost and came back during the capture, and
\* answers that arrived after the loss (BackupCoordinator::capture, backup.rs:104).
\* The plan on offer, whatever was loaded, captured or lost while it was being
\* prepared, is made of two complete backups of this drive, and carrying it out
\* on the drive as it was captured gives the source's value to every restorable
\* parameter both have, changes nothing else, and touches each parameter once,
\* in the profile's order; and every parameter is either a step or reported as
\* skipped (build_restore_plan, restore.rs:166).
PlanRestoresSource ==
    LET plan == screen.prepared
        touched == {plan.steps[i].param : i \in DOMAIN plan.steps}
        After(p) == IF p \in touched
                    THEN (CHOOSE s \in Range(plan.steps) : s.param = p).target
                    ELSE plan.current.values[p]
        Position(p) == CHOOSE i \in DOMAIN RestoreOrder : RestoreOrder[i] = p
    IN  CompleteBackupIsWhole /\ (plan # NoRestorePlan =>
          /\ plan.source.complete /\ plan.current.complete /\ plan.source.is = "mine"
          /\ Cardinality(touched) = Len(plan.steps)
          /\ touched \cap plan.skipped = {} /\ DOMAIN plan.source.values \subseteq touched \cup plan.skipped
          /\ \A p \in DOMAIN plan.current.values :
                After(p) = IF p \in Restorable \cap Range(RestoreOrder) \cap DOMAIN plan.source.values
                           THEN plan.source.values[p] ELSE plan.current.values[p]
          /\ \A i, j \in DOMAIN plan.steps :
                i < j => Position(plan.steps[i].param) < Position(plan.steps[j].param))
================================================================================

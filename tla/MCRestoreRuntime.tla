--------------------------- MODULE MCRestoreRuntime ---------------------------
(***************************************************************************)
(* The restore for TLC.  A behaviour is one of RestoreRuntime, with one    *)
(* session that may reconnect, one device and one plan of two steps, or,   *)
(* while the plan is still being prepared, one of Backups: three files,    *)
(* and a drive that differs from the file "mine" in one parameter or two.  *)
(***************************************************************************)
EXTENDS RestoreRuntime, Backups, TLC

MCBackupParams == <<"x", "y", "z">>
MCRestoreOrder == <<"y", "x">>
MCBackupFiles ==
    <<Backup("mine", TRUE, "x" :> 1 @@ "y" :> 1 @@ "z" :> 1),
      Backup("foreign", TRUE, "x" :> 1),
      Backup("damaged", FALSE, NoValues)>>

MCInit ==
    \/ RestoreInit /\ BackupsIdle
    \/ RestoreInit /\ BackupsInit /\ panel["x"] = 0 /\ panel["z"] = 1

MCNext ==
    \/ panel = NoValues /\ RestoreNext /\ UNCHANGED backupVars
    \/ panel # NoValues /\ BackupsNext /\ UNCHANGED restoreVars

MCSpec == MCInit /\ [][MCNext]_<<restoreVars, backupVars>>
=============================================================================

---- MODULE MCMonitoring ----
(***************************************************************************)
(* Monitoring for TLC: one parameter of the dashboard and two others, of   *)
(* which one shares the dashboard parameter's axis.                        *)
(***************************************************************************)
EXTENDS Monitoring, TLC

CONSTANTS p1, p2, p3

MCParams == {p1, p2, p3}

MCAxis == p1 :> "speed" @@ p2 :> "speed" @@ p3 :> "current"

MCDashboard == {p1}

MCViews == {{}, {p2}}
====

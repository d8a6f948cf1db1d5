----------------------------- MODULE MCConnection -----------------------------
(***************************************************************************)
(* Connection for TLC: two devices, so that a retry can meet another one,  *)
(* on a typed path or on a detected adapter.  The devices are told apart   *)
(* only by equality.  A behaviour is one of Connection or, when ports are  *)
(* chosen and opened, one of SerialPorts: two adapters, of which the       *)
(* second may have no by-id link, and two device nodes.                    *)
(***************************************************************************)
EXTENDS Connection, SerialPorts, TLC

DeviceSymmetry == Permutations(Devices)

PortNamings == {"A" :> 1 @@ "B" :> 2, "A" :> 1 @@ "B" :> 0}
PortSerials == "A" :> 7 @@ "B" :> 8

MCInit == (Init /\ PortsIdle) \/ (Init /\ manual /\ ~ known /\ PortsInit)

MCNext ==
    \/ chosen = "off" /\ Next /\ UNCHANGED portVars
    \/ chosen # "off" /\ PortsNext /\ UNCHANGED vars

MCSpec == MCInit /\ [][MCNext]_<<vars, portVars>>
=============================================================================

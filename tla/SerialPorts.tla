------------------------------ MODULE SerialPorts ------------------------------
(***************************************************************************)
(* Serial adapters: discovery and hot-plug (lantern-transport/src/         *)
(* discovery.rs), the list of ports and the selected one                   *)
(* (ConnectionWizardState, lantern-app/src/connection.rs), and the opening *)
(* of a port (serial_open.rs), which looks at the file system several      *)
(* times while adapters come and go.                                       *)
(*                                                                         *)
(* The kernel gives a free device node to every adapter that is plugged    *)
(* in, with a new inode, and udev keeps one by-id link for an adapter that *)
(* has a name of its own.  An adapter's vendor, product and serial number  *)
(* are one number; 0 is None.                                              *)
(***************************************************************************)
EXTENDS Naturals, Sequences, SequencesExt, FiniteSets, Functions

CONSTANTS
    Adapters,
    Nodes,              \* device nodes, numbers in the order of their names
    Namings,            \* adapter -> its by-id link, 0 for none
    SerialOf,           \* adapter -> its USB identity, 0 for none
    EventsPerWake,      \* MAX_EVENTS_PER_WAKE
    EventCapacity,      \* of the channel of port events
    MaxPlugs, MaxRefreshes, MaxOpens    \* bounds

\* a by-id link leads to one adapter; no adapter has the name of another choice
ASSUME SerialAssumption ==
    /\ EventsPerWake \in Nat \ {0} /\ EventCapacity \in Nat \ {0}
    /\ Nodes \subseteq Nat /\ IsFiniteSet(Nodes)
    /\ SerialOf \in [Adapters -> Nat]
    /\ \A links \in Namings :
          /\ links \in [Adapters -> Nat]
          /\ \A a, b \in Adapters : links[a] # 0 /\ links[a] = links[b] => a = b
    /\ {"none", "manual", "off"} \cap Adapters = {}

VARIABLES
    naming,         \* the by-id links that the adapters have
    devices,        \* node -> the adapter, {} or {a}
    inodes,         \* node -> inode of the device file
    socket,         \* events of the udev monitor that were not read
    batch,          \* events run_hotplug_monitor has read and not sent
    channel,        \* PortEventReceiver
    watching,       \* run_hotplug_monitor runs
    scan,           \* enumerate: {} or the link map it has read
    replies,        \* PortsRefreshed on its way
    ports,          \* ConnectionWizardState.ports
    selected,       \* selected_port, {} or {descriptor}
    chosen,         \* history: the adapter the operator selected, or "none"
    opening,        \* the open task
    plugs, refreshes, tries     \* counters of the bounds

portVars == <<naming, devices, inodes, socket, batch, channel, watching, scan, replies, ports, selected,
              chosen, opening, plugs, refreshes, tries>>

\* SerialPortDescriptor, as far as it is compared; "of" is its adapter
Descriptor(stable, node, serial, present, of) ==
    [stable |-> stable, node |-> node, serial |-> serial, present |-> present, detected |-> TRUE, of |-> of]
Manual(node) == [Descriptor(0, node, 0, TRUE, "none") EXCEPT !.detected = FALSE]

\* canonicalize of a by-id link
Target(stable) == {n \in Nodes : \E a \in devices[n] : naming[a] = stable}

\* stable_link_map: the link of every node that has one
LinkMap == [n \in {m \in Nodes : \E a \in devices[m] : naming[a] # 0} |-> naming[CHOOSE a \in devices[n] : TRUE]]

\* descriptor_from_record: the device's own link, or the one of its node by now
Described(a, node, present, links) ==
    Descriptor(IF naming[a] # 0 THEN naming[a] ELSE IF node \in DOMAIN links THEN links[node] ELSE 0,
               node, SerialOf[a], present, a)

\* DeviceRecord of a udev event, and its kind
Record(a, node, present) == [of |-> a, node |-> node, present |-> present]

NoTask == [at |-> "none", path |-> Manual(0), node |-> 0, inode |-> 0, stream |-> "none", streamNode |-> 0, streamInode |-> 0]

PortsWith(choice) ==
    /\ devices = [n \in Nodes |-> {}] /\ inodes = [n \in Nodes |-> 0]
    /\ socket = <<>> /\ batch = <<>> /\ channel = <<>> /\ watching = TRUE
    /\ scan = {} /\ replies = <<>> /\ ports = <<>> /\ selected = {}
    /\ chosen = choice /\ opening = NoTask
    /\ plugs = 0 /\ refreshes = 0 /\ tries = 0

PortsInit == PortsWith("none") /\ naming \in Namings

\* no ports are modelled in this behaviour
PortsIdle == PortsWith("off") /\ naming = [a \in Adapters |-> 0]

----------------------------------------------------------------------------
(* The kernel and udev                                                     *)

Plug(a, n) ==
    /\ plugs < MaxPlugs /\ devices[n] = {} /\ \A m \in Nodes : a \notin devices[m]
    /\ plugs' = plugs + 1
    /\ devices' = [devices EXCEPT ![n] = {a}]
    /\ inodes' = [inodes EXCEPT ![n] = plugs + 1]
    /\ socket' = Append(socket, Record(a, n, TRUE))
    /\ UNCHANGED <<naming, batch, channel, watching, scan, replies, ports, selected, chosen, opening, refreshes, tries>>

Unplug(n) ==
    /\ \E a \in devices[n] : socket' = Append(socket, Record(a, n, FALSE))
    /\ devices' = [devices EXCEPT ![n] = {}]
    /\ UNCHANGED <<naming, inodes, batch, channel, watching, scan, replies, ports, selected, chosen, opening, plugs, refreshes, tries>>

----------------------------------------------------------------------------
(* Discovery                                                               *)

\* run_hotplug_monitor wakes: the links are read once for the whole batch
MonitorReads ==
    /\ watching /\ batch = <<>> /\ socket # <<>>
    /\ LET n == IF Len(socket) < EventsPerWake THEN Len(socket) ELSE EventsPerWake
       IN  /\ batch' = [i \in 1 .. n |-> Described(socket[i].of, socket[i].node, socket[i].present, LinkMap)]
           /\ socket' = SubSeq(socket, n + 1, Len(socket))
    /\ UNCHANGED <<naming, devices, inodes, channel, watching, scan, replies, ports, selected, chosen, opening, plugs, refreshes, tries>>

MonitorSends ==
    /\ watching /\ batch # <<>> /\ Len(channel) < EventCapacity
    /\ channel' = Append(channel, Head(batch)) /\ batch' = Tail(batch)
    /\ UNCHANGED <<naming, devices, inodes, socket, watching, scan, replies, ports, selected, chosen, opening, plugs, refreshes, tries>>

\* the monitor's socket fails, and nothing subscribes again
MonitorEnds ==
    /\ watching /\ watching' = FALSE /\ batch' = <<>>
    /\ UNCHANGED <<naming, devices, inodes, socket, channel, scan, replies, ports, selected, chosen, opening, plugs, refreshes, tries>>

\* RefreshPorts: enumerate reads the links first ...
RefreshReadsLinks ==
    /\ refreshes < MaxRefreshes /\ scan = {}
    /\ refreshes' = refreshes + 1
    /\ scan' = {LinkMap}
    /\ UNCHANGED <<naming, devices, inodes, socket, batch, channel, watching, replies, ports, selected, chosen, opening, plugs, tries>>

InPortOrder(c, d) == c.stable < d.stable \/ (c.stable = d.stable /\ c.node < d.node)

\* the result of a sort by that order
Sorted(list) == \A i, j \in DOMAIN list : i < j => ~InPortOrder(list[j], list[i])

\* ... and then the devices; the snapshot travels as an action
RefreshScans(links) ==
    /\ links \in scan /\ scan' = {}
    /\ LET found == {Described(CHOOSE a \in devices[n] : TRUE, n, TRUE, links) : n \in {m \in Nodes : devices[m] # {}}}
       IN  \E list \in Bijection(1 .. Cardinality(found), found) :
               Sorted(list) /\ replies' = Append(replies, list)
    /\ UNCHANGED <<naming, devices, inodes, socket, batch, channel, watching, ports, selected, chosen, opening, plugs, refreshes, tries>>

\* udev refuses the enumeration: the ports stay as they are
RefreshFails ==
    /\ scan # {} /\ scan' = {}
    /\ UNCHANGED <<naming, devices, inodes, socket, batch, channel, watching, replies, ports, selected, chosen, opening, plugs, refreshes, tries>>

----------------------------------------------------------------------------
(* The reducer: while a refresh is being executed it does not run          *)

\* mutant: a port is the same when it has the same device node
SamePort_ByNode(c, d) == c.node = d.node

SamePort(c, d) == IF c.stable # 0 /\ d.stable # 0 THEN c.stable = d.stable ELSE c.node = d.node

\* iter().find() of same_port: a place in the list, or 0
PlaceOf(d, list) == SelectInSeq(list, LAMBDA p : SamePort(p, d))

\* apply_port_event
ReceiveEvent ==
    /\ scan = {} /\ channel # <<>>
    /\ channel' = Tail(channel)
    /\ LET d == Head(channel)
           i == PlaceOf(d, ports)
           more == Append(ports, d)
       IN  /\ \/ i # 0 /\ ports' = [ports EXCEPT ![i] = d]
              \/ i = 0 /\ \E order \in Bijection(DOMAIN more, DOMAIN more) :
                    LET list == [k \in DOMAIN more |-> more[order[k]]]
                    IN  Sorted(list) /\ ports' = list
           /\ selected' = IF \E s \in selected : SamePort(s, d) THEN {d} ELSE selected
    /\ UNCHANGED <<naming, devices, inodes, socket, batch, watching, scan, replies, chosen, opening, plugs, refreshes, tries>>

\* refresh_result and refresh_selected_from_snapshot
ReceiveSnapshot ==
    /\ scan = {} /\ replies # <<>>
    /\ replies' = Tail(replies)
    /\ ports' = Head(replies)
    /\ selected' = {LET i == PlaceOf(s, Head(replies))
                    IN  IF s.detected /\ i # 0 THEN Head(replies)[i] ELSE s : s \in selected}
    /\ UNCHANGED <<naming, devices, inodes, socket, batch, channel, watching, scan, chosen, opening, plugs, refreshes, tries>>

\* selection_matches of the selection that names port d
SelectionMatches(d, p) == IF d.stable # 0 THEN p.stable = d.stable ELSE p.node = d.node

\* select_detected: the first port of the list that the selection names
SelectDetected(i) ==
    /\ scan = {} /\ chosen = "none" /\ i \in DOMAIN ports
    /\ LET j == SelectInSeq(ports, LAMBDA p : SelectionMatches(ports[i], p))
       IN  selected' = {ports[j]} /\ chosen' = ports[j].of
    /\ UNCHANGED <<naming, devices, inodes, socket, batch, channel, watching, scan, replies, ports, opening, plugs, refreshes, tries>>

SelectManual(n) ==
    /\ scan = {} /\ chosen = "none"
    /\ selected' = {Manual(n)} /\ chosen' = "manual"
    /\ UNCHANGED <<naming, devices, inodes, socket, batch, channel, watching, scan, replies, ports, opening, plugs, refreshes, tries>>

\* open_effect: a port that is shown as removed is not opened
Open(d) ==
    /\ scan = {} /\ tries < MaxOpens /\ opening.at \in {"none", "failed"}
    /\ d \in selected /\ d.present
    /\ tries' = tries + 1
    /\ opening' = [NoTask EXCEPT !.at = "resolve", !.path = d]
    /\ UNCHANGED <<naming, devices, inodes, socket, batch, channel, watching, scan, replies, ports, selected, chosen, plugs, refreshes>>

----------------------------------------------------------------------------
(* open_blocking: every look at the file system is a step                  *)

LookStep(from, next) ==
    /\ opening.at = from
    /\ opening' = next
    /\ UNCHANGED <<naming, devices, inodes, socket, batch, channel, watching, scan, replies, ports, selected, chosen, plugs, refreshes, tries>>

Failed == [NoTask EXCEPT !.at = "failed"]
Requested == opening.path

\* canonicalize of the by-id link or of the node
Resolve ==
    LET found == IF Requested.stable # 0 THEN Target(Requested.stable) ELSE {n \in Nodes : n = Requested.node /\ devices[n] # {}}
    IN  LookStep("resolve", IF found = {} THEN Failed
                            ELSE [opening EXCEPT !.at = "stat", !.node = CHOOSE n \in found : TRUE])

\* metadata of the device
Stat ==
    LookStep("stat", IF devices[opening.node] = {} THEN Failed
                     ELSE [opening EXCEPT !.at = "verify", !.inode = inodes[opening.node]])

\* verify_expected_identity; a manual path has nothing to expect
ExpectedIdentity ==
    Requested.detected =>
        /\ Requested.node = opening.node
        /\ Requested.stable # 0 => Target(Requested.stable) = {opening.node}

Verify == LookStep("verify", IF ExpectedIdentity THEN [opening EXCEPT !.at = "open"] ELSE Failed)

\* verify_open_descriptor: the file that was opened is the one of Stat
SameDevice == devices[opening.node] # {} /\ inodes[opening.node] = opening.inode

\* open_native_async, which may be refused
OpenNative(granted) ==
    LookStep("open", IF ~(granted /\ SameDevice) THEN Failed
                     ELSE [opening EXCEPT !.at = "reverify", !.stream = CHOOSE a \in devices[opening.node] : TRUE,
                                          !.streamNode = opening.node, !.streamInode = inodes[opening.node]])

Reverify == LookStep("reverify", IF ExpectedIdentity THEN [opening EXCEPT !.at = "hardware"] ELSE Failed)

\* verify_hardware_identity looks the device up again
HardwareIdentity ==
    Requested.detected /\ Requested.serial # 0 =>
        \E a \in devices[opening.node] : SerialOf[a] = Requested.serial

\* the last check, and the RS-485 ioctl, which may be refused
Opened(configured) ==
    LookStep("hardware", IF HardwareIdentity /\ configured THEN [opening EXCEPT !.at = "opened"] ELSE Failed)

PortsNext ==
    \/ \E a \in Adapters, n \in Nodes : Plug(a, n)
    \/ \E n \in Nodes : Unplug(n) \/ SelectManual(n)
    \/ MonitorReads \/ MonitorSends \/ MonitorEnds
    \/ RefreshReadsLinks \/ \E links \in scan : RefreshScans(links)
    \/ RefreshFails
    \/ ReceiveEvent \/ ReceiveSnapshot
    \/ \E i \in DOMAIN ports : SelectDetected(i)
    \/ \E d \in selected : Open(d)
    \/ Resolve \/ Stat \/ Verify \/ Reverify
    \/ \E good \in BOOLEAN : OpenNative(good) \/ Opened(good)

PortsSpec == PortsInit /\ [][PortsNext]_portVars

----------------------------------------------------------------------------
(* Properties                                                              *)

\* the adapter that was opened has not been taken out since
StreamIsAlive ==
    opening.at = "opened" /\ devices[opening.streamNode] # {} /\ inodes[opening.streamNode] = opening.streamInode

\* A port that was opened, and that is still plugged in, is the adapter that
\* was asked for: it has the by-id link and the serial number of the request,
\* however adapters changed places between the looks of open_blocking; and when
\* every adapter has a link it is the one that the operator selected, whatever
\* events and snapshots were applied to the selection in between
\* (apply_port_event, connection.rs:296; open_blocking, serial_open.rs:55).
OpenedIsSelected ==
    StreamIsAlive =>
        /\ Requested.stable # 0 => naming[opening.stream] = Requested.stable
        /\ Requested.serial # 0 => SerialOf[opening.stream] = Requested.serial
        /\ chosen \in Adapters /\ (\A a \in Adapters : naming[a] # 0) => opening.stream = chosen
================================================================================

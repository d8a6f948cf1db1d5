---------------------------- MODULE ScopeSelection ----------------------------
(***************************************************************************)
(* ScopeSelection of lantern-app/src/monitoring.rs: the channels of the    *)
(* Scope, in the order they were added, each on a panel.  A panel has one  *)
(* axis, the (quantity, unit) of its channels.  Every operation returns    *)
(* the selection unchanged where the code returns an error.                *)
(***************************************************************************)
EXTENDS Naturals, Sequences, FiniteSets

CONSTANTS
    Params,         \* parameters of the active profile
    Axis,           \* AxisKey of a parameter
    MaxPanels,      \* MAX_SCOPE_PANELS, 4 in the code
    MaxChannels     \* MAX_SCOPE_CHANNELS, 8 in the code

ASSUME ScopeAssumption ==
    /\ IsFiniteSet(Params) /\ DOMAIN Axis = Params
    /\ MaxPanels \in Nat \ {0} /\ MaxChannels \in Nat \ {0}

ScopeChannel == [param : Params, panel : 1 .. MaxPanels]

Channels(s) == {s[i].param : i \in DOMAIN s}

Contains(s, p) == p \in Channels(s)

OnPanel(s, panel) == {s[i].param : i \in {j \in DOMAIN s : s[j].panel = panel}}

AxisFits(s, p, panel) == \A q \in OnPanel(s, panel) \ {p} : Axis[q] = Axis[p]

\* add
Add(s, p, panel) ==
    IF Contains(s, p) \/ Len(s) >= MaxChannels \/ ~AxisFits(s, p, panel)
    THEN s ELSE Append(s, [param |-> p, panel |-> panel])

\* add_auto: the panel of the first channel with the same axis, or the first
\* empty panel
AddAuto(s, p) ==
    LET same == {i \in DOMAIN s : Axis[s[i].param] = Axis[p]}
        first == CHOOSE i \in same : \A j \in same : i <= j
        empty == {n \in 1 .. MaxPanels : OnPanel(s, n) = {}}
        lowest == CHOOSE n \in empty : \A k \in empty : n <= k
    IN  IF Contains(s, p) THEN s
        ELSE IF same # {} THEN Add(s, p, s[first].panel)
        ELSE IF empty # {} THEN Add(s, p, lowest)
        ELSE s

\* remove: retain drops the one channel of p and closes its place
Remove(s, p) ==
    LET place == CHOOSE i \in DOMAIN s : s[i].param = p
    IN  IF Contains(s, p) THEN [i \in 1 .. Len(s) - 1 |-> IF i < place THEN s[i] ELSE s[i + 1]] ELSE s

MoveToPanel(s, p, panel) ==
    IF ~Contains(s, p) \/ ~AxisFits(s, p, panel) THEN s
    ELSE [i \in DOMAIN s |-> IF s[i].param = p THEN [s[i] EXCEPT !.panel = panel] ELSE s[i]]

\* axis_groups
AxisGroups(s, panel) == {{q \in OnPanel(s, panel) : Axis[q] = Axis[p]} : p \in OnPanel(s, panel)}
=============================================================================

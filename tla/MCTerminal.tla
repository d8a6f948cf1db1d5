---------------------------- MODULE MCTerminal ----------------------------
(***************************************************************************)
(* Terminal for TLC: parameters of each kind of editor, an enum that       *)
(* declares one of the values the drive may have, an offset finer than the *)
(* places of its scale, and two documents that validation refuses.         *)
(***************************************************************************)
EXTENDS Terminal

Document(encoding, byteOrder, wordOrder) ==
    [encoding |-> encoding, byteOrder |-> byteOrder, wordOrder |-> wordOrder, scale |-> {},
     minimum |-> {}, maximum |-> {}, step |-> {}, forbidden |-> {}, enums |-> {}, flags |-> {},
     table |-> "Holding", access |-> "WritableWhenStopped", driveState |-> "Stopped",
     write |-> "FC16", readBack |-> "default", named |-> TRUE]

Ranged ==
    [Document("Unsigned16", "LittleEndian", "MostSignificantFirst") EXCEPT
        !.scale = {Scale(1, 10, 5, 1, "MidpointNearestEven")},
        !.minimum = {5}, !.maximum = {60}, !.step = {3}, !.forbidden = {<<<<6, 0>>>>}]
SignedScaled ==
    [Document("Signed16", "BigEndian", "MostSignificantFirst") EXCEPT
        !.scale = {Scale(-5, 1, 0, 0, "AwayFromZero")}]
FineOffset ==
    [Document("Unsigned16", "BigEndian", "MostSignificantFirst") EXCEPT
        !.scale = {Scale(1, 1, 5, 0, "MidpointNearestEven")}]
Wide ==
    [Document("Signed64", "LittleEndian", "LeastSignificantFirst") EXCEPT
        !.scale = {Scale(2, 1, 10, 0, "TowardZero")}, !.maximum = {0}]
Coded == Document("Bcd32", "BigEndian", "LeastSignificantFirst")
Real == [Document("Float32", "BigEndian", "MostSignificantFirst") EXCEPT !.readBack = "FloatExactBits"]
Choice ==
    [Document("Enum32", "LittleEndian", "LeastSignificantFirst") EXCEPT
        !.enums = {5, 3526}, !.named = FALSE]
Flags ==
    [Document("Bitfield32", "LittleEndian", "LeastSignificantFirst") EXCEPT
        !.flags = {5, 11}, !.access = "Commissioning"]
BadDigit == [Coded EXCEPT !.forbidden = {<<<<0, 2>>, <<0, 0>>>>}]
TooWide == [Flags EXCEPT !.write = "FC06"]

\* two questions: the prompts, over two parameters in the list, and the staged
\* writes, over every width and kind of editor
MCProfiles ==
    {<<Ranged, Choice>>} \cup
    {<<p>> : p \in {Ranged, SignedScaled, FineOffset, Wide, Coded, Real, Choice, Flags, BadDigit, TooWide}}
MCWords == {<<0, 4>>, <<7, 4>>}
MCValues ==
    {Value("Fixed", 8), Value("Fixed", 11), Value("Float", <<0, 4, 0, 4>>), Value("Float", <<7, 4, 0, 4>>)}

\* The prompts need every screen but one value only, the staged writes every value
\* but, after the wizard, one screen only.
OneValue ==
    /\ \A at \in DOMAIN catalog : Range(latest'[at].raw) \subseteq {<<0, 4>>}
    /\ ui'.form.text # Value("Fixed", 8)
OneScreen == ui'.screen = "Parameters" \/ UNCHANGED ui

MCNext ==
    /\ TerminalNext
    /\ CASE Len(catalog) = 2 -> OneValue [] Len(catalog) = 1 -> OneScreen [] OTHER -> TRUE

MCSpec == TerminalInit /\ [][MCNext]_terminalVars
=============================================================================

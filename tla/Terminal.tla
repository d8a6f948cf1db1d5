-------------------------------- MODULE Terminal --------------------------------
(***************************************************************************)
(* The terminal user interface as far as it edits and submits: UiState     *)
(* (lantern-tui/src/ui_state.rs), map_key and the keymaps of the screens   *)
(* (keymap.rs, parameter_keymap.rs), the filters (parameter_state.rs), the *)
(* profile's validation of a parameter (lantern-profile/src/validate) and  *)
(* the typed intent that an editor stages (lantern-app/src/parameters.rs). *)
(*                                                                         *)
(* A key is mapped and applied in one turn of the main loop, on the view   *)
(* that the application has then; between two keys the view may change in  *)
(* any way the session can.  A text is what its characters spell; typing   *)
(* and erasing characters is one action.  The keys of the scope, the log   *)
(* and the fault screens that only send an action or move the selection    *)
(* are the ones of Monitoring, CsvLogging and FaultTimeline.               *)
(***************************************************************************)
EXTENDS RegisterCodec, FiniteSetsExt, InOrder

CONSTANTS
    ProfileChoices,     \* sequences of parameter documents: the profiles to connect with
    Screens,            \* the screens there are, of the ones that Screen names
    RegisterWords,      \* words the drive's registers may hold
    TypedValues,        \* numbers the operator may type, as the editor reads them
    PageRows,           \* rows of the parameter list (page)
    MaxSelected,        \* bound: how far the selection is moved
    MaxObservations     \* bound: values that arrive

\* a profile is a sequence of documents; a page has eight rows at least
ASSUME TerminalAssumption ==
    /\ \A profile \in ProfileChoices : profile \in Seq(Range(profile))
    /\ PageRows \in Nat \ {0} /\ MaxSelected \in Nat

SearchOf ==
    [edit \in {"ProfileSearch", "ScopeSearch", "ParameterSearch"} |->
        CASE edit = "ProfileSearch" -> "profile" [] edit = "ScopeSearch" -> "scope" [] OTHER -> "parameter"]

VARIABLES
    catalog,            \* the validated parameters of the selected profile
    phase,              \* SessionPhaseView: "none", "Connected", "Reconnecting", "Faulted"
    authorization,      \* AuthorizationView
    latest,           \* place in the catalog -> [raw, good]: the latest values
    step,               \* ConnectionStep
    plans,              \* which of "write" and "restore" has a prepared plan on offer
    staged,             \* staged_intent
    ui,                 \* UiState
    observations        \* values that have arrived

terminalVars == <<catalog, phase, authorization, latest, step, plans, staged, ui, observations>>

----------------------------------------------------------------------------
(* validate_parameter                                                      *)

\* An option of the code is the set of the value it may have.
CodecIsValid(doc) ==
    doc.scale # {} => doc.encoding \in Fixed /\ \A s \in doc.scale : ScaleIsValid(s)

CodecOf(doc) ==
    [encoding |-> doc.encoding, byteOrder |-> doc.byteOrder, wordOrder |-> doc.wordOrder,
     scale |-> IF doc.scale = {} THEN Identity ELSE CHOOSE s \in doc.scale : TRUE]

ConstraintsAreValid(doc) ==
    /\ doc.encoding \notin Fixed => doc.minimum = {} /\ doc.maximum = {} /\ doc.step = {}
    /\ \A low \in doc.minimum, high \in doc.maximum : low <= high
    /\ \A s \in doc.step : s > 0

RawValuesAreValid(doc) ==
    \A raw \in doc.forbidden :
        /\ Len(raw) = RegisterWidth(doc.encoding)
        /\ Decode(CodecOf(doc), raw).kind # "error"

EditorMetadataIsValid(doc) ==
    /\ doc.enums # {} => doc.encoding \in Enums /\ doc.enums \subseteq 0 .. Modulus(doc.encoding) - 1
    /\ doc.flags # {} => /\ doc.encoding \in Bitfields
                         /\ \A b \in doc.flags : b < 2 * BitsPerByte * RegisterWidth(doc.encoding)

WriteFunctionIsValid(doc) ==
    /\ doc.table = "Input" => doc.write = "none"
    /\ (doc.access = "ReadOnly") <=> (doc.write = "none")
    /\ doc.write = "FC06" => RegisterWidth(doc.encoding) = 1

ReadBackIsValid(doc) == doc.readBack # "default" => (doc.readBack = "FloatExactBits" <=> doc.encoding \in Floats)

ValidateParameter(doc) ==
    /\ CodecIsValid(doc) /\ ConstraintsAreValid(doc) /\ RawValuesAreValid(doc)
    /\ EditorMetadataIsValid(doc) /\ WriteFunctionIsValid(doc) /\ ReadBackIsValid(doc)

----------------------------------------------------------------------------
(* The typed editors and the intent they stage                             *)

EditorKind(p) ==
    CASE p.access \in {"ReadOnly", "Dangerous"} \/ p.write = "none" -> "Unavailable"
      [] p.encoding \in Fixed -> "Fixed"
      [] p.encoding \in Floats -> "Float"
      [] p.encoding \in Enums /\ p.enums # {} -> "Enum"
      [] p.encoding \in Bitfields /\ p.flags # {} -> "Bitfield"
      [] OTHER -> "Unavailable"

\* the flags set in a bit pattern, and the pattern with one flag changed
FlagsOf(bits) ==
    {b \in 0 .. Len(bits) * BitsPerByte - 1 :
        (bits[Len(bits) - b \div BitsPerByte] \div 2 ^ (b % BitsPerByte)) % 2 = 1}
Toggled(bits, b) ==
    LET i == Len(bits) - b \div BitsPerByte
        mask == 2 ^ (b % BitsPerByte)
    IN  [bits EXCEPT ![i] = IF b \in FlagsOf(bits) THEN @ - mask ELSE @ + mask]

\* parse_editor_value: the input as a value, or an error
ParseEditorValue(p, input) ==
    CASE input.kind = "Enum" -> IF input.is \in p.enums THEN input ELSE CodecError
      [] input.kind = "Bitfield" -> IF FlagsOf(input.is) \subseteq p.flags THEN input ELSE CodecError
      [] input.kind = "Float" -> IF IsFinite(input.is) THEN input ELSE CodecError
      [] input.kind = "Fixed" -> input
      [] OTHER -> CodecError

\* validate_constraints
ValidateConstraints(p, value) ==
    value.kind = "Fixed" =>
        /\ \A low \in p.minimum : value.is >= low
        /\ \A high \in p.maximum : value.is <= high
        /\ \A s \in p.step : (value.is - (IF p.minimum = {} THEN 0 ELSE Min(p.minimum))) % s = 0

Staged(at, previous, requested, raw) ==
    [at |-> at, previous |-> previous, requested |-> requested, raw |-> raw]
NothingStaged == Staged(0, <<>>, CodecError, <<>>)

\* prepare_parameter_intent, on the parameter at a place of the catalog
PrepareParameterIntent(at, input) ==
    LET p == catalog[at]
        value == ParseEditorValue(p, input)
        raw == Encode(CodecOf(p), value)
    IN  IF /\ authorization # "ProcessDisabled"
           /\ EditorKind(p) # "Unavailable"
           /\ latest[at].good
           /\ value.kind # "error"
           /\ ValidateConstraints(p, value)
           /\ raw # <<>> /\ raw \notin p.forbidden
        THEN Staged(at, latest[at].raw, value, raw)
        ELSE NothingStaged

ManualParameterAllowed(p) ==
    p.access \in {"WritableWhenStopped", "Commissioning"} /\ p.driveState = "Stopped" /\ p.write # "none"

\* authoritative_target: the registers that the coordinator would write, or none
AuthoritativeTarget(p, value) ==
    LET raw == Encode(CodecOf(p), value)
        grid == IF p.minimum = {} THEN 0 ELSE Min(p.minimum)
        inRange == CASE value.kind = "Fixed" -> /\ \A low \in p.minimum : low <= value.is
                                                /\ \A high \in p.maximum : value.is <= high
                                                /\ \A s \in p.step : (value.is - grid) % s = 0
                     [] value.kind = "Enum" -> value.is \in p.enums
                     [] value.kind = "Bitfield" -> FlagsOf(value.is) \subseteq p.flags
                     [] value.kind = "Float" -> IsFinite(value.is)
                     [] OTHER -> TRUE
    IN  IF ManualParameterAllowed(p) /\ inRange /\ raw \notin p.forbidden THEN raw ELSE <<>>

----------------------------------------------------------------------------
(* UiState                                                                 *)

Empty == Value("empty", 0)
Form(of, text) == [of |-> IF text.kind = "empty" THEN {} ELSE {of}, text |-> text]
EmptyForm == Form("none", Empty)

Editor(kind, at, index, bits) == [kind |-> kind, at |-> at, index |-> index, bits |-> bits]
NoEditor == Editor("none", 0, 0, <<>>)

\* Default of UiState
NewUi ==
    [screen |-> "Connection", selected |-> 0, form |-> EmptyForm,
     edit |-> "none", editor |-> NoEditor, modal |-> "none",
     search |-> [t \in {"profile", "scope", "parameter"} |-> Empty], quality |-> "any"]

SwitchScreen(to) ==
    [ui EXCEPT !.screen = to, !.selected = 0, !.edit = "none", !.editor = NoEditor, !.form = EmptyForm]

\* the Begin... actions of an edit
BeginEdit(edit, text) ==
    [ui EXCEPT !.form = Form(edit, text), !.edit = edit,
               !.editor = IF edit = "ManualPath" THEN ui.editor ELSE NoEditor]

\* begin_search leaves the editor alone
BeginSearch(edit) ==
    [ui EXCEPT !.form = Form(edit, ui.search[SearchOf[edit]]), !.edit = edit]

FinishSearch(edit, text) ==
    [ui EXCEPT !.search[SearchOf[edit]] = IF text = Empty THEN Empty ELSE Value("text", 0), !.edit = "none", !.form = EmptyForm,
               !.selected = 0]

CancelEdit == [ui EXCEPT !.edit = "none", !.form = EmptyForm]

\* BeginParameterTextEditor, BeginParameterEnumEditor, BeginParameterBitfieldEditor
BeginEditor(new, form) ==
    [ui EXCEPT !.editor = new, !.form = form, !.edit = "none"]

CloseEditor == [ui EXCEPT !.editor = NoEditor, !.form = EmptyForm]

ShowModal(modal) == [ui EXCEPT !.modal = modal]

Select(index) == [ui EXCEPT !.selected = index]

----------------------------------------------------------------------------
(* The parameter list                                                      *)

\* mutant: the catalog of ApplicationState::view is there only while the link is up
ViewCatalog_Connected == IF phase = "Connected" THEN catalog ELSE <<>>

\* the catalog of ApplicationState::view
ViewCatalog == IF phase # "none" THEN catalog ELSE <<>>

\* parameter_matches_filters; the static filters act like the search
MatchesFilters(at) ==
    /\ ui.search["parameter"].kind # "empty" => catalog[at].named
    /\ ui.quality # "any" => latest[at].good = (ui.quality = "Good")

FilteredParameters == Ascending({i \in DOMAIN ViewCatalog : MatchesFilters(i)})

Clamped(index, list) == IF index < Len(list) THEN index ELSE IF list = <<>> THEN 0 ELSE Len(list) - 1

\* selected_parameter: the place in the catalog, or 0
SelectedParameter ==
    LET list == FilteredParameters
    IN  IF list = <<>> THEN 0 ELSE list[Clamped(ui.selected, list) + 1]

\* visible_parameter_ids: the window of the list around the selection, which is
\* drawn and polled
VisibleParameterIds(list, selected) ==
    LET at == Clamped(selected, list)
        start == IF at < PageRows \div 3 THEN 0 ELSE at - PageRows \div 3
        pulled == IF start + PageRows > Len(list)
                  THEN IF Len(list) < PageRows THEN 0 ELSE Len(list) - PageRows
                  ELSE start
    IN  SubSeq(list, pulled + 1, Min({pulled + PageRows, Len(list)}))

----------------------------------------------------------------------------
(* map_key: which surface has the keys                                     *)

InModal == ui.modal # "none"
InEditor == ~InModal /\ ui.screen = "Parameters" /\ ui.editor.kind # "none"
InEdit == ~InModal /\ ~InEditor /\ ui.edit # "none"
KeysAreFree == ~InModal /\ ~InEditor /\ ui.edit = "none"

CloseModal == InModal /\ ui' = [ui EXCEPT !.modal = "none"]

\* map_parameter_editor_key finds the parameter in the view's catalog first
EditorHasKeys == InEditor /\ ui.editor.at \in DOMAIN ViewCatalog
Edited == catalog[ui.editor.at]

Typed(of, text) == ui' = [ui EXCEPT !.form = [of |-> IF text.kind = "empty" THEN {} ELSE ui.form.of \cup {of},
                                              text |-> text]]

\* InputChar and Backspace in a text editor
EditorType(text) ==
    /\ EditorHasKeys /\ ui.editor.kind = "Text" /\ Typed("editor", text)
    /\ text.kind \in {"empty", "text", EditorKind(Edited)}

Entries(p) == IF EditorKind(p) = "Enum" THEN SetToSortSeq(p.enums, <) ELSE SetToSortSeq(p.flags, <)

EditorMove(index) ==
    /\ EditorHasKeys /\ ui.editor.kind \in {"Enum", "Bitfield"}
    /\ index \in {ui.editor.index - 1, ui.editor.index + 1} \cap 0 .. Len(Entries(Edited)) - 1
    /\ ui' = [ui EXCEPT !.editor.index = index]

EditorToggle ==
    /\ EditorHasKeys /\ ui.editor.kind = "Bitfield"
    /\ ui' = [ui EXCEPT !.editor.bits = Toggled(@, Entries(Edited)[ui.editor.index + 1])]

EditorEsc == EditorHasKeys /\ ui' = CloseEditor

\* what an editor and the text of its form spell
EditorInput(editor, text) ==
    CASE editor.kind = "Text" -> text
      [] editor.kind = "Enum" -> Value("Enum", Entries(catalog[editor.at])[editor.index + 1])
      [] editor.kind = "Bitfield" -> Value("Bitfield", editor.bits)

\* Enter: ParameterCloseEditor and PrepareIntent
EditorEnter ==
    /\ EditorHasKeys
    /\ ui' = CloseEditor
    /\ IF phase = "Connected"
       THEN /\ staged' = PrepareParameterIntent(ui.editor.at, EditorInput(ui.editor, ui.form.text))
            /\ plans' = plans \ {"write"}
       ELSE UNCHANGED <<staged, plans>>

\* only a confirmation has a text that is exactly right
EditType(text) ==
    /\ InEdit /\ Typed(ui.edit, text)
    /\ text.kind = "exact" => ui.edit \in {"WriteArming", "WriteConfirmation", "RestoreConfirmation"}

\* Esc of an edit; the one of the arming challenge sends CancelArming
EditEsc ==
    /\ InEdit
    /\ ui' = CancelEdit
    /\ authorization' = IF ui.edit = "WriteArming" /\ authorization = "Arming" THEN "Disarmed"
                        ELSE authorization

\* Enter of an edit: a search is applied, anything else is submitted
EditEnter ==
    /\ InEdit
    /\ ui' = IF ui.edit \in DOMAIN SearchOf THEN FinishSearch(ui.edit, ui.form.text) ELSE CancelEdit
    /\ authorization' = IF ui.edit = "WriteArming" /\ authorization = "Arming" /\ ui.form.text.kind = "exact"
                        THEN "Armed" ELSE authorization
    /\ plans' = plans \ (CASE ui.edit = "WriteConfirmation" /\ ui.form.text.kind = "exact" -> {"write"}
                           [] ui.edit = "RestoreConfirmation" /\ ui.form.text.kind = "exact" -> {"restore"}
                           [] OTHER -> {})

\* map_connection_key: the keys that begin an edit or move the selection
ConnectionKey ==
    /\ KeysAreFree /\ ui.screen = "Connection"
    /\ \/ step = "Port" /\ \E prefill \in {Empty, Value("text", 0)} : ui' = BeginEdit("ManualPath", prefill)
       \/ step = "Profile" /\ ui' = BeginSearch("ProfileSearch")
       \/ step = "Profile" /\ ui.search["profile"] # Empty /\ ui' = FinishSearch("ProfileSearch", Empty)
       \/ step \in {"Port", "Profile"} /\ \E i \in {ui.selected - 1, ui.selected + 1} \cap 0 .. MaxSelected :
                                              ui' = Select(i)

ScopeKey ==
    /\ KeysAreFree /\ ui.screen = "Scope"
    /\ \/ ui' = BeginSearch("ScopeSearch")
       \/ ui.search["scope"] # Empty /\ ui' = FinishSearch("ScopeSearch", Empty)

BackupScreenKey ==
    /\ KeysAreFree /\ ui.screen = "Backup"
    /\ \/ \E prefill \in {Empty, Value("text", 0)} : ui' = BeginEdit("BackupSourcePath", prefill)
       \/ "restore" \in plans /\ ui' = BeginEdit("RestoreConfirmation", Empty)

NextQuality ==
    [quality \in {"any", "Good", "NotGood"} |->
        CASE quality = "any" -> "Good" [] quality = "Good" -> "NotGood" [] OTHER -> "any"]

\* map_parameter_key: search, filters and selection
ListKey ==
    /\ KeysAreFree /\ ui.screen = "Parameters"
    /\ \/ ui' = BeginSearch("ParameterSearch")
       \/ ui.search["parameter"] # Empty /\ ui' = FinishSearch("ParameterSearch", Empty)
       \/ ui' = [ui EXCEPT !.quality = NextQuality[ui.quality], !.selected = 0]
       \/ ui.selected > 0 /\ ui' = Select(ui.selected - 1)
       \/ ui' = Select(Clamped(ui.selected + 1, FilteredParameters))

EditorOpens(at) ==
    authorization # "ProcessDisabled" /\ latest[at].good /\ EditorKind(catalog[at]) # "Unavailable"

Current(at) == Decode(CodecOf(catalog[at]), latest[at].raw)

\* the places of the current value among the options of an enum
OptionPlaces(at) ==
    LET sorted == Entries(catalog[at])
    IN  {i \in DOMAIN sorted : sorted[i] = Current(at).is}

\* The editor that begin_editor_action opens, and the text in its form
\* (current_editor_text); an enum without the current value begins at its first option.
OpenedEditor(at) ==
    CASE EditorKind(catalog[at]) \in {"Fixed", "Float"} -> Editor("Text", at, 0, <<>>)
      [] EditorKind(catalog[at]) = "Enum" ->
             Editor("Enum", at, IF OptionPlaces(at) = {} THEN 0 ELSE Min(OptionPlaces(at)) - 1, <<>>)
      [] EditorKind(catalog[at]) = "Bitfield" -> Editor("Bitfield", at, 0, Current(at).is)

OpenedText(at) ==
    IF Current(at).kind = "Float" /\ ~IsFinite(Current(at).is) THEN Empty ELSE Current(at)

\* begin_editor_action
EditKey ==
    /\ KeysAreFree /\ ui.screen = "Parameters" /\ SelectedParameter # 0
    /\ LET at == SelectedParameter
           editor == OpenedEditor(at)
       IN  ui' = IF ~EditorOpens(at) THEN ShowModal("Message")
                 ELSE BeginEditor(editor, IF editor.kind = "Text" THEN Form("editor", OpenedText(at))
                                          ELSE ui.form)

\* arm_action
ArmKey ==
    /\ KeysAreFree /\ ui.screen = "Parameters" /\ authorization # "Unavailable"
    /\ \E ready \in {FALSE, phase = "Connected"} :   \* audit healthy and nothing running
           /\ ui' = CASE authorization = "ProcessDisabled" \/ (authorization = "Disarmed" /\ ~ready) -> ShowModal("Message")
                      [] authorization = "Armed" -> ui
                      [] OTHER -> BeginEdit("WriteArming", Empty)
           /\ authorization' = CASE authorization = "Disarmed" /\ ready -> "Arming"
                                 [] authorization = "Armed" -> "Disarmed"
                                 [] OTHER -> authorization

\* guarded_write_action; PrepareWrite answers later (Reported)
WriteKey ==
    /\ KeysAreFree /\ ui.screen = "Parameters"
    /\ \E ready \in {FALSE, phase = "Connected"} :   \* audit healthy and nothing running
           ui' = CASE authorization = "Armed" /\ ready /\ "write" \in plans -> BeginEdit("WriteConfirmation", Empty)
                   [] authorization = "Armed" /\ ready /\ staged.at # 0 -> ui
                   [] OTHER -> ShowModal("Message")

\* ClearIntent
ClearKey ==
    /\ KeysAreFree /\ ui.screen = "Parameters"
    /\ staged.at # 0 \/ "write" \in plans
    /\ staged' = NothingStaged /\ plans' = plans \ {"write"}

\* the keys of every screen: help and the screens
GlobalKey ==
    /\ KeysAreFree
    /\ \/ ui' = ShowModal("Help")
       \/ \E to \in Screens : ui' = SwitchScreen(to)

----------------------------------------------------------------------------
(* What changes the view between two keys                                  *)

(***************************************************************************)
(* The steps of the connection screen; "Link" stands for every step from   *)
(* the link to the identification.  Back and the selections do not ask for *)
(* the session: a report of a mismatched reconnection leads back to them.  *)
(***************************************************************************)
NextSteps ==
    CASE step = "Port" -> {"Profile"}
      [] step = "Profile" -> {"Port", "Link"}
      [] step = "Link" -> IF phase = "none" THEN {"Profile", "Port", "Report"} ELSE {"Profile"}
      [] step = "Report" -> {"Port"}
      [] OTHER -> {}

StepChanges == step' \in NextSteps

Verified(writesEnabled) ==
    /\ phase = "none" /\ step = "Link"
    /\ phase' = "Connected" /\ step' = "Connected"
    /\ authorization' = IF writesEnabled THEN "Disarmed" ELSE "ProcessDisabled"

\* The link is lost, comes back, or another drive answers; arming ends.
LinkChanges(to) ==
    /\ phase # "none" /\ to # phase
    /\ phase = "Faulted" => to = "Reconnecting"
    /\ phase' = to
    /\ step' = CASE to = "Connected" -> "Connected" [] to = "Faulted" -> "Report" [] OTHER -> step
    /\ authorization' = IF authorization = "ProcessDisabled" THEN authorization ELSE "Disarmed"
    /\ staged' \in {staged, NothingStaged}
    /\ plans' \in SUBSET plans

\* ArmingExpired and IdleDisarmElapsed
ArmingEnds == authorization \in {"Arming", "Armed"} /\ authorization' = "Disarmed"

\* WritePrepared, WriteCompleted, RestorePrepared
Reported(on) ==
    /\ phase # "none" /\ plans' = on
    /\ staged' \in {staged, NothingStaged}

Observe(at) ==
    /\ phase # "none" /\ observations < MaxObservations /\ observations' = observations + 1
    /\ \/ latest' = [latest EXCEPT ![at].good = FALSE]
       \/ \E raw \in [1 .. RegisterWidth(catalog[at].encoding) -> RegisterWords] :
              /\ Decode(CodecOf(catalog[at]), raw).kind # "error"
              /\ latest' = [latest EXCEPT ![at] = [raw |-> raw, good |-> TRUE]]

----------------------------------------------------------------------------

TerminalInit ==
    /\ \E profile \in ProfileChoices :
           catalog = IF \A i \in DOMAIN profile : ValidateParameter(profile[i]) THEN profile ELSE <<>>
    /\ phase = "none" /\ authorization = "Unavailable" /\ step = "Port"
    /\ latest = [i \in DOMAIN catalog |-> [raw |-> <<>>, good |-> FALSE]]
    /\ plans = {} /\ staged = NothingStaged /\ ui = NewUi /\ observations = 0

KeyOnly ==
    \/ CloseModal \/ EditorToggle \/ EditorEsc
    \/ ConnectionKey \/ ScopeKey \/ BackupScreenKey \/ ListKey \/ EditKey \/ WriteKey \/ GlobalKey
    \/ \E kind \in {"empty", "text", "exact"} : EditType(Value(kind, 0))
    \/ \E kind \in {"empty", "text"} : EditorType(Value(kind, 0))
    \/ \E text \in TypedValues : EditorType(text)
    \/ EditorHasKeys /\ \E i \in {ui.editor.index - 1, ui.editor.index + 1} : EditorMove(i)

SessionKey == EditEnter \/ ((EditEsc \/ ArmKey) /\ UNCHANGED plans)

TerminalNext ==
    \/ KeyOnly /\ UNCHANGED <<observations, catalog, phase, authorization, latest, step, plans, staged>>
    \/ SessionKey /\ UNCHANGED <<observations, catalog, phase, latest, step, staged>>
    \/ EditorEnter /\ UNCHANGED <<observations, catalog, phase, authorization, latest, step>>
    \/ ClearKey /\ UNCHANGED <<observations, catalog, phase, authorization, latest, step, ui>>
    \/ /\ StepChanges
       /\ UNCHANGED <<observations, catalog, phase, authorization, latest, plans, staged, ui>>
    \/ /\ catalog # <<>> /\ \E enabled \in BOOLEAN : Verified(enabled)
       /\ UNCHANGED <<observations, catalog, latest, plans, staged, ui>>
    \/ /\ \E to \in {"Connected", "Reconnecting", "Faulted"} : LinkChanges(to)
       /\ UNCHANGED <<observations, catalog, latest, ui>>
    \/ ArmingEnds /\ UNCHANGED <<observations, catalog, phase, latest, step, plans, staged, ui>>
    \/ /\ \E on \in SUBSET {"write", "restore"} : Reported(on)
       /\ UNCHANGED <<observations, catalog, phase, authorization, latest, step, ui>>
    \/ /\ \E at \in DOMAIN catalog : Observe(at)
       /\ UNCHANGED <<catalog, phase, authorization, step, plans, staged, ui>>

TerminalSpec == TerminalInit /\ [][TerminalNext]_terminalVars

----------------------------------------------------------------------------
(* Properties                                                              *)

FormBelongsToItsEdit ==
    \A of \in ui.form.of :
        IF of = "editor" THEN ui.screen = "Parameters" /\ ui.editor.kind = "Text" ELSE ui.edit = of

OpenIsEscapable ==
    ~KeysAreFree => InModal \/ InEdit \/ EditorHasKeys

WindowHoldsSelection ==
    LET list == FilteredParameters
        window == VisibleParameterIds(list, ui.selected)
    IN  list # <<>> => /\ SelectedParameter \in Range(window)
                       /\ Len(window) = Min({PageRows, Len(list)})

\* What is in the form was typed, or filled in, for what is being edited: text
\* is never carried from one prompt, screen or editor into another, where Enter
\* would submit it as a path, an arming challenge or a confirmation.  And what has
\* taken the keys can be left with Esc, however the session has changed since it
\* was opened: an editor is looked up in the view's catalog before any of its keys
\* is mapped (map_parameter_editor_key).  The selected parameter, which the keys act
\* on, is in the window of the list that is drawn and polled.
PromptsAreSafe == FormBelongsToItsEdit /\ OpenIsEscapable /\ WindowHoldsSelection

PreviewIsWritten ==
    staged.at # 0 /\ ManualParameterAllowed(catalog[staged.at]) =>
        AuthoritativeTarget(catalog[staged.at], staged.requested) = staged.raw

\* A scale loses nothing when the places it keeps hold every raw value and the offset.
KeepsEveryRaw(p) ==
    \A s \in p.scale : /\ (s.multiplier * 10 ^ s.places) % s.divisor = 0
                       /\ (s.offset * 10 ^ s.places) % Unit = 0

HasItsOption(at) == EditorKind(catalog[at]) = "Enum" => OptionPlaces(at) # {}

EnterChangesNothing ==
    \A at \in DOMAIN catalog :
        EditorOpens(at) /\ KeepsEveryRaw(catalog[at]) /\ HasItsOption(at) =>
            LET intent == PrepareParameterIntent(at, EditorInput(OpenedEditor(at), OpenedText(at)))
            IN  intent.at # 0 => intent.raw = latest[at].raw

\* The registers shown with a staged intent are the ones that the coordinator,
\* which checks and encodes the value again with code of its own, would write.  And
\* opening the editor of a parameter and pressing Enter at once stages nothing (what
\* the drive has is no value to request) or the very registers that the drive has,
\* for every encoding, byte order and word order: with two exceptions that the code
\* makes.  A scale whose places drop digits of a raw value or of its offset may give
\* another register for the value it shows, and an enum editor opened on a value that
\* is not among the options begins at the first one, which Enter then requests
\* (parameter_keymap.rs:275, parameters.rs:651, write_coordinator.rs:1566).
StagedWriteIsExact == PreviewIsWritten /\ EnterChangesNothing
================================================================================

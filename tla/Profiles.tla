------------------------------- MODULE Profiles -------------------------------
(***************************************************************************)
(* Device profiles: the scan of the profile files                          *)
(* (lantern-storage/src/profile_source.rs), the registry and its tiers     *)
(* (lantern-app/src/profile_registry.rs), the identification of a drive    *)
(* (identification.rs), the `profile approve-write` command, and           *)
(* RuntimeProfileTrust, which decides before every write.                  *)
(*                                                                         *)
(* Files and the trust store are edited by other processes while the       *)
(* program runs: two approve commands and the operator's editor.  A        *)
(* profile is the validated content of a file, one value for one hash.     *)
(***************************************************************************)
EXTENDS Naturals, Sequences, SequencesExt, FiniteSets

CONSTANTS
    ProfileFiles,   \* sequence of the paths, in the order of their names
    TierOf,         \* precedence of a path's tier: 0 System, 1 User, 2 Explicit
    Contents,       \* sequence of candidate file systems: path -> profile
    IdOf,           \* profile_id of a profile
    ProbesOf,       \* its probes: block -> set of expected raw values
    Manifest,       \* profiles the manifest in the binary names
    Drives,         \* drives: what each answers to a probe, block -> raw value
    Approvers,      \* approve-write processes
    MaxEdits, MaxStarts         \* bounds: edits of files and store, starts

Bodies == DOMAIN IdOf
Paths == Range(ProfileFiles)
NoFile == {"absent", "invalid"}

ASSUME ProfileAssumption ==
    /\ Manifest \subseteq Bodies /\ DOMAIN ProbesOf = Bodies
    /\ TierOf \in [Paths -> 0 .. 2]
    /\ Range(Contents) \subseteq [Paths -> Bodies \cup NoFile]

PathIndex(path) == CHOOSE i \in DOMAIN ProfileFiles : ProfileFiles[i] = path

VARIABLES
    files,          \* path -> profile, "absent" or "invalid"
    store,          \* the trust store: "none", "invalid" or "ok", and id -> profile
    confirmed,      \* profiles whose hash the operator has typed
    approver,       \* process -> where it is, its profile, the store it read
    app,            \* the process: files listed, sources read, those indexed, registry
    offered,        \* the write the operator prepares and confirms
    drive,          \* block -> raw value
    probing,        \* the identification attempt
    verified,       \* ids of the profiles this process verified on the drive
    edits, starts

profileVars == <<files, store, confirmed, approver, app, offered, drive, probing, verified, edits, starts>>

NoRegistry == [id \in {} |-> 0]
\* insert of a map: the entry replaces one of its key
Put(map, key, value) == [k \in DOMAIN map \cup {key} |-> IF k = key THEN value ELSE map[k]]

NoStore == [is |-> "none", approvals |-> NoRegistry]
BadStore == [is |-> "invalid", approvals |-> NoRegistry]
Down == [at |-> "down", listed |-> {}, read |-> <<>>, indexed |-> {}, registry |-> NoRegistry]
NoOffer == [at |-> "none", profile |-> "none"]
NoProbing == [at |-> "none", id |-> "none", seen |-> NoRegistry]
Idle == [at |-> "idle", profile |-> "none", read |-> NoStore]

ProfilesInit ==
    /\ files \in Range(Contents)
    /\ store = NoStore /\ confirmed = {}
    /\ approver = [p \in Approvers |-> Idle]
    /\ app = Down /\ offered = NoOffer
    /\ drive \in Drives /\ probing = NoProbing /\ verified = {}
    /\ edits = 0 /\ starts = 0

ProfilesIdle ==
    /\ files = [p \in Paths |-> "absent"]
    /\ store = NoStore /\ confirmed = {}
    /\ approver = [p \in Approvers |-> Idle]
    /\ app = Down /\ offered = NoOffer
    /\ drive = NoRegistry /\ probing = NoProbing /\ verified = {}
    /\ edits = MaxEdits /\ starts = MaxStarts

-----------------------------------------------------------------------------
(***************************************************************************)
(* The file system, edited from outside.                                   *)
(***************************************************************************)

EditFile(p, content) ==
    /\ edits < MaxEdits /\ files[p] # content
    /\ files' = [files EXCEPT ![p] = content]
    /\ edits' = edits + 1
    /\ UNCHANGED <<store, confirmed, approver, app, offered, drive, probing, verified, starts>>

\* the operator withdraws an approval with an editor, or damages the store
EditStore(content) ==
    /\ edits < MaxEdits /\ store # content /\ store # NoStore
    /\ store' = content
    /\ edits' = edits + 1
    /\ UNCHANGED <<files, confirmed, approver, app, offered, drive, probing, verified, starts>>

-----------------------------------------------------------------------------
(***************************************************************************)
(* profile approve-write: read and validate the file, compare its hash with *)
(* the operator's, load the store, replace the approval of that id, rename. *)
(***************************************************************************)

ApproveRead(p, path, typed) ==
    /\ approver[p].at = "idle"
    /\ files[path] \in Bodies
    /\ IF files[path] # typed
       THEN approver' = [approver EXCEPT ![p].at = "ended"] /\ UNCHANGED confirmed
       ELSE /\ approver' = [approver EXCEPT ![p] = [at |-> "load", profile |-> typed, read |-> NoStore]]
            /\ confirmed' = confirmed \cup {typed}
    /\ UNCHANGED <<files, store, app, offered, drive, probing, verified, edits, starts>>

\* load_store: one invalid entry makes the whole store invalid
ApproveLoad(p) ==
    /\ approver[p].at = "load"
    /\ approver' = [approver EXCEPT ![p].read = store,
                        ![p].at = IF store = BadStore THEN "ended" ELSE "store"]
    /\ UNCHANGED <<files, store, confirmed, app, offered, drive, probing, verified, edits, starts>>

\* what atomic_write puts in place: made of the store that was read
ApproveStore(p) ==
    /\ approver[p].at = "store"
    /\ LET old == approver[p].read.approvals
           id == IdOf[approver[p].profile]
       IN  store' = [is |-> "ok", approvals |-> Put(old, id, approver[p].profile)]
    /\ approver' = [approver EXCEPT ![p].at = "ended"]
    /\ UNCHANGED <<files, confirmed, app, offered, drive, probing, verified, edits, starts>>

-----------------------------------------------------------------------------
(***************************************************************************)
(* The process starts: the files are read one by one, then indexed.        *)
(***************************************************************************)

\* collect_directory lists the files before any of them is read
StartScan ==
    /\ app.at \in {"down", "refused", "up"} /\ starts < MaxStarts
    /\ app' = [Down EXCEPT !.at = "scan", !.listed = {p \in Paths : files[p] # "absent"}]
    /\ starts' = starts + 1
    /\ offered' = NoOffer /\ probing' = NoProbing /\ verified' = {}
    /\ UNCHANGED <<files, store, confirmed, approver, drive, edits>>

\* the next path is read; a file that was listed and is gone is an error
ScanFile ==
    /\ app.at = "scan" /\ Len(app.read) < Len(ProfileFiles)
    /\ LET path == ProfileFiles[Len(app.read) + 1]
           profile == IF path \notin app.listed THEN "absent"
                      ELSE IF files[path] = "absent" THEN "invalid" ELSE files[path]
       IN  app' = [app EXCEPT !.read = Append(@, [path |-> path, profile |-> profile])]
    /\ UNCHANGED <<files, store, confirmed, approver, offered, drive, probing, verified, edits, starts>>

Sources == {s \in Range(app.read) : s.profile # "absent"}

\* the order of from_sources: tier, then path
BySourceOrder(s, t) ==
    \/ TierOf[s.path] < TierOf[t.path]
    \/ TierOf[s.path] = TierOf[t.path] /\ PathIndex(s.path) < PathIndex(t.path)

\* determine_origin
Origin(source) ==
    IF TierOf[source.path] = 0 /\ source.profile \in Manifest THEN "Packaged" ELSE "LocalUntrusted"

Entry(source) == [profile |-> source.profile, path |-> source.path, origin |-> Origin(source)]

\* an invalid source is an error, and so are two of one id in one tier
Refuses(registry, source) ==
    \/ source.profile \notin Bodies
    \/ /\ IdOf[source.profile] \in DOMAIN registry
       /\ TierOf[registry[IdOf[source.profile]].path] = TierOf[source.path]

\* an entry of a higher tier stays
Index(registry, source) ==
    LET id == IdOf[source.profile]
    IN  IF id \in DOMAIN registry /\ TierOf[registry[id].path] > TierOf[source.path] THEN registry
        ELSE Put(registry, id, Entry(source))

Scanned == app.at = "scan" /\ Len(app.read) = Len(ProfileFiles)

\* from_sources takes one source after the other, in the sorted order; any
\* error keeps the program from starting
FromSources ==
    /\ Scanned
    /\ \E source \in Sources \ app.indexed :
          /\ \A other \in Sources \ app.indexed : other = source \/ BySourceOrder(source, other)
          /\ app' = IF Refuses(app.registry, source)
                    THEN [app EXCEPT !.at = "refused", !.registry = NoRegistry]
                    ELSE [app EXCEPT !.indexed = @ \cup {source},
                                     !.registry = Index(app.registry, source)]
    /\ UNCHANGED <<files, store, confirmed, approver, offered, drive, probing, verified, edits, starts>>

\* ProfileRegistry::load returns
RegistryLoaded ==
    /\ Scanned /\ Sources \subseteq app.indexed
    /\ app' = [app EXCEPT !.at = "up"]
    /\ UNCHANGED <<files, store, confirmed, approver, offered, drive, probing, verified, edits, starts>>

-----------------------------------------------------------------------------
(***************************************************************************)
(* Identification: the probes of the selected profile, one bus read each.  *)
(***************************************************************************)

IdentifyProfile(id) ==
    /\ app.at = "up" /\ id \in DOMAIN app.registry /\ probing.at = "none"
    /\ probing' = [at |-> "probe", id |-> id, seen |-> NoRegistry]
    /\ UNCHANGED <<files, store, confirmed, approver, app, offered, drive, verified, edits, starts>>

Selected == ProbesOf[app.registry[probing.id].profile]

\* one probe; a bus error ends the attempt without an identity
Probe(b, good) ==
    /\ probing.at = "probe" /\ b \in DOMAIN Selected \ DOMAIN probing.seen
    /\ probing' = IF good
                  THEN [probing EXCEPT !.seen = Put(@, b, drive[b])]
                  ELSE NoProbing
    /\ UNCHANGED <<files, store, confirmed, approver, app, offered, drive, verified, edits, starts>>

\* mutant: another profile is compared by what it expects, not by what was read
MatchesObserved_Expected(profile, seen) ==
    ProbesOf[profile] = Selected

\* profile_matches_observed
MatchesObserved(profile, seen) ==
    /\ DOMAIN ProbesOf[profile] # {}
    /\ Cardinality(DOMAIN ProbesOf[profile]) = Cardinality(DOMAIN seen)
    /\ \A b \in DOMAIN ProbesOf[profile] : b \in DOMAIN seen /\ seen[b] \in ProbesOf[profile][b]

\* Match, Partial or Mismatch; a Match that another candidate shares is
\* Ambiguous, and only a Match has a verified identity
Outcome ==
    LET matched == {b \in DOMAIN Selected : probing.seen[b] \in Selected[b]}
    IN  IF DOMAIN Selected = {} THEN "Error"
        ELSE IF matched = {} THEN "Mismatch"
        ELSE IF matched # DOMAIN Selected THEN "Partial"
        ELSE IF \E id \in DOMAIN app.registry \ {probing.id} :
                    MatchesObserved(app.registry[id].profile, probing.seen) THEN "Ambiguous"
        ELSE "Match"

ProbesDone ==
    /\ probing.at = "probe" /\ DOMAIN probing.seen = DOMAIN Selected
    /\ probing' = NoProbing
    /\ verified' = IF Outcome = "Match" THEN verified \cup {probing.id} ELSE verified
    /\ UNCHANGED <<files, store, confirmed, approver, app, offered, drive, edits, starts>>

-----------------------------------------------------------------------------
(***************************************************************************)
(* Trust, asked when a write is prepared and again when it is confirmed.   *)
(* The file is read first and the store after it.                          *)
(***************************************************************************)

\* entry_is_current
EntryIsCurrent(entry) == files[entry.path] = entry.profile

\* mutant: an approval is looked up by the profile's id
LocalApprovalMatches_ById(entry) ==
    IdOf[entry.profile] \in DOMAIN store.approvals

\* local_approval_matches reads the store anew
LocalApprovalMatches(entry) ==
    \E id \in DOMAIN store.approvals : store.approvals[id] = entry.profile

\* active_profile_by_hash and the first half of is_trusted
TrustReadsFile(id, from, to) ==
    /\ app.at = "up" /\ id \in verified /\ offered.at = from
    /\ LET entry == app.registry[id]
       IN  offered' = IF EntryIsCurrent(entry) THEN [at |-> to, profile |-> entry.profile] ELSE NoOffer
    /\ UNCHANGED <<files, store, confirmed, approver, app, drive, probing, verified, edits, starts>>

\* the second half: a packaged profile needs no approval
TrustReadsStore(from, to) ==
    /\ offered.at = from
    /\ LET entry == app.registry[IdOf[offered.profile]]
       IN  offered' = IF entry.origin = "Packaged" \/ LocalApprovalMatches(entry)
                      THEN [offered EXCEPT !.at = to] ELSE NoOffer
    /\ UNCHANGED <<files, store, confirmed, approver, app, drive, probing, verified, edits, starts>>

Prepare(id) == TrustReadsFile(id, "none", "prepare")
Prepared == TrustReadsStore("prepare", "ready")
Confirm == \E id \in verified : id = IdOf[offered.profile] /\ TrustReadsFile(id, "ready", "confirm")
Confirmed == TrustReadsStore("confirm", "written")

ProfilesNext ==
    \/ \E p \in Paths, content \in Bodies \cup NoFile : EditFile(p, content)
    \/ \E content \in {NoStore, BadStore} : EditStore(content)
    \/ \E p \in Approvers :
          \/ ApproveLoad(p) \/ ApproveStore(p)
          \/ \E path \in Paths, typed \in Bodies : ApproveRead(p, path, typed)
    \/ StartScan \/ ScanFile \/ FromSources \/ RegistryLoaded
    \/ \E id \in DOMAIN app.registry : IdentifyProfile(id) \/ Prepare(id)
    \/ \E b \in DOMAIN drive, good \in BOOLEAN : Probe(b, good)
    \/ ProbesDone
    \/ Prepared \/ (offered.at = "ready" /\ Confirm) \/ Confirmed

ProfilesSpec == ProfilesInit /\ [][ProfilesNext]_profileVars

-----------------------------------------------------------------------------
(***************************************************************************)
(* Properties.                                                             *)
(***************************************************************************)

WrittenIsApproved ==
    offered.at = "written" =>
        \/ offered.profile \in confirmed
        \/ /\ offered.profile \in Manifest
           /\ TierOf[app.registry[IdOf[offered.profile]].path] = 0

RegistryPrefersHighestTier ==
    LET Same(s, t) == s # t /\ IdOf[s.profile] = IdOf[t.profile] /\ TierOf[s.path] = TierOf[t.path]
        clean == /\ \A s \in Sources : s.profile \in Bodies
                 /\ ~\E s, t \in Sources : Same(s, t)
    IN  /\ app.at = "refused" => ~clean
        /\ app.at = "up" =>
              /\ clean
              /\ DOMAIN app.registry = {IdOf[s.profile] : s \in Sources}
              /\ \A s \in Sources : TierOf[app.registry[IdOf[s.profile]].path] >= TierOf[s.path]
              /\ \A id \in DOMAIN app.registry :
                    [path |-> app.registry[id].path, profile |-> app.registry[id].profile] \in Sources

\* A write is made only under a profile that the binary's manifest names and
\* that was read from the system directory, or whose very content the operator
\* has confirmed by its hash: however files are edited during the scan, between
\* preparation and confirmation or between two starts, and whatever two
\* approve commands do to the store at the same time (is_trusted,
\* profile_trust.rs:131; docs/writes-trust-audit.md:18).  The registry is what the
\* tiers promise of the files as they were read: every id, each with the source of
\* its highest tier, and no start at all with an invalid file or with two files of
\* one id in one tier (from_sources, profile_registry.rs:117).
TrustFollowsFiles == WrittenIsApproved /\ RegistryPrefersHighestTier

\* A drive is not verified as two things: of the profiles that probe the same
\* blocks at most one is ever verified on it, in whatever order the operator
\* tries them (identify_profile_via_bus_with_clock, identification.rs:153).
TwinsAreNotVerified ==
    \A i, j \in verified :
        DOMAIN ProbesOf[app.registry[i].profile] = DOMAIN ProbesOf[app.registry[j].profile] => i = j
================================================================================

---------------------------- MODULE MCAuditJournal ----------------------------
(***************************************************************************)
(* What a guarded write rests on in storage, for TLC: the audit journal    *)
(* and the trust in a profile, which share no state.  A behaviour is one   *)
(* of AuditJournal, on a journal of a few lines with a restart in between, *)
(* or one of Profiles, with the other at rest.  Of the profiles a1 is      *)
(* packaged and a2 takes its id and probes one block more.                 *)
(***************************************************************************)
EXTENDS AuditJournal, Profiles

MCProfileFiles == <<"d", "s", "u">>
MCTierOf == "d" :> 1 @@ "s" :> 0 @@ "u" :> 1
MCIdOf == "a1" :> "a" @@ "a2" :> "a" @@ "b1" :> "b"
MCProbesOf == "a1" :> (1 :> {0}) @@ "a2" :> (1 :> {0} @@ 2 :> {1}) @@ "b1" :> (1 :> {0, 1})
MCContents ==
    <<"s" :> "a1" @@ "u" :> "a2" @@ "d" :> "b1",
      "s" :> "b1" @@ "u" :> "absent" @@ "d" :> "a1">>
MCDrives == {1 :> 0 @@ 2 :> 1, 1 :> 1 @@ 2 :> 0}

MCInit == Init /\ (ProfilesIdle \/ ProfilesInit)

MCNext ==
    \/ drive = NoRegistry /\ Next /\ UNCHANGED profileVars
    \/ drive # NoRegistry /\ ProfilesNext /\ UNCHANGED vars

MCSpec == MCInit /\ [][MCNext]_<<vars, profileVars>>
=============================================================================

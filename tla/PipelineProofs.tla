--------------------------- MODULE PipelineProofs ---------------------------
(***************************************************************************)
(* Theorems about what runs outside the session: the updater, for any      *)
(* versions and any number of updates; the collection and download of the  *)
(* icons; the phases of the workflow; and the types of all the components  *)
(* that keep records of their own.                                         *)
(***************************************************************************)
EXTENDS RecordKeepers, PhasePipeline, PanelProofs, LocalizationProofs,
        CollectionsProofs, FiniteSetTheorems, TLAPS, SequenceTheorems

-----------------------------------------------------------------------------
(* The updater.  Its properties are about particular points of runUpdate; the   *)
(* invariant UInv says what holds at every one of them: which points have a     *)
(* staged version and which version it is, the trace so far, and when the       *)
(* staging directory and the host's record may differ from what they should be. *)

(* Before staging nothing is staged by this run; after it, the candidate is. *)
StageInv ==
  /\ updHost.staged = NoVersion
  /\ upd.pc \in {"download", "stage"} => upd.staged = NoVersion
  /\ upd.pc \in {"smoke-test", "activate"} =>
       upd.staged = upd.version /\ updDisk.staged = upd.version

(* The trace at each point where something is awaited on the way to a switch. *)
TraceInv ==
  /\ upd.pc = "download" => upd.steps = <<"download">>
  /\ upd.pc = "stage" => upd.steps = <<"download", "verify", "stage">>
  /\ upd.pc = "smoke-test" => upd.steps = <<"download", "verify", "stage", "smoke-test">>
  /\ upd.pc = "activate" =>
       upd.steps = <<"download", "verify", "stage", "smoke-test", "activate">>

(* What was left behind is accounted for, also while the next run has not       *)
(* touched it.                                                                  *)
DirtyInv ==
  /\ upd.pc \in {"idle", "download", "stage"} =>
       ("staging" \notin updDirty => updDisk.staged = NoVersion)
  /\ "active" \notin updDirty => updHost.active = updDisk.active

UInv == UpdaterTypeOK /\ StageInv /\ TraceInv /\ DirtyInv

-----------------------------------------------------------------------------
(* Literal traces: appending to one, and joining two, gives the literal longer  *)
(* one.  The step names are what runUpdate and rollback push.                   *)
LEMMA AppendToOne == ASSUME NEW a, NEW b
                     PROVE  Append(<<a>>, b) = <<a, b>>
  <1>. DEFINE S == {a, b}
              s == Append(<<a>>, b)
  <1>1. <<a>> \in Seq(S) /\ <<a, b>> \in Seq(S) /\ Len(<<a>>) = 1 /\ Len(<<a, b>>) = 2
    OBVIOUS
  <1>2. s \in Seq(S) /\ Len(s) = 2 /\ s[2] = b /\ \A i \in 1..1 : s[i] = <<a>>[i]
    BY <1>1, AppendProperties
  <1>3. \A i \in 1..Len(s) : s[i] = <<a, b>>[i]
    BY <1>2
  <1>. HIDE DEF s
  <1>4. s = <<a, b>>
    BY <1>1, <1>2, <1>3, SeqEqual, Zenon
  <1>. QED BY <1>4 DEF s

LEMMA AppendToTwo == ASSUME NEW a, NEW b, NEW c
                     PROVE  Append(<<a, b>>, c) = <<a, b, c>>
  <1>. DEFINE S == {a, b, c}
              s == Append(<<a, b>>, c)
  <1>1. /\ <<a, b>> \in Seq(S) /\ <<a, b, c>> \in Seq(S)
        /\ Len(<<a, b>>) = 2 /\ Len(<<a, b, c>>) = 3
    OBVIOUS
  <1>2. s \in Seq(S) /\ Len(s) = 3 /\ s[3] = c /\ \A i \in 1..2 : s[i] = <<a, b>>[i]
    BY <1>1, AppendProperties
  <1>3. \A i \in 1..Len(s) : s[i] = <<a, b, c>>[i]
    BY <1>2
  <1>. HIDE DEF s
  <1>4. s = <<a, b, c>>
    BY <1>1, <1>2, <1>3, SeqEqual, Zenon
  <1>. QED BY <1>4 DEF s

LEMMA AppendToThree == ASSUME NEW a, NEW b, NEW c, NEW d
                       PROVE  Append(<<a, b, c>>, d) = <<a, b, c, d>>
  <1>. DEFINE S == {a, b, c, d}
              s == Append(<<a, b, c>>, d)
  <1>1. /\ <<a, b, c>> \in Seq(S) /\ <<a, b, c, d>> \in Seq(S)
        /\ Len(<<a, b, c>>) = 3 /\ Len(<<a, b, c, d>>) = 4
    OBVIOUS
  <1>2. s \in Seq(S) /\ Len(s) = 4 /\ s[4] = d /\ \A i \in 1..3 : s[i] = <<a, b, c>>[i]
    BY <1>1, AppendProperties
  <1>3. \A i \in 1..Len(s) : s[i] = <<a, b, c, d>>[i]
    BY <1>2
  <1>. HIDE DEF s
  <1>4. s = <<a, b, c, d>>
    BY <1>1, <1>2, <1>3, SeqEqual, Zenon
  <1>. QED BY <1>4 DEF s

LEMMA AppendToFour ==
  ASSUME NEW a, NEW b, NEW c, NEW d, NEW e
  PROVE  Append(<<a, b, c, d>>, e) = <<a, b, c, d, e>>
  <1>. DEFINE S == {a, b, c, d, e}
              s == Append(<<a, b, c, d>>, e)
  <1>1. /\ <<a, b, c, d>> \in Seq(S) /\ <<a, b, c, d, e>> \in Seq(S)
        /\ Len(<<a, b, c, d>>) = 4 /\ Len(<<a, b, c, d, e>>) = 5
    OBVIOUS
  <1>2. s \in Seq(S) /\ Len(s) = 5 /\ s[5] = e /\ \A i \in 1..4 : s[i] = <<a, b, c, d>>[i]
    BY <1>1, AppendProperties
  <1>3. \A i \in 1..Len(s) : s[i] = <<a, b, c, d, e>>[i]
    BY <1>2
  <1>. HIDE DEF s
  <1>4. s = <<a, b, c, d, e>>
    BY <1>1, <1>2, <1>3, SeqEqual, Zenon
  <1>. QED BY <1>4 DEF s

LEMMA OneThenTwo == ASSUME NEW a, NEW b, NEW c
                    PROVE  <<a>> \o <<b, c>> = <<a, b, c>>
  <1>. DEFINE S == {a, b, c}
              s == <<a>> \o <<b, c>>
  <1>1. /\ <<a>> \in Seq(S) /\ <<b, c>> \in Seq(S) /\ <<a, b, c>> \in Seq(S)
    OBVIOUS
  <1>2. /\ s \in Seq(S) /\ Len(s) = Len(<<a, b, c>>)
        /\ \A i \in 1..Len(s) : s[i] = IF i <= 1 THEN <<a>>[i] ELSE <<b, c>>[i - 1]
    BY <1>1, ConcatProperties
  <1>3. \A i \in 1..Len(s) : s[i] = <<a, b, c>>[i]
    BY <1>2
  <1>. HIDE DEF s
  <1>4. s = <<a, b, c>>
    BY <1>1, <1>2, <1>3, SeqEqual, Zenon
  <1>. QED BY <1>4 DEF s

(* The traces that the steps of runUpdate build. *)
LEMMA TraceSteps ==
  /\ <<"download">> \o <<"verify", "stage">> = <<"download", "verify", "stage">>
  /\ Append(<<"download">>, "verify") = <<"download", "verify">>
  /\ Append(<<"download", "verify">>, "rollback") = <<"download", "verify", "rollback">>
  /\ Append(<<"download", "verify", "stage">>, "smoke-test")
       = <<"download", "verify", "stage", "smoke-test">>
  /\ Append(<<"download", "verify", "stage", "smoke-test">>, "activate")
       = <<"download", "verify", "stage", "smoke-test", "activate">>
  /\ Append(<<"download", "verify", "stage", "smoke-test">>, "rollback")
       = <<"download", "verify", "stage", "smoke-test", "rollback">>
  <1>1. <<"download">> \o <<"verify", "stage">> = <<"download", "verify", "stage">>
    BY OneThenTwo, Zenon
  <1>2. Append(<<"download">>, "verify") = <<"download", "verify">>
    BY AppendToOne, Zenon
  <1>3. Append(<<"download", "verify">>, "rollback") = <<"download", "verify", "rollback">>
    BY AppendToTwo, Zenon
  <1>4. Append(<<"download", "verify", "stage">>, "smoke-test")
          = <<"download", "verify", "stage", "smoke-test">>
    BY AppendToThree, Zenon
  <1>5. Append(<<"download", "verify", "stage", "smoke-test">>, "activate")
          = <<"download", "verify", "stage", "smoke-test", "activate">>
    BY AppendToFour, Zenon
  <1>6. Append(<<"download", "verify", "stage", "smoke-test">>, "rollback")
          = <<"download", "verify", "stage", "smoke-test", "rollback">>
    BY AppendToFour, Zenon
  <1>. QED BY <1>1, <1>2, <1>3, <1>4, <1>5, <1>6, Zenon

-----------------------------------------------------------------------------
(* UInv holds at first. *)
LEMMA UInvInit == UpdaterInit => UInv
  BY UpdaterAssumption DEF UpdaterInit, UInv, UpdaterTypeOK, StageInv, TraceInv, DirtyInv,
     NoUpdate, States, Updates, Pcs, Traces, Outcomes, Channels

(* The feed of a channel is one of the table's, unless the lookup throws. *)
LEMMA FeedOfChannel ==
  ASSUME NEW id, UpdateFeed(id) # "throws" PROVE UpdateFeed(id) \in Channels
  BY DEF UpdateFeed, Channels

LEMMA CheckKeeps ==
  ASSUME UInv, NEW id \in Channels \cup {"nightly"}, NEW v \in Versions, Check(id, v)
  PROVE  UInv'
  <1>1. CASE UpdateFeed(id) = "throws"
    BY <1>1, UpdaterAssumption DEF Check, UInv, UpdaterTypeOK, StageInv, TraceInv, DirtyInv,
       NoUpdate, States, Updates, Pcs, Traces, Outcomes, Channels
  <1>2. CASE UpdateFeed(id) # "throws"
    <2>1. UpdateFeed(id) \in Channels
      BY <1>2, FeedOfChannel
    <2>. QED
      BY <1>2, <2>1, UpdaterAssumption, ZenonT(40) DEF Check, UInv, UpdaterTypeOK, StageInv, TraceInv, DirtyInv,
         NoUpdate, States, Updates, Pcs, Traces, Outcomes
  <1>. QED BY <1>1, <1>2

LEMMA DownloadedKeeps ==
  ASSUME UInv, NEW genuine \in BOOLEAN, Downloaded(genuine)
  PROVE  UInv'
  <1>1. CASE genuine
    <2>1. upd' = [upd EXCEPT !.pc = "stage", !.steps = <<"download", "verify", "stage">>]
      BY <1>1, TraceSteps DEF Downloaded, UInv, TraceInv, UpdaterTypeOK, Updates
    <2>. QED
      BY <1>1, <2>1 DEF Downloaded, UInv, UpdaterTypeOK, StageInv, TraceInv, DirtyInv,
         States, Updates, Pcs, Traces, Outcomes
  <1>2. CASE ~genuine
    <2>1. /\ upd' = [upd EXCEPT !.pc = "idle", !.outcome = "rolled-back",
                                !.steps = <<"download", "verify", "rollback">>]
          /\ updHost' = [active |-> updHost.active, staged |-> NoVersion]
      <3>1. upd.staged = NoVersion /\ upd.steps = <<"download">>
        BY DEF Downloaded, UInv, StageInv, TraceInv
      <3>2. Append(Append(upd.steps, "verify"), "rollback") = <<"download", "verify", "rollback">>
        BY <3>1, TraceSteps, Zenon
      <3>. QED BY <1>2, <3>1, <3>2 DEF Downloaded, Rollback, Finish, RolledBack
    <2>. QED
      BY <1>2, <2>1 DEF Downloaded, UInv, UpdaterTypeOK, StageInv, TraceInv, DirtyInv,
         States, Updates, Pcs, Traces, Outcomes
  <1>. QED BY <1>1, <1>2

LEMMA StagedKeeps ==
  ASSUME UInv, Staged
  PROVE  UInv'
  <1>1. upd' = [upd EXCEPT !.pc = "smoke-test", !.staged = upd.version,
                           !.steps = <<"download", "verify", "stage", "smoke-test">>]
    BY TraceSteps DEF Staged, UInv, TraceInv, UpdaterTypeOK, Updates
  <1>. QED
    BY <1>1 DEF Staged, UInv, UpdaterTypeOK, StageInv, TraceInv, DirtyInv,
     States, Updates, Pcs, Traces, Outcomes

LEMMA SmokeTestedKeeps ==
  ASSUME UInv, NEW passed \in BOOLEAN, SmokeTested(passed)
  PROVE  UInv'
  <1>1. CASE passed
    <2>1. upd' = [upd EXCEPT !.pc = "activate",
                  !.steps = <<"download", "verify", "stage", "smoke-test", "activate">>]
      BY <1>1, TraceSteps DEF SmokeTested, Await, UInv, TraceInv, UpdaterTypeOK, Updates
    <2>. QED
      BY <1>1, <2>1 DEF SmokeTested, UInv, UpdaterTypeOK, StageInv, TraceInv, DirtyInv,
         States, Updates, Pcs, Traces, Outcomes
  <1>2. CASE ~passed
    <2>1. upd.staged # NoVersion
      BY UpdaterAssumption DEF SmokeTested, UInv, UpdaterTypeOK, StageInv
    <2>2. /\ upd' = [upd EXCEPT !.pc = "discard",
                     !.steps = <<"download", "verify", "stage", "smoke-test", "rollback">>]
          /\ updHost' = updHost
      BY <1>2, <2>1, TraceSteps DEF SmokeTested, Rollback, UInv, TraceInv, UpdaterTypeOK, Updates
    <2>. QED
      BY <1>2, <2>2 DEF SmokeTested, UInv, UpdaterTypeOK, StageInv, TraceInv, DirtyInv,
         States, Updates, Pcs, Traces, Outcomes
  <1>. QED BY <1>1, <1>2

LEMMA ActivatedKeeps ==
  ASSUME UInv, Activated
  PROVE  UInv'
  BY DEF Activated, Finish, UInv, UpdaterTypeOK, StageInv, TraceInv, DirtyInv,
     States, Updates, Pcs, Traces, Outcomes

LEMMA DiscardedKeeps ==
  ASSUME UInv, Discarded
  PROVE  UInv'
  BY DEF Discarded, Finish, RolledBack, UInv, UpdaterTypeOK, StageInv, TraceInv, DirtyInv,
     States, Updates, Pcs, Traces, Outcomes

(* A call that rejects leaves the disk as it was, or with the effect it had. *)
LEMMA ThrowsEffect ==
  ASSUME UInv, Throws
  PROVE  \/ updDisk' = updDisk
         \/ upd.pc = "stage" /\ updDisk' = [updDisk EXCEPT !.staged = upd.version]
         \/ upd.pc = "activate" /\ updDisk' = [active |-> upd.version, staged |-> NoVersion]
         \/ upd.pc = "discard" /\ updDisk' = [updDisk EXCEPT !.staged = NoVersion]
  <1>1. upd.pc \in Pcs
    BY DEF UInv, UpdaterTypeOK, Updates
  <1>. QED BY <1>1 DEF Throws, Pcs

LEMMA ThrowsKeeps ==
  ASSUME UInv, Throws
  PROVE  UInv'
  <1>1. /\ updDisk' \in States
        /\ updDisk'.active # updDisk.active => upd.pc = "activate"
    BY ThrowsEffect DEF UInv, UpdaterTypeOK, States, Throws
  <1>2. upd.pc = "download" => updDisk' = updDisk
    BY ThrowsEffect
  <1>3. /\ upd.pc # "download" => "staging" \in updDirty'
        /\ upd.pc = "activate" => "active" \in updDirty'
        /\ updDirty \subseteq updDirty'
        /\ updDirty' \subseteq {"staging", "active"}
        /\ upd.pc = "download" => updDirty' = updDirty
    BY DEF Throws, UInv, UpdaterTypeOK
  <1>4. /\ upd' = [upd EXCEPT !.pc = "idle", !.outcome = "thrown"]
        /\ updHost' = updHost
        /\ upd.pc # "idle"
    BY DEF Throws
  <1>5. UpdaterTypeOK'
    BY <1>1, <1>3, <1>4 DEF UInv, UpdaterTypeOK, Updates, Pcs, Outcomes
  <1>6. StageInv' /\ TraceInv'
    BY <1>4 DEF UInv, UpdaterTypeOK, Updates, StageInv, TraceInv
  <1>7. DirtyInv'
    BY <1>1, <1>2, <1>3, <1>4 DEF UInv, UpdaterTypeOK, Updates, DirtyInv
  <1>. QED BY <1>5, <1>6, <1>7 DEF UInv

(* UInv is inductive. *)
LEMMA UInvNext == UInv /\ [UpdaterNext]_updVars => UInv'
  <1>. SUFFICES ASSUME UInv, [UpdaterNext]_updVars PROVE UInv'
    OBVIOUS
  <1>1. CASE \E id \in Channels \cup {"nightly"}, v \in Versions : Check(id, v)
    BY <1>1, CheckKeeps
  <1>2. CASE \E genuine \in BOOLEAN : Downloaded(genuine)
    BY <1>2, DownloadedKeeps
  <1>3. CASE Staged
    BY <1>3, StagedKeeps
  <1>4. CASE \E passed \in BOOLEAN : SmokeTested(passed)
    BY <1>4, SmokeTestedKeeps
  <1>5. CASE Activated
    BY <1>5, ActivatedKeeps
  <1>6. CASE Discarded
    BY <1>6, DiscardedKeeps
  <1>7. CASE Throws
    BY <1>7, ThrowsKeeps
  <1>8. CASE UNCHANGED updVars
    BY <1>8 DEF updVars, UInv, UpdaterTypeOK, StageInv, TraceInv, DirtyInv
  <1>. QED
    BY <1>1, <1>2, <1>3, <1>4, <1>5, <1>6, <1>7, <1>8 DEF UpdaterNext

(* UInv holds throughout: at every point of runUpdate. *)
LEMMA Invariance == UpdaterSpec => []UInv
  BY UInvInit, UInvNext, PTL DEF UpdaterSpec

-----------------------------------------------------------------------------
(* The host's record, the disk and the run of an update keep their types, and a *)
(* run on its way has a candidate.                                              *)
THEOREM UpdaterTypes == UpdaterSpec => []UpdaterTypeOK
  <1>1. UInv => UpdaterTypeOK
    BY DEF UInv
  <1>. QED BY <1>1, Invariance, PTL

(* Between updates, nothing is staged and the host knows the active version,    *)
(* unless a call that rejected is to blame (updater.ts runUpdate, rollback).    *)
THEOREM LeftoversHaveACause == UpdaterSpec => []OnlyAThrowLeavesSomethingBehind
  <1>1. UInv => OnlyAThrowLeavesSomethingBehind
    BY DEF UInv, DirtyInv, OnlyAThrowLeavesSomethingBehind
  <1>. QED BY <1>1, Invariance, PTL

(* The version about to be activated is the one staged, verified and tested     *)
(* (updater.ts runUpdate).                                                      *)
THEOREM TestedBeforeActivation == UpdaterSpec => []ActivatesWhatWasTested
  <1>1. UInv => ActivatesWhatWasTested
    BY DEF UInv, StageInv, TraceInv, ActivatesWhatWasTested
  <1>. QED BY <1>1, Invariance, PTL

-----------------------------------------------------------------------------
(* The version that the mapping calls vetted. *)
Vetted == IF upd.pc = "activate" THEN upd.version ELSE NoVersion

LEMMA MapsInit == UpdaterInit => A!Init
  BY UpdaterAssumption DEF UpdaterInit, NoUpdate, A!Init

(* A step that changes neither the active version nor what is vetted is a stutter. *)
LEMMA MapsStutter ==
  ASSUME UNCHANGED <<updDisk.active, Vetted>>
  PROVE  [A!Next]_<<updDisk.active, Vetted>>
  OBVIOUS

(* Every step of runUpdate is a step of the abstract switch, or changes neither *)
(* the active version nor what is vetted.                                       *)
LEMMA MapsNext ==
  ASSUME UInv, [UpdaterNext]_updVars
  PROVE  [A!Next]_<<updDisk.active, Vetted>>
  <1>0. upd \in Updates /\ updDisk \in States /\ (upd.pc # "idle" => upd.version \in Versions)
    BY DEF UInv, UpdaterTypeOK
  <1>1. CASE \E id \in Channels \cup {"nightly"}, v \in Versions : Check(id, v)
    <2>1. PICK id \in Channels \cup {"nightly"}, v \in Versions : Check(id, v)
      BY <1>1
    <2>. QED BY <2>1, MapsStutter DEF Check, NoUpdate, Vetted
  <1>2. CASE \E genuine \in BOOLEAN : Downloaded(genuine)
    BY <1>0, <1>2, MapsStutter DEF Downloaded, Rollback, Finish, Vetted, Updates
  <1>3. CASE Staged
    BY <1>0, <1>3, MapsStutter DEF Staged, Vetted, Updates, States
  <1>4. CASE \E passed \in BOOLEAN : SmokeTested(passed)
    <2>1. PICK passed \in BOOLEAN : SmokeTested(passed)
      BY <1>4
    <2>2. CASE passed
      <3>1. Vetted = NoVersion /\ Vetted' = upd.version /\ upd.version \in Versions
        BY <1>0, <2>1, <2>2 DEF SmokeTested, Await, Vetted, Updates
      <3>. QED BY <2>1, <3>1 DEF SmokeTested, A!Next, A!Vet, Vetted
    <2>3. CASE ~passed
      BY <1>0, <2>1, <2>3, MapsStutter DEF SmokeTested, Rollback, Finish, Vetted, Updates
    <2>. QED BY <2>2, <2>3
  <1>5. CASE Activated
    <2>1. Vetted = upd.version /\ Vetted' = NoVersion /\ updDisk'.active = upd.version
      BY <1>0, <1>5 DEF Activated, Finish, Vetted, Updates
    <2>2. Vetted # NoVersion
      BY <1>0, <1>5, <2>1, UpdaterAssumption DEF Activated
    <2>. QED BY <2>1, <2>2 DEF A!Next, A!Adopt, Vetted
  <1>6. CASE Discarded
    BY <1>0, <1>6, MapsStutter DEF Discarded, Finish, Vetted, Updates, States
  <1>7. CASE Throws
    <2>1. Vetted' = NoVersion /\ upd.pc # "idle"
      BY <1>0, <1>7 DEF Throws, Vetted, Updates
    <2>2. CASE updDisk'.active = updDisk.active
      BY <2>1, <2>2 DEF A!Next, A!Drop, Vetted
    <2>3. CASE updDisk'.active # updDisk.active
      <3>1. upd.pc = "activate" /\ updDisk'.active = upd.version
        BY <1>0, <1>7, <2>3, ThrowsEffect DEF States
      <3>2. Vetted = upd.version /\ Vetted # NoVersion
        BY <1>0, <3>1, UpdaterAssumption DEF Vetted
      <3>. QED BY <2>1, <3>1, <3>2 DEF A!Next, A!Adopt, Vetted
    <2>. QED BY <2>2, <2>3
  <1>8. CASE UNCHANGED updVars
    BY <1>8, MapsStutter DEF updVars, Vetted
  <1>. QED
    BY <1>1, <1>2, <1>3, <1>4, <1>5, <1>6, <1>7, <1>8 DEF UpdaterNext

(* The updater implements the atomic switch of AtomicUpdate, whatever calls of  *)
(* its environment reject.                                                      *)
THEOREM ImplementsAtomicUpdate == UpdaterSpec => SwitchesAtomically
  <1>1. UInv /\ [UpdaterNext]_updVars => [A!Next]_<<updDisk.active, Vetted>>
    BY MapsNext
  <1>. QED BY <1>1, MapsInit, Invariance, PTL DEF UpdaterSpec, SwitchesAtomically, A!Spec, Vetted

-----------------------------------------------------------------------------
(* Collecting: the ids of the terms. *)
Terms == [id : STRING \X STRING, domain : STRING, url : Urls]

(* No id is given twice. *)
Apart(terms) == \A i, j \in 1 .. Len(terms) : terms[i].id = terms[j].id => i = j

(* A page holds cards the site had on it at some time. *)
Seen(page, where) ==
  /\ page \in Seq(Cards)
  /\ \A k \in 1 .. Len(page) : \E t \in DOMAIN SitePages :
       \E l \in DOMAIN SitePages[t][where] : page[k] = SitePages[t][where][l]

LEMMA ParsedCards ==
  ASSUME NEW page \in Seq(Cards), NEW where, Seen(page, where)
  PROVE  /\ Seen(parseCards(page), where)
         /\ \A i, j \in 1 .. Len(parseCards(page)) : parseCards(page)[i].slug = parseCards(page)[j].slug => i = j
  <1>. DEFINE firsts == {i \in DOMAIN page : \A j \in 1 .. i - 1 : page[j].slug # page[i].slug}
              P == parseCards(page)
  <1>1. P = Picked(page, firsts)
    BY DEF parseCards
  <1>. HIDE DEF P
  <1>2. P \in Seq(Cards) /\ Len(P) \in Nat /\ Len(page) \in Nat
    BY <1>1, PickedPlaces, LenProperties
  <1>3. PICK at : PickedAt(page, firsts, P, at)
    BY <1>1, PickedPlaces
  <1>4. \A i \in 1 .. Len(P) : at[i] \in 1 .. Len(page) /\ P[i] = page[at[i]] /\ at[i] \in firsts
    BY <1>3 DEF PickedAt
  <1>5. Seen(P, where)
    BY <1>2, <1>4, SMTT(30) DEF Seen
  <1>6. ASSUME NEW i \in 1 .. Len(P), NEW j \in 1 .. Len(P), P[i].slug = P[j].slug
        PROVE  i = j
    <2>1. page[at[i]].slug = page[at[j]].slug
      BY <1>4, <1>6
    <2>2. ~(at[i] \in 1 .. at[j] - 1) /\ ~(at[j] \in 1 .. at[i] - 1)
      BY <1>4, <2>1
    <2>3. at[i] = at[j]
      BY <1>4, <2>2
    <2>. QED BY <1>2, <1>3, <2>3, PickedApart
  <1>. QED BY <1>5, <1>6 DEF P

LEMMA PairedCards ==
  ASSUME NEW kr \in Seq(Cards), NEW us \in Seq(Cards), NEW domain \in STRING,
         \A i, j \in 1 .. Len(kr) : kr[i].slug = kr[j].slug => i = j
  PROVE  /\ pairCards(kr, us, domain) \in Seq(Terms)
         /\ Apart(pairCards(kr, us, domain))
         /\ \A i \in 1 .. Len(pairCards(kr, us, domain)) :
              \E k \in 1 .. Len(kr) : pairCards(kr, us, domain)[i].id = <<domain, kr[k].slug>>
  <1>. DEFINE of(card) == {j \in DOMAIN us : us[j].slug = card.slug}
              both == {i \in DOMAIN kr : of(kr[i]) # {}}
              paired == Picked(kr, both)
              url(card) == IF card.icon # NoUrl THEN card.icon ELSE us[CHOOSE j \in of(card) : TRUE].icon
              T == pairCards(kr, us, domain)
  <1>1. T = [i \in DOMAIN paired |-> [id |-> <<domain, paired[i].slug>>, domain |-> domain,
                                      url |-> url(paired[i])]]
    BY DEF pairCards
  <1>. HIDE DEF T
  <1>2. \A i \in 1 .. Len(kr) : i \in both => url(kr[i]) \in Urls
    <2>1. ASSUME NEW i \in 1 .. Len(kr), i \in both PROVE url(kr[i]) \in Urls
      <3>1. kr[i] \in Cards
        BY ElementOfSeq
      <3>2. (CHOOSE j \in of(kr[i]) : TRUE) \in DOMAIN us
        BY <2>1
      <3>3. us[CHOOSE j \in of(kr[i]) : TRUE] \in Cards
        BY <3>2, LenProperties, ElementOfSeq
      <3>. QED BY <3>1, <3>3 DEF Cards
    <2>. QED BY <2>1
  <1>. HIDE DEF both, url
  <1>3. paired \in Seq(Cards) /\ Len(paired) \in Nat /\ DOMAIN paired = 1 .. Len(paired)
    BY PickedPlaces, LenProperties
  <1>4. PICK at : PickedAt(kr, both, paired, at)
    BY PickedPlaces
  <1>. HIDE DEF paired
  <1>5. \A i \in 1 .. Len(paired) : at[i] \in 1 .. Len(kr) /\ paired[i] = kr[at[i]] /\ at[i] \in both
    BY <1>4 DEF PickedAt
  <1>6. \A i \in 1 .. Len(paired) : paired[i] \in Cards /\ url(paired[i]) \in Urls
    BY <1>2, <1>3, <1>5, ElementOfSeq
  <1>7. \A i \in 1 .. Len(paired) :
          /\ T[i] \in Terms /\ T[i].id = <<domain, paired[i].slug>>
    <2>1. ASSUME NEW i \in 1 .. Len(paired)
          PROVE  T[i] \in Terms /\ T[i].id = <<domain, paired[i].slug>>
      <3>1. T[i] = [id |-> <<domain, paired[i].slug>>, domain |-> domain, url |-> url(paired[i])]
        BY <1>1, <1>3
      <3>2. paired[i].slug \in STRING
        BY <1>6 DEF Cards
      <3>. QED BY <1>6, <3>1, <3>2 DEF Terms
    <2>. QED BY <2>1
  <1>8. T \in Seq(Terms) /\ Len(T) = Len(paired)
    <2>1. T = [i \in 1 .. Len(paired) |-> T[i]]
      BY <1>1, <1>3
    <2>. QED BY <1>3, <1>7, <2>1, IsASeq
  <1>9. Apart(T)
    <2>1. ASSUME NEW i \in 1 .. Len(paired), NEW j \in 1 .. Len(paired), T[i].id = T[j].id
          PROVE  i = j
      <3>1. kr[at[i]].slug = kr[at[j]].slug
        BY <1>5, <1>7, <2>1
      <3>2. at[i] = at[j]
        BY <1>5, <3>1
      <3>. QED BY <1>3, <1>4, <3>2, PickedApart
    <2>. QED BY <1>8, <2>1 DEF Apart
  <1>10. \A i \in 1 .. Len(T) : \E k \in 1 .. Len(kr) : T[i].id = <<domain, kr[k].slug>>
    <2>1. ASSUME NEW i \in 1 .. Len(paired)
          PROVE  at[i] \in 1 .. Len(kr) /\ T[i].id = <<domain, kr[at[i]].slug>>
      BY <1>5, <1>7
    <2>. QED BY <1>8, <2>1
  <1>. QED BY <1>8, <1>9, <1>10 DEF T

LEMMA SiteIsTyped ==
  /\ DOMAIN SitePages = 1 .. Len(SitePages) /\ 1 \in DOMAIN SitePages
  /\ \A t \in DOMAIN SitePages : SitePages[t] \in [{"kr", "us"} \X Paths -> Seq(Cards)]
  <1>. DEFINE S == [{"kr", "us"} \X Paths -> Seq(Cards)]
  <1>1. SitePages \in Seq(S) /\ SitePages # <<>>
    BY AssetAssumption
  <1>. HIDE DEF S
  <1>2. Len(SitePages) \in Nat /\ DOMAIN SitePages = 1 .. Len(SitePages) /\ Len(SitePages) # 0
    BY <1>1, LenProperties, EmptySeq
  <1>3. \A t \in 1 .. Len(SitePages) : SitePages[t] \in S
    BY <1>1, ElementOfSeq
  <1>4. 1 \in 1 .. Len(SitePages)
    BY <1>2
  <1>. QED BY <1>2, <1>3, <1>4 DEF S

LEMMA PathsAreTyped ==
  /\ Len(AssetPaths) \in Nat /\ DOMAIN AssetPaths = 1 .. Len(AssetPaths)
  /\ \A i \in DOMAIN AssetPaths : AssetPaths[i].path \in Paths /\ AssetPaths[i].domain \in STRING
  <1>1. AssetPaths \in Seq([path : STRING, domain : STRING])
    BY AssetAssumption
  <1>2. Len(AssetPaths) \in Nat /\ DOMAIN AssetPaths = 1 .. Len(AssetPaths)
    BY <1>1, LenProperties
  <1>3. \A i \in 1 .. Len(AssetPaths) : AssetPaths[i] \in [path : STRING, domain : STRING]
    BY <1>1, ElementOfSeq
  <1>. QED BY <1>2, <1>3 DEF Paths

LEMMA KeysAreTyped ==
  ASSUME NEW keys \in KeyLists
  PROVE  /\ Len(keys) \in Nat /\ DOMAIN keys = 1 .. Len(keys)
         /\ \A k \in DOMAIN keys : keys[k] \in DOMAIN AssetPaths
         /\ \A k, l \in DOMAIN keys : keys[k] = keys[l] => k = l
  <1>1. keys \in Seq(DOMAIN AssetPaths) /\ Distinct(keys)
    BY AssetAssumption
  <1>2. Len(keys) \in Nat /\ DOMAIN keys = 1 .. Len(keys)
    BY <1>1, LenProperties
  <1>3. \A k \in 1 .. Len(keys) : keys[k] \in DOMAIN AssetPaths
    BY <1>1, ElementOfSeq
  <1>. QED BY <1>1, <1>2, <1>3 DEF Distinct

(* The pages a run gets through are pages of the site, and those of each key are *)
(* among them.                                                                  *)
Pages == {"kr", "us"} \X Paths

LEMMA PageListIsTyped ==
  ASSUME NEW keys \in KeyLists
  PROVE  /\ PageList(keys) \in Seq(Pages) /\ Len(PageList(keys)) \in Nat
         /\ \A n \in 1 .. Len(PageList(keys)) : PageList(keys)[n] \in Pages
         /\ \A k \in DOMAIN keys : \A locale \in {"kr", "us"} :
              \E n \in 1 .. Len(PageList(keys)) : PageList(keys)[n] = <<locale, AssetPaths[keys[k]].path>>
  <1>. DEFINE two(k) == <<<<"kr", AssetPaths[keys[k]].path>>, <<"us", AssetPaths[keys[k]].path>>>>
              lists == [k \in DOMAIN keys |-> two(k)]
              P == PageList(keys)
  <1>1. \A k \in DOMAIN keys : two(k) \in Seq(Pages)
    <2>1. ASSUME NEW k \in DOMAIN keys PROVE two(k) \in Seq(Pages)
      <3>1. <<"kr", AssetPaths[keys[k]].path>> \in Pages /\ <<"us", AssetPaths[keys[k]].path>> \in Pages
        BY PathsAreTyped, KeysAreTyped DEF Pages
      <3>. QED BY <3>1
    <2>. QED BY <2>1
  <1>2. \A k \in DOMAIN keys : Len(two(k)) = 2 /\ two(k)[1] = <<"kr", AssetPaths[keys[k]].path>>
                                /\ two(k)[2] = <<"us", AssetPaths[keys[k]].path>>
    OBVIOUS
  <1>. HIDE DEF two
  <1>3. lists \in Seq(Seq(Pages)) /\ Len(lists) = Len(keys)
    BY <1>1, KeysAreTyped, IsASeq
  <1>4. P = FlattenSeq(lists) /\ \A k \in DOMAIN keys : lists[k] = two(k)
    BY DEF PageList, two
  <1>. HIDE DEF lists, P
  <1>5. P \in Seq(Pages) /\ \E row, col : FlatAt(lists, Len(lists), P, row, col)
    BY <1>3, <1>4, FlattenPlaces
  <1>6. Len(P) \in Nat /\ \A n \in 1 .. Len(P) : P[n] \in Pages
    BY <1>5, LenProperties, ElementOfSeq
  <1>7. PICK row, col : FlatAt(lists, Len(lists), P, row, col)
    BY <1>5
  <1>8. ASSUME NEW k \in DOMAIN keys, NEW locale \in {"kr", "us"}
        PROVE  \E n \in 1 .. Len(P) : P[n] = <<locale, AssetPaths[keys[k]].path>>
    <2>1. k \in 1 .. Len(lists)
      BY <1>3, KeysAreTyped
    <2>2. \A c \in 1 .. Len(lists[k]) : \E n \in 1 .. Len(P) : row[n] = k /\ col[n] = c
      BY <1>7, <2>1 DEF FlatAt
    <2>3. \A n \in 1 .. Len(P) : P[n] = lists[row[n]][col[n]]
      BY <1>7 DEF FlatAt
    <2>4. \A c \in 1 .. Len(lists[k]) : \E n \in 1 .. Len(P) : P[n] = lists[k][c]
      BY <2>2, <2>3
    <2>5. Len(lists[k]) = 2
      BY <1>2, <1>4, Zenon
    <2>6. 1 \in 1 .. Len(lists[k]) /\ 2 \in 1 .. Len(lists[k])
      BY <2>5
    <2>7. lists[k][1] = <<"kr", AssetPaths[keys[k]].path>> /\ lists[k][2] = <<"us", AssetPaths[keys[k]].path>>
      BY <1>2, <1>4
    <2>. QED BY <2>4, <2>6, <2>7
  <1>. QED BY <1>5, <1>6, <1>8 DEF P

(* A cache of seen pages. *)
SeenPages(cache) == DOMAIN cache \subseteq Pages /\ \A p \in DOMAIN cache : Seen(cache[p], p)

LEMMA CollectedTerms ==
  ASSUME NEW keys \in KeyLists, NEW cache, SeenPages(cache),
         \A k \in 1 .. Len(PageList(keys)) : PageList(keys)[k] \in DOMAIN cache
  PROVE  collectedTerms(cache, keys) \in Seq(Terms) /\ Apart(collectedTerms(cache, keys))
  <1>. DEFINE kr(i) == CardsOf(cache, "kr", keys[i])
              us(i) == CardsOf(cache, "us", keys[i])
              domain(i) == AssetPaths[keys[i]].domain
              pairs(i) == pairCards(kr(i), us(i), domain(i))
              lists == [i \in DOMAIN keys |-> pairs(i)]
              T == collectedTerms(cache, keys)
  <1>0. \A i \in DOMAIN keys : domain(i) \in STRING /\ AssetPaths[keys[i]].path \in Paths
    BY PathsAreTyped, KeysAreTyped
  <1>1. ASSUME NEW i \in DOMAIN keys, NEW locale \in {"kr", "us"}
        PROVE  LET cards == CardsOf(cache, locale, keys[i]) IN
               /\ cards \in Seq(Cards) /\ Seen(cards, <<locale, AssetPaths[keys[i]].path>>)
               /\ \A k, l \in 1 .. Len(cards) : cards[k].slug = cards[l].slug => k = l
    <2>. DEFINE p == <<locale, AssetPaths[keys[i]].path>>
    <2>1. p \in DOMAIN cache
      BY PageListIsTyped
    <2>. HIDE DEF p
    <2>2. Seen(cache[p], p) /\ cache[p] \in Seq(Cards)
      BY <2>1 DEF SeenPages, Seen
    <2>3. /\ Seen(parseCards(cache[p]), p)
          /\ \A k, l \in 1 .. Len(parseCards(cache[p])) :
               parseCards(cache[p])[k].slug = parseCards(cache[p])[l].slug => k = l
      BY <2>2, ParsedCards
    <2>4. CardsOf(cache, locale, keys[i]) = parseCards(cache[p])
      BY DEF CardsOf, p
    <2>5. CardsOf(cache, locale, keys[i]) \in Seq(Cards)
      BY <2>3, <2>4 DEF Seen
    <2>. QED BY <2>3, <2>4, <2>5 DEF p
  <1>2. \A i \in DOMAIN keys :
          /\ kr(i) \in Seq(Cards) /\ us(i) \in Seq(Cards) /\ Seen(kr(i), <<"kr", AssetPaths[keys[i]].path>>)
          /\ \A k, l \in 1 .. Len(kr(i)) : kr(i)[k].slug = kr(i)[l].slug => k = l
    BY <1>1
  <1>. HIDE DEF kr, us, domain
  <1>3. \A i \in DOMAIN keys :
          /\ pairs(i) \in Seq(Terms) /\ Apart(pairs(i))
          /\ \A k \in 1 .. Len(pairs(i)) : \E l \in 1 .. Len(kr(i)) : pairs(i)[k].id = <<domain(i), kr(i)[l].slug>>
    BY <1>0, <1>2, PairedCards
  <1>4. T = FlattenSeq(lists)
    BY DEF collectedTerms, kr, us, domain
  <1>. HIDE DEF pairs
  <1>5. lists \in Seq(Seq(Terms)) /\ Len(lists) = Len(keys)
        /\ \A i \in DOMAIN keys : lists[i] = pairs(i)
    BY <1>3, KeysAreTyped, IsASeq
  <1>. HIDE DEF lists, T
  <1>6. T \in Seq(Terms)
    BY <1>4, <1>5, FlattenPlaces
  <1>7. PICK row, col : FlatAt(lists, Len(lists), T, row, col)
    BY <1>4, <1>5, FlattenPlaces
  <1>8. \A p \in 1 .. Len(T) : /\ row[p] \in DOMAIN keys
                               /\ col[p] \in 1 .. Len(pairs(row[p])) /\ T[p] = pairs(row[p])[col[p]]
    BY <1>5, <1>7, KeysAreTyped DEF FlatAt
  <1>9. ASSUME NEW i \in DOMAIN keys, NEW j \in DOMAIN keys, i # j,
               NEW k \in 1 .. Len(kr(i)), NEW l \in 1 .. Len(kr(j)), domain(i) = domain(j)
        PROVE  kr(i)[k].slug # kr(j)[l].slug
    <2>1. PICK s \in DOMAIN SitePages : \E m \in DOMAIN SitePages[s][<<"kr", AssetPaths[keys[i]].path>>] :
            kr(i)[k] = SitePages[s][<<"kr", AssetPaths[keys[i]].path>>][m]
      BY <1>2 DEF Seen
    <2>2. PICK t \in DOMAIN SitePages : \E m \in DOMAIN SitePages[t][<<"kr", AssetPaths[keys[j]].path>>] :
            kr(j)[l] = SitePages[t][<<"kr", AssetPaths[keys[j]].path>>][m]
      BY <1>2 DEF Seen
    <2>3. kr(i)[k].slug \in SlugsOf(SitePages[s], keys[i]) /\ kr(j)[l].slug \in SlugsOf(SitePages[t], keys[j])
      BY <2>1, <2>2 DEF SlugsOf
    <2>4. SlugsOf(SitePages[s], keys[i]) \cap SlugsOf(SitePages[t], keys[j]) = {}
      BY <1>9, SlugsAreApart, KeysAreTyped DEF domain
    <2>. QED BY <2>3, <2>4
  <1>10. ASSUME NEW p \in 1 .. Len(T), NEW q \in 1 .. Len(T), T[p].id = T[q].id
         PROVE  p = q
    <2>. DEFINE i == row[p]
                j == row[q]
    <2>0. /\ i \in DOMAIN keys /\ j \in DOMAIN keys
          /\ col[p] \in 1 .. Len(pairs(i)) /\ col[q] \in 1 .. Len(pairs(j))
          /\ T[p] = pairs(i)[col[p]] /\ T[q] = pairs(j)[col[q]]
      BY <1>8
    <2>. HIDE DEF i, j
    <2>1. PICK k \in 1 .. Len(kr(i)) : T[p].id = <<domain(i), kr(i)[k].slug>>
      BY <1>3, <2>0
    <2>2. PICK l \in 1 .. Len(kr(j)) : T[q].id = <<domain(j), kr(j)[l].slug>>
      BY <1>3, <2>0
    <2>3. domain(i) = domain(j) /\ kr(i)[k].slug = kr(j)[l].slug
      <3>1. \A a, b, c, d : <<a, b>> = <<c, d>> => a = c /\ b = d
        OBVIOUS
      <3>2. <<domain(i), kr(i)[k].slug>> = <<domain(j), kr(j)[l].slug>>
        BY <1>10, <2>1, <2>2, Zenon
      <3>. QED BY <3>1, <3>2, Zenon
    <2>4. i = j
      BY <1>9, <2>0, <2>3
    <2>5. col[p] = col[q]
      BY <1>3, <1>10, <2>0, <2>4 DEF Apart
    <2>. QED BY <1>7, <2>4, <2>5 DEF FlatAt, i, j
  <1>. QED BY <1>6, <1>10 DEF Apart, T

(* Sorting keeps what the terms are. *)
LEMMA SortedTerms ==
  ASSUME NEW terms \in Seq(Terms), Apart(terms)
  PROVE  SortedById(terms) \in Seq(Terms) /\ Apart(SortedById(terms))
  <1>. DEFINE at(i) == {k \in DOMAIN terms : terms[k].id = IdOrder[i]}
              some(i) == Picked(terms, at(i))
              lists == [i \in DOMAIN IdOrder |-> some(i)]
              T == SortedById(terms)
  <1>1. IdOrder \in Seq(STRING \X STRING) /\ Distinct(IdOrder)
    BY AssetAssumption
  <1>2. Len(IdOrder) \in Nat /\ DOMAIN IdOrder = 1 .. Len(IdOrder)
    BY <1>1, LenProperties
  <1>3. ASSUME NEW i \in DOMAIN IdOrder
        PROVE  /\ some(i) \in Seq(Terms)
               /\ \A k \in 1 .. Len(some(i)) : some(i)[k].id = IdOrder[i]
               /\ \A k, l \in 1 .. Len(some(i)) : k = l
    <2>. DEFINE S == some(i)
    <2>1. S \in Seq(Terms) /\ Len(S) \in Nat /\ Len(terms) \in Nat
      BY PickedPlaces, LenProperties
    <2>2. PICK where : PickedAt(terms, at(i), S, where)
      BY PickedPlaces
    <2>. HIDE DEF S
    <2>3. \A k \in 1 .. Len(S) : where[k] \in 1 .. Len(terms) /\ S[k] = terms[where[k]]
                                /\ terms[where[k]].id = IdOrder[i]
      BY <2>2 DEF PickedAt
    <2>4. ASSUME NEW k \in 1 .. Len(S), NEW l \in 1 .. Len(S) PROVE k = l
      <3>1. where[k] = where[l]
        BY <2>3 DEF Apart
      <3>. QED BY <2>1, <2>2, <3>1, PickedApart
    <2>5. \A k \in 1 .. Len(S) : S[k].id = IdOrder[i]
      BY <2>3
    <2>. QED BY <2>1, <2>4, <2>5 DEF S
  <1>4. T = FlattenSeq(lists)
    BY DEF SortedById
  <1>. HIDE DEF some
  <1>5. lists \in Seq(Seq(Terms)) /\ Len(lists) = Len(IdOrder)
        /\ \A i \in DOMAIN IdOrder : lists[i] = some(i)
    BY <1>2, <1>3, IsASeq
  <1>. HIDE DEF lists, T
  <1>6. T \in Seq(Terms)
    BY <1>4, <1>5, FlattenPlaces
  <1>7. PICK row, col : FlatAt(lists, Len(lists), T, row, col)
    BY <1>4, <1>5, FlattenPlaces
  <1>8. \A p \in 1 .. Len(T) : /\ row[p] \in DOMAIN IdOrder
                               /\ col[p] \in 1 .. Len(some(row[p])) /\ T[p] = some(row[p])[col[p]]
    BY <1>2, <1>5, <1>7 DEF FlatAt
  <1>9. ASSUME NEW p \in 1 .. Len(T), NEW q \in 1 .. Len(T), T[p].id = T[q].id
        PROVE  p = q
    <2>0. T[p].id = IdOrder[row[p]] /\ T[q].id = IdOrder[row[q]]
      <3>1. ASSUME NEW r \in 1 .. Len(T) PROVE T[r].id = IdOrder[row[r]]
        <4>1. /\ row[r] \in DOMAIN IdOrder /\ col[r] \in 1 .. Len(some(row[r]))
              /\ T[r] = some(row[r])[col[r]]
          BY <1>8
        <4>. QED BY <1>3, <4>1
      <3>. QED BY <3>1
    <2>1. IdOrder[row[p]] = IdOrder[row[q]]
      BY <1>9, <2>0
    <2>2. row[p] = row[q]
      BY <1>1, <1>8, <2>1 DEF Distinct
    <2>3. col[p] = col[q]
      BY <1>3, <1>8, <2>2
    <2>. QED BY <1>7, <2>2, <2>3 DEF FlatAt
  <1>. QED BY <1>6, <1>9 DEF Apart, T

-----------------------------------------------------------------------------
(* Downloading.  A job's file is named after its own domain and url. *)
Jobs == [url : Urls, domain : STRING, name : STRING \X STRING]
NamedJobs == {job \in Jobs : job.name = localName(job.domain, job.url)}

LEMMA JobsAreNamed ==
  ASSUME NEW terms \in Seq(Terms)
  PROVE  IconJobs(terms) \in Seq(NamedJobs)
  <1>. DEFINE first == {i \in DOMAIN terms :
                         terms[i].url # NoUrl /\ \A j \in 1 .. i - 1 : terms[j].url # terms[i].url}
              firsts == Picked(terms, first)
              job(t) == [url |-> t.url, domain |-> t.domain, name |-> localName(t.domain, t.url)]
  <1>1. IconJobs(terms) = [k \in DOMAIN firsts |-> job(firsts[k])]
    BY DEF IconJobs
  <1>. HIDE DEF first
  <1>2. firsts \in Seq(Terms)
    BY PickedPlaces
  <1>. HIDE DEF firsts
  <1>3. Len(firsts) \in Nat /\ DOMAIN firsts = 1 .. Len(firsts)
    BY <1>2, LenProperties
  <1>4. \A t \in Terms : job(t) \in NamedJobs
    BY DEF Terms, NamedJobs, Jobs, Urls, localName
  <1>5. \A k \in 1 .. Len(firsts) : job(firsts[k]) \in NamedJobs
    BY <1>2, <1>4, ElementOfSeq
  <1>. HIDE DEF job
  <1>. QED BY <1>1, <1>3, <1>5, IsASeq

(* Bytes kept under a name came from a url that was downloaded under that name; *)
(* what is resolved for a url has that url's own name and such bytes.           *)
Own(urls, bytes, name) == \E job \in urls : job.name = name /\ job.url = bytes.of

OwnFile(urls, file, url) ==
  \E job \in urls : job.url = url /\ job.name = file.localPath /\ Own(urls, file.sha, job.name)

OwnAsset(urls, a) ==
  \E one, other \in urls : one.url = a.url /\ other.url = a.sha.of /\ one.name = other.name

(* A name has landed when its file is in the cache and no download is on its way *)
(* to it: a file of such a name is never written again.  Assets are verified     *)
(* when the gate would let them through, and their names have landed.           *)
Fetching == IF download.going THEN download.fetching ELSE {}
Landed(name) == name \in DOMAIN iconCache /\ \A job \in Fetching : job.name # name

Verified(assets) ==
  \A a \in assets : /\ Landed(a.localPath) /\ a.licenseStatus = "allowed"
                    /\ sha256(iconCache[a.localPath]) = a.sha

Filed(fileFor, cache) == \A url \in DOMAIN fileFor : fileFor[url].localPath \in DOMAIN cache

IdsApart(assets) == \A a, b \in assets : a.id = b.id => a = b

(* A run under way. *)
Run(r, todo, fetching, fileFor) ==
  [going |-> r.going, noFetch |-> r.noFetch, terms |-> r.terms, todo |-> todo,
   fetching |-> fetching, fileFor |-> fileFor]

RunInv ==
  /\ download = Run(download, download.todo, download.fetching, download.fileFor)
  /\ download.terms \in Seq(Terms) /\ Apart(download.terms)
  /\ download.todo \in Seq(NamedJobs)
  /\ download.fetching \subseteq iconUrls
  /\ IsFiniteSet(download.fetching) /\ Cardinality(download.fetching) <= IconWorkers
  /\ \A url \in DOMAIN download.fileFor : OwnFile(iconUrls, download.fileFor[url], url)
  /\ Filed(download.fileFor, iconCache)

CollectInv ==
  /\ site \in {SitePages[t] : t \in DOMAIN SitePages}
  /\ SeenPages(pageCache)
  /\ iconTerms \in Seq(Terms) /\ Apart(iconTerms)

DownloadInv ==
  /\ iconUrls \subseteq NamedJobs
  /\ \A name \in DOMAIN iconCache : Own(iconUrls, iconCache[name], name)
  /\ download.going => RunInv

ManifestInv ==
  /\ \A a \in manifest : a = [id |-> a.id, localPath |-> a.localPath, sha |-> a.sha,
                              licenseStatus |-> a.licenseStatus, url |-> a.url]
  /\ \A a \in manifest : OwnAsset(iconUrls, a)
  /\ IdsApart(manifest)
  /\ \A a \in manifest : Landed(a.localPath)

(* What is left to copy, and what was copied. *)
StagingInv ==
  staging.going =>
    /\ staging = [going |-> staging.going, assets |-> staging.assets, todo |-> staging.todo]
    /\ Verified(staging.assets) /\ IdsApart(staging.assets)
    /\ staging.todo \subseteq staging.assets
    /\ \A a \in staging.assets \ staging.todo :
         a.localPath \in DOMAIN staged.files /\ staged.files[a.localPath] = a.sha

StagedInv ==
  /\ staged = [files |-> staged.files, index |-> staged.index]
  /\ {staged.index[id] : id \in DOMAIN staged.index} \subseteq DOMAIN staged.files
  /\ StagedAsRecorded
  /\ Verified(stagedFrom) /\ \A a \in stagedFrom : a.localPath \in DOMAIN staged.files

AssetInv == CollectInv /\ DownloadInv /\ ManifestInv /\ StagingInv /\ StagedInv

LEMMA AssetInvInit == AssetInit => AssetInv
  <1>. SUFFICES ASSUME AssetInit PROVE AssetInv
    OBVIOUS
  <1>1. CollectInv
    <2>1. site \in {SitePages[t] : t \in DOMAIN SitePages}
      BY SiteIsTyped DEF AssetInit
    <2>2. iconTerms \in Seq(Terms) /\ Len(iconTerms) = 0
      BY EmptySeq DEF AssetInit
    <2>. QED BY <2>1, <2>2 DEF CollectInv, AssetInit, SeenPages, Apart
  <1>2. DownloadInv
    BY DEF DownloadInv, AssetInit, Idle
  <1>3. ManifestInv /\ StagingInv /\ StagedInv
    BY DEF ManifestInv, StagingInv, StagedInv, StagedAsRecorded, Verified, IdsApart, AssetInit, Idle
  <1>. QED BY <1>1, <1>2, <1>3 DEF AssetInv

(* A landed name stays landed, and its bytes stay. *)
LandedStay == \A name : Landed(name) => Landed(name)' /\ iconCache'[name] = iconCache[name]

LEMMA StagingStays ==
  ASSUME StagingInv, StagedInv, LandedStay, UNCHANGED stagingVars
  PROVE  StagingInv' /\ StagedInv'
  <1>1. staging' = staging /\ staged' = staged /\ stagedFrom' = stagedFrom
    BY DEF stagingVars
  <1>2. ASSUME NEW assets, Verified(assets)
        PROVE  \A a \in assets : /\ Landed(a.localPath)' /\ a.licenseStatus = "allowed"
                                  /\ sha256(iconCache'[a.localPath]) = a.sha
    BY <1>2 DEF Verified, LandedStay
  <1>3. StagedInv'
    <2>1. Verified(stagedFrom)'
      BY <1>1, <1>2 DEF StagedInv, Verified, sha256
    <2>. QED BY <1>1, <2>1 DEF StagedInv, StagedAsRecorded
  <1>4. StagingInv'
    <2>1. staging.going => Verified(staging.assets)'
      BY <1>1, <1>2 DEF StagingInv, Verified, sha256
    <2>. QED BY <1>1, <2>1 DEF StagingInv, IdsApart
  <1>. QED BY <1>3, <1>4

LEMMA ManifestStays ==
  ASSUME ManifestInv, LandedStay, UNCHANGED manifest,
         \A a : OwnAsset(iconUrls, a) => OwnAsset(iconUrls', a)
  PROVE  ManifestInv'
  <1>1. \A a \in manifest : Landed(a.localPath)'
    BY DEF ManifestInv, LandedStay
  <1>. QED BY <1>1 DEF ManifestInv, IdsApart

LEMMA CacheStays == UNCHANGED <<iconCache, download>> => LandedStay
  BY DEF LandedStay, Landed, Fetching

-----------------------------------------------------------------------------
(* The steps.  What the changes to a run's record leave of it. *)
LEMMA RunUpdates ==
  ASSUME NEW r, r = Run(r, r.todo, r.fetching, r.fileFor), NEW x
  PROVE  /\ [r EXCEPT !.todo = x] = Run(r, x, r.fetching, r.fileFor)
         /\ [r EXCEPT !.fetching = x] = Run(r, r.todo, x, r.fileFor)
         /\ [r EXCEPT !.fileFor = x] = Run(r, r.todo, r.fetching, x)
  <1>1. [r EXCEPT !.todo = x] = Run(r, x, r.fetching, r.fileFor)
    BY DEF Run
  <1>2. [r EXCEPT !.fetching = x] = Run(r, r.todo, x, r.fileFor)
    BY DEF Run
  <1>3. [r EXCEPT !.fileFor = x] = Run(r, r.todo, r.fetching, x)
    BY DEF Run
  <1>. QED BY <1>1, <1>2, <1>3

LEMMA RunFields ==
  ASSUME NEW r, NEW todo, NEW fetching, NEW fileFor
  PROVE  LET s == Run(r, todo, fetching, fileFor) IN
         /\ s = Run(s, s.todo, s.fetching, s.fileFor)
         /\ s.going = r.going /\ s.noFetch = r.noFetch /\ s.terms = r.terms
         /\ s.todo = todo /\ s.fetching = fetching /\ s.fileFor = fileFor
  BY DEF Run

LEMMA SitePageIsSeen ==
  ASSUME site \in {SitePages[t] : t \in DOMAIN SitePages}, NEW p \in Pages
  PROVE  Seen(site[p], p) /\ site[p] \in Seq(Cards)
  <1>1. PICK t \in DOMAIN SitePages : site = SitePages[t]
    OBVIOUS
  <1>2. site[p] \in Seq(Cards)
    BY <1>1, SiteIsTyped DEF Pages
  <1>3. \A k \in 1 .. Len(site[p]) : k \in DOMAIN SitePages[t][p] /\ site[p][k] = SitePages[t][p][k]
    BY <1>1, <1>2, LenProperties
  <1>. QED BY <1>2, <1>3 DEF Seen

LEMMA FetchedPages ==
  ASSUME CollectInv, NEW keys \in KeyLists, NEW n \in 0 .. Len(PageList(keys))
  PROVE  /\ SeenPages(Fetched(pageCache, PageList(keys), n))
         /\ \A k \in 1 .. n : PageList(keys)[k] \in DOMAIN Fetched(pageCache, PageList(keys), n)
  <1>. DEFINE pages == PageList(keys)
              got == Fetched(pageCache, pages, n)
              taken == {pages[i] : i \in 1 .. n}
  <1>1. DOMAIN got = DOMAIN pageCache \cup taken
        /\ \A p \in DOMAIN got : got[p] = IF p \in DOMAIN pageCache THEN pageCache[p] ELSE site[p]
    BY DEF Fetched, fetchCached
  <1>2. Len(pages) \in Nat /\ \A i \in 1 .. Len(pages) : pages[i] \in Pages
    BY PageListIsTyped
  <1>. HIDE DEF pages
  <1>3. taken \subseteq Pages
    BY <1>2 DEF pages
  <1>. HIDE DEF got
  <1>4. DOMAIN got \subseteq Pages
    BY <1>1, <1>3 DEF CollectInv, SeenPages
  <1>5. \A p \in DOMAIN got : Seen(got[p], p)
    BY <1>1, <1>4, SitePageIsSeen DEF CollectInv, SeenPages
  <1>. QED BY <1>1, <1>4, <1>5 DEF SeenPages, got, pages

LEMMA PartOfAPageIsSeen ==
  ASSUME NEW page, NEW where, Seen(page, where)
  PROVE  Seen(SubSeq(page, 1, Len(page) - 1), where)
  <1>. DEFINE part == SubSeq(page, 1, Len(page) - 1)
  <1>1. page \in Seq(Cards) /\ Len(page) \in Nat
    BY LenProperties DEF Seen
  <1>2. CASE Len(page) = 0
    <2>1. part = <<>>
      BY <1>1, <1>2, SubSeqEmpty
    <2>2. part \in Seq(Cards) /\ Len(part) = 0
      BY <2>1, EmptySeq
    <2>. QED BY <2>2 DEF Seen
  <1>3. CASE Len(page) # 0
    <2>1. \A i \in 1 .. Len(page) - 1 : page[i] \in Cards /\ i \in 1 .. Len(page)
      BY <1>1, ElementOfSeq
    <2>2. /\ part \in Seq(Cards) /\ Len(part) = Len(page) - 1
          /\ \A i \in 1 .. Len(page) - 1 : part[i] = page[i]
      <3>. DEFINE l == Len(page)
      <3>1. l \in Nat /\ l - 1 \in 0 .. l /\ 1 <= l /\ l - 1 + 1 = l /\ (l - 1) - 1 + 1 = l - 1
        BY <1>1, <1>3
      <3>. QED BY <1>1, <1>3, <2>1, <3>1, SubSeqProperties
    <2>. HIDE DEF part
    <2>3. Seen(part, where)
      BY <2>1, <2>2 DEF Seen
    <2>. QED BY <2>3 DEF part
  <1>. QED BY <1>2, <1>3

LEMMA CollectStep ==
  ASSUME AssetInv, Collect
  PROVE  AssetInv'
  <1>0. PICK keys \in KeyLists : \E n \in 0 .. Len(PageList(keys)) :
          LET pages == PageList(keys)
              got == Fetched(pageCache, pages, n) IN
          \/ pageCache' = got /\ iconTerms' = iconTerms
          \/ /\ n = Len(pages) /\ pageCache' = got
             /\ iconTerms' = SortedById(collectedTerms(got, keys))
          \/ /\ n # Len(pages) /\ iconTerms' = iconTerms
             /\ pageCache' \in {got, Put(got, pages[n + 1],
                                  SubSeq(site[pages[n + 1]], 1, Len(site[pages[n + 1]]) - 1))}
    BY DEF Collect
  <1>1. PICK n \in 0 .. Len(PageList(keys)) :
          LET pages == PageList(keys)
              got == Fetched(pageCache, pages, n) IN
          \/ pageCache' = got /\ iconTerms' = iconTerms
          \/ /\ n = Len(pages) /\ pageCache' = got
             /\ iconTerms' = SortedById(collectedTerms(got, keys))
          \/ /\ n # Len(pages) /\ iconTerms' = iconTerms
             /\ pageCache' \in {got, Put(got, pages[n + 1],
                                  SubSeq(site[pages[n + 1]], 1, Len(site[pages[n + 1]]) - 1))}
    BY <1>0
  <1>. DEFINE pages == PageList(keys)
              got == Fetched(pageCache, pages, n)
              part == SubSeq(site[pages[n + 1]], 1, Len(site[pages[n + 1]]) - 1)
              terms == collectedTerms(got, keys)
  <1>2. SeenPages(got) /\ \A k \in 1 .. n : pages[k] \in DOMAIN got
    BY FetchedPages DEF AssetInv
  <1>3. n # Len(pages) => SeenPages(Put(got, pages[n + 1], part))
    <2>. SUFFICES ASSUME n # Len(pages) PROVE SeenPages(Put(got, pages[n + 1], part))
      OBVIOUS
    <2>. DEFINE p == pages[n + 1]
                l == Len(pages)
    <2>1. l \in Nat /\ n \in 0 .. l /\ n # l
      BY PageListIsTyped
    <2>2. \A m \in 1 .. l : pages[m] \in Pages
      BY PageListIsTyped
    <2>. HIDE DEF l, pages
    <2>3. n + 1 \in 1 .. l
      BY <2>1
    <2>4. p \in Pages
      BY <2>2, <2>3
    <2>5. Seen(part, p)
      BY <2>4, SitePageIsSeen, PartOfAPageIsSeen DEF AssetInv, CollectInv
    <2>. HIDE DEF p, part, got
    <2>. QED BY <1>2, <2>4, <2>5 DEF SeenPages, Put, p
  <1>4. n = Len(pages) => terms \in Seq(Terms) /\ Apart(terms)
    BY <1>2, CollectedTerms
  <1>. HIDE DEF got, part, terms, pages
  <1>5. n = Len(pages) => SortedById(terms) \in Seq(Terms) /\ Apart(SortedById(terms))
    BY <1>4, SortedTerms
  <1>6. SeenPages(pageCache')
    BY <1>1, <1>2, <1>3 DEF got, part, pages
  <1>7. iconTerms' \in Seq(Terms) /\ Apart(iconTerms')
    BY <1>1, <1>5 DEF got, terms, pages, AssetInv, CollectInv
  <1>8. UNCHANGED <<site, iconCache, download, manifest, stagingVars, iconUrls>>
    BY DEF Collect
  <1>9. CollectInv'
    BY <1>6, <1>7, <1>8 DEF AssetInv, CollectInv
  <1>10. DownloadInv'
    BY <1>8 DEF AssetInv, DownloadInv, RunInv
  <1>11. ManifestInv' /\ StagingInv' /\ StagedInv'
    BY <1>8, CacheStays, ManifestStays, StagingStays DEF AssetInv
  <1>. QED BY <1>9, <1>10, <1>11 DEF AssetInv

LEMMA SiteStep ==
  ASSUME AssetInv, SiteChanges
  PROVE  AssetInv'
  <1>1. UNCHANGED <<pageCache, iconTerms, iconCache, download, manifest, stagingVars, iconUrls>>
        /\ site' \in {SitePages[t] : t \in DOMAIN SitePages}
    BY DEF SiteChanges
  <1>2. CollectInv'
    BY <1>1 DEF AssetInv, CollectInv
  <1>3. DownloadInv'
    BY <1>1 DEF AssetInv, DownloadInv, RunInv
  <1>4. ManifestInv' /\ StagingInv' /\ StagedInv'
    BY <1>1, CacheStays, ManifestStays, StagingStays DEF AssetInv
  <1>. QED BY <1>2, <1>3, <1>4 DEF AssetInv

LEMMA DownloadStarts ==
  ASSUME AssetInv, StartDownload
  PROVE  AssetInv'
  <1>1. UNCHANGED <<site, pageCache, iconTerms, iconCache, manifest, stagingVars, iconUrls>>
    BY DEF StartDownload
  <1>2. PICK noFetch \in BOOLEAN :
          download' = [going |-> TRUE, noFetch |-> noFetch, terms |-> iconTerms,
                       todo |-> IconJobs(iconTerms), fetching |-> {}, fileFor |-> <<>>]
    BY DEF StartDownload
  <1>3. IconJobs(iconTerms) \in Seq(NamedJobs)
    BY JobsAreNamed DEF AssetInv, CollectInv
  <1>4. IsFiniteSet({}) /\ Cardinality({}) = 0
    BY FS_EmptySet
  <1>5. RunInv'
    BY <1>1, <1>2, <1>3, <1>4, AssetAssumption DEF AssetInv, CollectInv, RunInv, Run, Filed
  <1>6. DownloadInv'
    BY <1>1, <1>5 DEF AssetInv, DownloadInv
  <1>7. CollectInv'
    BY <1>1 DEF AssetInv, CollectInv
  <1>8. LandedStay
    BY <1>1, <1>2 DEF LandedStay, Landed, Fetching
  <1>9. ManifestInv' /\ StagingInv' /\ StagedInv'
    BY <1>1, <1>8, ManifestStays, StagingStays DEF AssetInv
  <1>. QED BY <1>6, <1>7, <1>9 DEF AssetInv

(* More downloaded urls keep what is known of them. *)
LEMMA OwnersStay ==
  ASSUME NEW urls, NEW more, urls \subseteq more
  PROVE  /\ \A bytes, name : Own(urls, bytes, name) => Own(more, bytes, name)
         /\ \A file, url : OwnFile(urls, file, url) => OwnFile(more, file, url)
         /\ \A a : OwnAsset(urls, a) => OwnAsset(more, a)
  BY DEF Own, OwnFile, OwnAsset

LEMMA ResolvedIsOwn ==
  ASSUME NEW urls, NEW files, NEW job \in urls, NEW bytes, Own(urls, bytes, job.name),
         \A url \in DOMAIN files : OwnFile(urls, files[url], url)
  PROVE  \A url \in DOMAIN Put(files, job.url, [localPath |-> job.name, sha |-> sha256(bytes)]) :
           OwnFile(urls, Put(files, job.url, [localPath |-> job.name, sha |-> sha256(bytes)])[url], url)
  <1>. DEFINE file == [localPath |-> job.name, sha |-> sha256(bytes)]
  <1>1. OwnFile(urls, file, job.url)
    <2>1. file.localPath = job.name /\ file.sha = bytes
      BY DEF sha256
    <2>. HIDE DEF file
    <2>. QED BY <2>1 DEF OwnFile
  <1>. HIDE DEF file
  <1>2. \A url \in DOMAIN Put(files, job.url, file) : OwnFile(urls, Put(files, job.url, file)[url], url)
    BY <1>1 DEF Put
  <1>. QED BY <1>2 DEF file

LEMMA ResolvedIsFiled ==
  ASSUME NEW files, NEW cache, Filed(files, cache), NEW job, job.name \in DOMAIN cache, NEW sha
  PROVE  Filed(Put(files, job.url, [localPath |-> job.name, sha |-> sha]), cache)
  BY DEF Filed, Put

LEMMA TakeStep ==
  ASSUME AssetInv, TakeJob
  PROVE  AssetInv'
  <1>. DEFINE job == Head(download.todo)
              rest == [download EXCEPT !.todo = Tail(@)]
  <1>1. /\ download.going /\ download.todo # <<>> /\ Cardinality(download.fetching) < IconWorkers
        /\ iconUrls' = iconUrls \cup {job}
        /\ UNCHANGED <<site, pageCache, iconTerms, iconCache, manifest, stagingVars>>
    BY DEF TakeJob
  <1>2. download' = IF job.name \in DOMAIN iconCache
                      THEN [rest EXCEPT !.fileFor = IconResolved(job, iconCache[job.name])]
                    ELSE IF download.noFetch THEN rest
                    ELSE [rest EXCEPT !.fetching = @ \cup {job}]
    BY DEF TakeJob
  <1>3. RunInv
    BY <1>1 DEF AssetInv, DownloadInv
  <1>4. job \in NamedJobs /\ Tail(download.todo) \in Seq(NamedJobs)
    BY <1>1, <1>3, HeadTailProperties DEF RunInv
  <1>. HIDE DEF job
  <1>5. rest = Run(download, Tail(download.todo), download.fetching, download.fileFor)
    BY <1>3, RunUpdates DEF RunInv
  <1>. HIDE DEF rest
  <1>51. /\ rest = Run(rest, rest.todo, rest.fetching, rest.fileFor) /\ rest.terms = download.terms
         /\ rest.todo = Tail(download.todo) /\ rest.fetching = download.fetching
         /\ rest.fileFor = download.fileFor
    BY <1>5, RunFields
  <1>6. /\ \A bytes, name : Own(iconUrls, bytes, name) => Own(iconUrls', bytes, name)
        /\ \A file, url : OwnFile(iconUrls, file, url) => OwnFile(iconUrls', file, url)
        /\ \A a : OwnAsset(iconUrls, a) => OwnAsset(iconUrls', a)
    BY <1>1, OwnersStay
  <1>7. /\ \A url \in DOMAIN download.fileFor : OwnFile(iconUrls', download.fileFor[url], url)
        /\ Filed(download.fileFor, iconCache')
    BY <1>1, <1>3, <1>6 DEF RunInv
  <1>8. /\ RunInv'
        /\ \A other \in Fetching' : other \in Fetching \/ other.name \notin DOMAIN iconCache
    <2>1. CASE job.name \in DOMAIN iconCache
      <3>. DEFINE files == IconResolved(job, iconCache[job.name])
      <3>1. Own(iconUrls', iconCache[job.name], job.name)
        BY <1>6, <2>1 DEF AssetInv, DownloadInv
      <3>2. \A url \in DOMAIN files : OwnFile(iconUrls', files[url], url)
        BY <1>1, <1>7, <3>1, ResolvedIsOwn DEF IconResolved
      <3>20. Filed(files, iconCache')
        BY <1>1, <1>7, <2>1, ResolvedIsFiled DEF IconResolved
      <3>. HIDE DEF files
      <3>3. download' = [rest EXCEPT !.fileFor = files]
        BY <1>2, <2>1 DEF files
      <3>4. download' = Run(rest, rest.todo, rest.fetching, files)
        BY <1>51, <3>3, RunUpdates
      <3>5. /\ download' = Run(download', download'.todo, download'.fetching, download'.fileFor)
            /\ download'.terms = download.terms /\ download'.todo = Tail(download.todo)
            /\ download'.fetching = download.fetching /\ download'.fileFor = files
        BY <1>51, <3>4, RunFields
      <3>6. RunInv'
        BY <1>1, <1>3, <1>4, <3>2, <3>20, <3>5 DEF RunInv
      <3>. QED BY <1>1, <3>5, <3>6 DEF Fetching
    <2>2. CASE job.name \notin DOMAIN iconCache /\ download.noFetch
      <3>1. download' = rest
        BY <1>2, <2>2
      <3>2. RunInv'
        BY <1>1, <1>3, <1>4, <1>51, <1>7, <3>1 DEF RunInv
      <3>. QED BY <1>1, <1>51, <3>1, <3>2 DEF Fetching
    <2>3. CASE job.name \notin DOMAIN iconCache /\ ~download.noFetch
      <3>1. download' = [rest EXCEPT !.fetching = @ \cup {job}]
        BY <1>2, <2>3
      <3>0. download' = Run(rest, rest.todo, download.fetching \cup {job}, rest.fileFor)
        <4>1. download' = [rest EXCEPT !.fetching = download.fetching \cup {job}]
          BY <1>51, <3>1
        <4>. QED BY <1>51, <4>1, RunUpdates
      <3>2. /\ download' = Run(download', download'.todo, download'.fetching, download'.fileFor)
            /\ download'.terms = download.terms /\ download'.todo = Tail(download.todo)
            /\ download'.fetching = download.fetching \cup {job} /\ download'.fileFor = download.fileFor
        BY <1>51, <3>0, RunFields
      <3>3. IsFiniteSet(download.fetching \cup {job})
            /\ Cardinality(download.fetching \cup {job}) <= IconWorkers
        <4>1. IsFiniteSet(download.fetching) /\ Cardinality(download.fetching) \in Nat
          BY <1>3, FS_CardinalityType DEF RunInv
        <4>2. /\ IsFiniteSet(download.fetching \cup {job})
              /\ \/ Cardinality(download.fetching \cup {job}) = Cardinality(download.fetching)
                 \/ Cardinality(download.fetching \cup {job}) = Cardinality(download.fetching) + 1
          BY <4>1, FS_AddElement
        <4>. QED BY <1>1, <4>1, <4>2, AssetAssumption
      <3>4. download.fetching \cup {job} \subseteq iconUrls'
        BY <1>1, <1>3 DEF RunInv
      <3>5. RunInv'
        BY <1>3, <1>4, <1>7, <3>2, <3>3, <3>4 DEF RunInv
      <3>. QED BY <1>1, <2>3, <3>2, <3>5 DEF Fetching
    <2>. QED BY <2>1, <2>2, <2>3
  <1>9. DownloadInv'
    BY <1>1, <1>4, <1>6, <1>8 DEF AssetInv, DownloadInv
  <1>10. CollectInv'
    BY <1>1 DEF AssetInv, CollectInv
  <1>11. LandedStay
    BY <1>1, <1>8 DEF LandedStay, Landed
  <1>12. ManifestInv' /\ StagingInv' /\ StagedInv'
    BY <1>1, <1>6, <1>11, ManifestStays, StagingStays DEF AssetInv
  <1>. QED BY <1>9, <1>10, <1>12 DEF AssetInv

LEMMA LessFetching ==
  ASSUME RunInv, NEW job
  PROVE  IsFiniteSet(download.fetching \ {job}) /\ Cardinality(download.fetching \ {job}) <= IconWorkers
  <1>1. IsFiniteSet(download.fetching) /\ Cardinality(download.fetching) \in Nat
        /\ Cardinality(download.fetching) <= IconWorkers
    BY FS_CardinalityType DEF RunInv
  <1>2. /\ IsFiniteSet(download.fetching \ {job}) /\ Cardinality(download.fetching \ {job}) \in Nat
        /\ Cardinality(download.fetching \ {job}) <= Cardinality(download.fetching)
    BY <1>1, FS_Subset, FS_CardinalityType
  <1>. QED BY <1>1, <1>2, AssetAssumption

(* A file written under a job's name holds bytes of that job's url. *)
LEMMA WrittenIsOwn ==
  ASSUME DownloadInv, NEW job \in iconUrls, NEW bytes, bytes.of = job.url
  PROVE  /\ Own(iconUrls, bytes, job.name)
         /\ \A name \in DOMAIN Put(iconCache, job.name, bytes) :
              Own(iconUrls, Put(iconCache, job.name, bytes)[name], name)
  <1>1. Own(iconUrls, bytes, job.name)
    BY DEF Own
  <1>. QED BY <1>1 DEF DownloadInv, Put

LEMMA AnswerStep ==
  ASSUME AssetInv, IconAnswered
  PROVE  AssetInv'
  <1>1. PICK job \in download.fetching :
          \/ /\ iconCache' = Put(iconCache, job.name, Bytes(job.url))
             /\ download' = [download EXCEPT !.fetching = @ \ {job}, !.fileFor = IconResolved(job, Bytes(job.url))]
          \/ download' = [download EXCEPT !.fetching = @ \ {job}] /\ iconCache' = iconCache
    BY DEF IconAnswered
  <1>2. /\ UNCHANGED <<site, pageCache, iconTerms, manifest, stagingVars, iconUrls>>
        /\ RunInv /\ DownloadInv
    BY DEF IconAnswered, AssetInv, DownloadInv
  <1>3. job \in iconUrls
    BY <1>2 DEF RunInv
  <1>. DEFINE less == download.fetching \ {job}
  <1>4. IsFiniteSet(less) /\ Cardinality(less) <= IconWorkers /\ less \subseteq iconUrls
    BY <1>2, LessFetching DEF RunInv
  <1>. HIDE DEF less
  <1>5. Bytes(job.url).of = job.url
    BY DEF Bytes
  <1>50. DOMAIN iconCache \subseteq DOMAIN iconCache'
    BY <1>1 DEF Put
  <1>6. ASSUME iconCache' = Put(iconCache, job.name, Bytes(job.url)),
               download' = [download EXCEPT !.fetching = @ \ {job}, !.fileFor = IconResolved(job, Bytes(job.url))]
        PROVE  DownloadInv'
    <2>. DEFINE files == IconResolved(job, Bytes(job.url))
    <2>1. /\ download' = Run(download', download'.todo, download'.fetching, download'.fileFor)
          /\ download'.terms = download.terms /\ download'.todo = download.todo
          /\ download'.fetching = less /\ download'.fileFor = files
      <3>. HIDE DEF files
      <3>1. download' = [download EXCEPT !.fetching = less, !.fileFor = files]
        BY <1>6 DEF less, files
      <3>2. download = Run(download, download.todo, download.fetching, download.fileFor)
        BY <1>2 DEF RunInv
      <3>3. download' = Run(download, download.todo, less, files)
        <4>. DEFINE freed == [download EXCEPT !.fetching = less]
        <4>1. [download EXCEPT !.fetching = less, !.fileFor = files] = [freed EXCEPT !.fileFor = files]
          OBVIOUS
        <4>2. freed = Run(download, download.todo, less, download.fileFor)
          BY <3>2, RunUpdates
        <4>. HIDE DEF freed
        <4>3. freed = Run(freed, freed.todo, freed.fetching, freed.fileFor)
              /\ freed.todo = download.todo /\ freed.fetching = less
          BY <4>2, RunFields
        <4>4. [freed EXCEPT !.fileFor = files] = Run(freed, freed.todo, freed.fetching, files)
          BY <4>3, RunUpdates
        <4>5. Run(freed, download.todo, less, files) = Run(download, download.todo, less, files)
          BY <4>2 DEF Run
        <4>. QED BY <3>1, <4>1, <4>3, <4>4, <4>5, Zenon
      <3>. QED BY <3>3, RunFields
    <2>2. /\ Own(iconUrls, Bytes(job.url), job.name)
          /\ \A name \in DOMAIN iconCache' : Own(iconUrls, iconCache'[name], name)
      BY <1>2, <1>3, <1>5, <1>6, WrittenIsOwn
    <2>3. \A url \in DOMAIN files : OwnFile(iconUrls, files[url], url)
      BY <1>2, <1>3, <2>2, ResolvedIsOwn DEF IconResolved, RunInv
    <2>30. Filed(files, iconCache')
      <3>1. Filed(download.fileFor, iconCache') /\ job.name \in DOMAIN iconCache'
        BY <1>2, <1>50, <1>6 DEF RunInv, Filed, Put
      <3>. QED BY <3>1, ResolvedIsFiled DEF IconResolved
    <2>. HIDE DEF files
    <2>4. RunInv'
      BY <1>2, <1>4, <2>1, <2>3, <2>30 DEF RunInv
    <2>. QED BY <1>2, <2>2, <2>4 DEF DownloadInv
  <1>7. ASSUME download' = [download EXCEPT !.fetching = @ \ {job}], iconCache' = iconCache
        PROVE  DownloadInv'
    <2>1. /\ download' = Run(download', download'.todo, download'.fetching, download'.fileFor)
          /\ download'.terms = download.terms /\ download'.todo = download.todo
          /\ download'.fetching = less /\ download'.fileFor = download.fileFor
      <3>1. download' = [download EXCEPT !.fetching = less]
        BY <1>7 DEF less
      <3>2. download' = Run(download, download.todo, less, download.fileFor)
        BY <1>2, <3>1, RunUpdates DEF RunInv
      <3>. QED BY <3>2, RunFields
    <2>2. RunInv'
      BY <1>2, <1>4, <1>7, <2>1 DEF RunInv
    <2>. QED BY <1>2, <1>7, <2>2 DEF DownloadInv
  <1>8. DownloadInv'
    BY <1>1, <1>6, <1>7
  <1>9. CollectInv'
    BY <1>2 DEF AssetInv, CollectInv
  <1>10. LandedStay
    <2>1. job \in Fetching /\ Fetching' \subseteq Fetching
      <3>1. download.going
        BY DEF IconAnswered
      <3>2. download'.fetching \subseteq download.fetching
        BY <1>1, <1>2 DEF RunInv, Run
      <3>. QED BY <3>1, <3>2 DEF Fetching
    <2>2. \A name \in DOMAIN iconCache : name # job.name => iconCache'[name] = iconCache[name]
      BY <1>1 DEF Put
    <2>. QED BY <1>50, <2>1, <2>2 DEF LandedStay, Landed
  <1>11. ManifestInv' /\ StagingInv' /\ StagedInv'
    BY <1>2, <1>10, ManifestStays, StagingStays DEF AssetInv
  <1>. QED BY <1>8, <1>9, <1>11 DEF AssetInv

LEMMA FinishStep ==
  ASSUME AssetInv, FinishDownload
  PROVE  AssetInv'
  <1>. DEFINE terms == download.terms
              files == download.fileFor
  <1>1. /\ manifest' = ManifestOf(terms, files) /\ download' = Idle /\ download.going
        /\ UNCHANGED <<site, pageCache, iconTerms, iconCache, stagingVars, iconUrls>>
    BY DEF FinishDownload
  <1>2. RunInv
    BY <1>1 DEF AssetInv, DownloadInv
  <1>3. terms \in Seq(Terms) /\ DOMAIN terms = 1 .. Len(terms) /\ Apart(terms)
        /\ \A url \in DOMAIN files : OwnFile(iconUrls, files[url], url)
        /\ Filed(files, iconCache)
    BY <1>2, LenProperties DEF RunInv
  <1>. HIDE DEF terms, files
  <1>4. \A a \in manifest' : \E i \in 1 .. Len(terms) :
          terms[i].url \in DOMAIN files /\ a = Asset(terms[i], files[terms[i].url])
    BY <1>1, <1>3 DEF ManifestOf
  <1>5. ASSUME NEW a \in manifest'
        PROVE  /\ a = [id |-> a.id, localPath |-> a.localPath, sha |-> a.sha,
                       licenseStatus |-> a.licenseStatus, url |-> a.url]
               /\ OwnAsset(iconUrls, a) /\ a.localPath \in DOMAIN iconCache
    <2>1. PICK i \in 1 .. Len(terms) :
            terms[i].url \in DOMAIN files /\ a = Asset(terms[i], files[terms[i].url])
      BY <1>4
    <2>2. a.url = terms[i].url /\ a.sha = files[terms[i].url].sha
          /\ a.localPath = files[terms[i].url].localPath
          /\ a = [id |-> a.id, localPath |-> a.localPath, sha |-> a.sha,
                  licenseStatus |-> a.licenseStatus, url |-> a.url]
      BY <2>1 DEF Asset
    <2>3. OwnFile(iconUrls, files[terms[i].url], terms[i].url)
      BY <1>3, <2>1
    <2>. QED BY <1>3, <2>1, <2>2, <2>3 DEF OwnFile, Own, OwnAsset, Filed
  <1>6. \A a, b \in manifest' : a.id = b.id => a = b
    <2>1. ASSUME NEW a \in manifest', NEW b \in manifest', a.id = b.id PROVE a = b
      <3>1. PICK i \in 1 .. Len(terms) : a = Asset(terms[i], files[terms[i].url])
        BY <1>4
      <3>2. PICK j \in 1 .. Len(terms) : b = Asset(terms[j], files[terms[j].url])
        BY <1>4
      <3>3. a.id = terms[i].id /\ b.id = terms[j].id
        BY <3>1, <3>2 DEF Asset
      <3>4. i = j
        BY <1>3, <2>1, <3>3 DEF Apart
      <3>. QED BY <3>1, <3>2, <3>4
    <2>. QED BY <2>1
  <1>60. Fetching' = {}
    BY <1>1 DEF Fetching, Idle
  <1>7. ManifestInv'
    BY <1>1, <1>5, <1>6, <1>60 DEF ManifestInv, IdsApart, Landed
  <1>8. DownloadInv'
    BY <1>1 DEF AssetInv, DownloadInv, Idle
  <1>9. LandedStay
    BY <1>1, <1>60 DEF LandedStay, Landed
  <1>10. CollectInv' /\ StagingInv' /\ StagedInv'
    BY <1>1, <1>9, StagingStays DEF AssetInv, CollectInv
  <1>. QED BY <1>7, <1>8, <1>10 DEF AssetInv

LEMMA DeathStep ==
  ASSUME AssetInv, DownloadDies
  PROVE  AssetInv'
  <1>1. /\ UNCHANGED <<site, pageCache, iconTerms, manifest, stagingVars, iconUrls>>
        /\ download.going /\ download' = Idle /\ RunInv /\ DownloadInv
        /\ \/ iconCache' = iconCache
           \/ \E job \in download.fetching : iconCache' = Put(iconCache, job.name, Part(job.url))
    BY DEF DownloadDies, AssetInv, DownloadInv
  <1>2. \A name \in DOMAIN iconCache' : Own(iconUrls, iconCache'[name], name)
    <2>1. CASE iconCache' = iconCache
      BY <1>1, <2>1 DEF DownloadInv
    <2>2. ASSUME NEW job \in download.fetching, iconCache' = Put(iconCache, job.name, Part(job.url))
          PROVE  \A name \in DOMAIN iconCache' : Own(iconUrls, iconCache'[name], name)
      <3>1. job \in iconUrls /\ Part(job.url).of = job.url
        BY <1>1 DEF RunInv, Part
      <3>. QED BY <1>1, <2>2, <3>1, WrittenIsOwn
    <2>. QED BY <1>1, <2>1, <2>2
  <1>3. DownloadInv'
    BY <1>1, <1>2 DEF DownloadInv, Idle
  <1>4. CollectInv'
    BY <1>1 DEF AssetInv, CollectInv
  <1>5. LandedStay
    <2>1. Fetching' = {} /\ Fetching = download.fetching
      BY <1>1 DEF Fetching, Idle
    <2>2. ASSUME NEW name, Landed(name) PROVE name \in DOMAIN iconCache' /\ iconCache'[name] = iconCache[name]
      BY <1>1, <2>1, <2>2 DEF Landed, Put
    <2>. QED BY <2>1, <2>2 DEF LandedStay, Landed
  <1>6. ManifestInv' /\ StagingInv' /\ StagedInv'
    BY <1>1, <1>5, ManifestStays, StagingStays DEF AssetInv
  <1>. QED BY <1>3, <1>4, <1>6 DEF AssetInv

LEMMA RelicenseStep ==
  ASSUME AssetInv, Relicense
  PROVE  AssetInv'
  <1>1. /\ UNCHANGED <<site, pageCache, iconTerms, iconCache, download, stagingVars, iconUrls>>
        /\ ManifestInv
    BY DEF Relicense, AssetInv
  <1>2. PICK a \in manifest :
          manifest' = (manifest \ {a}) \cup {[a EXCEPT !.licenseStatus = "do_not_bundle"]}
    BY DEF Relicense
  <1>. DEFINE back == [a EXCEPT !.licenseStatus = "do_not_bundle"]
  <1>3. back = [id |-> a.id, localPath |-> a.localPath, sha |-> a.sha,
                licenseStatus |-> "do_not_bundle", url |-> a.url]
    BY <1>1 DEF ManifestInv
  <1>4. manifest' = (manifest \ {a}) \cup {back}
    BY <1>2
  <1>. HIDE DEF back
  <1>5. /\ back.id = a.id /\ back.url = a.url /\ back.sha = a.sha /\ back.localPath = a.localPath
        /\ back = [id |-> back.id, localPath |-> back.localPath, sha |-> back.sha,
                   licenseStatus |-> back.licenseStatus, url |-> back.url]
    BY <1>3
  <1>6. OwnAsset(iconUrls, back)
    BY <1>1, <1>5 DEF ManifestInv, OwnAsset
  <1>7. \A b \in manifest \ {a} : b.id # back.id
    BY <1>1, <1>5 DEF ManifestInv, IdsApart
  <1>70. \A b \in manifest' : Landed(b.localPath)'
    BY <1>1, <1>4, <1>5 DEF ManifestInv, Landed, Fetching
  <1>8. ManifestInv'
    BY <1>1, <1>4, <1>5, <1>6, <1>7, <1>70 DEF ManifestInv, IdsApart
  <1>9. CollectInv' /\ StagingInv' /\ StagedInv'
    BY <1>1, CacheStays, StagingStays DEF AssetInv, CollectInv
  <1>10. DownloadInv'
    BY <1>1 DEF AssetInv, DownloadInv, RunInv
  <1>. QED BY <1>8, <1>9, <1>10 DEF AssetInv

LEMMA StagingStarts ==
  ASSUME AssetInv, StartStaging
  PROVE  AssetInv'
  <1>1. /\ UNCHANGED <<site, pageCache, iconTerms, iconCache, download, manifest, staged, stagedFrom, iconUrls>>
        /\ staging' = [going |-> TRUE, assets |-> manifest, todo |-> manifest]
        /\ ManifestInv /\ StagedInv /\ validateManifest(manifest, iconCache)
    BY DEF StartStaging, AssetInv
  <1>2. Verified(manifest) /\ IdsApart(manifest)
    BY <1>1 DEF Verified, ManifestInv, validateManifest
  <1>3. StagingInv'
    <2>1. Verified(manifest)' /\ IdsApart(manifest)'
      BY <1>1, <1>2 DEF Verified, IdsApart, Landed, Fetching
    <2>. QED BY <1>1, <2>1 DEF StagingInv, Verified, IdsApart
  <1>4. StagedInv'
    BY <1>1 DEF StagedInv, StagedAsRecorded, Verified, Landed, Fetching
  <1>5. CollectInv' /\ ManifestInv'
    BY <1>1, CacheStays, ManifestStays DEF AssetInv, CollectInv
  <1>6. DownloadInv'
    BY <1>1 DEF AssetInv, DownloadInv, RunInv
  <1>. QED BY <1>3, <1>4, <1>5, <1>6 DEF AssetInv

(* A file copied over one of the last staging's holds the same bytes. *)
LEMMA CopyStep ==
  ASSUME AssetInv, CopyAsset
  PROVE  AssetInv'
  <1>1. /\ UNCHANGED <<site, pageCache, iconTerms, iconCache, download, manifest, stagedFrom, iconUrls>>
        /\ staging.going /\ StagingInv /\ StagedInv
    BY DEF CopyAsset, AssetInv
  <1>2. PICK a \in staging.todo :
          /\ staged' = [staged EXCEPT !.files = Put(@, a.localPath, iconCache[a.localPath])]
          /\ staging' = [staging EXCEPT !.todo = @ \ {a}]
    BY DEF CopyAsset
  <1>. DEFINE files == Put(staged.files, a.localPath, iconCache[a.localPath])
              rest == staging.todo \ {a}
  <1>3. DOMAIN files = DOMAIN staged.files \cup {a.localPath}
        /\ \A name \in DOMAIN files :
             files[name] = IF name = a.localPath THEN iconCache[a.localPath] ELSE staged.files[name]
    BY DEF Put
  <1>. HIDE DEF files, rest
  <1>4. staged' = [files |-> files, index |-> staged.index]
    <2>1. staged' = [staged EXCEPT !.files = files]
      BY <1>2 DEF files
    <2>. QED BY <1>1, <2>1 DEF StagedInv
  <1>5. staging' = [going |-> staging.going, assets |-> staging.assets, todo |-> rest]
    <2>1. staging' = [staging EXCEPT !.todo = rest]
      BY <1>2 DEF rest
    <2>. QED BY <1>1, <2>1 DEF StagingInv
  <1>6. a \in staging.assets /\ rest \subseteq staging.assets
        /\ \A b \in staging.assets \ rest : b = a \/ b \in staging.assets \ staging.todo
    BY <1>1, <1>2 DEF StagingInv, rest
  <1>7. \A b : b.localPath = a.localPath /\ (b \in staging.assets \/ b \in stagedFrom)
                => iconCache[a.localPath] = b.sha
    BY <1>1 DEF StagingInv, StagedInv, Verified, sha256
  <1>8. StagingInv'
    <2>1. Verified(staging.assets)'
      BY <1>1, <1>5 DEF StagingInv, Verified, Landed, Fetching, sha256
    <2>2. \A b \in staging.assets \ rest : b.localPath \in DOMAIN files /\ files[b.localPath] = b.sha
      BY <1>1, <1>3, <1>6, <1>7 DEF StagingInv
    <2>. QED BY <1>1, <1>4, <1>5, <1>6, <2>1, <2>2 DEF StagingInv, IdsApart
  <1>9. StagedInv'
    <2>1. Verified(stagedFrom)'
      BY <1>1 DEF StagedInv, Verified, Landed, Fetching, sha256
    <2>2. \A b \in stagedFrom : /\ b.licenseStatus = "allowed" /\ staged.index[b.id] = b.localPath
                                /\ b.localPath \in DOMAIN files /\ files[b.localPath] = b.sha
      BY <1>1, <1>3, <1>7 DEF StagedInv, StagedAsRecorded, sha256
    <2>. QED BY <1>1, <1>3, <1>4, <2>1, <2>2 DEF StagedInv, StagedAsRecorded, sha256
  <1>10. CollectInv' /\ ManifestInv'
    BY <1>1, CacheStays, ManifestStays DEF AssetInv, CollectInv
  <1>11. DownloadInv'
    BY <1>1 DEF AssetInv, DownloadInv, RunInv
  <1>. QED BY <1>8, <1>9, <1>10, <1>11 DEF AssetInv

LEMMA IndexNames ==
  ASSUME NEW assets, IdsApart(assets)
  PROVE  /\ \A a \in assets : a.id \in DOMAIN IndexOf(assets) /\ IndexOf(assets)[a.id] = a.localPath
         /\ \A id \in DOMAIN IndexOf(assets) : \E a \in assets : id = a.id
  <1>1. ASSUME NEW a \in assets PROVE (CHOOSE b \in assets : b.id = a.id) = a
    <2>1. (CHOOSE b \in assets : b.id = a.id) \in assets /\ (CHOOSE b \in assets : b.id = a.id).id = a.id
      OBVIOUS
    <2>. QED BY <2>1 DEF IdsApart
  <1>. QED BY <1>1 DEF IndexOf

LEMMA StagingEnds ==
  ASSUME AssetInv, FinishStaging
  PROVE  AssetInv'
  <1>. DEFINE assets == staging.assets
              index == IndexOf(assets)
  <1>1. /\ UNCHANGED <<site, pageCache, iconTerms, iconCache, download, manifest, iconUrls>>
        /\ staging' = Idle /\ stagedFrom' = assets /\ staged' = [staged EXCEPT !.index = index]
    BY DEF FinishStaging
  <1>2. /\ StagedInv /\ Verified(assets) /\ IdsApart(assets)
        /\ \A a \in assets : a.localPath \in DOMAIN staged.files /\ staged.files[a.localPath] = a.sha
    BY DEF FinishStaging, AssetInv, StagingInv
  <1>3. /\ \A a \in assets : a.id \in DOMAIN index /\ index[a.id] = a.localPath
        /\ \A id \in DOMAIN index : \E a \in assets : id = a.id
    BY <1>2, IndexNames
  <1>. HIDE DEF assets, index
  <1>4. staged' = [files |-> staged.files, index |-> index]
    BY <1>1, <1>2 DEF StagedInv
  <1>5. StagedInv'
    <2>1. Verified(stagedFrom)'
      BY <1>1, <1>2 DEF Verified, Landed, Fetching, sha256
    <2>2. {index[id] : id \in DOMAIN index} \subseteq DOMAIN staged.files
      BY <1>2, <1>3
    <2>. QED BY <1>1, <1>2, <1>3, <1>4, <2>1, <2>2 DEF StagedInv, StagedAsRecorded, Verified, sha256
  <1>6. StagingInv'
    BY <1>1 DEF StagingInv, Idle
  <1>7. CollectInv' /\ ManifestInv'
    BY <1>1, CacheStays, ManifestStays DEF AssetInv, CollectInv
  <1>8. DownloadInv'
    BY <1>1 DEF AssetInv, DownloadInv, RunInv
  <1>. QED BY <1>5, <1>6, <1>7, <1>8 DEF AssetInv

LEMMA StagingDeath ==
  ASSUME AssetInv, StagingDies
  PROVE  AssetInv'
  <1>1. /\ UNCHANGED <<site, pageCache, iconTerms, iconCache, download, manifest, iconUrls>>
        /\ staging' = Idle /\ stagedFrom' = {} /\ StagedInv
    BY DEF StagingDies, AssetInv
  <1>2. staged' = [files |-> staged'.files, index |-> staged.index]
        /\ DOMAIN staged.files \subseteq DOMAIN staged'.files
    <2>1. CASE staged' = staged
      BY <1>1, <2>1 DEF StagedInv
    <2>2. ASSUME NEW a \in staging.todo,
                 staged' = [staged EXCEPT !.files = Put(@, a.localPath, Part(iconCache[a.localPath].of))]
          PROVE  staged' = [files |-> staged'.files, index |-> staged.index]
                 /\ DOMAIN staged.files \subseteq DOMAIN staged'.files
      <3>. DEFINE files == Put(staged.files, a.localPath, Part(iconCache[a.localPath].of))
      <3>1. DOMAIN staged.files \subseteq DOMAIN files
        BY DEF Put
      <3>. HIDE DEF files
      <3>2. staged' = [staged EXCEPT !.files = files]
        BY <2>2 DEF files
      <3>3. staged' = [files |-> files, index |-> staged.index]
        BY <1>1, <3>2 DEF StagedInv
      <3>. QED BY <3>1, <3>3
    <2>. QED BY <2>1, <2>2 DEF StagingDies
  <1>3. StagedInv' /\ StagingInv'
    BY <1>1, <1>2 DEF StagedInv, StagedAsRecorded, Verified, StagingInv, Idle
  <1>4. CollectInv' /\ ManifestInv'
    BY <1>1, CacheStays, ManifestStays DEF AssetInv, CollectInv
  <1>5. DownloadInv'
    BY <1>1 DEF AssetInv, DownloadInv, RunInv
  <1>. QED BY <1>3, <1>4, <1>5 DEF AssetInv

LEMMA AssetInvStep == AssetInv /\ [AssetNext]_assetVars => AssetInv'
  <1>. SUFFICES ASSUME AssetInv, [AssetNext]_assetVars PROVE AssetInv'
    OBVIOUS
  <1>1. CASE UNCHANGED assetVars
    <2>1. CollectInv' /\ ManifestInv'
      BY <1>1, CacheStays, ManifestStays DEF AssetInv, CollectInv, assetVars
    <2>2. DownloadInv'
      BY <1>1 DEF AssetInv, DownloadInv, RunInv, assetVars
    <2>3. StagingInv' /\ StagedInv'
      BY <1>1, CacheStays, StagingStays DEF AssetInv, assetVars
    <2>. QED BY <2>1, <2>2, <2>3 DEF AssetInv
  <1>. QED BY <1>1, SiteStep, CollectStep, DownloadStarts, TakeStep, AnswerStep, FinishStep, DeathStep,
              RelicenseStep, StagingStarts, CopyStep, StagingEnds, StagingDeath DEF AssetNext

LEMMA AssetInvHolds == AssetSpec => []AssetInv
  BY AssetInvInit, AssetInvStep, PTL DEF AssetSpec

(* The pool never has more downloads under way than workers, and an index names *)
(* no file that was not copied (download-icons.mjs, stage-assets.mjs).          *)
THEOREM AssetTypes == AssetSpec => []AssetTypeOK
  <1>1. AssetInv => AssetTypeOK
    BY DEF AssetInv, CollectInv, SeenPages, Pages, DownloadInv, RunInv, StagedInv, AssetTypeOK
  <1>. QED BY <1>1, AssetInvHolds, PTL

(* Whatever dies or changes between collecting, downloading and staging, what a *)
(* staging leaves in the resource directory is what the manifest recorded.      *)
THEOREM StagingIsExact == AssetSpec => []StagedAsRecorded
  <1>1. AssetInv => StagedAsRecorded
    BY DEF AssetInv, StagedInv
  <1>. QED BY <1>1, AssetInvHolds, PTL

(* A wrong icon can only come from two urls of one domain with one file name    *)
(* (localName, download-icons.mjs).                                             *)
THEOREM IconsKeepTheirUrls == AssetSpec => []IconsAreTheirOwn
  <1>1. ASSUME AssetInv, NEW a \in manifest
        PROVE  \/ a.sha.of = a.url
               \/ \E one, other \in iconUrls :
                    /\ one.url = a.url /\ other.url = a.sha.of /\ one # other
                    /\ one.domain = other.domain /\ one.url.base = other.url.base
    <2>1. PICK one, other \in iconUrls : one.url = a.url /\ other.url = a.sha.of /\ one.name = other.name
      BY <1>1 DEF AssetInv, ManifestInv, OwnAsset
    <2>2. one \in NamedJobs /\ other \in NamedJobs
      BY <1>1 DEF AssetInv, DownloadInv
    <2>3. <<one.domain, one.url.base>> = <<other.domain, other.url.base>>
      BY <2>1, <2>2 DEF NamedJobs, localName
    <2>. QED BY <2>1, <2>3
  <1>2. AssetInv => IconsAreTheirOwn
    BY <1>1 DEF IconsAreTheirOwn
  <1>. QED BY <1>2, AssetInvHolds, PTL

-----------------------------------------------------------------------------
(* Plans and orders. *)
Tasks == [id : STRING, deps : SUBSET STRING]

(* The values after each visit of a sweep, and after each sweep. *)
IsSwept(plan, order, n, g) ==
  g = [i \in 0 .. n |-> IF i = 0 THEN order ELSE Visit(plan, g[i - 1], plan[i])]

AreSweeps(plan, n, g) ==
  g = [k \in 0 .. n |-> IF k = 0 THEN <<>> ELSE SweepUnlessAll(plan, g[k - 1])]

LEMMA SweepSteps ==
  ASSUME NEW plan \in Seq(Tasks), NEW order \in Seq(Tasks)
  PROVE  /\ SweepUpTo(plan, order) \in [0 .. Len(plan) -> Seq(Tasks)]
         /\ SweepUpTo(plan, order)[0] = order
         /\ \A i \in 1 .. Len(plan) :
              SweepUpTo(plan, order)[i] = Visit(plan, SweepUpTo(plan, order)[i - 1], plan[i])
  <1>. DEFINE n == Len(plan)
              S == Seq(Tasks)
              step == [p \in S \X Tasks |-> Visit(plan, p[1], p[2])]
              U == SweepUpTo(plan, order)
  <1>1. n \in Nat /\ \A i \in 1 .. n : plan[i] \in Tasks
    BY LenProperties, ElementOfSeq
  <1>2. \A o \in S, t \in Tasks : Visit(plan, o, t) \in S /\ step[<<o, t>>] = Visit(plan, o, t)
    BY DEF Visit
  <1>3. step \in [S \X Tasks -> S]
    BY <1>2
  <1>. HIDE DEF step
  <1>4. PICK g \in [0 .. n -> S] : Rounds(step, order, plan, n, g)
    <2>. HIDE DEF n, S
    <2>1. order \in S
      BY DEF S
    <2>. QED BY <1>1, <1>3, <2>1, FoldExists
  <1>5. \A i \in 1 .. n : g[i] = Visit(plan, g[i - 1], plan[i])
    <2>1. ASSUME NEW i \in 1 .. n PROVE g[i] = Visit(plan, g[i - 1], plan[i])
      <3>1. g[i - 1] \in S /\ plan[i] \in Tasks
        BY <1>1, <1>4, SMTT(30)
      <3>2. g[i] = step[<<g[i - 1], plan[i]>>]
        BY <1>4 DEF Rounds
      <3>. HIDE DEF S, n
      <3>. QED BY <1>2, <3>1, <3>2
    <2>. QED BY <2>1
  <1>. DEFINE body(i, f) == IF i = 0 THEN order ELSE Visit(plan, f[i - 1], plan[i])
  <1>6. \A i \in 0 .. n : g[i] = body(i, g)
    BY <1>1, <1>4, <1>5 DEF Rounds
  <1>7. g = [i \in 0 .. n |-> g[i]]
    BY <1>4
  <1>8. IsSwept(plan, order, n, g)
    BY <1>6, <1>7, Zenon DEF IsSwept
  <1>9. U = CHOOSE f : IsSwept(plan, order, n, f)
    BY DEF SweepUpTo, IsSwept
  <1>10. IsSwept(plan, order, n, U)
    BY <1>8, <1>9, Zenon
  <1>. HIDE DEF U
  <1>11. /\ U[0] = order
         /\ \A i \in 1 .. n : U[i] = Visit(plan, U[i - 1], plan[i])
    BY <1>1, <1>10 DEF IsSwept
  <1>12. U = [i \in 0 .. n |-> U[i]]
    BY <1>10 DEF IsSwept
  <1>13. \A i \in 0 .. n : U[i] \in S
    <2>. DEFINE N == {k \in Nat : k <= n => U[k] \in S}
    <2>1. 0 \in N
      BY <1>11
    <2>2. ASSUME NEW k \in Nat, k \in N PROVE k + 1 \in N
      <3>1. SUFFICES ASSUME k + 1 <= n PROVE U[k + 1] \in S
        OBVIOUS
      <3>2. U[k] \in S /\ plan[k + 1] \in Tasks
        BY <1>1, <2>2, <3>1
      <3>3. U[k + 1] = Visit(plan, U[k], plan[k + 1])
        BY <1>1, <1>11, <3>1
      <3>. HIDE DEF S, n
      <3>. QED BY <1>2, <3>2, <3>3
    <2>. HIDE DEF N
    <2>3. Nat \subseteq N
      BY <2>1, <2>2, InductionOverNat
    <2>. QED BY <1>1, <2>3 DEF N
  <1>. QED BY <1>11, <1>12, <1>13 DEF U

(* An order as the sweeps build it: tasks of the plan, an id once, and each     *)
(* after its dependencies.                                                      *)
Ordered(plan, order) ==
  /\ order \in Seq(Tasks)
  /\ \A i \in 1 .. Len(order) : \E j \in 1 .. Len(plan) : order[i] = plan[j]
  /\ \A i, j \in 1 .. Len(order) : order[i].id = order[j].id => i = j
  /\ \A i \in 1 .. Len(order) :
       order[i].deps \cap Known(plan) \subseteq {order[j].id : j \in 1 .. i - 1}

Runnable(plan, order, t) == t.id \notin DoneIds(order) /\ t.deps \cap Known(plan) \subseteq DoneIds(order)

(* No task of the plan can be added any more. *)
NothingLeft(plan, order) == \A j \in 1 .. Len(plan) : ~Runnable(plan, order, plan[j])

Grows(order, more) == Len(order) <= Len(more) /\ (Len(order) = Len(more) => order = more)

LEMMA VisitStep ==
  ASSUME NEW plan \in Seq(Tasks), NEW order, Ordered(plan, order), NEW k \in 1 .. Len(plan)
  PROVE  LET more == Visit(plan, order, plan[k]) IN
         /\ Ordered(plan, more) /\ Grows(order, more)
         /\ Runnable(plan, order, plan[k]) => Len(more) = Len(order) + 1
         /\ ~Runnable(plan, order, plan[k]) => more = order
  <1>. DEFINE t == plan[k]
              more == Visit(plan, order, t)
              n == Len(order)
  <1>1. order \in Seq(Tasks) /\ t \in Tasks /\ n \in Nat /\ DOMAIN order = 1 .. n
    BY LenProperties, ElementOfSeq DEF Ordered
  <1>2. ASSUME ~Runnable(plan, order, t)
        PROVE  more = order
    BY <1>2 DEF Visit, Runnable
  <1>3. ASSUME Runnable(plan, order, t)
        PROVE  /\ more \in Seq(Tasks) /\ Len(more) = n + 1 /\ more[n + 1] = t
               /\ \A i \in 1 .. n : more[i] = order[i]
    <2>1. more = Append(order, t)
      BY <1>3 DEF Visit, Runnable
    <2>. HIDE DEF more, t
    <2>. QED BY <1>1, <2>1, AppendProperties
  <1>4. ASSUME Runnable(plan, order, t)
        PROVE  Ordered(plan, more)
    <2>. DEFINE ids(i) == {more[j].id : j \in 1 .. i - 1}
    <2>. HIDE DEF more, n
    <2>1. ASSUME NEW i \in 1 .. n + 1
          PROVE  \E j \in 1 .. Len(plan) : more[i] = plan[j]
      <3>1. CASE i \in 1 .. n
        <4>1. \E j \in 1 .. Len(plan) : order[i] = plan[j]
          BY <3>1 DEF Ordered, n
        <4>. QED BY <1>3, <1>4, <3>1, <4>1
      <3>2. CASE i = n + 1
        <4>1. more[i] = plan[k]
          BY <1>3, <1>4, <3>2
        <4>. QED BY <4>1
      <3>. QED BY <1>1, <3>1, <3>2
    <2>2. ASSUME NEW i \in 1 .. n + 1, NEW j \in 1 .. n + 1, more[i].id = more[j].id
          PROVE  i = j
      <3>1. \A l \in 1 .. n : more[l].id # t.id
        BY <1>1, <1>3, <1>4 DEF Runnable, DoneIds
      <3>2. CASE i \in 1 .. n /\ j \in 1 .. n
        <4>1. order[i].id = order[j].id
          BY <1>3, <1>4, <2>2, <3>2
        <4>. QED BY <4>1, <3>2 DEF Ordered, n
      <3>3. CASE i = n + 1 \/ j = n + 1
        <4>1. more[n + 1].id = t.id
          BY <1>3, <1>4
        <4>. HIDE DEF t
        <4>2. ~(i \in 1 .. n /\ j = n + 1) /\ ~(j \in 1 .. n /\ i = n + 1)
          BY <2>2, <3>1, <4>1
        <4>. QED BY <1>1, <3>3, <4>2
      <3>. QED BY <1>1, <3>2, <3>3
    <2>3. ASSUME NEW i \in 1 .. n + 1
          PROVE  more[i].deps \cap Known(plan) \subseteq ids(i)
      <3>1. CASE i \in 1 .. n
        <4>1. more[i] = order[i]
          BY <1>3, <1>4, <3>1
        <4>2. order[i].deps \cap Known(plan) \subseteq {order[j].id : j \in 1 .. i - 1}
          BY <3>1 DEF Ordered, n
        <4>3. \A j \in 1 .. i - 1 : more[j] = order[j]
          BY <1>1, <1>3, <1>4, <3>1
        <4>. QED BY <4>1, <4>2, <4>3
      <3>2. CASE i = n + 1
        <4>1. more[i] = t /\ t.deps \cap Known(plan) \subseteq DoneIds(order)
          BY <1>3, <1>4, <3>2 DEF Runnable
        <4>2. \A j \in 1 .. n : order[j].id \in ids(i)
          BY <1>1, <1>3, <1>4, <3>2
        <4>. HIDE DEF ids
        <4>. QED BY <1>1, <4>1, <4>2 DEF DoneIds
      <3>. QED BY <1>1, <3>1, <3>2
    <2>4. Len(more) = n + 1 /\ more \in Seq(Tasks)
      BY <1>3, <1>4
    <2>. QED BY <2>1, <2>2, <2>3, <2>4 DEF Ordered
  <1>5. Grows(order, more)
    BY <1>1, <1>2, <1>3 DEF Grows
  <1>. QED BY <1>2, <1>3, <1>4, <1>5

LEMMA SweepStep ==
  ASSUME NEW plan \in Seq(Tasks), NEW order, Ordered(plan, order)
  PROVE  LET more == Sweep(plan, order) IN
         /\ Ordered(plan, more)
         /\ NothingLeft(plan, order) => more = order
         /\ ~NothingLeft(plan, order) => Len(more) > Len(order)
  <1>. DEFINE n == Len(plan)
              U == SweepUpTo(plan, order)
              Good(i, o) == /\ Ordered(plan, o) /\ Grows(order, o)
                            /\ NothingLeft(plan, order) => o = order
                            /\ o = order => \A j \in 1 .. i : ~Runnable(plan, order, plan[j])
              N == {i \in Nat : i <= n => Good(i, U[i])}
  <1>1. order \in Seq(Tasks) /\ n \in Nat
    BY LenProperties DEF Ordered
  <1>2. /\ U \in [0 .. n -> Seq(Tasks)] /\ U[0] = order
        /\ \A i \in 1 .. n : U[i] = Visit(plan, U[i - 1], plan[i])
    BY <1>1, SweepSteps
  <1>. HIDE DEF U, n
  <1>3. \A o \in Seq(Tasks) : Len(o) \in Nat
    BY LenProperties
  <1>4. 0 \in N
    <2>1. Grows(order, order)
      BY <1>1, <1>3 DEF Grows
    <2>. QED BY <1>2, <2>1
  <1>5. ASSUME NEW k \in Nat, k \in N PROVE k + 1 \in N
    <2>1. SUFFICES ASSUME k + 1 <= n PROVE Good(k + 1, U[k + 1])
      OBVIOUS
    <2>. DEFINE o == U[k]
                more == U[k + 1]
                t == plan[k + 1]
    <2>2. Good(k, o) /\ k + 1 \in 1 .. n
      BY <1>1, <1>5, <2>1
    <2>3. more = Visit(plan, o, t)
      BY <1>2, <2>2
    <2>. HIDE DEF o, more
    <2>4. /\ Ordered(plan, more) /\ Grows(o, more)
          /\ Runnable(plan, o, t) => Len(more) = Len(o) + 1
          /\ ~Runnable(plan, o, t) => more = o
      BY <2>2, <2>3, VisitStep DEF n
    <2>5. Len(o) \in Nat /\ Len(more) \in Nat /\ Len(order) \in Nat
      BY <1>1, <1>3, <2>2, <2>4 DEF Ordered
    <2>6. Grows(order, more)
      BY <2>2, <2>4, <2>5 DEF Grows
    <2>7. ASSUME NothingLeft(plan, order)
          PROVE  more = order
      <3>1. o = order /\ ~Runnable(plan, order, t)
        BY <2>2, <2>7 DEF NothingLeft, n
      <3>. QED BY <2>4, <3>1
    <2>8. ASSUME more = order, NEW j \in 1 .. k + 1
          PROVE  ~Runnable(plan, order, plan[j])
      <3>1. o = order
        BY <2>2, <2>4, <2>5, <2>8 DEF Grows
      <3>2. ~Runnable(plan, order, t)
        BY <2>4, <2>5, <2>8, <3>1
      <3>3. CASE j = k + 1
        BY <3>2, <3>3
      <3>4. CASE j \in 1 .. k
        BY <2>2, <3>1, <3>4
      <3>. QED BY <3>3, <3>4
    <2>. QED BY <2>4, <2>6, <2>7, <2>8 DEF more
  <1>. HIDE DEF N
  <1>6. Nat \subseteq N
    BY <1>4, <1>5, InductionOverNat
  <1>7. Good(n, U[n]) /\ U[n] = Sweep(plan, order)
    BY <1>1, <1>6 DEF N, Sweep, U, n
  <1>8. ASSUME ~NothingLeft(plan, order) PROVE Len(Sweep(plan, order)) > Len(order)
    <2>1. Sweep(plan, order) # order
      BY <1>7, <1>8 DEF NothingLeft, n
    <2>2. Len(Sweep(plan, order)) \in Nat /\ Len(order) \in Nat
      BY <1>1, <1>3, <1>7 DEF Ordered
    <2>. QED BY <1>7, <2>1, <2>2 DEF Grows
  <1>. QED BY <1>7, <1>8

LEMMA SweepsSteps ==
  ASSUME NEW plan \in Seq(Tasks)
  PROVE  LET n == Len(plan) * Len(plan)
             W == SweepsUpTo(plan)
         IN W[0] = <<>> /\ \A k \in 1 .. n : W[k] = SweepUnlessAll(plan, W[k - 1])
  <1>. DEFINE n == Len(plan) * Len(plan)
              S == Seq(Tasks)
              step == [p \in S \X {0} |-> SweepUnlessAll(plan, p[1])]
              W == SweepsUpTo(plan)
  <1>1. n \in Nat /\ Len(plan) \in Nat
    BY LenProperties
  <1>2. \A o \in S : Sweep(plan, o) \in S
    BY <1>1, SweepSteps DEF Sweep
  <1>31. \A o \in S : SweepUnlessAll(plan, o) \in S
    BY <1>2 DEF SweepUnlessAll
  <1>3. \A o \in S : SweepUnlessAll(plan, o) \in S /\ step[<<o, 0>>] = SweepUnlessAll(plan, o)
    BY <1>31
  <1>4. step \in [S \X {0} -> S]
    BY <1>31
  <1>. HIDE DEF step, n
  <1>. DEFINE rounds == [k \in 1 .. n |-> 0]
  <1>5. PICK g \in [0 .. n -> S] : Rounds(step, <<>>, rounds, n, g)
    <2>1. <<>> \in S /\ \A i \in 1 .. n : rounds[i] \in {0}
      OBVIOUS
    <2>. HIDE DEF S, rounds
    <2>. QED BY <1>1, <1>4, <2>1, FoldExists, ZenonT(40)
  <1>6. \A k \in 1 .. n : g[k] = SweepUnlessAll(plan, g[k - 1])
    <2>1. ASSUME NEW k \in 1 .. n PROVE g[k] = SweepUnlessAll(plan, g[k - 1])
      <3>1. g[k - 1] \in S /\ rounds[k] = 0
        BY <1>1, <1>5
      <3>2. g[k] = step[<<g[k - 1], rounds[k]>>]
        BY <1>5 DEF Rounds
      <3>. HIDE DEF S, rounds
      <3>. QED BY <1>3, <3>1, <3>2
    <2>. QED BY <2>1
  <1>. DEFINE body(k, f) == IF k = 0 THEN <<>> ELSE SweepUnlessAll(plan, f[k - 1])
  <1>7. \A k \in 0 .. n : g[k] = body(k, g)
    BY <1>1, <1>5, <1>6 DEF Rounds
  <1>8. g = [k \in 0 .. n |-> g[k]]
    BY <1>5
  <1>9. AreSweeps(plan, n, g)
    BY <1>7, <1>8, Zenon DEF AreSweeps
  <1>10. W = CHOOSE f : AreSweeps(plan, n, f)
    BY DEF SweepsUpTo, AreSweeps, n
  <1>11. AreSweeps(plan, n, W)
    BY <1>9, <1>10, Zenon
  <1>. HIDE DEF W
  <1>12. W[0] = <<>> /\ \A k \in 1 .. n : W[k] = SweepUnlessAll(plan, W[k - 1])
    BY <1>1, <1>11 DEF AreSweeps
  <1>. QED BY <1>12 DEF n, W

(* After every sweep either the order is complete, or nothing can be added, or  *)
(* it has grown with each sweep.                                                *)
LEMMA SweepsProgress ==
  ASSUME NEW plan \in Seq(Tasks)
  PROVE  LET order == SweepsUpTo(plan)[Len(plan) * Len(plan)] IN
         Ordered(plan, order) /\ (NothingLeft(plan, order) \/ Len(order) >= Len(plan))
  <1>. DEFINE l == Len(plan)
              n == l * l
              W == SweepsUpTo(plan)
              Good(k, o) == /\ Ordered(plan, o)
                            /\ NothingLeft(plan, o) \/ Len(o) >= l \/ Len(o) >= k
              N == {k \in Nat : k <= n => Good(k, W[k])}
  <1>1. l \in Nat /\ n \in Nat
    BY LenProperties
  <1>2. W[0] = <<>> /\ \A k \in 1 .. n : W[k] = SweepUnlessAll(plan, W[k - 1])
    BY SweepsSteps
  <1>3. n >= l
    <2>1. l = 0 \/ l >= 1
      BY <1>1
    <2>2. ASSUME l >= 1 PROVE l * l >= l
      <3>. HIDE DEF l
      <3>. QED BY <1>1, <2>2
    <2>. QED BY <1>1, <2>1, <2>2
  <1>. HIDE DEF W, n, l
  <1>4. 0 \in N
    <2>1. Ordered(plan, <<>>) /\ Len(<<>>) >= 0
      BY DEF Ordered
    <2>. QED BY <1>2, <2>1
  <1>5. ASSUME NEW k \in Nat, k \in N PROVE k + 1 \in N
    <2>1. SUFFICES ASSUME k + 1 <= n PROVE Good(k + 1, W[k + 1])
      OBVIOUS
    <2>. DEFINE o == W[k]
                more == W[k + 1]
    <2>2. Good(k, o) /\ k + 1 \in 1 .. n
      BY <1>1, <1>5, <2>1
    <2>3. more = SweepUnlessAll(plan, o)
      BY <1>2, <2>2
    <2>. HIDE DEF o, more
    <2>4. Len(o) \in Nat
      BY <2>2, LenProperties DEF Ordered
    <2>5. /\ Ordered(plan, Sweep(plan, o))
          /\ NothingLeft(plan, o) => Sweep(plan, o) = o
          /\ ~NothingLeft(plan, o) => Len(Sweep(plan, o)) > Len(o)
      BY <2>2, SweepStep
    <2>6. Len(Sweep(plan, o)) \in Nat
      BY <2>5, LenProperties DEF Ordered
    <2>7. Good(k + 1, more)
      <3>1. CASE Len(o) < l
        <4>1. more = Sweep(plan, o)
          BY <2>3, <3>1 DEF SweepUnlessAll, l
        <4>. QED BY <1>1, <2>2, <2>4, <2>5, <2>6, <3>1, <4>1
      <3>2. CASE ~(Len(o) < l)
        <4>1. more = o
          BY <2>3, <3>2 DEF SweepUnlessAll, l
        <4>. QED BY <1>1, <2>2, <2>4, <3>2, <4>1
      <3>. QED BY <3>1, <3>2
    <2>. QED BY <2>7 DEF more
  <1>. HIDE DEF N
  <1>6. Nat \subseteq N
    BY <1>4, <1>5, InductionOverNat
  <1>7. Good(n, W[n])
    BY <1>1, <1>6 DEF N
  <1>8. Len(W[n]) \in Nat
    BY <1>7, LenProperties DEF Ordered
  <1>. QED BY <1>1, <1>3, <1>7, <1>8 DEF W, n, l

(* As many tasks of different ids as the plan has: no id of the plan is missing. *)
LEMMA FullOrders ==
  ASSUME NEW plan \in Seq(Tasks), NEW order, Ordered(plan, order), Len(order) >= Len(plan)
  PROVE  Known(plan) \subseteq DoneIds(order)
  <1>. DEFINE l == Len(plan)
              n == Len(order)
              at == [i \in 1 .. n |-> CHOOSE j \in 1 .. l : order[i] = plan[j]]
  <1>1. l \in Nat /\ n \in Nat /\ DOMAIN plan = 1 .. l /\ DOMAIN order = 1 .. n /\ n >= l
    BY LenProperties DEF Ordered
  <1>2. \A i \in 1 .. n : \E j \in 1 .. l : order[i] = plan[j]
    BY DEF Ordered
  <1>3. \A i, j \in 1 .. n : order[i].id = order[j].id => i = j
    BY DEF Ordered
  <1>. HIDE DEF l, n
  <1>4. \A i \in 1 .. n : at[i] \in 1 .. l /\ order[i] = plan[at[i]]
    BY <1>2
  <1>5. at \in Injection(1 .. n, 1 .. l)
    <2>1. at \in [1 .. n -> 1 .. l]
      BY <1>4
    <2>2. ASSUME NEW i \in 1 .. n, NEW j \in 1 .. n, at[i] = at[j] PROVE i = j
      BY <1>3, <1>4, <2>2
    <2>. HIDE DEF at
    <2>. QED BY <2>1, <2>2 DEF Injection, IsInjective
  <1>6. /\ IsFiniteSet(1 .. l) /\ Cardinality(1 .. l) = l
        /\ IsFiniteSet(1 .. n) /\ Cardinality(1 .. n) = n
    <2>1. \A k \in Nat : IsFiniteSet(1 .. k) /\ Cardinality(1 .. k) = k
      <3>1. SUFFICES ASSUME NEW k \in Nat PROVE IsFiniteSet(1 .. k) /\ Cardinality(1 .. k) = k
        OBVIOUS
      <3>2. IsFiniteSet(1 .. k) /\ Cardinality(1 .. k) = IF 1 > k THEN 0 ELSE k - 1 + 1
        BY FS_Interval
      <3>. QED BY <3>2
    <2>. QED BY <1>1, <2>1
  <1>. HIDE DEF at
  <1>7. at \in Surjection(1 .. n, 1 .. l)
    BY <1>1, <1>5, <1>6, FS_Injection
  <1>8. ASSUME NEW j \in 1 .. l PROVE plan[j].id \in DoneIds(order)
    <2>1. PICK i \in 1 .. n : at[i] = j
      BY <1>7 DEF Surjection
    <2>2. plan[j] = order[i]
      BY <1>4, <2>1
    <2>. QED BY <1>1, <2>2 DEF DoneIds
  <1>. QED BY <1>1, <1>8 DEF Known

(* A task that reaches no cycle is among the ordered ones. *)
LEMMA DoableAreOrdered ==
  ASSUME NEW plan \in Seq(Tasks), NEW order, Ordered(plan, order),
         NothingLeft(plan, order) \/ Len(order) >= Len(plan)
  PROVE  Doable(plan) \subseteq DoneIds(order)
  <1>. DEFINE S == DoneIds(order)
  <1>1. DOMAIN plan = 1 .. Len(plan) /\ DOMAIN order = 1 .. Len(order)
    BY LenProperties DEF Ordered
  <1>2. S \subseteq Known(plan)
    BY <1>1 DEF Ordered, Known, DoneIds
  <1>3. CASE Len(order) >= Len(plan)
    BY <1>3, FullOrders DEF Doable
  <1>4. CASE NothingLeft(plan, order)
    <2>1. \A i \in DOMAIN plan : plan[i].deps \cap Known(plan) \subseteq S => plan[i].id \in S
      BY <1>1, <1>4 DEF NothingLeft, Runnable
    <2>2. S \in SUBSET Known(plan)
      BY <1>2
    <2>. HIDE DEF S
    <2>3. ASSUME NEW id \in Doable(plan) PROVE id \in S
      BY <2>1, <2>2, <2>3, Zenon DEF Doable
    <2>. QED BY <2>3 DEF S
  <1>. QED BY <1>3, <1>4

(* The order the tasks are given out in: every id of the plan, and those that   *)
(* reach no cycle after their dependencies.                                     *)
LEMMA TopoIsAnOrder ==
  ASSUME NEW plan \in Seq(Tasks)
  PROVE  LET all == topo(plan) IN
         /\ all \in Seq(Tasks)
         /\ {all[i].id : i \in DOMAIN all} = Known(plan)
         /\ \A i \in DOMAIN all : all[i].id \in Doable(plan) =>
              all[i].deps \cap Known(plan) \subseteq {all[j].id : j \in 1 .. i - 1}
  <1>. DEFINE order == SweepsUpTo(plan)[Len(plan) * Len(plan)]
              places == {i \in DOMAIN plan : plan[i].id \notin DoneIds(order)}
              rest == Picked(plan, places)
              all == topo(plan)
              n == Len(order)
              m == Len(rest)
  <1>1. Ordered(plan, order) /\ Doable(plan) \subseteq DoneIds(order)
    BY SweepsProgress, DoableAreOrdered
  <1>2. order \in Seq(Tasks) /\ n \in Nat /\ DOMAIN order = 1 .. n
        /\ DOMAIN plan = 1 .. Len(plan) /\ Len(plan) \in Nat
    BY <1>1, LenProperties DEF Ordered
  <1>3. all = order \o rest
    BY DEF topo
  <1>. HIDE DEF all, order
  <1>4. rest \in Seq(Tasks) /\ \E at : PickedAt(plan, places, rest, at)
    BY PickedPlaces
  <1>5. m \in Nat /\ DOMAIN rest = 1 .. m
    BY <1>4, LenProperties
  <1>6. PICK at : PickedAt(plan, places, rest, at)
    BY <1>4
  <1>7. \A i \in 1 .. m : at[i] \in places /\ rest[i] = plan[at[i]]
    BY <1>6 DEF PickedAt
  <1>8. ASSUME NEW j \in places PROVE \E i \in 1 .. m : rest[i] = plan[j]
    <2>1. j \in 1 .. Len(plan)
      BY <1>2
    <2>. HIDE DEF rest, places
    <2>2. PICK i \in 1 .. m : at[i] = j
      BY <1>6, <1>8, <2>1 DEF PickedAt, m
    <2>. QED BY <1>7, <2>2
  <1>. HIDE DEF rest, places
  <1>9. /\ all \in Seq(Tasks) /\ Len(all) = n + m
        /\ \A i \in 1 .. n : all[i] = order[i]
        /\ \A i \in 1 .. m : all[n + i] = rest[i]
    BY <1>2, <1>3, <1>4, <1>5, ConcatProperties
  <1>10. DOMAIN all = 1 .. n + m
    BY <1>9, LenProperties
  <1>. HIDE DEF n, m
  <1>11. ASSUME NEW i \in 1 .. n + m, ~(i \in 1 .. n)
         PROVE  i - n \in 1 .. m /\ all[i] = rest[i - n] /\ all[i].id \notin DoneIds(order)
    <2>1. i - n \in 1 .. m /\ n + (i - n) = i
      BY <1>2, <1>5, <1>11 DEF n, m
    <2>2. all[i] = rest[i - n]
      BY <1>9, <2>1
    <2>3. plan[at[i - n]].id \notin DoneIds(order)
      BY <1>7, <2>1 DEF places
    <2>. QED BY <1>7, <2>1, <2>2, <2>3
  <1>12. ASSUME NEW i \in 1 .. n + m, all[i].id \in Doable(plan)
         PROVE  all[i].deps \cap Known(plan) \subseteq {all[j].id : j \in 1 .. i - 1}
    <2>1. i \in 1 .. n
      BY <1>1, <1>11, <1>12
    <2>2. order[i].deps \cap Known(plan) \subseteq {order[j].id : j \in 1 .. i - 1}
      BY <1>1, <2>1 DEF Ordered, n
    <2>3. n \in Nat
      BY <1>2 DEF n
    <2>4. \A j \in 1 .. i - 1 : all[j] = order[j]
      BY <1>9, <2>1, <2>3
    <2>. QED BY <1>9, <2>1, <2>2, <2>4
  <1>13. ASSUME NEW i \in 1 .. n + m PROVE all[i].id \in Known(plan)
    <2>1. CASE i \in 1 .. n
      <3>1. PICK j \in 1 .. Len(plan) : order[i] = plan[j]
        BY <1>1, <2>1 DEF Ordered, n
      <3>. QED BY <1>2, <1>9, <2>1, <3>1 DEF Known
    <2>2. CASE ~(i \in 1 .. n)
      <3>1. all[i] = plan[at[i - n]] /\ at[i - n] \in DOMAIN plan
        BY <1>7, <1>11, <2>2 DEF places
      <3>. QED BY <3>1 DEF Known
    <2>. QED BY <2>1, <2>2
  <1>14. ASSUME NEW j \in DOMAIN plan
         PROVE  \E i \in 1 .. n + m : all[i].id = plan[j].id
    <2>0. n \in Nat /\ m \in Nat
      BY <1>2, <1>5 DEF n, m
    <2>1. CASE plan[j].id \in DoneIds(order)
      <3>1. PICK i \in 1 .. n : order[i].id = plan[j].id
        BY <1>2, <2>1 DEF DoneIds, n
      <3>. QED BY <1>9, <2>0, <3>1
    <2>2. CASE plan[j].id \notin DoneIds(order)
      <3>1. PICK i \in 1 .. m : rest[i] = plan[j]
        BY <1>8, <2>2 DEF places
      <3>2. n + i \in 1 .. n + m /\ all[n + i] = plan[j]
        BY <1>9, <2>0, <3>1
      <3>. QED BY <3>2
    <2>. QED BY <2>1, <2>2
  <1>15. {all[i].id : i \in DOMAIN all} = Known(plan)
    BY <1>10, <1>13, <1>14 DEF Known
  <1>. QED BY <1>9, <1>10, <1>12, <1>15 DEF all

-----------------------------------------------------------------------------
(* The phase.  Its tasks are given out in the order, only the last may have     *)
(* been blocked, and what the stages after it stand on is known.                *)
PhaseInv ==
  /\ ppPlan \in Seq(Tasks)
  /\ DOMAIN ppResults = 1 .. Len(ppResults) /\ Len(ppResults) \in Nat
  /\ Len(ppResults) <= Len(topo(ppPlan))
  /\ \A i \in 1 .. Len(ppResults) : ppResults[i].task = topo(ppPlan)[i]
  /\ \A i \in 1 .. Len(ppResults) - 1 : ppResults[i].status # "blocked"
  /\ ppStage # "implement" => Stops(ppResults) \/ Len(ppResults) = Len(topo(ppPlan))
  /\ ppGate = "pass" => /\ DOMAIN ppExits \subseteq DOMAIN PhaseGates
                        /\ \A i \in DOMAIN ppExits : ppExits[i] \in Exits
                        /\ runGate(ppExits) = "pass"
  /\ ppPass => ppStage = "returned" /\ ppGate = "pass" /\ ~Blocked(ppResults)
  /\ ppPass \in BOOLEAN

(* Every phase: an agent is given a task that reaches no cycle only after its   *)
(* dependencies, none of them blocked, and a phase that passes worked on every  *)
(* id of its plan, with none blocked and no required gate ended by an exit      *)
(* other than zero (phase-pipeline.mjs:69-85, 88-102, 152-156; run-gate.mjs:5). *)
THEOREM PhasesAreWhole == PhaseSpec => []PassedPhasesAreWhole
  <1>1. PhaseInit => PhaseInv
    <2>. SUFFICES ASSUME PhaseInit PROVE PhaseInv
      OBVIOUS
    <2>1. ppPlan \in Seq(Tasks)
      BY PhaseAssumption DEF PhaseInit, Tasks
    <2>2. Len(topo(ppPlan)) \in Nat
      BY <2>1, TopoIsAnOrder, LenProperties
    <2>3. /\ ppResults = <<>> /\ ppStage = "implement" /\ ppGate = "null" /\ ppPass = FALSE
          /\ DOMAIN ppResults = 1 .. Len(ppResults) /\ Len(ppResults) = 0
      BY DEF PhaseInit
    <2>4. \A i \in 1 .. Len(ppResults) : i \notin 1 .. Len(ppResults)
      BY <2>3
    <2>5. Len(ppResults) <= Len(topo(ppPlan)) /\ Len(ppResults) \in Nat
      BY <2>2, <2>3
    <2>6. \A i \in 1 .. Len(ppResults) - 1 : FALSE
      BY <2>3
    <2>. QED BY <2>1, <2>3, <2>4, <2>5, <2>6 DEF PhaseInv
  <1>2. PhaseInv /\ [PhaseNext]_ppVars => PhaseInv'
    <2>. SUFFICES ASSUME PhaseInv, [PhaseNext]_ppVars PROVE PhaseInv'
      OBVIOUS
    <2>. DEFINE n == Len(ppResults)
                all == topo(ppPlan)
    <2>0. n \in Nat /\ all \in Seq(Tasks) /\ Len(all) \in Nat
      BY TopoIsAnOrder, LenProperties DEF PhaseInv
    <2>1. CASE Implement
      <3>1. CASE Stops(ppResults) \/ n = Len(all)
        BY <2>1, <3>1 DEF Implement, PhaseInv
      <3>2. CASE ~(Stops(ppResults) \/ n = Len(all))
        <4>1. PICK status \in {"done", "flagged", "blocked", "null"} :
                ppResults' = Append(ppResults, [task |-> all[n + 1], status |-> status])
          BY <2>1, <3>2 DEF Implement
        <4>2. UNCHANGED <<ppPlan, ppStage, ppExits, ppGate, ppPass>>
          BY <2>1, <3>2 DEF Implement
        <4>3. /\ Len(ppResults') = n + 1 /\ DOMAIN ppResults' = 1 .. n + 1
              /\ \A i \in 1 .. n : ppResults'[i] = ppResults[i]
              /\ ppResults'[n + 1] = [task |-> all[n + 1], status |-> status]
          BY <4>1 DEF PhaseInv
        <4>4. \A i \in 1 .. n : ppResults[i].status # "blocked"
          BY <3>2, <2>0 DEF PhaseInv, Stops, Last
        <4>5. Len(ppResults') <= Len(all)
          BY <2>0, <3>2, <4>3 DEF PhaseInv
        <4>6. ASSUME NEW i \in 1 .. n + 1
              PROVE  ppResults'[i].task = all[i] /\ (i # n + 1 => ppResults'[i].status # "blocked")
          <5>1. CASE i \in 1 .. n
            <6>1. ppResults'[i] = ppResults[i] /\ i # n + 1 /\ ppResults[i].task = all[i]
              BY <2>0, <4>3, <5>1 DEF PhaseInv
            <6>. QED BY <4>4, <5>1, <6>1
          <5>2. CASE i = n + 1
            BY <4>3, <5>2
          <5>. QED BY <2>0, <5>1, <5>2
        <4>7. /\ Len(ppResults') \in Nat
              /\ \A i \in 1 .. Len(ppResults') : ppResults'[i].task = all[i]
              /\ \A i \in 1 .. Len(ppResults') - 1 : ppResults'[i].status # "blocked"
          BY <2>0, <4>3, <4>6
        <4>8. ppStage = "implement" /\ ~ppPass
          BY <2>1 DEF Implement, PhaseInv
        <4>. HIDE DEF n
        <4>. QED BY <4>2, <4>3, <4>5, <4>7, <4>8 DEF PhaseInv
      <3>. QED BY <3>1, <3>2
    <2>2. CASE Gate
      BY <2>2 DEF Gate, PhaseInv
    <2>3. CASE Review
      BY <2>3 DEF Review, PhaseInv
    <2>4. CASE UNCHANGED ppVars
      BY <2>4 DEF ppVars, PhaseInv
    <2>. QED BY <2>1, <2>2, <2>3, <2>4 DEF PhaseNext
  <1>3. PhaseInv => PassedPhasesAreWhole
    <2>. SUFFICES ASSUME PhaseInv PROVE PassedPhasesAreWhole
      OBVIOUS
    <2>. DEFINE n == Len(ppResults)
                all == topo(ppPlan)
    <2>1. /\ all \in Seq(Tasks) /\ {all[i].id : i \in DOMAIN all} = Known(ppPlan)
          /\ \A i \in DOMAIN all : all[i].id \in Doable(ppPlan) =>
               all[i].deps \cap Known(ppPlan) \subseteq {all[j].id : j \in 1 .. i - 1}
      BY TopoIsAnOrder DEF PhaseInv
    <2>2. /\ n \in Nat /\ Len(all) \in Nat /\ n <= Len(all) /\ DOMAIN all = 1 .. Len(all)
          /\ DOMAIN ppResults = 1 .. n /\ \A i \in 1 .. n : ppResults[i].task = all[i]
          /\ \A i \in 1 .. n - 1 : ppResults[i].status # "blocked"
      BY <2>1, LenProperties DEF PhaseInv
    <2>. HIDE DEF n, all
    <2>3. ASSUME NEW i \in 1 .. n, ppResults[i].task.id \in Doable(ppPlan),
                 NEW d \in ppResults[i].task.deps \cap Known(ppPlan)
          PROVE  \E j \in 1 .. i - 1 : ppResults[j].task.id = d /\ ppResults[j].status # "blocked"
      <3>1. PICK j \in 1 .. i - 1 : all[j].id = d
        BY <2>1, <2>2, <2>3
      <3>2. j \in 1 .. n - 1 /\ j \in 1 .. n
        BY <2>2
      <3>. QED BY <2>2, <3>1, <3>2
    <2>4. ASSUME ppPass
          PROVE  /\ {ppResults[i].task.id : i \in DOMAIN ppResults} = Known(ppPlan)
                 /\ \A i \in DOMAIN ppResults : ppResults[i].status # "blocked"
                 /\ \A i \in DOMAIN ppExits : PhaseGates[i] => ppExits[i] \notin {"nonzero", "signal"}
      <3>1. ppStage # "implement" /\ ~Blocked(ppResults) /\ ppGate = "pass"
        BY <2>4 DEF PhaseInv
      <3>2. \A i \in 1 .. n : ppResults[i].status # "blocked"
        BY <2>2, <3>1 DEF Blocked
      <3>3. n = Len(all)
        <4>1. ~Stops(ppResults)
          <5>1. ASSUME ppResults # <<>> PROVE Last(ppResults).status # "blocked"
            <6>1. n # 0
              BY <2>2, <5>1 DEF PhaseInv, n
            <6>. QED BY <2>2, <3>2, <6>1 DEF Last, n
          <5>. QED BY <5>1 DEF Stops
        <4>. QED BY <3>1, <4>1 DEF PhaseInv, n, all
      <3>4. {ppResults[i].task.id : i \in DOMAIN ppResults} = Known(ppPlan)
        BY <2>1, <2>2, <3>3
      <3>5. ASSUME NEW i \in DOMAIN ppExits, PhaseGates[i]
            PROVE  ppExits[i] \notin {"nonzero", "signal"}
        <4>1. classifyExit(ppExits[i]) # "fail"
          BY <3>1, <3>5 DEF PhaseInv, runGate
        <4>2. Code("nonzero") = 1 /\ Code("signal") = 1
          BY DEF Code
        <4>3. classifyExit("nonzero") = "fail" /\ classifyExit("signal") = "fail"
          BY <4>2 DEF classifyExit
        <4>. QED BY <4>1, <4>3
      <3>. QED BY <2>2, <3>2, <3>4, <3>5
    <2>. QED BY <2>2, <2>3, <2>4 DEF PassedPhasesAreWhole
  <1>. QED BY <1>1, <1>2, <1>3, PTL DEF PhaseSpec

-----------------------------------------------------------------------------
(* The records of the updater, the dictionary and its review rows, the asset    *)
(* caches and the build tabs keep their types and their own promises, whatever  *)
(* the constants of each.                                                       *)
THEOREM RecordsKeepTheirTypes == RecordKeepersSpec => []ComponentTypesOK
  <1>1. UpdaterTypeOK /\ LocTypeOK /\ AssetTypeOK /\ TabTypeOK => ComponentTypesOK
    BY DEF ComponentTypesOK
  <1>. QED BY <1>1, UpdaterTypes, LocTypes, AssetTypes, OptionsKeepTheirType, PTL
         DEF RecordKeepersSpec
=============================================================================

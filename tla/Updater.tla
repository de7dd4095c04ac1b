------------------------------ MODULE Updater ------------------------------
(***************************************************************************)
(* The update sequence: runUpdate and rollback over an injected            *)
(* environment, any of whose calls may reject, and the feed a channel      *)
(* resolves to.  The host keeps the UpdaterState a call returned and hands *)
(* it to the next one; when a call rejects it keeps the state it had.      *)
(***************************************************************************)
EXTENDS Naturals, Sequences

CONSTANTS
  Versions,    \* the versions feeds offer
  NoVersion,   \* null
  Installed,   \* the version installed at first
  MaxUpdates   \* bound on the updates of a behaviour

ASSUME UpdaterAssumption == Installed \in Versions /\ NoVersion \notin Versions

VARIABLES
  updHost,   \* the UpdaterState the host holds
  updDisk,   \* what the environment did: version switched to, staging directory
  upd,       \* the run of runUpdate: its program counter, locals and result
  updDirty,  \* what a rejected call left behind: staging, active
  updCount

updVars == <<updHost, updDisk, upd, updDirty, updCount>>

Channels == {"stable", "beta", "dev"}

(* Every channel has a feed of its own; another id is refused, not taken for stable. *)
UpdateFeed(id) == IF id \in Channels THEN id ELSE "throws"

NoUpdate == [pc |-> "idle", feed |-> "none", version |-> NoVersion,
             staged |-> NoVersion, steps |-> <<>>, outcome |-> "none"]

UpdaterInit ==
  /\ updHost = [active |-> Installed, staged |-> NoVersion]
  /\ updDisk = [active |-> Installed, staged |-> NoVersion]
  /\ upd = NoUpdate
  /\ updDirty = {}
  /\ updCount = 0

(* env.download is awaited next. *)
Check(id, v) ==
  /\ upd.pc = "idle"
  /\ updCount < MaxUpdates
  /\ updCount' = updCount + 1
  /\ upd' = IF UpdateFeed(id) = "throws"
              THEN [NoUpdate EXCEPT !.outcome = "unknown channel"]
              ELSE [NoUpdate EXCEPT !.pc = "download", !.feed = UpdateFeed(id), !.version = v,
                                    !.staged = updHost.staged, !.steps = <<"download">>]
  /\ UNCHANGED <<updHost, updDisk, updDirty>>

Await(pc, step) == upd' = [upd EXCEPT !.pc = pc, !.steps = Append(@, step)]

Finish(outcome, state, steps) ==
  /\ upd' = [upd EXCEPT !.pc = "idle", !.outcome = outcome, !.steps = steps]
  /\ updHost' = state

RolledBack == [active |-> updHost.active, staged |-> NoVersion]

(* Bug: a failed smoke test rolled back with the state before staging. *)
RollbackForgets(steps) == Finish("rolled-back", RolledBack, Append(steps, "rollback"))

(* rollback: env.discardStaging is awaited only when something is staged. *)
Rollback(steps) ==
  IF upd.staged = NoVersion
    THEN Finish("rolled-back", RolledBack, Append(steps, "rollback"))
    ELSE /\ upd' = [upd EXCEPT !.pc = "discard", !.steps = Append(steps, "rollback")]
         /\ UNCHANGED updHost

(* Bug: verification that does not stop a bad artifact. *)
DownloadedUnverified(genuine) ==
  /\ upd.pc = "download"
  /\ upd' = [upd EXCEPT !.pc = "stage", !.steps = @ \o <<"stage">>]
  /\ UNCHANGED <<updHost, updDisk, updDirty, updCount>>

(* The artifact has arrived: verify it, which gates staging. *)
Downloaded(genuine) ==
  /\ upd.pc = "download"
  /\ IF genuine
       THEN /\ upd' = [upd EXCEPT !.pc = "stage", !.steps = @ \o <<"verify", "stage">>]
            /\ UNCHANGED updHost
       ELSE Rollback(Append(upd.steps, "verify"))
  /\ UNCHANGED <<updDisk, updDirty, updCount>>

Staged ==
  /\ upd.pc = "stage"
  /\ updDisk' = [updDisk EXCEPT !.staged = upd.version]
  /\ upd' = [upd EXCEPT !.pc = "smoke-test", !.staged = upd.version,
                        !.steps = Append(@, "smoke-test")]
  /\ UNCHANGED <<updHost, updDirty, updCount>>

(* Bug: the switch made before the smoke test has answered. *)
SmokeTestedEarly(passed) ==
  /\ upd.pc = "smoke-test"
  /\ updDisk' = [updDisk EXCEPT !.active = upd.version]
  /\ Await("activate", "activate")
  /\ UNCHANGED <<updHost, updDirty, updCount>>

(* Bug: the host's record keeps the version it had. *)
ActivatedUnrecorded ==
  /\ upd.pc = "activate"
  /\ updDisk' = [active |-> upd.version, staged |-> NoVersion]
  /\ Finish("switched", updHost, upd.steps)
  /\ updDirty' = {}
  /\ UNCHANGED updCount

SmokeTested(passed) ==
  /\ upd.pc = "smoke-test"
  /\ IF passed THEN Await("activate", "activate") /\ UNCHANGED updHost
               ELSE Rollback(upd.steps)
  /\ UNCHANGED <<updDisk, updDirty, updCount>>

(* The switch takes the staged version, so it empties the staging directory. *)
Activated ==
  /\ upd.pc = "activate"
  /\ updDisk' = [active |-> upd.version, staged |-> NoVersion]
  /\ Finish("switched", [active |-> upd.version, staged |-> NoVersion], upd.steps)
  /\ updDirty' = {}
  /\ UNCHANGED updCount

Discarded ==
  /\ upd.pc = "discard"
  /\ updDisk' = [updDisk EXCEPT !.staged = NoVersion]
  /\ Finish("rolled-back", RolledBack, upd.steps)
  /\ updDirty' = updDirty \ {"staging"}
  /\ UNCHANGED updCount

(* The awaited call rejects, before or after it had its effect; runUpdate has   *)
(* no handler, so the host sees the rejection and nothing is rolled back.       *)
Throws ==
  /\ upd.pc # "idle"
  /\ updDisk' \in {updDisk} \cup
       (CASE upd.pc = "stage"    -> {[updDisk EXCEPT !.staged = upd.version]}
          [] upd.pc = "activate" -> {[active |-> upd.version, staged |-> NoVersion]}
          [] upd.pc = "discard"  -> {[updDisk EXCEPT !.staged = NoVersion]}
          [] OTHER               -> {})
  /\ updDirty' = updDirty \cup
       (IF upd.pc = "download" THEN {}
        ELSE IF upd.pc = "activate" THEN {"staging", "active"} ELSE {"staging"})
  /\ upd' = [upd EXCEPT !.pc = "idle", !.outcome = "thrown"]
  /\ UNCHANGED <<updHost, updCount>>

UpdaterNext ==
  \/ \E id \in Channels \cup {"nightly"}, v \in Versions : Check(id, v)
  \/ \E genuine \in BOOLEAN : Downloaded(genuine)
  \/ Staged
  \/ \E passed \in BOOLEAN : SmokeTested(passed)
  \/ Activated
  \/ Discarded
  \/ Throws

UpdaterSpec == UpdaterInit /\ [][UpdaterNext]_updVars

-----------------------------------------------------------------------------
States == [active : Versions, staged : Versions \cup {NoVersion}]

Pcs == {"idle", "download", "stage", "smoke-test", "activate", "discard"}

(* The traces of a run, cut off where a call rejected. *)
Traces ==
  {<<>>, <<"download">>, <<"download", "verify", "stage">>,
   <<"download", "verify", "stage", "smoke-test">>,
   <<"download", "verify", "stage", "smoke-test", "activate">>,
   <<"download", "verify", "rollback">>,
   <<"download", "verify", "stage", "smoke-test", "rollback">>}

Outcomes == {"none", "unknown channel", "switched", "rolled-back", "thrown"}

Updates == [pc : Pcs, feed : Channels \cup {"none"}, version : Versions \cup {NoVersion},
            staged : Versions \cup {NoVersion}, steps : Traces, outcome : Outcomes]

(* Types of the host's record, the disk and the run, which has a candidate      *)
(* while it is on its way.                                                      *)
UpdaterTypeOK ==
  /\ updHost \in States /\ updDisk \in States
  /\ upd \in Updates
  /\ (upd.pc # "idle" => upd.version \in Versions)
  /\ updDirty \subseteq {"staging", "active"}

(* Between updates nothing is staged and the host's record of the active        *)
(* version is right, unless a call of the environment rejected and no later     *)
(* update has got far enough to clean up: what "no half-staged version is left  *)
(* behind" comes to when calls may reject.                                      *)
OnlyAThrowLeavesSomethingBehind ==
  upd.pc = "idle" =>
    /\ "staging" \notin updDirty => updDisk.staged = NoVersion
    /\ "active" \notin updDirty => updHost.active = updDisk.active

(* The updater implements the atomic switch: a version is vetted while its      *)
(* activation is awaited, after a matching digest and a smoke test passed, and  *)
(* the active version changes only to it, in one step.                          *)
A == INSTANCE AtomicUpdate WITH
       active <- updDisk.active,
       vetted <- IF upd.pc = "activate" THEN upd.version ELSE NoVersion

SwitchesAtomically == A!Spec

(* While a version awaits activation it is the one that was staged and tested,  *)
(* and the trace shows every gate it passed, in order.                          *)
ActivatesWhatWasTested ==
  upd.pc = "activate" =>
    /\ updDisk.staged = upd.version
    /\ upd.steps = <<"download", "verify", "stage", "smoke-test", "activate">>
=============================================================================

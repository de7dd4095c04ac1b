----------------------------- MODULE CoreHost -----------------------------
(***************************************************************************)
(* The desktop host's gateway to the Lua core: the Tauri command           *)
(* core_request (apps/desktop/src-tauri/src/lib.rs), the CoreBridge it     *)
(* drives (core_bridge.rs) and the runner process behind the two pipes     *)
(* (overlays/lua/runner.lua, with CoreApi inside).                         *)
(*                                                                         *)
(* Callers are the WebView's concurrent invocations.  core_request holds   *)
(* the state mutex for the whole request, so one caller at a time walks    *)
(* through: (re)start the runner if there is none, write one frame, read   *)
(* one line.  The runner runs concurrently and may exit at any moment.     *)
(***************************************************************************)
EXTENDS CoreApi, Sequences

CONSTANTS
  Callers,     \* concurrent WebView invocations
  NoCaller,    \* nobody holds the state mutex
  Methods,     \* the methods callers use, allowlisted or not
  MaxRequests, \* bound: requests issued in a behaviour
  MaxRunners,  \* bound: runner processes spawned in a behaviour
  StderrCap    \* stderr chunks the unread pipe holds before a write blocks

ASSUME HostAssumption ==
  /\ MaxRequests \in Nat /\ MaxRunners \in Nat /\ StderrCap \in Nat
  /\ NoCaller \notin Callers
  /\ "none" \notin Methods

VARIABLES
  call,     \* what each caller is waiting for
  issued,   \* requests issued so far
  lock,     \* holder of the CoreBridgeState mutex
  pc,       \* where the holder is in core_request
  slot,     \* runner owned by the CoreBridgeState (0: None)
  runner,   \* the runner most recently spawned (0: none yet)
  alive,    \* runner processes that have not exited
  nextId,   \* RunnerProcess.next_id
  stdin,    \* frames written and not yet read by the runner
  stdout,   \* reply lines not yet read by the host
  stderr,   \* narration in the runner's stderr pipe, which nobody drains
  wedged,   \* the runner is blocked writing to a full stderr pipe
  core,     \* the CoreApi state of the current runner
  granted,  \* history: build handles returned by successful loads
  believed, \* history: per handle, the inputs the answers so far leave possible
  reports,  \* history: per runner, answers that reported its loss
  last      \* history: the latest answer, until the mutex is taken again

hostVars == <<lock, pc, slot, nextId>>
procVars == <<runner, alive, stdin, stdout, stderr, wedged, core>>
histVars == <<granted, believed, reports, last>>
vars     == <<call, issued, lock, pc, slot, runner, alive, nextId, stdin, stdout,
              stderr, wedged, core, granted, believed, reports, last>>

(***************************************************************************)
(* A handle is what a caller gets from build.load.  Only its id travels on *)
(* the wire; the runner and the document it came from are history.         *)
(***************************************************************************)
Runners  == 1..MaxRunners
Handles  == [runner : Runners, id : Nat \ {NoId}, doc : Docs]
NoHandle == [runner |-> 0, id |-> NoId, doc |-> NoDoc]

(* core_bridge.rs ALLOWED_METHODS is the same list as runner.lua METHODS. *)
AllowedMethods == CoreMethods

NoArg == AsLoaded

(* The sets of nodes are listed, for TLC to compare them with model values. *)
Arguments(method) ==
  CASE method = "build.load"         -> Docs \cup {BadXml, NoXml, HugeXml}
    [] method = "skills.setGemGroup" -> GemLists
    [] method = "config.setOption"   -> Values
    [] method = "tree.applyAllocate" -> {nodes : nodes \in SUBSET Nodes}
    [] OTHER                         -> {NoArg}

Unaddressed == {"core.version", "build.load", "items.parseClipboard"}

Request ==
  {r \in [method : Methods, handle : Handles \cup {NoHandle},
          arg : UNION {Arguments(m) : m \in Methods}] : r.arg \in Arguments(r.method)}

NoRequest == [method |-> "none", handle |-> NoHandle, arg |-> NoArg]
Handshake == [method |-> "core.version", handle |-> NoHandle, arg |-> NoArg]

NoAnswer == [code |-> "none", sent |-> 0, got |-> 0, from |-> 0, kept |-> TRUE,
             req |-> NoRequest, reply |-> Refusal("OK")]

(* Mutant of HostCode: every code passes through. *)
RunnerCode(code) == code

(* rpc_error_to_core: the closed set passes through, a crashed handler is  *)
(* CALC_FAILED, any other JSON-RPC fault is UPSTREAM_INCOMPATIBLE.         *)
HostCode(code) ==
  IF code \in CoreErrorCodes \cup {"OK"} THEN code
  ELSE IF code = "RAISED" THEN "CALC_FAILED" ELSE "UPSTREAM_INCOMPATIBLE"

(* CoreBridge::request tears the runner down on these codes, wherever they *)
(* came from.                                                              *)
TearsDown(code) == code \in {"CORE_INIT_FAILED", "UPSTREAM_INCOMPATIBLE"}

Oversize(req) == req.arg = HugeXml

Init ==
  /\ call = [c \in Callers |-> NoRequest]
  /\ issued = 0
  /\ lock = NoCaller /\ pc = "idle"
  /\ slot = 0 /\ runner = 0 /\ alive = {} /\ nextId = 1
  /\ stdin = <<>> /\ stdout = <<>> /\ stderr = 0 /\ wedged = FALSE
  /\ core = FreshCore
  /\ granted = {} /\ believed = [h \in {} |-> {}]
  /\ reports = [r \in Runners |-> 0]
  /\ last = NoAnswer
-----------------------------------------------------------------------------
(* The WebView invokes core_request. *)
Invoke(c) ==
  /\ call[c] = NoRequest
  /\ issued < MaxRequests
  /\ \E m \in Methods :
       \E h \in (IF m \in Unaddressed THEN {NoHandle} ELSE granted \cup {NoHandle}),
          a \in Arguments(m) :
            call' = [call EXCEPT ![c] = [method |-> m, handle |-> h, arg |-> a]]
  /\ issued' = issued + 1
  /\ UNCHANGED <<hostVars, procVars, histVars>>

(* Mutant of Acquire: a runner that is found dead is replaced in silence. *)
AcquireLiveRunner(c) ==
  /\ lock = NoCaller
  /\ call[c] # NoRequest
  /\ lock' = c
  /\ slot' = IF runner \in alive THEN slot ELSE 0
  /\ pc' = IF slot' = 0 THEN "spawn" ELSE "send"
  /\ last' = NoAnswer
  /\ UNCHANGED <<call, issued, nextId, procVars, granted, believed, reports>>

(* core_request takes the mutex and sees whether a runner is running: that *)
(* is, whether the bridge still holds one, not whether the process lives.  *)
Acquire(c) ==
  /\ lock = NoCaller
  /\ call[c] # NoRequest
  /\ lock' = c
  /\ pc' = IF slot = 0 THEN "spawn" ELSE "send"
  /\ last' = NoAnswer
  /\ UNCHANGED <<call, issued, slot, nextId, procVars, granted, believed, reports>>

(* Hand an answer to the lock holder and release the mutex. *)
Answer(code, sent, got, from, kept, reply) ==
  /\ last' = [code |-> code, sent |-> sent, got |-> got, from |-> from,
              kept |-> kept, req |-> call[lock], reply |-> reply]
  /\ call' = [call EXCEPT ![lock] = NoRequest]
  /\ lock' = NoCaller
  /\ pc' = "idle"
  /\ UNCHANGED issued

(* Mutant of TearDown: the RunnerProcess is dropped and nobody kills it. *)
DropWithoutKill ==
  /\ slot' = 0
  /\ stdin' = <<>> /\ stdout' = <<>>
  /\ reports' = [reports EXCEPT ![runner] = @ + 1]
  /\ UNCHANGED <<runner, alive, stderr, wedged, core, nextId, granted, believed>>

(* kill, wait, drop the RunnerProcess with its pipes; the answer given in  *)
(* the same step is the one that reports the loss.                         *)
TearDown ==
  /\ slot' = 0
  /\ alive' = alive \ {runner}
  /\ stdin' = <<>> /\ stdout' = <<>> /\ stderr' = 0 /\ wedged' = FALSE
  /\ core' = FreshCore
  /\ reports' = [reports EXCEPT ![runner] = @ + 1]
  /\ UNCHANGED <<runner, nextId, granted, believed>>

(* CoreBridge::start fails to spawn: the slot stays as it was. *)
SpawnFails ==
  /\ pc = "spawn"
  /\ Answer("CORE_INIT_FAILED", 0, 0, 0, FALSE, Refusal("CORE_INIT_FAILED"))
  /\ UNCHANGED <<slot, nextId, procVars, granted, believed, reports>>

(* CoreBridge::start spawns and writes the core.version handshake frame. *)
Spawn ==
  /\ pc = "spawn"
  /\ runner < MaxRunners
  /\ runner' = runner + 1
  /\ alive' = alive \cup {runner'}
  /\ core' = FreshCore
  /\ stdin' = <<[id |-> 1, req |-> Handshake]>>
  /\ nextId' = 2
  /\ pc' = "handshake"
  /\ UNCHANGED <<call, issued, lock, slot, stdout, stderr, wedged, histVars>>

(* CoreBridge::request refuses a method outside the allowlist. *)
RefuseMethod ==
  /\ pc = "send"
  /\ call[lock].method \notin AllowedMethods
  /\ Answer("UPSTREAM_INCOMPATIBLE", 0, 0, 0, TRUE, Refusal("UPSTREAM_INCOMPATIBLE"))
  /\ UNCHANGED <<slot, nextId, procVars, granted, believed, reports>>

(* exchange consumes an id, then refuses a frame beyond MAX_FRAME_BYTES    *)
(* without writing it; BUILD_PARSE_FAILED keeps the runner.                *)
RefuseOversize ==
  /\ pc = "send"
  /\ call[lock].method \in AllowedMethods
  /\ Oversize(call[lock])
  /\ nextId' = nextId + 1
  /\ Answer("BUILD_PARSE_FAILED", nextId, nextId, 0, TRUE, Refusal("BUILD_PARSE_FAILED"))
  /\ UNCHANGED <<slot, procVars, granted, believed, reports>>

(* The frame goes out; a pipe whose reader exited refuses the write. *)
Send ==
  /\ pc = "send"
  /\ call[lock].method \in AllowedMethods
  /\ ~Oversize(call[lock])
  /\ runner \in alive
  /\ stdin' = Append(stdin, [id |-> nextId, req |-> call[lock]])
  /\ nextId' = nextId + 1
  /\ pc' = "receive"
  /\ UNCHANGED <<call, issued, lock, slot, runner, alive, stdout, stderr, wedged, core,
                 histVars>>

SendFails ==
  /\ pc = "send"
  /\ call[lock].method \in AllowedMethods
  /\ ~Oversize(call[lock])
  /\ runner \notin alive
  /\ Answer("CORE_INIT_FAILED", nextId, nextId, 0, FALSE, Refusal("CORE_INIT_FAILED"))
  /\ TearDown
-----------------------------------------------------------------------------
(* The runner reads one line, dispatches it, flushes what the core printed *)
(* to stderr and writes one reply line.  The narration (absent for         *)
(* core.version, which never touches the core) blocks when the pipe is     *)
(* full: the core has changed, the reply is never written.                 *)
Handle ==
  /\ runner \in alive /\ ~wedged
  /\ stdin # <<>>
  /\ LET frame == Head(stdin)
     IN \E o \in Outcomes(core, frame.req.method, frame.req.handle.id, frame.req.arg),
           noise \in (IF frame.req.method = "core.version" THEN {0} ELSE {0, 1}) :
          /\ core' = o.core
          /\ stdin' = Tail(stdin)
          /\ IF stderr + noise <= StderrCap
             THEN /\ stderr' = stderr + noise
                  /\ stdout' = Append(stdout, [id |-> frame.id, reply |-> o.reply])
                  /\ UNCHANGED wedged
             ELSE /\ wedged' = TRUE
                  /\ UNCHANGED <<stderr, stdout>>
  /\ UNCHANGED <<call, issued, hostVars, runner, alive, histVars>>

(* The runner exits: lines it already wrote stay readable. *)
Crash ==
  /\ runner \in alive
  /\ alive' = alive \ {runner}
  /\ stdin' = <<>> /\ wedged' = FALSE
  /\ core' = FreshCore
  /\ UNCHANGED <<call, issued, hostVars, runner, stdout, stderr, histVars>>
-----------------------------------------------------------------------------
(* read_line returns the handshake reply: the bridge moves into the slot. *)
Started ==
  /\ pc = "handshake"
  /\ stdout # <<>>
  /\ slot' = runner
  /\ stdout' = Tail(stdout)
  /\ pc' = "send"
  /\ UNCHANGED <<call, issued, lock, nextId, runner, alive, stdin, stderr, wedged, core,
                 histVars>>

(* Mutant of ReceiveFails: a read timeout that leaves the runner in place. *)
ReceiveTimesOut ==
  /\ pc = "receive"
  /\ stdout = <<>>
  /\ Answer("CORE_INIT_FAILED", nextId - 1, nextId - 1, 0, TRUE, Refusal("CORE_INIT_FAILED"))
  /\ UNCHANGED <<slot, nextId, procVars, granted, believed, reports>>

(* Mutant of ReceiveFails: a runner that exits in the handshake is awaited. *)
ReceiveFailsInRequest ==
  /\ pc = "receive"
  /\ stdout = <<>>
  /\ runner \notin alive
  /\ Answer("CORE_INIT_FAILED", nextId - 1, nextId - 1, 0, FALSE, Refusal("CORE_INIT_FAILED"))
  /\ TearDown

(* EOF, in the handshake or in a request: CORE_INIT_FAILED. *)
ReceiveFails ==
  /\ pc \in {"handshake", "receive"}
  /\ stdout = <<>>
  /\ runner \notin alive
  /\ Answer("CORE_INIT_FAILED", nextId - 1, nextId - 1, 0, FALSE, Refusal("CORE_INIT_FAILED"))
  /\ TearDown

(* read_line returns what is not JSON: a line the exit of the runner cut    *)
(* short, or one that got past the redirection of its stdout.               *)
ReceiveGarbage ==
  /\ pc \in {"handshake", "receive"}
  /\ Answer("UPSTREAM_INCOMPATIBLE", nextId - 1, nextId - 1, 0, FALSE,
            Refusal("UPSTREAM_INCOMPATIBLE"))
  /\ TearDown

(* What the answers of a runner let the WebView conclude about a build: a  *)
(* loaded build holds what its file carries, an acknowledged edit is in,   *)
(* an edit answered with an error may be in, wholly or in part.            *)
Mutators == {"skills.setGemGroup", "config.setOption", "tree.applyAllocate"}

Applied(inputs, req, nodes) ==
  CASE req.method = "skills.setGemGroup" -> [inputs EXCEPT !.gems = req.arg]
    [] req.method = "config.setOption"   -> [inputs EXCEPT !.opt = req.arg]
    [] OTHER                             -> [inputs EXCEPT !.alloc = @ \cup nodes]

AfterEdit(before, req, acknowledged) ==
  IF acknowledged THEN {Applied(i, req, req.arg) : i \in before}
  ELSE before \cup
       IF req.method = "tree.applyAllocate"
       THEN {Applied(i, req, part) : i \in before, part \in SUBSET req.arg}
       ELSE {Applied(i, req, {}) : i \in before}

Addressed(req, h) == h.runner = runner /\ h.id = req.handle.id

Record(req, r) ==
  IF req.method = "build.load" /\ r.code = "OK"
  THEN LET h == [runner |-> runner, id |-> r.id, doc |-> req.arg]
       IN  /\ granted' = granted \cup {h}
           /\ believed' = [g \in granted \cup {h} |->
                             IF g = h THEN {FromFile} ELSE believed[g]]
  ELSE /\ UNCHANGED granted
       /\ believed' = [h \in granted |->
                         IF req.method \in Mutators /\ Addressed(req, h)
                         THEN AfterEdit(believed[h], req, r.code = "OK")
                         ELSE believed[h]]

(* read_line returns a reply line.  Its id is not looked at. *)
Receive ==
  /\ pc = "receive"
  /\ stdout # <<>>
  /\ ~TearsDown(HostCode(Head(stdout).reply.code))
  /\ Answer(HostCode(Head(stdout).reply.code), nextId - 1, Head(stdout).id, runner, TRUE,
            Head(stdout).reply)
  /\ Record(call[lock], Head(stdout).reply)
  /\ stdout' = Tail(stdout)
  /\ UNCHANGED <<slot, nextId, runner, alive, stdin, stderr, wedged, core, reports>>

(* ... and the code in it makes CoreBridge::request kill the runner. *)
ReceiveFatal ==
  /\ pc = "receive"
  /\ stdout # <<>>
  /\ TearsDown(HostCode(Head(stdout).reply.code))
  /\ Answer(HostCode(Head(stdout).reply.code), nextId - 1, Head(stdout).id, runner, FALSE,
            Head(stdout).reply)
  /\ TearDown

HostStep == \/ SpawnFails \/ Spawn \/ RefuseMethod \/ RefuseOversize \/ Send \/ SendFails
            \/ Started \/ ReceiveFails \/ Receive \/ ReceiveFatal

Next == \/ \E c \in Callers : Invoke(c) \/ Acquire(c)
        \/ HostStep
        \/ ReceiveGarbage
        \/ Handle
        \/ Crash

Safety == Init /\ [][Next]_vars

(* The lock holder and the runner keep running, and a caller that finds    *)
(* the mutex free for good takes it; nothing fairer is assumed of it, and  *)
(* nothing at all of crashes and of garbage.                               *)
Fairness == /\ WF_vars(HostStep) /\ WF_vars(Handle)
            /\ \A c \in Callers : WF_vars(Acquire(c))

Spec == Safety /\ Fairness
-----------------------------------------------------------------------------
Answers == [code : CoreErrorCodes \cup {"OK", "none"}, sent : Nat, got : Nat, from : {0} \cup Runners,
            kept : BOOLEAN, req : Request \cup {NoRequest}, reply : Reply]

Frames == [id : Nat, req : Request \cup {Handshake}]
Lines  == [id : Nat, reply : Reply]

(* Every variable has its type.  In particular whatever the runner answers *)
(* reaches the WebView as a result or as one of the six normalised codes   *)
(* (core_bridge.rs:27-37).                                                 *)
TypeOK ==
  /\ call \in [Callers -> Request \cup {NoRequest}]
  /\ issued \in 0..MaxRequests
  /\ lock \in Callers \cup {NoCaller}
  /\ pc \in {"idle", "spawn", "handshake", "send", "receive"}
  /\ slot \in {0} \cup Runners /\ runner \in {0} \cup Runners
  /\ alive \subseteq Runners
  /\ nextId \in Nat /\ stderr \in 0..StderrCap
  /\ stdin \in Seq(Frames) /\ stdout \in Seq(Lines)
  /\ wedged \in BOOLEAN
  /\ core \in CoreState
  /\ granted \subseteq Handles
  /\ believed \in [granted -> SUBSET Inputs]
  /\ reports \in [Runners -> Nat]
  /\ last \in Answers

(* exchange never compares the id of the line it reads with the id it sent *)
(* (core_bridge.rs:326-388); every answer given to a caller is still the   *)
(* answer to that caller's own frame, over any mixture of crashes, refused *)
(* frames, fatal errors and respawns.                                      *)
AnswersMatchRequests == last.sent = last.got

(* At most one runner process is alive, and the bridge owns it: none is    *)
(* left behind by a failed handshake, a fatal answer or a respawn.         *)
NoOrphanRunner == alive \subseteq (IF pc = "handshake" THEN {runner} ELSE {slot})

(* The loss of a runner, and of the build in it, reaches the WebView as    *)
(* exactly one failed request: a runner is replaced only after one answer  *)
(* has reported its loss, and the one in the slot has not been reported.   *)
ExactlyOneLossReport ==
  /\ \A r \in Runners : r < runner => reports[r] = 1
  /\ slot # 0 => reports[slot] = 0

(* While the runner that granted a handle lives, a successful answer under *)
(* it never comes from another loaded document (modern_api.lua:62-64).     *)
RepliesServeOwnBuild ==
  (last.code = "OK" /\ last.req.handle.runner = last.from /\ last.reply.doc \in Docs)
    => (last.req.handle # NoHandle => last.reply.doc = last.req.handle.doc)

(* The file build.save returns is one the answers of this runner allow:    *)
(* every acknowledged edit of that build is in it, no edit of another      *)
(* build is, and of an edit that failed at most what was asked for.        *)
SavedFileFollowsTheAnswers ==
  (last.code = "OK" /\ last.req.method = "build.save" /\ last.req.handle.runner = last.from
     /\ last.req.handle # NoHandle)
    => last.reply.shows \in believed[last.req.handle]

(* Every request is answered, unless the runner is blocked on the stderr   *)
(* pipe nobody drains while it runs (core_bridge.rs:216, 400-419).         *)
AnsweredUnlessWedged ==
  \A c \in Callers : call[c] # NoRequest ~> (call[c] = NoRequest \/ wedged)
-----------------------------------------------------------------------------
(* modern_api.lua:62-64: the id of the loaded build is tracked to reject   *)
(* any other "rather than silently operating on the wrong (or a stale)     *)
(* build".  So what answers under a handle is the document it was loaded   *)
(* from ...                                                                *)
AcceptedIdServesItsBuild ==
  (last.code = "OK" /\ last.req.handle # NoHandle /\ last.req.handle.runner = last.from)
    => last.reply.doc = last.req.handle.doc

(* ... and a handle of a runner that is gone is refused.                   *)
StaleHandleIsRefused ==
  (last.code = "OK" /\ last.req.handle # NoHandle) => last.req.handle.runner = last.from

(* core_bridge.rs:306-307: "a malformed/erroring request must NOT bring    *)
(* the runner down".  A request about a build the runner has loaded, which *)
(* the runner answers, leaves that runner and the build in place.          *)
ErroringRequestKeepsRunner ==
  (last.req.handle \in granted /\ last.req.handle.runner = last.from) => last.kept
=============================================================================

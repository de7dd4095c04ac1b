----------------------------- MODULE AppSession -----------------------------
(***************************************************************************)
(* The desktop front end around one open build: the React state and the    *)
(* async handlers of apps/desktop/src/App.tsx, the build id kept by        *)
(* createBuildSession (build-session.ts), and the core of CoreApi that     *)
(* their requests reach.                                                   *)
(*                                                                         *)
(* A handler is the sequence of requests it awaits.  Between the request   *)
(* and its continuation every other handler may run: nothing in App.tsx    *)
(* waits for the one before.  Requests in flight are served one at a time, *)
(* in any order, and so are their continuations.                           *)
(***************************************************************************)
EXTENDS CoreApi, Sequences, FiniteSets

CONSTANTS
  Slots,     \* bound: handlers in flight at once
  Gems,      \* the gems of the one socket group; GemLists are sets of enabled ones
  gemId,     \* the gemId of each of them: two gems of a group may share one
  Payloads,  \* what the config panel writes: one value, or a preset's sequence
  StatIds,   \* stat rows of the Calcs tab
  MaxTasks,  \* bound: handlers started in a behaviour
  Undefined, \* JavaScript's undefined and null
  Empty      \* EMPTY_CALC, and the other EMPTY_ constants

ASSUME AppAssumption ==
  /\ GemLists = SUBSET Gems /\ DOMAIN gemId = Gems
  /\ Payloads \subseteq Seq(Values) \ {<<>>}
  /\ MaxTasks \in Nat
  /\ Undefined \notin [doc : Builds, stats : Inputs]

VARIABLES
  core,    \* the CoreApi state of the runner
  buildId, \* build-session.ts: the id of the build currently open
  view,    \* the React state of App
  timer,   \* the node whose hover timer is pending
  task,    \* the handler in flight in each slot
  started, \* handlers started so far
  clean,   \* history: no edit overlapped or failed, and no runner was lost, since
           \* an open that ran alone
  before   \* history: the core's stats when the last edit began, undefined after an open

vars == <<core, buildId, view, timer, task, started, clean, before>>

Req(method, arg) == [method |-> method, arg |-> arg]
Ask(method) == Req(method, AsLoaded)

(* setConfigOption is a write and a calc.run; the panel is refreshed once,  *)
(* after the last of them.                                                 *)
ConfigScript(payload) ==
  [k \in 1..(2 * Len(payload)) |-> IF k % 2 = 0 THEN Ask("calc.run")
                                   ELSE Req("config.setOption", payload[(k + 1) \div 2])]
    \o <<Ask("config.getOptions")>>

OpenScript(xml) ==
  <<Req("build.load", xml), Ask("calc.run"), Ask("items.getEquipped"),
    Ask("skills.getGroups"), Ask("config.getOptions"), Ask("tree.getData")>>

ToggleScript(gems) ==
  <<Req("skills.setGemGroup", gems), Ask("calc.run"), Ask("skills.getGroups")>>

AllocateScript(node) == <<Req("tree.applyAllocate", {node}), Ask("calc.run")>>

NoReply == Refusal("OK")

Idle == [kind |-> "none", todo |-> <<>>, topic |-> Undefined, id |-> NoId, got |-> FALSE,
         reply |-> NoReply, first |-> NoReply, alone |-> TRUE]

Init ==
  /\ core = FreshCore
  /\ buildId = NoId
  /\ view = [build |-> Undefined, grid |-> Empty, skillGroups |-> Empty,
             configOptions |-> Empty, calcExplains |-> [x \in StatIds |-> Undefined],
             prevStats |-> Undefined, treeGraph |-> Empty, treeAllocated |-> {},
             hoverNode |-> Undefined, hoverDeltas |-> Undefined]
  /\ timer = Undefined
  /\ task = [s \in Slots |-> Idle]
  /\ started = 0
  /\ clean = FALSE /\ before = Undefined
-----------------------------------------------------------------------------
(* A hover's fetch reads and writes nothing the other handlers do. *)
Busy == {s \in Slots : task[s].kind \notin {"none", "hover"}}

(* The handler runs up to its first request.  topic is what its last       *)
(* setState is about.  Without an open build the session throws at once.   *)
Begin(s, kind, script, topic) ==
  /\ task[s] = Idle
  /\ started < MaxTasks
  /\ started' = started + 1
  /\ IF buildId = NoId /\ kind # "open" THEN UNCHANGED <<task, clean>>
     ELSE /\ clean' = (clean /\ (kind = "hover" \/ Busy = {}))
          /\ task' = [t \in Slots |->
                        IF t = s
                        THEN [Idle EXCEPT !.kind = kind, !.todo = script, !.topic = topic,
                                          !.id = buildId, !.alone = (Busy = {})]
                        ELSE IF t \in Busy /\ kind # "hover" THEN [task[t] EXCEPT !.alone = FALSE]
                        ELSE task[t]]
  /\ UNCHANGED <<core, buildId>>

(* The edits take the stats on screen as the before/after baseline first. *)
BeginEdit(s, kind, script) ==
  /\ Begin(s, kind, script, Undefined)
  /\ view' = [view EXCEPT !.prevStats =
                IF view.build = Undefined THEN Empty ELSE view.build.stats]
  /\ before' = core.out
  /\ UNCHANGED timer

Open(s, xml) ==
  /\ Begin(s, "open", OpenScript(xml), xml)
  /\ UNCHANGED <<view, timer, before>>

(* applyConfigPreset, and applyConfigOption with a payload of one. *)
ApplyConfig(s, payload) == BeginEdit(s, "config", ConfigScript(payload))

Enabled(gems) == IF gems = AsLoaded THEN Gems ELSE gems

(* Every gem of the toggled id is flipped. *)
Flip(gems, g) == {h \in Gems : (h \in gems) # (gemId[h] = gemId[g])}

(* toggleGem sends the whole group, as the cards on screen have it. *)
ToggleGem(s, g) ==
  /\ view.skillGroups # Empty
  /\ BeginEdit(s, "toggle", ToggleScript(Flip(Enabled(view.skillGroups), g)))

AllocateTreeNode(s, node) == BeginEdit(s, "allocate", AllocateScript(node))

ExplainStat(s, stat) ==
  /\ Begin(s, "explain", <<Ask("calc.explain")>>, stat)
  /\ UNCHANGED <<view, timer, before>>

(* previewTreeNode on a node: stage it, drop the chips, restart the timer. *)
HoverNode(node) ==
  /\ view' = [view EXCEPT !.hoverNode = node, !.hoverDeltas = Undefined]
  /\ timer' = node
  /\ UNCHANGED <<core, buildId, task, started, clean, before>>

(* ... and on null. *)
LeaveNodes ==
  /\ view' = [view EXCEPT !.hoverNode = Undefined, !.hoverDeltas = Undefined]
  /\ timer' = Undefined
  /\ UNCHANGED <<core, buildId, task, started, clean, before>>

HoverTimerFires(s) ==
  /\ timer # Undefined
  /\ Begin(s, "hover", <<Ask("tree.previewAllocate")>>, timer)
  /\ timer' = Undefined
  /\ UNCHANGED <<view, before>>
-----------------------------------------------------------------------------
Waiting(s) == task[s].kind # "none" /\ ~task[s].got

(* core_bridge.rs: an answer with one of these codes costs the runner. *)
Fatal(code) == code \in {"CORE_INIT_FAILED", "UPSTREAM_INCOMPATIBLE"}

(* The host and the runner serve one request ... *)
Respond(s) ==
  /\ Waiting(s)
  /\ LET req == Head(task[s].todo)
     IN \E o \in Outcomes(core, req.method, task[s].id, req.arg) :
          /\ ~Fatal(o.reply.code)
          /\ core' = o.core
          /\ task' = [task EXCEPT ![s].got = TRUE, ![s].reply = o.reply]
  /\ UNCHANGED <<buildId, view, timer, started, clean, before>>

(* ... or it costs the runner, which exits or is killed for its answer:    *)
(* the next request starts another one, without a build.                   *)
RunnerLost(s) ==
  /\ Waiting(s)
  /\ core' = FreshCore
  /\ task' = [t \in Slots |->
                IF t = s THEN [task[t] EXCEPT !.got = TRUE, !.alone = FALSE,
                                              !.reply = Refusal("CORE_INIT_FAILED")]
                ELSE IF task[t] = Idle THEN Idle ELSE [task[t] EXCEPT !.alone = FALSE]]
  /\ clean' = FALSE
  /\ UNCHANGED <<buildId, view, timer, started, before>>

(* The await rejects: the handler ends, what it has set stays set. *)
Reject(s) ==
  /\ task[s].got /\ task[s].reply.code # "OK"
  /\ task' = [task EXCEPT ![s] = Idle]
  /\ clean' = (clean /\ task[s].kind \in {"hover", "explain"})
  /\ UNCHANGED <<core, buildId, view, timer, started, before>>

Resumes(s, method) ==
  /\ task[s].got /\ task[s].reply.code = "OK"
  /\ Head(task[s].todo).method = method

(* Go on to the next request, under the id the session has by then. *)
Continue(s) ==
  LET t == task[s]
  IN  /\ IF Len(t.todo) = 1
         THEN /\ task' = [task EXCEPT ![s] = Idle]
              /\ clean' = (clean \/ (t.kind = "open" /\ t.alone))
              /\ before' = IF t.kind = "open" THEN Undefined ELSE before
         ELSE /\ task' = [task EXCEPT ![s] =
                            [t EXCEPT !.todo = Tail(@), !.got = FALSE, !.id = buildId',
                                      !.first = IF @ = NoReply THEN t.reply ELSE @]]
              /\ UNCHANGED <<clean, before>>
      /\ UNCHANGED <<core, timer, started>>

Loaded(s) ==
  /\ Resumes(s, "build.load")
  /\ buildId' = task[s].reply.id
  /\ Continue(s) /\ UNCHANGED view

(* A write inside the session method: its calc.run follows. *)
Written(s) ==
  /\ \E m \in {"config.setOption", "skills.setGemGroup", "tree.applyAllocate"} : Resumes(s, m)
  /\ UNCHANGED <<buildId, view>> /\ Continue(s)

(* Mutant of Shown: an edit leaves the stats on screen. *)
NotShown(stats) == view.build

Shown(stats) == IF view.build = Undefined THEN view.build ELSE [view.build EXCEPT !.stats = stats]

NoTraces == [x \in StatIds |-> Undefined]

(* calc.run ends session.open, session.applyAllocate and the other edits'  *)
(* session methods; of a preset's runs only the last is shown.             *)
Recalculated(s) ==
  /\ Resumes(s, "calc.run")
  /\ LET t == task[s]
     IN  view' = CASE t.kind = "open" ->
                        [view EXCEPT !.build = [doc |-> t.first.doc, stats |-> t.reply.shows]]
                   [] t.kind = "allocate" ->
                        [view EXCEPT !.treeAllocated = t.first.shows.alloc,
                                     !.build = Shown(t.reply.shows),
                                     !.calcExplains = NoTraces]
                   [] t.kind \in {"config", "toggle"} /\ Len(t.todo) = 2 ->
                        [view EXCEPT !.build = Shown(t.reply.shows)]
                   [] OTHER -> view
  /\ UNCHANGED buildId /\ Continue(s)

Equipped(s) ==
  /\ Resumes(s, "items.getEquipped")
  /\ view' = [view EXCEPT !.grid = task[s].reply.doc]
  /\ UNCHANGED buildId /\ Continue(s)

(* The last setState of an edit drops the traces; an open has more to do. *)
Traces(s) == IF task[s].kind = "open" THEN view.calcExplains ELSE NoTraces

Groups(s) ==
  /\ Resumes(s, "skills.getGroups")
  /\ view' = [view EXCEPT !.skillGroups = task[s].reply.shows.gems, !.calcExplains = Traces(s)]
  /\ UNCHANGED buildId /\ Continue(s)

(* Mutant of Options: the whole reply is put where the options belong. *)
OptionsReply(s) ==
  /\ Resumes(s, "config.getOptions")
  /\ view' = [view EXCEPT !.configOptions = task[s].reply, !.calcExplains = Traces(s)]
  /\ UNCHANGED buildId /\ Continue(s)

Options(s) ==
  /\ Resumes(s, "config.getOptions")
  /\ view' = [view EXCEPT !.configOptions = task[s].reply.shows.opt, !.calcExplains = Traces(s)]
  /\ UNCHANGED buildId /\ Continue(s)

(* Mutant of Tree: the baseline of the build before is kept. *)
TreeKeepingBaseline(s) ==
  /\ Resumes(s, "tree.getData")
  /\ view' = [view EXCEPT !.treeGraph = task[s].reply.doc,
                          !.treeAllocated = task[s].reply.shows.alloc,
                          !.hoverNode = Undefined, !.hoverDeltas = Undefined,
                          !.calcExplains = NoTraces]
  /\ UNCHANGED buildId /\ Continue(s)

(* The end of an open resets all that belonged to the build before. *)
Tree(s) ==
  /\ Resumes(s, "tree.getData")
  /\ view' = [view EXCEPT !.treeGraph = task[s].reply.doc,
                          !.treeAllocated = task[s].reply.shows.alloc,
                          !.hoverNode = Undefined, !.hoverDeltas = Undefined,
                          !.calcExplains = NoTraces, !.prevStats = Undefined]
  /\ UNCHANGED buildId /\ Continue(s)

Explained(s) ==
  /\ Resumes(s, "calc.explain")
  /\ view' = [view EXCEPT !.calcExplains[task[s].topic] = task[s].reply.shows]
  /\ UNCHANGED buildId /\ Continue(s)

(* The chips are set whatever node is hovered by now. *)
Previewed(s) ==
  /\ Resumes(s, "tree.previewAllocate")
  /\ view' = [view EXCEPT !.hoverDeltas = task[s].topic]
  /\ UNCHANGED buildId /\ Continue(s)

User == \E s \in Slots :
          \/ \E xml \in Docs \cup {BadXml} : Open(s, xml)
          \/ \E payload \in Payloads : ApplyConfig(s, payload)
          \/ \E g \in Gems : ToggleGem(s, g)
          \/ \E n \in Nodes : AllocateTreeNode(s, n)
          \/ \E x \in StatIds : ExplainStat(s, x)

Hovering == LeaveNodes \/ (\E n \in Nodes : HoverNode(n)) \/ (\E s \in Slots : HoverTimerFires(s))

Resume(s) == \/ Loaded(s) \/ Written(s) \/ Recalculated(s) \/ Equipped(s) \/ Groups(s)
             \/ Options(s) \/ Tree(s) \/ Explained(s) \/ Previewed(s)

Next == User \/ Hovering \/ \E s \in Slots : Respond(s) \/ RunnerLost(s) \/ Reject(s) \/ Resume(s)

Safety == Init /\ [][Next]_vars
-----------------------------------------------------------------------------
Kinds == {"none", "open", "config", "toggle", "allocate", "explain", "hover"}
Optional(S) == S \cup {Undefined, Empty}

(* Every piece of state has its type, and a handler in flight is waiting   *)
(* for something.                                                          *)
TypeOK ==
  /\ core \in CoreState /\ buildId \in Nat /\ started \in 0..MaxTasks
  /\ clean \in BOOLEAN /\ before \in Optional(Inputs) /\ timer \in Optional(Nodes)
  /\ view.build \in Optional([doc : Builds, stats : Inputs])
  /\ {view.grid, view.treeGraph} \subseteq Optional(Builds)
  /\ view.skillGroups \in Optional(GemLists \cup {AsLoaded})
  /\ view.configOptions \in Optional(Values \cup {AsLoaded})
  /\ view.calcExplains \in [StatIds -> Optional(Inputs)]
  /\ view.prevStats \in Optional(Inputs) /\ view.treeAllocated \subseteq Nodes
  /\ {view.hoverNode, view.hoverDeltas} \subseteq Optional(Nodes)
  /\ \A s \in Slots : /\ task[s].kind \in Kinds /\ task[s].reply \in Reply
                      /\ task[s].kind = "none" <=> task[s].todo = <<>>

(* Once an open has run alone to its end, every panel shows what the core  *)
(* holds whenever nothing is in flight, over any edits made one after the  *)
(* other -- and whatever overlaps and failures came before that open.      *)
(* Each handler must refresh all its edit makes stale (App.tsx 251-383),   *)
(* and open must reset all the build before has left (418-441).            *)
SettledViewMatchesCore ==
  (Busy = {} /\ clean) =>
     /\ buildId = core.active
     /\ view.build = [doc |-> core.live, stats |-> core.out]
     /\ view.grid = core.live /\ view.treeGraph = core.live
     /\ view.skillGroups = core.inp.gems /\ view.configOptions = core.inp.opt
     /\ view.treeAllocated = core.inp.alloc
     /\ \A x \in StatIds : view.calcExplains[x] \in {Undefined, core.out}

(* In the same states the baseline of the before/after delta is the core's *)
(* stats from before the last edit of this build, and undefined without    *)
(* one (App.tsx 201-203).                                                  *)
BaselineIsTheStateBefore == (Busy = {} /\ clean) => view.prevStats = before
-----------------------------------------------------------------------------
Unasked == [method |-> "none", id |-> NoId, arg |-> AsLoaded]

(* The request a handler waits for, as it is on the wire. *)
Wire(t) == IF t.kind = "none" \/ t.got THEN Unasked
           ELSE [method |-> Head(t.todo).method, id |-> t.id, arg |-> Head(t.todo).arg]

(* What its await has settled to.  A failure is known by its code. *)
Settled(t) ==
  IF ~t.got THEN NoReply
  ELSE IF t.reply.code = "RAISED" THEN Refusal("CALC_FAILED") ELSE t.reply

Service == INSTANCE CoreService
             WITH Callers <- Slots, asked <- [s \in Slots |-> Wire(task[s])],
                  given <- [s \in Slots |-> Settled(task[s])]

(* The handlers see the core only as CoreHost is shown to serve it: one    *)
(* request in one step, or the loss of the core told to the one it befell. *)
UsesTheService == Service!Spec
-----------------------------------------------------------------------------
(* The chips shown are those of the hovered node: App.tsx:335-336, leaving *)
(* "clears the staged hover + its delta chips (NO-FALLBACK -- no stale     *)
(* tooltip)".  A fetch already in flight sets them when it resolves.       *)
HoverChipsAreOfTheHoveredNode == view.hoverDeltas \in {Undefined, view.hoverNode}

(* A gem toggle that the core accepts changes one gem, where no two gems   *)
(* of the group share an id: App.tsx:294, "flip ONE gem's enabled in its   *)
(* socket group".  A second toggle sent from cards the first has not       *)
(* refreshed (it is in flight, or it wrote and failed) writes the first    *)
(* one's gem as it was.                                                    *)
ToggleFlipsOneGem ==
  [][\A s \in Slots :
       (Respond(s) /\ task[s].kind = "toggle" /\ task'[s].reply.code = "OK"
          /\ Head(task[s].todo).method = "skills.setGemGroup")
         => \E g \in Gems : Enabled(core'.inp.gems) = Flip(Enabled(core.inp.gems), g)]_vars
=============================================================================

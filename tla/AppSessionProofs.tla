-------------------------- MODULE AppSessionProofs --------------------------
(***************************************************************************)
(* Theorems about AppSession, for any number of handlers and of slots, any *)
(* documents, gems, presets and nodes.                                     *)
(*                                                                         *)
(* What is on screen matches the core between handlers because of what     *)
(* holds at each await of a handler that runs alone: LoneInv names, per    *)
(* kind of handler and requests left, the panels already refreshed and     *)
(* those the rest of the script still will.                                *)
(***************************************************************************)
EXTENDS AppSession, SequenceTheorems, TLAPS

Reads == {"calc.run", "calc.explain", "items.getEquipped", "skills.getGroups",
          "config.getOptions", "tree.getData", "tree.previewAllocate"}

Writes == {"config.setOption", "skills.setGemGroup", "tree.applyAllocate"}

(* The requests handlers make. *)
Requests ==
  [method : Reads, arg : {AsLoaded}]
    \cup [method : {"build.load"}, arg : Docs \cup {BadXml}]
    \cup [method : {"config.setOption"}, arg : Values]
    \cup [method : {"skills.setGemGroup"}, arg : GemLists]
    \cup [method : {"tree.applyAllocate"}, arg : SUBSET Nodes]

(* What a read shows of the core it is served from. *)
Served(c, method) == IF method \in {"calc.run", "calc.explain"} THEN c.out ELSE c.inp

Screens == [doc : Builds, stats : Inputs]

Views == [build : {Undefined} \cup Screens,
          grid : {Empty} \cup Builds,
          skillGroups : {Empty, AsLoaded} \cup GemLists,
          configOptions : {Empty, AsLoaded} \cup Values,
          calcExplains : [StatIds -> {Undefined} \cup Inputs],
          prevStats : {Undefined, Empty} \cup Inputs,
          treeGraph : {Empty} \cup Builds,
          treeAllocated : SUBSET Nodes,
          hoverNode : {Undefined} \cup Nodes,
          hoverDeltas : {Undefined} \cup Nodes]

Topics == {Undefined, BadXml} \cup Docs \cup Nodes \cup StatIds

Tasks == [kind : Kinds, todo : Seq(Requests), topic : Topics, id : Nat, got : BOOLEAN,
          reply : Reply, first : Reply, alone : BOOLEAN]

(* The request a handler is at when so many are left, itself included. *)
At(kind, left) ==
  CASE kind = "open" ->
         (CASE left = 6 -> "build.load"
            [] left = 5 -> "calc.run"
            [] left = 4 -> "items.getEquipped"
            [] left = 3 -> "skills.getGroups"
            [] left = 2 -> "config.getOptions"
            [] OTHER    -> "tree.getData")
    [] kind = "config" ->
         (IF left = 1 THEN "config.getOptions"
          ELSE IF left % 2 = 0 THEN "calc.run" ELSE "config.setOption")
    [] kind = "toggle" ->
         (CASE left = 3 -> "skills.setGemGroup"
            [] left = 2 -> "calc.run"
            [] OTHER    -> "skills.getGroups")
    [] kind = "allocate" -> (IF left = 2 THEN "tree.applyAllocate" ELSE "calc.run")
    [] kind = "explain" -> "calc.explain"
    [] OTHER -> "tree.previewAllocate"

Longest(kind, left) ==
  CASE kind = "open" -> left <= 6
    [] kind = "config" -> TRUE
    [] kind = "toggle" -> left <= 3
    [] kind = "allocate" -> left <= 2
    [] OTHER -> left <= 1

(* What is left of a handler's script. *)
Script(kind, todo) ==
  /\ Len(todo) >= 1 /\ Longest(kind, Len(todo))
  /\ \A j \in 1..Len(todo) : todo[j].method = At(kind, Len(todo) - j + 1)

TaskOK(t) ==
  /\ t \in Tasks
  /\ t.kind = "none" => t = Idle
  /\ t.kind # "none" => Script(t.kind, t.todo)
  /\ t.kind = "explain" => t.topic \in StatIds
  /\ t.kind = "hover" => t.topic \in Nodes

ControlTypes ==
  /\ core \in CoreState /\ buildId \in Nat /\ started \in 0..MaxTasks /\ clean \in BOOLEAN
  /\ task \in [Slots -> Tasks] /\ \A s \in Slots : TaskOK(task[s])

ScreenTypes ==
  view \in Views /\ timer \in {Undefined} \cup Nodes /\ before \in {Undefined} \cup Inputs

TypeInv == ControlTypes /\ ScreenTypes
-----------------------------------------------------------------------------
(* What the screen shows of the core. *)
BaseShown ==
  /\ buildId = core.active /\ view.build \in Screens /\ view.build.doc = core.live
  /\ view.grid = core.live /\ view.treeGraph = core.live /\ view.prevStats = before
StatsShown == view.build.stats = core.out
GemsShown == view.skillGroups = core.inp.gems
OptionsShown == view.configOptions = core.inp.opt
AllocShown == view.treeAllocated = core.inp.alloc
TracesShown == \A x \in StatIds : view.calcExplains[x] \in {Undefined, core.out}

AllShown ==
  BaseShown /\ StatsShown /\ GemsShown /\ OptionsShown /\ AllocShown /\ TracesShown

SettledInv == Busy = {} /\ clean => AllShown

Left(s) == Len(task[s].todo)
Asked(s) == Head(task[s].todo).method
Answered(s) == task[s].got /\ task[s].reply.code = "OK"

(* The answer on its way shows the core as it still is. *)
AnswerAt(s) ==
  Answered(s) =>
    /\ Asked(s) \in Reads => /\ task[s].reply.doc = core.live
                             /\ task[s].reply.shows = Served(core, Asked(s))
    /\ Asked(s) \in Writes => task[s].reply.shows = core.inp

(* An open that runs alone has shown, in the order of its script, what it read. *)
OpenAt(s) ==
  /\ Left(s) = 6 => task[s].first = NoReply
  /\ Left(s) = 6 /\ Answered(s) =>
       LET r == task[s].reply IN r.id = core.active /\ r.id # NoId /\ r.doc = core.live
  /\ Left(s) <= 5 => buildId = core.active /\ task[s].first.doc = core.live
  /\ Left(s) <= 5 => task[s].first # NoReply
  /\ Left(s) <= 4 => view.build = [doc |-> core.live, stats |-> core.out]
  /\ Left(s) <= 3 => view.grid = core.live
  /\ Left(s) <= 2 => GemsShown
  /\ Left(s) <= 1 => OptionsShown

(* A handler that runs alone on a clean screen has shown all but what it will *)
(* still refresh.                                                             *)
EditAt(s) ==
  LET kind == task[s].kind
  IN  /\ buildId # NoId /\ BaseShown
      /\ kind = "explain" => StatsShown /\ TracesShown
      /\ kind \in {"config", "toggle"} /\ Left(s) = 1 => StatsShown
      /\ kind # "toggle" => GemsShown
      /\ kind # "config" => OptionsShown
      /\ kind # "allocate" => AllocShown
      /\ kind = "allocate" /\ Left(s) = 2 => task[s].first = NoReply
      /\ kind = "allocate" /\ Left(s) = 1 => task[s].first.shows = core.inp

LoneAt(s) ==
  /\ AnswerAt(s)
  /\ task[s].kind = "open" => OpenAt(s)
  /\ task[s].kind # "open" /\ clean => EditAt(s)

LoneInv ==
  \A s \in Busy : /\ clean => task[s].alone
                  /\ task[s].alone => Busy = {s} /\ LoneAt(s)

IInv == TypeInv /\ LoneInv /\ SettledInv
-----------------------------------------------------------------------------
(* An answer for each kind of request. *)
LEMMA FromFileType == FromFile \in Inputs
  BY DEF FromFile, Inputs

LEMMA FreshType == FreshCore \in CoreState
  BY DEF FreshCore, CoreState, Builds, Inputs, FromFile, NoId

LEMMA RefusalFacts ==
  ASSUME NEW k \in Codes
  PROVE  Refusal(k) \in Reply /\ Refusal(k).code = k
  BY FromFileType DEF Refusal, Reply, Builds, NoId

LEMMA RefuseFacts ==
  ASSUME NEW c, NEW codes \in SUBSET (Codes \ {"OK"}), NEW o \in Refuse(c, codes)
  PROVE  o.core = c /\ o.reply \in Reply /\ o.reply.code # "OK"
  <1>1. PICK k \in codes : o = Outcome(c, Refusal(k))
    BY DEF Refuse
  <1>2. o.core = c /\ o.reply = Refusal(k)
    BY <1>1 DEF Outcome
  <1>. QED BY <1>2, RefusalFacts

LEMMA ServeType ==
  ASSUME NEW c \in CoreState, NEW shows \in Inputs
  PROVE  Serve(c, shows) \in Reply /\ Serve(c, shows).doc = c.live
  BY DEF Serve, Reply, CoreState, Codes, NoId

LEMMA ServeFacts ==
  ASSUME NEW c \in CoreState, NEW b, NEW shows \in Inputs,
         NEW o, o = Outcome(b, Serve(c, shows))
  PROVE  /\ o.core = b /\ o.reply \in Reply /\ o.reply.code = "OK"
         /\ o.reply.doc = c.live /\ o.reply.shows = shows
  BY ServeType DEF Outcome, Serve

(* A load that is accepted: its id is the active one, its document is live. *)
LEMMA LoadFacts ==
  ASSUME NEW c \in CoreState, NEW xml \in Docs \cup {BadXml}, NEW o \in Load(c, xml)
  PROVE  /\ o.core \in CoreState /\ o.reply \in Reply
         /\ o.reply.code = "OK" =>
              /\ o.reply.id = o.core.active /\ o.reply.id # NoId /\ o.reply.doc = o.core.live
  <1>. DEFINE b == Boot(c)
              n == b.counter + 1
              loaded == [b EXCEPT !.counter = n, !.active = n, !.live = xml,
                                  !.inp = FromFile, !.out = FromFile]
              half == [b EXCEPT !.counter = n, !.live = HalfBuilt,
                                !.inp = FromFile, !.out = FromFile]
  <1>1. b \in CoreState
    BY DEF Boot, CoreState, Builds
  <1>2. xml # NoXml
    BY DocAssumption
  <1>3. \/ o \in Refuse(c, {"BUILD_PARSE_FAILED", "CORE_INIT_FAILED"})
        \/ xml \in Docs /\ o = Outcome(loaded, [Serve(loaded, FromFile) EXCEPT !.id = n])
        \/ o \in Refuse(half, {"BUILD_PARSE_FAILED"})
    BY DEF Load, BootFailure, Refuse
  <1>. HIDE DEF b
  <1>4. b.counter \in Nat /\ n \in Nat /\ n # 0
    BY <1>1 DEF CoreState
  <1>. HIDE DEF n
  <1>5. FromFile \in Inputs /\ HalfBuilt \in Builds
    BY FromFileType DEF Builds
  <1>6. CASE o \in Refuse(c, {"BUILD_PARSE_FAILED", "CORE_INIT_FAILED"})
    BY <1>6, RefuseFacts DEF Codes, CoreErrorCodes
  <1>7. CASE xml \in Docs /\ o = Outcome(loaded, [Serve(loaded, FromFile) EXCEPT !.id = n])
    <2>1. xml \in Builds
      BY <1>7 DEF Builds
    <2>2. loaded \in CoreState /\ loaded.active = n /\ loaded.live = xml
      BY <1>1, <1>4, <1>5, <2>1 DEF CoreState
    <2>3. o.core = loaded /\ o.reply = [Serve(loaded, FromFile) EXCEPT !.id = n]
      BY <1>7 DEF Outcome
    <2>. HIDE DEF loaded
    <2>4. Serve(loaded, FromFile) \in Reply /\ Serve(loaded, FromFile).doc = xml
      BY <1>5, <2>2, ServeType
    <2>5. o.reply \in Reply /\ o.reply.id = n /\ o.reply.doc = xml
      BY <1>4, <2>3, <2>4 DEF Reply
    <2>. QED BY <1>4, <2>2, <2>3, <2>5 DEF NoId
  <1>8. CASE o \in Refuse(half, {"BUILD_PARSE_FAILED"})
    <2>1. half \in CoreState
      BY <1>1, <1>4, <1>5 DEF CoreState
    <2>. HIDE DEF half
    <2>. QED BY <1>8, <2>1, RefuseFacts DEF Codes, CoreErrorCodes
  <1>. QED BY <1>3, <1>6, <1>7, <1>8

(* A read leaves the core alone and shows it. *)
LEMMA ReadFacts ==
  ASSUME NEW c \in CoreState, NEW method \in Reads, NEW id, NEW arg,
         NEW o \in Outcomes(c, method, id, arg)
  PROVE  /\ o.core = c /\ o.reply \in Reply
         /\ o.reply.code = "OK" => o.reply.doc = c.live /\ o.reply.shows = Served(c, method)
  <1>. DEFINE shown == Outcome(c, Serve(c, Served(c, method)))
              failures == Codes \ {"OK"}
  <1>1. PICK codes \in SUBSET failures : o \in Refuse(c, codes) \cup {shown}
    <2>1. CASE method = "calc.run"
      BY <2>1 DEF Outcomes, CalcRun, WithBuild, Refuse, Served, Codes, CoreErrorCodes
    <2>2. CASE method = "calc.explain"
      BY <2>2 DEF Outcomes, Explain, ReadOnly, WithBuild, Refuse, Served, Codes, CoreErrorCodes
    <2>3. CASE method = "items.getEquipped"
      BY <2>3 DEF Outcomes, GetEquipped, ReadOnly, WithBuild, Refuse, Served, Codes, CoreErrorCodes
    <2>4. CASE method = "skills.getGroups"
      BY <2>4 DEF Outcomes, GetGroups, ReadOnly, WithBuild, Refuse, Served, Codes, CoreErrorCodes
    <2>5. CASE method = "config.getOptions"
      BY <2>5 DEF Outcomes, GetOptions, ReadOnly, WithBuild, Refuse, Served, Codes, CoreErrorCodes
    <2>6. CASE method = "tree.getData"
      BY <2>6 DEF Outcomes, GetTree, ReadOnly, WithBuild, Refuse, Served, Codes, CoreErrorCodes
    <2>7. CASE method = "tree.previewAllocate"
      BY <2>7 DEF Outcomes, PreviewAllocate, ReadOnly, WithBuild, Refuse, Served, Codes, CoreErrorCodes
    <2>. QED BY <2>1, <2>2, <2>3, <2>4, <2>5, <2>6, <2>7 DEF Reads
  <1>2. Served(c, method) \in Inputs
    BY DEF Served, CoreState
  <1>3. CASE o = shown
    BY <1>2, <1>3, ServeFacts
  <1>4. CASE o \in Refuse(c, codes)
    BY <1>4, RefuseFacts
  <1>. QED BY <1>1, <1>3, <1>4

(* The inputs a write may leave, of those before it: only its own field moves. *)
Elsewhere(i, j, method) ==
  /\ method # "skills.setGemGroup" => j.gems = i.gems
  /\ method # "config.setOption" => j.opt = i.opt
  /\ method # "tree.applyAllocate" => j.alloc = i.alloc

LEMMA FrameFacts ==
  ASSUME NEW c \in CoreState, NEW o \in Frame(c)
  PROVE  /\ o.core \in CoreState /\ o.reply \in Reply
         /\ o.core.active = c.active /\ o.core.live = c.live /\ o.core.inp = c.inp
         /\ o.reply.code = "OK" => o.reply.shows = c.inp
  <1>. DEFINE fresh == [c EXCEPT !.out = c.inp]
  <1>1. c.inp \in Inputs /\ fresh \in CoreState
    BY DEF CoreState
  <1>2. fresh.active = c.active /\ fresh.live = c.live /\ fresh.inp = c.inp
    BY DEF CoreState
  <1>. HIDE DEF fresh
  <1>3. CASE o = Outcome(fresh, Serve(c, c.inp))
    BY <1>1, <1>2, <1>3, ServeFacts
  <1>4. CASE o = Outcome(c, Serve(c, c.inp))
    BY <1>1, <1>4, ServeFacts
  <1>5. CASE o = Outcome(c, Refusal("CALC_FAILED"))
    BY <1>5, RefusalFacts DEF Outcome, Codes, CoreErrorCodes
  <1>. QED BY <1>3, <1>4, <1>5 DEF Frame, fresh

(* A write moves one input of the live build, and shows the inputs it left. *)
LEMMA WriteFacts ==
  ASSUME NEW c \in CoreState, NEW req \in Requests, req.method \in Writes, NEW id,
         NEW o \in Outcomes(c, req.method, id, req.arg)
  PROVE  /\ o.core \in CoreState /\ o.reply \in Reply
         /\ o.core.active = c.active /\ o.core.live = c.live
         /\ Elsewhere(c.inp, o.core.inp, req.method)
         /\ o.reply.code = "OK" => o.reply.shows = o.core.inp
  <1>. DEFINE Good == /\ o.core \in CoreState /\ o.reply \in Reply
                      /\ o.core.active = c.active /\ o.core.live = c.live
                      /\ Elsewhere(c.inp, o.core.inp, req.method)
                      /\ o.reply.code = "OK" => o.reply.shows = o.core.inp
  <1>0. /\ req.method = "config.setOption" => req.arg \in Values
        /\ req.method = "skills.setGemGroup" => req.arg \in GemLists
        /\ req.method = "tree.applyAllocate" => req.arg \in SUBSET Nodes
    BY DEF Requests, Reads
  <1>1. ASSUME \E k \in Codes \ {"OK"} : o \in Refuse(c, {k})
        PROVE  Good
    BY <1>1, RefuseFacts DEF Elsewhere
  <1>2. ASSUME NEW d \in CoreState, d.active = c.active, d.live = c.live,
               Elsewhere(c.inp, d.inp, req.method), o \in Frame(d)
        PROVE  Good
    BY <1>2, FrameFacts
  <1>3. CASE req.method = "config.setOption"
    <2>. DEFINE d == [c EXCEPT !.inp.opt = req.arg]
    <2>1. d \in CoreState /\ d.active = c.active /\ d.live = c.live
      BY <1>0, <1>3 DEF CoreState, Inputs
    <2>2. Elsewhere(c.inp, d.inp, req.method)
      BY <1>3 DEF CoreState, Inputs, Elsewhere
    <2>3. (\E k \in Codes \ {"OK"} : o \in Refuse(c, {k})) \/ o \in Frame(d)
      BY <1>3 DEF Outcomes, SetOption, WithBuild, Refuse, Codes, CoreErrorCodes
    <2>. HIDE DEF d
    <2>. QED BY <1>1, <1>2, <2>1, <2>2, <2>3
  <1>4. CASE req.method = "skills.setGemGroup"
    <2>. DEFINE d == [c EXCEPT !.inp.gems = req.arg]
    <2>1. d \in CoreState /\ d.active = c.active /\ d.live = c.live
      BY <1>0, <1>4 DEF CoreState, Inputs
    <2>2. Elsewhere(c.inp, d.inp, req.method)
      BY <1>4 DEF CoreState, Inputs, Elsewhere
    <2>3. (\E k \in Codes \ {"OK"} : o \in Refuse(c, {k})) \/ o \in Frame(d)
      BY <1>4 DEF Outcomes, SetGemGroup, WithBuild, Refuse, Codes, CoreErrorCodes
    <2>. HIDE DEF d
    <2>. QED BY <1>1, <1>2, <2>1, <2>2, <2>3
  <1>5. CASE req.method = "tree.applyAllocate"
    <2>. DEFINE d(nodes) == [c EXCEPT !.inp.alloc = @ \cup nodes]
    <2>1. \A nodes \in SUBSET Nodes :
            /\ d(nodes) \in CoreState /\ d(nodes).active = c.active /\ d(nodes).live = c.live
            /\ Elsewhere(c.inp, d(nodes).inp, req.method)
      BY <1>5 DEF CoreState, Inputs, Elsewhere
    <2>2. \/ \E k \in Codes \ {"OK"} : o \in Refuse(c, {k})
          \/ o \in Frame(d(req.arg))
          \/ \E part \in SUBSET req.arg : o = Outcome(d(part), Refusal("CALC_FAILED"))
      BY <1>5 DEF Outcomes, ApplyAllocate, WithBuild, Refuse, Codes, CoreErrorCodes
    <2>3. ASSUME NEW part \in SUBSET Nodes, o = Outcome(d(part), Refusal("CALC_FAILED"))
          PROVE  Good
      <3>1. o.core = d(part) /\ o.reply = Refusal("CALC_FAILED")
        BY <2>3 DEF Outcome
      <3>2. o.reply \in Reply /\ o.reply.code # "OK"
        BY <3>1, RefusalFacts DEF Codes, CoreErrorCodes
      <3>. HIDE DEF d
      <3>. QED BY <2>1, <3>1, <3>2
    <2>. HIDE DEF d
    <2>. QED BY <1>0, <1>1, <1>2, <1>5, <2>1, <2>2, <2>3
  <1>. QED BY <1>3, <1>4, <1>5 DEF Writes
-----------------------------------------------------------------------------
(* The scripts of the handlers, and what is left of one. *)
LEMMA Requested ==
  /\ \A m \in Reads : Ask(m) \in Requests /\ Ask(m).method = m
  /\ \A xml \in Docs \cup {BadXml} : Req("build.load", xml) \in Requests
  /\ \A v \in Values : Req("config.setOption", v) \in Requests
  /\ \A gems \in GemLists : Req("skills.setGemGroup", gems) \in Requests
  /\ \A nodes \in SUBSET Nodes : Req("tree.applyAllocate", nodes) \in Requests
  /\ \A m, arg : Req(m, arg).method = m /\ Req(m, arg).arg = arg
  BY DEF Requests, Ask, Req

LEMMA OpenRuns ==
  ASSUME NEW xml \in Docs \cup {BadXml}
  PROVE  OpenScript(xml) \in Seq(Requests) /\ Script("open", OpenScript(xml))
  <1>. DEFINE todo == OpenScript(xml)
  <1>1. /\ Req("build.load", xml) \in Requests /\ Req("build.load", xml).method = "build.load"
        /\ \A m \in {"calc.run", "items.getEquipped", "skills.getGroups", "config.getOptions", "tree.getData"} :
              Ask(m) \in Requests /\ Ask(m).method = m
    BY Requested DEF Reads
  <1>2. todo \in Seq(Requests) /\ Len(todo) = 6
    BY <1>1 DEF OpenScript
  <1>3. /\ todo[1].method = "build.load" /\ todo[2].method = "calc.run"
        /\ todo[3].method = "items.getEquipped" /\ todo[4].method = "skills.getGroups"
        /\ todo[5].method = "config.getOptions" /\ todo[6].method = "tree.getData"
    BY <1>1 DEF OpenScript
  <1>. HIDE DEF todo
  <1>4. Script("open", todo)
    BY <1>2, <1>3 DEF Script, At, Longest
  <1>. QED BY <1>2, <1>4 DEF todo

LEMMA ToggleRuns ==
  ASSUME NEW gems \in GemLists
  PROVE  ToggleScript(gems) \in Seq(Requests) /\ Script("toggle", ToggleScript(gems))
  <1>. DEFINE todo == ToggleScript(gems)
              write == Req("skills.setGemGroup", gems)
  <1>1. /\ write \in Requests /\ write.method = "skills.setGemGroup"
        /\ \A m \in {"calc.run", "skills.getGroups"} : Ask(m) \in Requests /\ Ask(m).method = m
    BY Requested DEF Reads
  <1>2. /\ todo \in Seq(Requests) /\ Len(todo) = 3 /\ todo[1].method = "skills.setGemGroup"
        /\ todo[2].method = "calc.run" /\ todo[3].method = "skills.getGroups"
    BY <1>1 DEF ToggleScript
  <1>. HIDE DEF todo
  <1>3. Script("toggle", todo)
    BY <1>2 DEF Script, At, Longest
  <1>. QED BY <1>2, <1>3 DEF todo

LEMMA AllocateRuns ==
  ASSUME NEW node \in Nodes
  PROVE  AllocateScript(node) \in Seq(Requests) /\ Script("allocate", AllocateScript(node))
  <1>. DEFINE todo == AllocateScript(node)
              write == Req("tree.applyAllocate", {node})
  <1>1. /\ write \in Requests /\ write.method = "tree.applyAllocate"
        /\ Ask("calc.run") \in Requests /\ Ask("calc.run").method = "calc.run"
    BY Requested DEF Reads
  <1>2. /\ todo \in Seq(Requests) /\ Len(todo) = 2
        /\ todo[1].method = "tree.applyAllocate" /\ todo[2].method = "calc.run"
    BY <1>1 DEF AllocateScript
  <1>. HIDE DEF todo
  <1>3. Script("allocate", todo)
    BY <1>2 DEF Script, At, Longest
  <1>. QED BY <1>2, <1>3 DEF todo

LEMMA ConfigRuns ==
  ASSUME NEW payload \in Payloads
  PROVE  ConfigScript(payload) \in Seq(Requests) /\ Script("config", ConfigScript(payload))
  <1>. DEFINE n == Len(payload)
              edits == [k \in 1..(2 * n) |-> IF k % 2 = 0 THEN Ask("calc.run")
                                             ELSE Req("config.setOption", payload[(k + 1) \div 2])]
              panel == <<Ask("config.getOptions")>>
              todo == edits \o panel
  <1>1. payload \in Seq(Values) /\ n \in Nat /\ \A k \in 1..n : payload[k] \in Values
    BY AppAssumption, LenProperties, ElementOfSeq
  <1>. HIDE DEF n
  <1>2. \A k \in 1..(2 * n) :
          /\ edits[k] \in Requests
          /\ edits[k].method = IF k % 2 = 0 THEN "calc.run" ELSE "config.setOption"
    <2>1. ASSUME NEW k \in 1..(2 * n)
          PROVE  /\ edits[k] \in Requests
                 /\ edits[k].method = IF k % 2 = 0 THEN "calc.run" ELSE "config.setOption"
      <3>1. (k + 1) \div 2 \in 1..n
        BY <1>1
      <3>2. payload[(k + 1) \div 2] \in Values
        BY <1>1, <3>1
      <3>3. Ask("calc.run") \in Requests /\ Ask("calc.run").method = "calc.run"
        BY Requested DEF Reads
      <3>4. ASSUME NEW v \in Values
            PROVE  Req("config.setOption", v) \in Requests /\ Req("config.setOption", v).method = "config.setOption"
        BY Requested
      <3>. QED BY <3>2, <3>3, <3>4
    <2>. QED BY <2>1
  <1>3. edits \in Seq(Requests) /\ Len(edits) = 2 * n
    <2>1. edits \in [1..(2 * n) -> Requests]
      BY <1>2
    <2>2. 2 * n \in Nat
      BY <1>1
    <2>. HIDE DEF edits
    <2>. QED BY <2>1, <2>2, SeqDef, LenProperties, IsASeq
  <1>4. panel \in Seq(Requests) /\ Len(panel) = 1 /\ panel[1].method = "config.getOptions"
    BY Requested DEF Reads
  <1>5. /\ todo \in Seq(Requests) /\ Len(todo) = 2 * n + 1
        /\ \A k \in 1..(2 * n) : todo[k] = edits[k]
        /\ todo[2 * n + 1] = panel[1]
    <2>. HIDE DEF edits, panel
    <2>1. 2 * n \in Nat
      BY <1>1
    <2>2. /\ todo \in Seq(Requests) /\ Len(todo) = Len(edits) + Len(panel)
          /\ \A k \in 1..(Len(edits) + Len(panel)) :
               todo[k] = IF k <= Len(edits) THEN edits[k] ELSE panel[k - Len(edits)]
      BY <1>3, <1>4, ConcatProperties, Zenon
    <2>. HIDE DEF todo
    <2>. QED BY <1>3, <1>4, <2>1, <2>2
  <1>. HIDE DEF todo, edits, panel
  <1>6. Script("config", todo)
    <2>1. Len(todo) >= 1 /\ Longest("config", Len(todo))
      BY <1>1, <1>5 DEF Longest
    <2>2. ASSUME NEW k \in 1..Len(todo)
          PROVE  todo[k].method = At("config", Len(todo) - k + 1)
      <3>1. CASE k = 2 * n + 1
        <4>1. Len(todo) - k + 1 = 1
          BY <1>1, <1>5, <3>1
        <4>. QED BY <1>4, <1>5, <3>1, <4>1 DEF At
      <3>2. CASE k # 2 * n + 1
        <4>1. k \in 1..(2 * n) /\ Len(todo) - k + 1 = 2 * (n + 1) - k
          BY <1>1, <1>5, <3>2
        <4>2. (2 * (n + 1) - k) % 2 = 0 <=> k % 2 = 0
          <5>. DEFINE h == k \div 2
          <5>1. h \in Nat /\ (k = 2 * h \/ k = 2 * h + 1)
            BY <4>1
          <5>. HIDE DEF h
          <5>2. CASE k = 2 * h
            BY <1>1, <5>1, <5>2
          <5>3. CASE k = 2 * h + 1
            <6>1. 2 * (n + 1) - k = 2 * (n - h) + 1 /\ n - h \in Int
              BY <1>1, <5>1, <5>3
            <6>. QED BY <5>1, <5>3, <6>1
          <5>. QED BY <5>1, <5>2, <5>3
        <4>3. 2 * (n + 1) - k # 1
          BY <1>1, <4>1
        <4>. QED BY <1>2, <1>5, <4>1, <4>2, <4>3 DEF At
      <3>. QED BY <3>1, <3>2
    <2>. QED BY <2>1, <2>2 DEF Script
  <1>. QED BY <1>5, <1>6 DEF ConfigScript, todo, edits, panel, n

LEMMA LookupRuns ==
  ASSUME NEW kind \in {"explain", "hover"}, NEW m \in Reads, m = At(kind, 1)
  PROVE  <<Ask(m)>> \in Seq(Requests) /\ Script(kind, <<Ask(m)>>)
  <1>. DEFINE todo == <<Ask(m)>>
  <1>1. todo \in Seq(Requests) /\ Len(todo) = 1 /\ todo[1].method = m
    BY Requested
  <1>. HIDE DEF todo
  <1>2. Longest(kind, 1)
    BY DEF Longest
  <1>. QED BY <1>1, <1>2 DEF Script, todo

(* The rest of a script is a script. *)
LEMMA RestRuns ==
  ASSUME NEW kind \in Kinds, NEW todo \in Seq(Requests), Script(kind, todo), Len(todo) # 1
  PROVE  /\ Tail(todo) \in Seq(Requests) /\ Len(Tail(todo)) = Len(todo) - 1
         /\ Script(kind, Tail(todo))
  <1>1. todo # <<>> /\ Len(todo) \in Nat /\ Len(todo) > 1
    <2>1. Len(todo) \in Nat /\ Len(todo) >= 1
      BY LenProperties DEF Script
    <2>2. todo # <<>>
      BY <2>1, EmptySeq
    <2>3. \A n \in Nat : n >= 1 /\ n # 1 => n > 1
      OBVIOUS
    <2>4. Len(todo) > 1
      BY <2>1, <2>3, Zenon
    <2>. QED BY <2>1, <2>2, <2>4, Zenon
  <1>. DEFINE rest == Tail(todo)
  <1>2. /\ rest \in Seq(Requests) /\ Len(rest) = Len(todo) - 1
        /\ \A j \in 1..Len(rest) : rest[j] = todo[j + 1]
    BY <1>1, HeadTailProperties
  <1>. HIDE DEF rest
  <1>3. ASSUME NEW j \in 1..Len(rest)
        PROVE  rest[j].method = At(kind, Len(rest) - j + 1)
    <2>1. j + 1 \in 1..Len(todo) /\ Len(todo) - (j + 1) + 1 = Len(rest) - j + 1
      BY <1>1, <1>2
    <2>2. todo[j + 1].method = At(kind, Len(todo) - (j + 1) + 1)
      BY <2>1 DEF Script
    <2>. QED BY <1>2, <2>1, <2>2
  <1>4. Len(rest) >= 1 /\ Longest(kind, Len(rest))
    <2>1. Longest(kind, Len(todo))
      BY DEF Script
    <2>. QED BY <1>1, <1>2, <2>1 DEF Longest
  <1>. QED BY <1>2, <1>3, <1>4 DEF Script, rest
-----------------------------------------------------------------------------
(* Type correctness. *)
LEMMA IdleOK == TaskOK(Idle) /\ Idle.kind = "none" /\ ~Idle.got
  <1>1. NoReply \in Reply
    BY RefusalFacts, FromFileType DEF NoReply, Refusal, Reply, Codes, Builds, NoId
  <1>2. <<>> \in Seq(Requests)
    BY EmptySeq
  <1>. QED BY <1>1, <1>2 DEF TaskOK, Tasks, Idle, Topics, Kinds, NoId

LEMMA TypesAtStart == Init => TypeInv
  <1>. SUFFICES ASSUME Init PROVE TypeInv
    OBVIOUS
  <1>1. view \in Views
    BY DEF Init, Views
  <1>2. ControlTypes
    <2>1. core \in CoreState /\ buildId \in Nat /\ started \in 0..MaxTasks /\ clean \in BOOLEAN
      <3>1. core = FreshCore /\ buildId = 0 /\ started = 0 /\ clean = FALSE
        BY Zenon DEF Init, NoId
      <3>2. MaxTasks \in Nat
        BY AppAssumption, Zenon
      <3>3. started \in 0..MaxTasks /\ buildId \in Nat
        BY <3>1, <3>2
      <3>. QED BY <3>1, <3>3, FreshType, Zenon
    <2>2. Idle \in Tasks
      BY IdleOK DEF TaskOK
    <2>3. task = [s \in Slots |-> Idle]
      BY DEF Init
    <2>4. task \in [Slots -> Tasks] /\ \A s \in Slots : TaskOK(task[s])
      BY <2>2, <2>3, IdleOK
    <2>. QED BY <2>1, <2>4 DEF ControlTypes
  <1>. QED BY <1>1, <1>2 DEF Init, TypeInv, ScreenTypes

(* A slot whose handler was changed to another one that is well formed. *)
LEMMA OneTaskChanges ==
  ASSUME ControlTypes, NEW s \in Slots, NEW t, TaskOK(t), task' = [task EXCEPT ![s] = t],
         core' \in CoreState, buildId' \in Nat, clean' \in BOOLEAN, UNCHANGED started
  PROVE  ControlTypes'
  <1>1. t \in Tasks
    BY DEF TaskOK
  <1>2. \A x \in Slots : TaskOK(task'[x])
    BY DEF ControlTypes
  <1>3. task' \in [Slots -> Tasks]
    BY <1>1 DEF ControlTypes
  <1>. QED BY <1>2, <1>3 DEF ControlTypes, TaskOK

LEMMA BeginTypes ==
  ASSUME TypeInv, NEW s \in Slots, NEW kind \in Kinds \ {"none"}, NEW script \in Seq(Requests),
         Script(kind, script), NEW topic \in Topics, kind = "explain" => topic \in StatIds,
         kind = "hover" => topic \in Nodes, Begin(s, kind, script, topic)
  PROVE  ControlTypes'
  <1>1. started' \in 0..MaxTasks /\ core' \in CoreState /\ buildId' \in Nat /\ clean' \in BOOLEAN
    <2>1. core' \in CoreState /\ buildId' \in Nat
      BY DEF Begin, TypeInv, ControlTypes
    <2>2. started \in 0..MaxTasks /\ started < MaxTasks /\ started' = started + 1 /\ clean \in BOOLEAN
      BY Zenon DEF Begin, TypeInv, ControlTypes
    <2>3. clean' \in BOOLEAN
      BY <2>2, Zenon DEF Begin
    <2>4. started' \in 0..MaxTasks
      BY <2>2, AppAssumption
    <2>. QED BY <2>1, <2>3, <2>4
  <1>2. CASE UNCHANGED task
    BY <1>1, <1>2 DEF TypeInv, ControlTypes, TaskOK
  <1>3. CASE ~(UNCHANGED task)
    <2>. DEFINE new == [Idle EXCEPT !.kind = kind, !.todo = script, !.topic = topic,
                                    !.id = buildId, !.alone = (Busy = {})]
    <2>1. TaskOK(new)
      <3>1. Idle \in Tasks /\ buildId \in Nat
        BY IdleOK DEF TaskOK, TypeInv, ControlTypes
      <3>2. new \in Tasks /\ new.kind = kind /\ new.todo = script /\ new.topic = topic
        BY <3>1 DEF Tasks
      <3>. HIDE DEF new
      <3>. QED BY <3>2 DEF TaskOK
    <2>2. ASSUME NEW t, TaskOK(t), t.kind # "none"
          PROVE  TaskOK([t EXCEPT !.alone = FALSE])
      <3>. DEFINE u == [t EXCEPT !.alone = FALSE]
      <3>1. u \in Tasks /\ u.kind = t.kind /\ u.todo = t.todo /\ u.topic = t.topic
        BY <2>2 DEF TaskOK, Tasks
      <3>2. /\ Script(t.kind, t.todo)
            /\ t.kind = "explain" => t.topic \in StatIds
            /\ t.kind = "hover" => t.topic \in Nodes
        BY <2>2 DEF TaskOK
      <3>. HIDE DEF u
      <3>3. u.kind # "none" /\ Script(u.kind, u.todo)
        BY <2>2, <3>1, <3>2
      <3>4. (u.kind = "explain" => u.topic \in StatIds) /\ (u.kind = "hover" => u.topic \in Nodes)
        BY <3>1, <3>2
      <3>5. TaskOK(u)
        BY <3>1, <3>3, <3>4, Zenon DEF TaskOK
      <3>. QED BY <3>5 DEF u
    <2>. HIDE DEF new
    <2>3. task' = [t \in Slots |->
                    IF t = s THEN new
                    ELSE IF t \in Busy /\ kind # "hover" THEN [task[t] EXCEPT !.alone = FALSE]
                    ELSE task[t]]
      BY <1>3, Zenon DEF Begin, new
    <2>4. \A t \in Slots : TaskOK(task'[t])
      BY <2>1, <2>2, <2>3 DEF Busy, TypeInv, ControlTypes
    <2>5. task' \in [Slots -> Tasks]
      BY <2>3, <2>4 DEF TaskOK
    <2>. QED BY <1>1, <2>4, <2>5 DEF ControlTypes, TaskOK
  <1>. QED BY <1>2, <1>3

(* What is known of the request a handler resumes from. *)
LEMMA ResumeFacts ==
  ASSUME TypeInv, NEW s \in Slots, task[s].got \/ task[s].kind # "none"
  PROVE  LET t == task[s]
         IN  /\ TaskOK(t) /\ t \in Tasks /\ t.kind \in Kinds \ {"none"} /\ t.reply \in Reply
             /\ t.first \in Reply /\ t.todo \in Seq(Requests) /\ Script(t.kind, t.todo)
             /\ Len(t.todo) \in Nat /\ Len(t.todo) >= 1
             /\ Head(t.todo) \in Requests /\ Head(t.todo).method = At(t.kind, Len(t.todo))
  <1>. DEFINE t == task[s]
  <1>1. TaskOK(t) /\ t \in Tasks
    BY DEF TypeInv, ControlTypes, TaskOK
  <1>2. t.kind \in Kinds \ {"none"} /\ t.reply \in Reply /\ t.first \in Reply /\ t.todo \in Seq(Requests)
    BY <1>1, IdleOK DEF TaskOK, Tasks
  <1>3. Script(t.kind, t.todo)
    BY <1>1, <1>2 DEF TaskOK
  <1>. HIDE DEF t
  <1>. DEFINE todo == t.todo
  <1>4. Len(todo) \in Nat /\ Len(todo) >= 1
    BY <1>2, <1>3, LenProperties DEF Script
  <1>5. todo[1] \in Requests /\ todo[1].method = At(t.kind, Len(todo))
    <2>1. 1 \in 1..Len(todo) /\ Len(todo) - 1 + 1 = Len(todo)
      BY <1>4
    <2>2. todo[1].method = At(t.kind, Len(todo) - 1 + 1)
      BY <1>3, <2>1 DEF Script
    <2>. QED BY <1>2, <2>1, <2>2, ElementOfSeq
  <1>6. Head(todo) = todo[1]
    BY <1>2, <1>4, EmptySeq, HeadTailProperties
  <1>. QED BY <1>1, <1>2, <1>3, <1>4, <1>5, <1>6 DEF t

(* The handler goes on, or ends. *)
LEMMA ContinueTypes ==
  ASSUME TypeInv, NEW s \in Slots, task[s].got, buildId' \in Nat, Continue(s)
  PROVE  ControlTypes' /\ UNCHANGED timer /\ before' \in {Undefined} \cup Inputs
  <1>. DEFINE t == task[s]
  <1>1. /\ TaskOK(t) /\ t \in Tasks /\ t.kind \in Kinds \ {"none"} /\ t.reply \in Reply
        /\ t.first \in Reply /\ t.todo \in Seq(Requests) /\ Script(t.kind, t.todo)
    BY ResumeFacts
  <1>2. /\ core \in CoreState /\ clean \in BOOLEAN /\ before \in {Undefined} \cup Inputs
        /\ t.alone \in BOOLEAN
    BY <1>1 DEF TypeInv, ControlTypes, ScreenTypes, Tasks
  <1>3. UNCHANGED <<core, timer, started>>
    BY Zenon DEF Continue
  <1>4. CASE Len(t.todo) = 1
    <2>1. /\ task' = [task EXCEPT ![s] = Idle]
          /\ clean' = (clean \/ (t.kind = "open" /\ t.alone))
          /\ before' = IF t.kind = "open" THEN Undefined ELSE before
      BY <1>4, Zenon DEF Continue
    <2>2. clean' \in BOOLEAN
      BY <1>2, <2>1, Zenon
    <2>. HIDE DEF t
    <2>3. before' \in {Undefined} \cup Inputs
      BY <1>2, <2>1
    <2>4. ControlTypes'
      BY <1>2, <1>3, <2>1, <2>2, IdleOK, OneTaskChanges DEF TypeInv
    <2>. QED BY <1>3, <2>3, <2>4
  <1>5. CASE Len(t.todo) # 1
    <2>. DEFINE u == [t EXCEPT !.todo = Tail(@), !.got = FALSE, !.id = buildId',
                               !.first = IF @ = NoReply THEN t.reply ELSE @]
    <2>1. /\ task' = [task EXCEPT ![s] = u]
          /\ UNCHANGED <<clean, before>>
      BY <1>5, Zenon DEF Continue
    <2>2. Tail(t.todo) \in Seq(Requests) /\ Script(t.kind, Tail(t.todo))
      BY <1>1, <1>5, RestRuns
    <2>. HIDE DEF t
    <2>3. /\ u \in Tasks /\ u.kind = t.kind /\ u.todo = Tail(t.todo) /\ u.topic = t.topic
      BY <1>1, <2>2 DEF Tasks
    <2>. HIDE DEF u
    <2>4. TaskOK(u)
      <3>1. (t.kind = "explain" => t.topic \in StatIds) /\ (t.kind = "hover" => t.topic \in Nodes)
        BY <1>1 DEF TaskOK
      <3>2. u.kind # "none" /\ Script(u.kind, u.todo)
        BY <1>1, <2>2, <2>3
      <3>3. (u.kind = "explain" => u.topic \in StatIds) /\ (u.kind = "hover" => u.topic \in Nodes)
        BY <2>3, <3>1
      <3>. QED BY <2>3, <3>2, <3>3, Zenon DEF TaskOK
    <2>5. ControlTypes'
      BY <1>2, <1>3, <2>1, <2>4, OneTaskChanges DEF TypeInv
    <2>. QED BY <1>2, <1>3, <2>1, <2>5
  <1>. QED BY <1>4, <1>5

(* The kinds of handler a request can belong to. *)
LEMMA WhoseRequest ==
  ASSUME NEW kind \in Kinds \ {"none"}, NEW left \in Nat \ {0}, Longest(kind, left)
  PROVE  /\ At(kind, left) = "build.load" => kind = "open" /\ left = 6
         /\ At(kind, left) = "calc.run" =>
              \/ kind = "open" /\ left = 5
              \/ kind = "config" /\ left % 2 = 0
              \/ kind = "toggle" /\ left = 2
              \/ kind = "allocate" /\ left = 1
         /\ At(kind, left) = "items.getEquipped" => kind = "open" /\ left = 4
         /\ At(kind, left) = "skills.getGroups" =>
              (kind = "open" /\ left = 3) \/ (kind = "toggle" /\ left = 1)
         /\ At(kind, left) = "config.getOptions" =>
              (kind = "open" /\ left = 2) \/ (kind = "config" /\ left = 1)
         /\ At(kind, left) = "tree.getData" => kind = "open" /\ left = 1
         /\ At(kind, left) = "calc.explain" => kind = "explain" /\ left = 1
         /\ At(kind, left) = "tree.previewAllocate" => kind = "hover" /\ left = 1
         /\ At(kind, left) = "config.setOption" => kind = "config" /\ left % 2 # 0 /\ left # 1
         /\ At(kind, left) = "skills.setGemGroup" => kind = "toggle" /\ left = 3
         /\ At(kind, left) = "tree.applyAllocate" => kind = "allocate" /\ left = 2
  <1>1. CASE kind = "open"
    <2>1. left \in {1, 2, 3, 4, 5, 6}
      BY <1>1 DEF Longest
    <2>2. CASE left = 1
      <3>1. At(kind, left) = "tree.getData"
        BY <1>1, <2>2 DEF At
      <3>. QED BY <1>1, <2>2, <3>1
    <2>3. CASE left = 2
      <3>1. At(kind, left) = "config.getOptions"
        BY <1>1, <2>3 DEF At
      <3>. QED BY <1>1, <2>3, <3>1
    <2>4. CASE left = 3
      <3>1. At(kind, left) = "skills.getGroups"
        BY <1>1, <2>4 DEF At
      <3>. QED BY <1>1, <2>4, <3>1
    <2>5. CASE left = 4
      <3>1. At(kind, left) = "items.getEquipped"
        BY <1>1, <2>5 DEF At
      <3>. QED BY <1>1, <2>5, <3>1
    <2>6. CASE left = 5
      <3>1. At(kind, left) = "calc.run"
        BY <1>1, <2>6 DEF At
      <3>. QED BY <1>1, <2>6, <3>1
    <2>7. CASE left = 6
      <3>1. At(kind, left) = "build.load"
        BY <1>1, <2>7 DEF At
      <3>. QED BY <1>1, <2>7, <3>1
    <2>. QED BY <2>1, <2>2, <2>3, <2>4, <2>5, <2>6, <2>7
  <1>2. CASE kind = "config"
    BY <1>2 DEF At
  <1>3. CASE kind = "toggle"
    <2>1. left \in {1, 2, 3}
      BY <1>3 DEF Longest
    <2>. QED BY <1>3, <2>1 DEF At
  <1>4. CASE kind = "allocate"
    <2>1. left \in {1, 2}
      BY <1>4 DEF Longest
    <2>. QED BY <1>4, <2>1 DEF At
  <1>5. CASE kind \in {"explain", "hover"}
    <2>1. left = 1
      BY <1>5 DEF Longest
    <2>. QED BY <1>5, <2>1 DEF At
  <1>. QED BY <1>1, <1>2, <1>3, <1>4, <1>5 DEF Kinds

LEMMA AnyOutcome ==
  ASSUME NEW c \in CoreState, NEW req \in Requests, NEW id, NEW o \in Outcomes(c, req.method, id, req.arg)
  PROVE  o.core \in CoreState /\ o.reply \in Reply
  <1>1. CASE req.method \in Reads
    BY <1>1, ReadFacts
  <1>2. CASE req.method \in Writes
    BY <1>2, WriteFacts
  <1>3. CASE req.method = "build.load"
    <2>1. req.arg \in Docs \cup {BadXml}
      BY <1>3 DEF Requests, Reads
    <2>2. o \in Load(c, req.arg)
      BY <1>3 DEF Outcomes
    <2>. QED BY <2>1, <2>2, LoadFacts
  <1>. QED BY <1>1, <1>2, <1>3 DEF Requests, Writes

LEMMA RespondTypes ==
  ASSUME TypeInv, NEW s \in Slots, Respond(s)
  PROVE  TypeInv'
  <1>. DEFINE t == task[s]
              req == Head(t.todo)
  <1>1. /\ TaskOK(t) /\ t \in Tasks /\ t.kind # "none" /\ Script(t.kind, t.todo) /\ req \in Requests
    BY ResumeFacts DEF Respond, Waiting
  <1>2. PICK o \in Outcomes(core, req.method, t.id, req.arg) :
          core' = o.core /\ task' = [task EXCEPT ![s].got = TRUE, ![s].reply = o.reply]
    BY Zenon DEF Respond
  <1>3. o.core \in CoreState /\ o.reply \in Reply
    BY <1>1, <1>2, AnyOutcome DEF TypeInv, ControlTypes
  <1>. DEFINE u == [t EXCEPT !.got = TRUE, !.reply = o.reply]
  <1>4. task' = [task EXCEPT ![s] = u]
    BY <1>2 DEF TypeInv, ControlTypes
  <1>5. u \in Tasks /\ u.kind = t.kind /\ u.todo = t.todo /\ u.topic = t.topic
    BY <1>1, <1>3 DEF Tasks
  <1>6. (t.kind = "explain" => t.topic \in StatIds) /\ (t.kind = "hover" => t.topic \in Nodes)
    BY <1>1 DEF TaskOK
  <1>. HIDE DEF u, t
  <1>7. u.kind # "none" /\ Script(u.kind, u.todo)
    BY <1>1, <1>5
  <1>8. (u.kind = "explain" => u.topic \in StatIds) /\ (u.kind = "hover" => u.topic \in Nodes)
    BY <1>5, <1>6
  <1>9. TaskOK(u)
    BY <1>5, <1>7, <1>8, Zenon DEF TaskOK
  <1>10. UNCHANGED <<buildId, view, timer, started, clean, before>>
    BY Zenon DEF Respond
  <1>11. ControlTypes'
    <2>1. buildId' \in Nat /\ clean' \in BOOLEAN /\ core' \in CoreState
      BY <1>2, <1>3, <1>10 DEF TypeInv, ControlTypes
    <2>. QED BY <1>4, <1>9, <1>10, <2>1, OneTaskChanges DEF TypeInv
  <1>12. ScreenTypes'
    BY <1>10 DEF TypeInv, ScreenTypes
  <1>. QED BY <1>11, <1>12 DEF TypeInv

LEMMA LostTypes ==
  ASSUME TypeInv, NEW s \in Slots, RunnerLost(s)
  PROVE  TypeInv'
  <1>1. task[s].kind # "none"
    BY DEF RunnerLost, Waiting
  <1>. DEFINE r == Refusal("CORE_INIT_FAILED")
  <1>2. r \in Reply
    BY RefusalFacts DEF Codes, CoreErrorCodes
  <1>. HIDE DEF r
  <1>3. ASSUME NEW t, NEW u, TaskOK(t), t.kind # "none",
               \/ u = [t EXCEPT !.got = TRUE, !.alone = FALSE, !.reply = r]
               \/ u = [t EXCEPT !.alone = FALSE]
        PROVE  TaskOK(u)
    <2>1. u \in Tasks /\ u.kind = t.kind /\ u.todo = t.todo /\ u.topic = t.topic
      BY <1>2, <1>3 DEF TaskOK, Tasks
    <2>2. /\ Script(t.kind, t.todo)
          /\ t.kind = "explain" => t.topic \in StatIds
          /\ t.kind = "hover" => t.topic \in Nodes
      BY <1>3 DEF TaskOK
    <2>3. u.kind # "none" /\ Script(u.kind, u.todo)
      BY <1>3, <2>1, <2>2
    <2>4. (u.kind = "explain" => u.topic \in StatIds) /\ (u.kind = "hover" => u.topic \in Nodes)
      BY <2>1, <2>2
    <2>. QED BY <2>1, <2>3, <2>4, Zenon DEF TaskOK
  <1>4. task' = [t \in Slots |->
                   IF t = s THEN [task[t] EXCEPT !.got = TRUE, !.alone = FALSE, !.reply = r]
                   ELSE IF task[t] = Idle THEN Idle ELSE [task[t] EXCEPT !.alone = FALSE]]
    BY Zenon DEF RunnerLost, r
  <1>5. ASSUME NEW t \in Slots PROVE TaskOK(task'[t])
    <2>1. TaskOK(task[t]) /\ (task[t].kind = "none" => task[t] = Idle)
      BY DEF TypeInv, ControlTypes, TaskOK
    <2>2. CASE t = s
      BY <1>1, <1>3, <1>4, <2>1, <2>2
    <2>3. CASE t # s /\ task[t] = Idle
      BY <1>4, <2>3, IdleOK
    <2>4. CASE t # s /\ task[t] # Idle
      BY <1>3, <1>4, <2>1, <2>4
    <2>. QED BY <2>2, <2>3, <2>4
  <1>6. task' \in [Slots -> Tasks]
    BY <1>4, <1>5 DEF TaskOK
  <1>7. UNCHANGED <<buildId, view, timer, started, before>> /\ core' = FreshCore /\ clean' = FALSE
    BY Zenon DEF RunnerLost
  <1>8. ControlTypes'
    BY <1>5, <1>6, <1>7, FreshType DEF TypeInv, ControlTypes, TaskOK
  <1>9. ScreenTypes'
    BY <1>7 DEF TypeInv, ScreenTypes
  <1>. QED BY <1>8, <1>9 DEF TypeInv

LEMMA RejectTypes ==
  ASSUME TypeInv, NEW s \in Slots, Reject(s)
  PROVE  TypeInv'
  <1>1. /\ UNCHANGED <<core, buildId, view, timer, started, before>>
        /\ task' = [task EXCEPT ![s] = Idle]
        /\ clean' = (clean /\ task[s].kind \in {"hover", "explain"})
    BY Zenon DEF Reject
  <1>2. clean' \in BOOLEAN
    BY <1>1, Zenon DEF TypeInv, ControlTypes
  <1>3. ControlTypes'
    <2>1. core' \in CoreState /\ buildId' \in Nat
      BY <1>1 DEF TypeInv, ControlTypes
    <2>. QED BY <1>1, <1>2, <2>1, IdleOK, OneTaskChanges DEF TypeInv
  <1>4. ScreenTypes'
    BY <1>1 DEF TypeInv, ScreenTypes
  <1>. QED BY <1>3, <1>4 DEF TypeInv

LEMMA ResumeTypes ==
  ASSUME TypeInv, NEW s \in Slots, Resume(s)
  PROVE  TypeInv'
  <1>. DEFINE t == task[s]
  <1>1. t.got /\ Continue(s)
    BY DEF Resume, Resumes, Loaded, Written, Recalculated, Equipped, Groups, Options, Tree, Explained, Previewed
  <1>2. /\ TaskOK(t) /\ t.kind \in Kinds \ {"none"} /\ t.reply \in Reply /\ t.first \in Reply
        /\ Script(t.kind, t.todo) /\ Left(s) \in Nat \ {0} /\ Asked(s) = At(t.kind, Left(s))
    BY <1>1, ResumeFacts DEF Left, Asked
  <1>3. Longest(t.kind, Left(s))
    BY <1>2 DEF Script, Left
  <1>4. /\ t.reply.id \in Nat /\ t.reply.doc \in Builds /\ t.reply.shows \in Inputs
        /\ t.first.doc \in Builds /\ t.first.shows \in Inputs
    BY <1>2 DEF Reply
  <1>5. /\ t.reply.shows.gems \in GemLists \cup {AsLoaded} /\ t.reply.shows.opt \in Values \cup {AsLoaded}
        /\ t.reply.shows.alloc \in SUBSET Nodes /\ t.first.shows.alloc \in SUBSET Nodes
    BY <1>4 DEF Inputs
  <1>6. buildId \in Nat /\ view \in Views
    BY DEF TypeInv, ControlTypes, ScreenTypes
  <1>7. NoTraces \in [StatIds -> {Undefined} \cup Inputs] /\ Traces(s) \in [StatIds -> {Undefined} \cup Inputs]
    BY <1>6 DEF NoTraces, Traces, Views
  <1>8. buildId' \in Nat /\ view' \in Views
    <2>1. CASE Loaded(s)
      BY <1>4, <1>6, <2>1 DEF Loaded
    <2>2. CASE Written(s)
      BY <1>6, <2>2 DEF Written
    <2>3. CASE Recalculated(s)
      <3>1. Shown(t.reply.shows) \in {Undefined} \cup Screens
        BY <1>4, <1>6 DEF Shown, Views, Screens
      <3>2. [doc |-> t.first.doc, stats |-> t.reply.shows] \in Screens
        BY <1>4 DEF Screens
      <3>3. /\ UNCHANGED buildId
            /\ \/ view' = [view EXCEPT !.build = [doc |-> t.first.doc, stats |-> t.reply.shows]]
               \/ view' = [view EXCEPT !.treeAllocated = t.first.shows.alloc,
                                       !.build = Shown(t.reply.shows), !.calcExplains = NoTraces]
               \/ view' = [view EXCEPT !.build = Shown(t.reply.shows)]
               \/ view' = view
        BY <2>3 DEF Recalculated
      <3>. HIDE DEF t
      <3>. QED BY <1>5, <1>6, <1>7, <3>1, <3>2, <3>3, ZenonT(40) DEF Views
    <2>4. CASE Equipped(s)
      BY <1>4, <1>6, <2>4 DEF Equipped, Views
    <2>5. CASE Groups(s)
      BY <1>5, <1>6, <1>7, <2>5 DEF Groups, Views
    <2>6. CASE Options(s)
      BY <1>5, <1>6, <1>7, <2>6 DEF Options, Views
    <2>7. CASE Tree(s)
      BY <1>4, <1>5, <1>6, <1>7, <2>7 DEF Tree, Views
    <2>8. CASE Explained(s)
      <3>1. t.kind = "explain"
        BY <1>2, <1>3, <2>8, WhoseRequest DEF Explained, Resumes, Asked
      <3>2. t.topic \in StatIds
        BY <1>2, <3>1 DEF TaskOK
      <3>. QED BY <1>4, <1>6, <2>8, <3>2 DEF Explained, Views
    <2>9. CASE Previewed(s)
      <3>1. t.kind = "hover"
        BY <1>2, <1>3, <2>9, WhoseRequest DEF Previewed, Resumes, Asked
      <3>2. t.topic \in Nodes
        BY <1>2, <3>1 DEF TaskOK
      <3>. QED BY <1>6, <2>9, <3>2 DEF Previewed, Views
    <2>. QED BY <2>1, <2>2, <2>3, <2>4, <2>5, <2>6, <2>7, <2>8, <2>9 DEF Resume
  <1>9. ControlTypes' /\ UNCHANGED timer /\ before' \in {Undefined} \cup Inputs
    BY <1>1, <1>8, ContinueTypes
  <1>. QED BY <1>8, <1>9 DEF TypeInv, ScreenTypes

LEMMA EditTypes ==
  ASSUME TypeInv, NEW s \in Slots, NEW kind \in Kinds \ {"none", "explain", "hover"},
         NEW script \in Seq(Requests), Script(kind, script), BeginEdit(s, kind, script)
  PROVE  TypeInv'
  <1>1. /\ Begin(s, kind, script, Undefined) /\ before' = core.out /\ UNCHANGED timer
        /\ view' = [view EXCEPT !.prevStats = IF view.build = Undefined THEN Empty ELSE view.build.stats]
    BY Zenon DEF BeginEdit
  <1>2. ControlTypes'
    BY <1>1, BeginTypes DEF Topics
  <1>3. before' \in {Undefined} \cup Inputs
    BY <1>1 DEF TypeInv, ControlTypes, CoreState
  <1>4. view' \in Views
    BY <1>1 DEF TypeInv, ScreenTypes, Views, Screens
  <1>. QED BY <1>1, <1>2, <1>3, <1>4 DEF TypeInv, ScreenTypes

LEMMA UserTypes == ASSUME TypeInv, User PROVE TypeInv'
  <1>1. ASSUME NEW s \in Slots, NEW xml \in Docs \cup {BadXml}, Open(s, xml) PROVE TypeInv'
    <2>1. Begin(s, "open", OpenScript(xml), xml) /\ UNCHANGED <<view, timer, before>>
      BY <1>1, Zenon DEF Open
    <2>2. ControlTypes'
      BY <2>1, OpenRuns, BeginTypes DEF Topics, Kinds
    <2>. QED BY <2>1, <2>2 DEF TypeInv, ScreenTypes
  <1>2. ASSUME NEW s \in Slots, NEW payload \in Payloads, ApplyConfig(s, payload) PROVE TypeInv'
    BY <1>2, ConfigRuns, EditTypes DEF ApplyConfig, Kinds
  <1>3. ASSUME NEW s \in Slots, NEW g \in Gems, ToggleGem(s, g) PROVE TypeInv'
    <2>. DEFINE gems == Flip(Enabled(view.skillGroups), g)
    <2>1. view.skillGroups \in GemLists \cup {AsLoaded}
      BY <1>3 DEF ToggleGem, TypeInv, ScreenTypes, Views
    <2>2. GemLists = SUBSET Gems
      BY AppAssumption, Zenon
    <2>3. gems \in GemLists
      BY <2>1, <2>2 DEF Enabled, Flip
    <2>4. BeginEdit(s, "toggle", ToggleScript(gems))
      BY <1>3, Zenon DEF ToggleGem
    <2>. HIDE DEF gems
    <2>. QED BY <2>3, <2>4, ToggleRuns, EditTypes DEF Kinds
  <1>4. ASSUME NEW s \in Slots, NEW n \in Nodes, AllocateTreeNode(s, n) PROVE TypeInv'
    BY <1>4, AllocateRuns, EditTypes DEF AllocateTreeNode, Kinds
  <1>5. ASSUME NEW s \in Slots, NEW x \in StatIds, ExplainStat(s, x) PROVE TypeInv'
    <2>1. Begin(s, "explain", <<Ask("calc.explain")>>, x) /\ UNCHANGED <<view, timer, before>>
      BY <1>5, Zenon DEF ExplainStat
    <2>2. <<Ask("calc.explain")>> \in Seq(Requests) /\ Script("explain", <<Ask("calc.explain")>>)
      BY LookupRuns DEF At, Reads
    <2>3. ControlTypes'
      BY <2>1, <2>2, BeginTypes DEF Topics, Kinds
    <2>. QED BY <2>1, <2>3 DEF TypeInv, ScreenTypes
  <1>. QED BY <1>1, <1>2, <1>3, <1>4, <1>5 DEF User

LEMMA HoverTypes == ASSUME TypeInv, Hovering PROVE TypeInv'
  <1>1. CASE LeaveNodes
    <2>1. UNCHANGED <<core, buildId, task, started, clean, before>>
      BY <1>1, Zenon DEF LeaveNodes
    <2>2. ControlTypes'
      BY <2>1 DEF TypeInv, ControlTypes, TaskOK
    <2>3. ScreenTypes'
      BY <1>1, <2>1 DEF LeaveNodes, TypeInv, ScreenTypes, Views
    <2>. QED BY <2>2, <2>3 DEF TypeInv
  <1>2. ASSUME NEW n \in Nodes, HoverNode(n) PROVE TypeInv'
    <2>1. UNCHANGED <<core, buildId, task, started, clean, before>>
      BY <1>2, Zenon DEF HoverNode
    <2>2. ControlTypes'
      BY <2>1 DEF TypeInv, ControlTypes, TaskOK
    <2>3. ScreenTypes'
      BY <1>2, <2>1 DEF HoverNode, TypeInv, ScreenTypes, Views
    <2>. QED BY <2>2, <2>3 DEF TypeInv
  <1>3. ASSUME NEW s \in Slots, HoverTimerFires(s) PROVE TypeInv'
    <2>. DEFINE script == <<Ask("tree.previewAllocate")>>
    <2>1. /\ timer # Undefined /\ Begin(s, "hover", script, timer)
          /\ timer' = Undefined /\ UNCHANGED <<view, before>>
      BY <1>3, Zenon DEF HoverTimerFires
    <2>2. script \in Seq(Requests) /\ Script("hover", script)
      BY LookupRuns DEF At, Reads
    <2>3. timer \in Nodes
      BY <2>1 DEF TypeInv, ScreenTypes
    <2>. HIDE DEF script
    <2>4. ControlTypes'
      BY <2>1, <2>2, <2>3, BeginTypes DEF Topics, Kinds
    <2>. QED BY <2>1, <2>4 DEF TypeInv, ScreenTypes
  <1>. QED BY <1>1, <1>2, <1>3 DEF Hovering

LEMMA TypesKept == TypeInv /\ [Next]_vars => TypeInv'
  <1>. SUFFICES ASSUME TypeInv, [Next]_vars PROVE TypeInv'
    OBVIOUS
  <1>1. CASE UNCHANGED vars
    BY <1>1 DEF vars, TypeInv, ControlTypes, ScreenTypes, TaskOK
  <1>2. ASSUME NEW s \in Slots, Respond(s) \/ RunnerLost(s) \/ Reject(s) \/ Resume(s)
        PROVE  TypeInv'
    BY <1>2, RespondTypes, LostTypes, RejectTypes, ResumeTypes
  <1>. QED BY <1>1, <1>2, UserTypes, HoverTypes DEF Next

LEMMA TypesAlways == Safety => []TypeInv
  BY TypesAtStart, TypesKept, PTL DEF Safety

(* The core's state, the handlers, their scripts and the screen keep their types *)
(* (App.tsx 145-449, build-session.ts).                                          *)
THEOREM AppTypes == Safety => []TypeOK
  <1>1. TypeInv => TypeOK
    <2>. SUFFICES ASSUME TypeInv PROVE TypeOK
      OBVIOUS
    <2>1. \A s \in Slots : /\ task[s].kind \in Kinds /\ task[s].reply \in Reply
                           /\ task[s].kind = "none" <=> task[s].todo = <<>>
      <3>1. ASSUME NEW s \in Slots
            PROVE  /\ task[s].kind \in Kinds /\ task[s].reply \in Reply
                   /\ task[s].kind = "none" <=> task[s].todo = <<>>
        <4>1. TaskOK(task[s]) /\ task[s].kind \in Kinds /\ task[s].reply \in Reply
          BY DEF TypeInv, ControlTypes, TaskOK, Tasks
        <4>2. task[s].kind = "none" => task[s].todo = <<>>
          BY <4>1 DEF TaskOK, Idle
        <4>3. task[s].kind # "none" => task[s].todo # <<>>
          BY ResumeFacts, EmptySeq
        <4>. QED BY <4>1, <4>2, <4>3
      <3>. QED BY <3>1
    <2>2. /\ view.build \in Optional([doc : Builds, stats : Inputs])
          /\ {view.grid, view.treeGraph} \subseteq Optional(Builds)
          /\ view.skillGroups \in Optional(GemLists \cup {AsLoaded})
          /\ view.configOptions \in Optional(Values \cup {AsLoaded})
          /\ view.calcExplains \in [StatIds -> Optional(Inputs)]
          /\ view.prevStats \in Optional(Inputs) /\ view.treeAllocated \subseteq Nodes
          /\ {view.hoverNode, view.hoverDeltas} \subseteq Optional(Nodes)
      BY DEF TypeInv, ScreenTypes, Views, Screens, Optional
    <2>3. before \in Optional(Inputs) /\ timer \in Optional(Nodes)
      BY DEF TypeInv, ScreenTypes, Optional
    <2>. QED BY <2>1, <2>2, <2>3 DEF TypeOK, TypeInv, ControlTypes
  <1>. QED BY <1>1, TypesAlways, PTL
-----------------------------------------------------------------------------
(* The handler that runs alone. *)
LEMMA LoneAtStart == Init => LoneInv /\ SettledInv
  <1>. SUFFICES ASSUME Init PROVE Busy = {} /\ clean = FALSE
    BY DEF LoneInv, SettledInv
  <1>. QED BY IdleOK DEF Init, Busy

(* A step of the handler in slot s leaves the others alone. *)
LEMMA LoneStep ==
  ASSUME LoneInv, NEW s \in Busy, \A x \in Slots \ {s} : task'[x] = task[x],
         task'[s] = Idle \/ (task'[s].kind = task[s].kind /\ task'[s].alone = task[s].alone),
         ~task[s].alone => ~clean',
         task[s].alone /\ task'[s] # Idle => LoneAt(s)',
         task[s].alone /\ task'[s] = Idle /\ clean' => AllShown'
  PROVE  LoneInv' /\ SettledInv'
  <1>1. Busy' \subseteq Busy /\ \A x \in Busy' \ {s} : x \in Busy /\ task'[x] = task[x]
    BY IdleOK DEF Busy
  <1>2. s \in Busy' <=> task'[s] # Idle
    BY IdleOK DEF Busy
  <1>3. CASE task[s].alone
    <2>1. Busy = {s}
      BY <1>3 DEF LoneInv
    <2>2. CASE task'[s] = Idle
      <3>1. Busy' = {}
        BY <1>1, <1>2, <2>1, <2>2
      <3>. QED BY <1>3, <2>2, <3>1 DEF LoneInv, SettledInv
    <2>3. CASE task'[s] # Idle
      <3>1. Busy' = {s} /\ task'[s].alone = task[s].alone
        BY <1>1, <1>2, <2>1, <2>3
      <3>2. LoneAt(s)'
        BY <1>3, <2>3
      <3>. QED BY <1>3, <3>1, <3>2 DEF LoneInv, SettledInv
    <2>. QED BY <2>2, <2>3
  <1>4. CASE ~task[s].alone
    <2>1. \A x \in Busy : ~task[x].alone
      BY <1>4 DEF LoneInv
    <2>2. \A x \in Busy' : ~task'[x].alone
      BY <1>1, <1>2, <1>4, <2>1
    <2>. QED BY <1>4, <2>2 DEF LoneInv, SettledInv
  <1>. QED BY <1>3, <1>4

SameScreen ==
  /\ view'.build = view.build /\ view'.grid = view.grid /\ view'.treeGraph = view.treeGraph
  /\ view'.prevStats = view.prevStats /\ view'.skillGroups = view.skillGroups
  /\ view'.configOptions = view.configOptions /\ view'.treeAllocated = view.treeAllocated
  /\ view'.calcExplains = view.calcExplains

LEMMA SameShown ==
  ASSUME SameScreen, UNCHANGED <<core, buildId, before>>
  PROVE  /\ BaseShown' = BaseShown /\ StatsShown' = StatsShown /\ GemsShown' = GemsShown
         /\ OptionsShown' = OptionsShown /\ AllocShown' = AllocShown /\ TracesShown' = TracesShown
         /\ AllShown' = AllShown
  <1>1. BaseShown' = BaseShown
    BY DEF SameScreen, BaseShown
  <1>2. StatsShown' = StatsShown /\ GemsShown' = GemsShown /\ OptionsShown' = OptionsShown
    BY DEF SameScreen, StatsShown, GemsShown, OptionsShown
  <1>3. AllocShown' = AllocShown /\ TracesShown' = TracesShown
    BY DEF SameScreen, AllocShown, TracesShown
  <1>. QED BY <1>1, <1>2, <1>3 DEF AllShown

(* A step that is the hover's only. *)
LEMMA QuietStep ==
  ASSUME LoneInv, SettledInv, SameScreen, UNCHANGED <<core, buildId, clean, before>>,
         Busy' = Busy, \A x \in Busy : task'[x] = task[x]
  PROVE  LoneInv' /\ SettledInv'
  <1>1. ASSUME NEW x \in Busy, LoneAt(x) PROVE LoneAt(x)'
    <2>1. AnswerAt(x)'
      BY <1>1 DEF LoneAt, AnswerAt, Answered, Asked
    <2>2. Left(x)' = Left(x) /\ task'[x] = task[x] /\ Answered(x)' = Answered(x)
      BY DEF Left, Answered
    <2>3. OpenAt(x) => OpenAt(x)'
      BY <2>2, SameShown DEF OpenAt, SameScreen
    <2>4. EditAt(x) => EditAt(x)'
      BY <2>2, SameShown DEF EditAt
    <2>. QED BY <1>1, <2>1, <2>2, <2>3, <2>4 DEF LoneAt
  <1>2. LoneInv'
    BY <1>1 DEF LoneInv
  <1>3. SettledInv'
    BY SameShown DEF SettledInv
  <1>. QED BY <1>2, <1>3

LEMMA BusyType == TypeInv => Busy \subseteq Slots /\ \A x \in Busy : task[x] \in Tasks
  BY DEF Busy, TypeInv, ControlTypes

(* A handler begins: alone if no other is in flight, and no other is alone then. *)
LEMMA BeginFacts ==
  ASSUME TypeInv, NEW s \in Slots, NEW kind \in Kinds \ {"none"}, NEW script, NEW topic,
         Begin(s, kind, script, topic)
  PROVE  /\ UNCHANGED <<core, buildId>> /\ s \notin Busy
         /\ \/ kind # "open" /\ buildId = NoId /\ UNCHANGED <<task, clean>>
            \/ /\ buildId # NoId \/ kind = "open"
               /\ clean' = (clean /\ (kind = "hover" \/ Busy = {}))
               /\ task'[s].kind = kind /\ task'[s].todo = script /\ ~task'[s].got
               /\ task'[s].first = NoReply /\ task'[s].alone = (Busy = {})
               /\ \A x \in Slots \ {s} :
                     task'[x] = IF x \in Busy /\ kind # "hover"
                                THEN [task[x] EXCEPT !.alone = FALSE] ELSE task[x]
  <1>1. UNCHANGED <<core, buildId>> /\ task[s] = Idle
    BY Zenon DEF Begin
  <1>2. s \notin Busy
    BY <1>1, IdleOK DEF Busy
  <1>3. CASE buildId = NoId /\ kind # "open"
    <2>1. UNCHANGED <<task, clean>>
      BY <1>3, Zenon DEF Begin
    <2>. QED BY <1>1, <1>2, <1>3, <2>1
  <1>4. CASE ~(buildId = NoId /\ kind # "open")
    <2>. DEFINE new == [Idle EXCEPT !.kind = kind, !.todo = script, !.topic = topic,
                                    !.id = buildId, !.alone = (Busy = {})]
    <2>1. /\ clean' = (clean /\ (kind = "hover" \/ Busy = {}))
          /\ task' = [t \in Slots |->
                        IF t = s THEN new
                        ELSE IF t \in Busy /\ kind # "hover" THEN [task[t] EXCEPT !.alone = FALSE]
                        ELSE task[t]]
      BY <1>4, Zenon DEF Begin
    <2>2. /\ new.kind = kind /\ new.todo = script /\ ~new.got
          /\ new.first = NoReply /\ new.alone = (Busy = {})
      BY DEF Idle
    <2>. HIDE DEF new
    <2>3. task'[s] = new
      BY <2>1
    <2>4. \A x \in Slots \ {s} :
             task'[x] = IF x \in Busy /\ kind # "hover"
                        THEN [task[x] EXCEPT !.alone = FALSE] ELSE task[x]
      BY <2>1
    <2>5. buildId # NoId \/ kind = "open"
      BY <1>4
    <2>. QED BY <1>1, <1>2, <2>1, <2>2, <2>3, <2>4, <2>5, Zenon
  <1>. QED BY <1>3, <1>4

LEMMA BeginLone ==
  ASSUME IInv, NEW s \in Slots, NEW kind \in Kinds \ {"none", "hover"}, NEW script, NEW topic,
         Begin(s, kind, script, topic),
         kind = "open" => Len(script) = 6, kind = "allocate" => Len(script) = 2,
         view'.build = view.build, view'.grid = view.grid,
         view'.skillGroups = view.skillGroups, view'.configOptions = view.configOptions,
         Busy = {} /\ clean => AllShown'
  PROVE  LoneInv' /\ SettledInv'
  <1>1. UNCHANGED <<core, buildId>> /\ s \notin Busy
    BY BeginFacts DEF IInv
  <1>2. CASE kind # "open" /\ buildId = NoId /\ UNCHANGED <<task, clean>>
    <2>1. Busy' = Busy
      BY <1>2 DEF Busy
    <2>2. ASSUME NEW x \in Busy, LoneAt(x) PROVE LoneAt(x)'
      <3>1. AnswerAt(x)' /\ Left(x)' = Left(x) /\ Answered(x)' = Answered(x)
        BY <1>1, <1>2, <2>2 DEF LoneAt, AnswerAt, Answered, Asked, Left
      <3>2. OpenAt(x) => OpenAt(x)'
        BY <1>1, <1>2, <3>1 DEF OpenAt, GemsShown, OptionsShown
      <3>3. ~EditAt(x)
        BY <1>2 DEF EditAt
      <3>. QED BY <1>2, <2>2, <3>1, <3>2, <3>3 DEF LoneAt
    <2>3. LoneInv'
      BY <1>2, <2>1, <2>2 DEF IInv, LoneInv
    <2>. QED BY <1>2, <2>1, <2>3 DEF SettledInv
  <1>3. CASE /\ buildId # NoId \/ kind = "open"
             /\ clean' = (clean /\ (kind = "hover" \/ Busy = {}))
             /\ task'[s].kind = kind /\ task'[s].todo = script /\ ~task'[s].got
             /\ task'[s].first = NoReply /\ task'[s].alone = (Busy = {})
             /\ \A x \in Slots \ {s} :
                   task'[x] = IF x \in Busy /\ kind # "hover"
                              THEN [task[x] EXCEPT !.alone = FALSE] ELSE task[x]
    <2>1. \A x \in Busy : x # s /\ task'[x] = [task[x] EXCEPT !.alone = FALSE]
      BY <1>1, <1>3, BusyType DEF IInv
    <2>2. \A x \in Busy : task'[x].kind = task[x].kind /\ ~task'[x].alone
      BY <2>1, BusyType DEF IInv, Tasks
    <2>3. \A x \in Slots \ ({s} \cup Busy) : task'[x] = task[x]
      BY <1>3
    <2>4. Busy' = Busy \cup {s}
      BY <1>3, <2>2, <2>3 DEF Busy
    <2>5. CASE Busy = {}
      <3>1. Busy' = {s} /\ task'[s].alone
        BY <1>3, <2>4, <2>5
      <3>2. AnswerAt(s)'
        BY <1>3 DEF AnswerAt, Answered
      <3>3. Left(s)' = Len(script)
        BY <1>3 DEF Left
      <3>4. kind = "open" => OpenAt(s)'
        <4>. SUFFICES ASSUME kind = "open" PROVE OpenAt(s)'
          OBVIOUS
        <4>1. Left(s)' = 6 /\ ~Answered(s)' /\ task'[s].first = NoReply
          BY <1>3, <3>3 DEF Answered
        <4>. QED BY <4>1 DEF OpenAt
      <3>5. kind # "open" /\ clean' => EditAt(s)'
        <4>. SUFFICES ASSUME kind # "open", clean' PROVE EditAt(s)'
          OBVIOUS
        <4>1. AllShown' /\ buildId' # NoId
          BY <1>1, <1>3, <2>5
        <4>. QED BY <1>3, <3>3, <4>1, SMTT(30) DEF EditAt, AllShown
      <3>6. LoneAt(s)'
        BY <1>3, <3>2, <3>4, <3>5 DEF LoneAt
      <3>. QED BY <3>1, <3>6 DEF LoneInv, SettledInv
    <2>6. CASE Busy # {}
      <3>1. ~clean' /\ \A x \in Busy' : ~task'[x].alone
        BY <1>3, <2>2, <2>4, <2>6
      <3>. QED BY <3>1 DEF LoneInv, SettledInv
    <2>. QED BY <2>5, <2>6
  <1>. QED BY <1>2, <1>3, BeginFacts DEF IInv

LEMMA OpenLone ==
  ASSUME IInv, NEW s \in Slots, NEW xml, Open(s, xml)
  PROVE  LoneInv' /\ SettledInv'
  <1>1. Begin(s, "open", OpenScript(xml), xml) /\ UNCHANGED <<view, timer, before>>
    BY Zenon DEF Open
  <1>2. UNCHANGED <<core, buildId>>
    BY <1>1, Zenon DEF Begin
  <1>3. Busy = {} /\ clean => AllShown'
    BY <1>1, <1>2, SameShown DEF SameScreen, IInv, SettledInv
  <1>4. Len(OpenScript(xml)) = 6
    BY DEF OpenScript
  <1>. QED BY <1>1, <1>3, <1>4, BeginLone DEF Kinds

(* An edit takes the stats it is about to replace as the baseline. *)
LEMMA EditLone ==
  ASSUME IInv, NEW s \in Slots, NEW kind \in {"config", "toggle", "allocate"}, NEW script,
         kind = "allocate" => Len(script) = 2, BeginEdit(s, kind, script)
  PROVE  LoneInv' /\ SettledInv'
  <1>1. /\ Begin(s, kind, script, Undefined) /\ before' = core.out
        /\ view' = [view EXCEPT !.prevStats = IF view.build = Undefined THEN Empty ELSE view.build.stats]
    BY Zenon DEF BeginEdit
  <1>2. UNCHANGED <<core, buildId>>
    BY <1>1, Zenon DEF Begin
  <1>3. view \in Views
    BY DEF IInv, TypeInv, ScreenTypes
  <1>4. /\ view'.build = view.build /\ view'.grid = view.grid /\ view'.treeGraph = view.treeGraph
        /\ view'.skillGroups = view.skillGroups /\ view'.configOptions = view.configOptions
        /\ view'.treeAllocated = view.treeAllocated /\ view'.calcExplains = view.calcExplains
        /\ view'.prevStats = IF view.build = Undefined THEN Empty ELSE view.build.stats
    BY <1>1, <1>3 DEF Views
  <1>5. ASSUME Busy = {}, clean PROVE AllShown'
    <2>1. AllShown
      BY <1>5 DEF IInv, SettledInv
    <2>2. Undefined \notin Screens
      BY AppAssumption, Zenon DEF Screens
    <2>3. view'.prevStats = before'
      BY <1>1, <1>4, <2>1, <2>2 DEF AllShown, BaseShown, StatsShown
    <2>4. BaseShown'
      BY <1>2, <1>4, <2>1, <2>3 DEF AllShown, BaseShown
    <2>5. StatsShown' /\ GemsShown' /\ OptionsShown' /\ AllocShown' /\ TracesShown'
      BY <1>2, <1>4, <2>1 DEF AllShown, StatsShown, GemsShown, OptionsShown, AllocShown, TracesShown
    <2>. QED BY <2>4, <2>5 DEF AllShown
  <1>. QED BY <1>1, <1>4, <1>5, BeginLone DEF Kinds

LEMMA UserLone == ASSUME IInv, User PROVE LoneInv' /\ SettledInv'
  <1>1. ASSUME NEW s \in Slots, NEW payload, ApplyConfig(s, payload) PROVE LoneInv' /\ SettledInv'
    BY <1>1, EditLone DEF ApplyConfig
  <1>2. ASSUME NEW s \in Slots, NEW g, ToggleGem(s, g) PROVE LoneInv' /\ SettledInv'
    <2>1. BeginEdit(s, "toggle", ToggleScript(Flip(Enabled(view.skillGroups), g)))
      BY <1>2, Zenon DEF ToggleGem
    <2>. QED BY <2>1, EditLone
  <1>3. ASSUME NEW s \in Slots, NEW n, AllocateTreeNode(s, n) PROVE LoneInv' /\ SettledInv'
    <2>1. Len(AllocateScript(n)) = 2
      BY DEF AllocateScript
    <2>. QED BY <1>3, <2>1, EditLone DEF AllocateTreeNode
  <1>4. ASSUME NEW s \in Slots, NEW x, ExplainStat(s, x) PROVE LoneInv' /\ SettledInv'
    <2>1. Begin(s, "explain", <<Ask("calc.explain")>>, x) /\ UNCHANGED <<view, timer, before>>
      BY <1>4, Zenon DEF ExplainStat
    <2>2. UNCHANGED <<core, buildId>>
      BY <2>1, Zenon DEF Begin
    <2>3. Busy = {} /\ clean => AllShown'
      BY <2>1, <2>2, SameShown DEF SameScreen, IInv, SettledInv
    <2>. QED BY <2>1, <2>3, BeginLone DEF Kinds
  <1>. QED BY <1>1, <1>2, <1>3, <1>4, OpenLone DEF User

LEMMA HoverLone == ASSUME IInv, Hovering PROVE LoneInv' /\ SettledInv'
  <1>1. ASSUME LeaveNodes \/ \E n \in Nodes : HoverNode(n) PROVE LoneInv' /\ SettledInv'
    <2>1. UNCHANGED <<core, buildId, task, started, clean, before>>
      BY <1>1 DEF LeaveNodes, HoverNode
    <2>2. SameScreen
      BY <1>1 DEF LeaveNodes, HoverNode, SameScreen, IInv, TypeInv, ScreenTypes, Views
    <2>3. Busy' = Busy
      BY <2>1 DEF Busy
    <2>. QED BY <2>1, <2>2, <2>3, QuietStep DEF IInv
  <1>2. ASSUME NEW s \in Slots, HoverTimerFires(s) PROVE LoneInv' /\ SettledInv'
    <2>1. Begin(s, "hover", <<Ask("tree.previewAllocate")>>, timer) /\ UNCHANGED <<view, before>>
      BY <1>2, Zenon DEF HoverTimerFires
    <2>2. /\ UNCHANGED <<core, buildId>> /\ s \notin Busy
          /\ \/ UNCHANGED <<task, clean>>
             \/ /\ clean' = (clean /\ ("hover" = "hover" \/ Busy = {}))
                /\ task'[s].kind = "hover"
                /\ \A x \in Slots \ {s} : task'[x] = task[x]
      BY <2>1, BeginFacts DEF IInv, Kinds
    <2>3. SameScreen
      BY <2>1 DEF SameScreen
    <2>4. clean' = clean
      <3>1. clean \in BOOLEAN
        BY DEF IInv, TypeInv, ControlTypes
      <3>. QED BY <2>2, <3>1, Zenon
    <2>5. Busy' = Busy /\ \A x \in Busy : task'[x] = task[x]
      BY <2>2 DEF Busy
    <2>. QED BY <2>1, <2>2, <2>3, <2>4, <2>5, QuietStep DEF IInv
  <1>. QED BY <1>1, <1>2 DEF Hovering

(* An answer arrives at the handler that runs alone. *)
LEMMA AnswerArrives ==
  ASSUME IInv, NEW s \in Busy, task[s].alone, Respond(s)
  PROVE  LoneAt(s)'
  <1>. DEFINE t == task[s]
              req == Head(t.todo)
  <1>1. /\ t \in Tasks /\ t.kind \in Kinds \ {"none"} /\ req \in Requests /\ s \in Slots
        /\ Left(s) \in Nat \ {0} /\ req.method = At(t.kind, Left(s)) /\ Longest(t.kind, Left(s))
    BY ResumeFacts, BusyType DEF Respond, Waiting, IInv, Left, Script
  <1>2. PICK o \in Outcomes(core, req.method, t.id, req.arg) :
          core' = o.core /\ task' = [task EXCEPT ![s].got = TRUE, ![s].reply = o.reply]
    BY Zenon DEF Respond
  <1>3. UNCHANGED <<buildId, view, clean, before>> /\ core \in CoreState
    BY DEF Respond, IInv, TypeInv, ControlTypes
  <1>4. /\ task'[s].kind = t.kind /\ task'[s].todo = t.todo /\ task'[s].first = t.first
        /\ task'[s].got /\ task'[s].reply = o.reply
    BY <1>1, <1>2 DEF IInv, TypeInv, ControlTypes, Tasks
  <1>5. Left(s)' = Left(s) /\ Asked(s)' = req.method /\ (Answered(s)' <=> o.reply.code = "OK")
    BY <1>4 DEF Left, Asked, Answered
  <1>6. LoneAt(s)
    BY DEF IInv, LoneInv
  <1>. HIDE DEF t, req
  <1>7. CASE req.method \in Reads
    <2>1. core' = core /\ (o.reply.code = "OK" => o.reply.doc = core.live /\ o.reply.shows = Served(core, req.method))
      BY <1>2, <1>3, <1>7, ReadFacts
    <2>2. AnswerAt(s)'
      BY <1>4, <1>5, <1>7, <2>1 DEF AnswerAt, Reads, Writes
    <2>3. Left(s) # 6 \/ t.kind # "open"
      BY <1>1, <1>7, WhoseRequest DEF At, Reads
    <2>4. /\ BaseShown' = BaseShown /\ StatsShown' = StatsShown /\ GemsShown' = GemsShown
          /\ OptionsShown' = OptionsShown /\ AllocShown' = AllocShown /\ TracesShown' = TracesShown
      BY <1>3, <2>1, SameShown DEF SameScreen
    <2>5. t.kind = "open" => OpenAt(s)'
      BY <1>3, <1>4, <1>5, <1>6, <2>1, <2>3, <2>4 DEF LoneAt, OpenAt, t
    <2>6. t.kind # "open" /\ clean' => EditAt(s)'
      BY <1>3, <1>4, <1>5, <1>6, <2>1, <2>4 DEF LoneAt, EditAt, t
    <2>. QED BY <1>4, <2>2, <2>5, <2>6 DEF LoneAt
  <1>8. CASE req.method = "build.load"
    <2>1. t.kind = "open" /\ Left(s) = 6
      BY <1>1, <1>8, WhoseRequest, ZenonT(40)
    <2>2. req.arg \in Docs \cup {BadXml} /\ o \in Load(core, req.arg)
      BY <1>1, <1>2, <1>8 DEF Requests, Reads, Outcomes
    <2>3. o.reply.code = "OK" =>
            o.reply.id = o.core.active /\ o.reply.id # NoId /\ o.reply.doc = o.core.live
      BY <1>3, <2>2, LoadFacts
    <2>4. AnswerAt(s)'
      BY <1>5, <1>8 DEF AnswerAt, Reads, Writes
    <2>5. OpenAt(s)'
      BY <1>2, <1>4, <1>5, <1>6, <2>1, <2>3 DEF LoneAt, OpenAt, t
    <2>. QED BY <1>4, <2>1, <2>4, <2>5 DEF LoneAt
  <1>9. CASE req.method \in Writes
    <2>1. /\ o.core.active = core.active /\ o.core.live = core.live
          /\ Elsewhere(core.inp, o.core.inp, req.method)
          /\ o.reply.code = "OK" => o.reply.shows = o.core.inp
      BY <1>1, <1>2, <1>3, <1>9, WriteFacts
    <2>2. \/ t.kind = "config" /\ Left(s) # 1 /\ req.method = "config.setOption"
          \/ t.kind = "toggle" /\ Left(s) = 3 /\ req.method = "skills.setGemGroup"
          \/ t.kind = "allocate" /\ Left(s) = 2 /\ req.method = "tree.applyAllocate"
      BY <1>1, <1>9, WhoseRequest DEF Writes
    <2>3. AnswerAt(s)'
      BY <1>2, <1>4, <1>5, <1>9, <2>1 DEF AnswerAt, Reads, Writes
    <2>4. ASSUME clean' PROVE EditAt(s)'
      <3>1. EditAt(s)
        BY <1>3, <1>6, <2>2, <2>4 DEF LoneAt, t
      <3>2. BaseShown' = BaseShown
        BY <1>2, <1>3, <2>1 DEF BaseShown
      <3>3. /\ t.kind # "toggle" => GemsShown' = GemsShown
            /\ t.kind # "config" => OptionsShown' = OptionsShown
            /\ t.kind # "allocate" => AllocShown' = AllocShown
        BY <1>2, <1>3, <2>1, <2>2 DEF GemsShown, OptionsShown, AllocShown, Elsewhere
      <3>. QED BY <1>3, <1>4, <1>5, <2>2, <3>1, <3>2, <3>3 DEF EditAt, t
    <2>. QED BY <1>4, <2>2, <2>3, <2>4 DEF LoneAt
  <1>. QED BY <1>1, <1>7, <1>8, <1>9 DEF Requests, Writes

LEMMA RespondLone ==
  ASSUME IInv, NEW s \in Slots, Respond(s)
  PROVE  LoneInv' /\ SettledInv'
  <1>1. /\ task[s].kind \in Kinds \ {"none"} /\ task[s] \in Tasks
        /\ Left(s) \in Nat \ {0} /\ Asked(s) = At(task[s].kind, Left(s))
    BY ResumeFacts DEF Respond, Waiting, IInv, Left, Asked
  <1>2. UNCHANGED <<buildId, view, clean, before>> /\ core \in CoreState /\ task \in [Slots -> Tasks]
    BY DEF Respond, IInv, TypeInv, ControlTypes
  <1>3. PICK o \in Outcomes(core, Asked(s), task[s].id, Head(task[s].todo).arg) :
          core' = o.core /\ task' = [task EXCEPT ![s].got = TRUE, ![s].reply = o.reply]
    BY Zenon DEF Respond, Asked
  <1>4. /\ \A x \in Slots \ {s} : task'[x] = task[x]
        /\ task'[s].kind = task[s].kind /\ task'[s].alone = task[s].alone
    BY <1>1, <1>2, <1>3 DEF Tasks
  <1>5. CASE task[s].kind = "hover"
    <2>1. Asked(s) \in Reads
      BY <1>1, <1>5 DEF At, Reads
    <2>2. core' = core
      BY <1>2, <1>3, <2>1, ReadFacts
    <2>3. Busy' = Busy /\ \A x \in Busy : task'[x] = task[x]
      BY <1>4, <1>5 DEF Busy
    <2>. QED BY <1>2, <2>2, <2>3, QuietStep DEF SameScreen, IInv
  <1>6. CASE task[s].kind # "hover"
    <2>1. s \in Busy /\ task'[s] # Idle
      BY <1>1, <1>4, <1>6, IdleOK DEF Busy
    <2>2. ~task[s].alone => ~clean'
      BY <1>2, <2>1 DEF IInv, LoneInv
    <2>3. task[s].alone => LoneAt(s)'
      BY <2>1, AnswerArrives
    <2>. QED BY <1>4, <2>1, <2>2, <2>3, LoneStep DEF IInv
  <1>. QED BY <1>5, <1>6

LEMMA LostLone ==
  ASSUME IInv, NEW s \in Slots, RunnerLost(s)
  PROVE  LoneInv' /\ SettledInv'
  <1>1. ~clean' /\ task[s].kind # "none"
    BY DEF RunnerLost, Waiting
  <1>. DEFINE r == Refusal("CORE_INIT_FAILED")
  <1>2. task' = [t \in Slots |->
                   IF t = s THEN [task[t] EXCEPT !.got = TRUE, !.alone = FALSE, !.reply = r]
                   ELSE IF task[t] = Idle THEN Idle ELSE [task[t] EXCEPT !.alone = FALSE]]
    BY Zenon DEF RunnerLost
  <1>. HIDE DEF r
  <1>3. \A x \in Slots : task[x] \in Tasks
    BY DEF IInv, TypeInv, ControlTypes
  <1>4. ASSUME NEW x \in Busy' PROVE ~task'[x].alone
    <2>1. x \in Slots /\ task'[x].kind # "none"
      BY DEF Busy
    <2>. QED BY <1>2, <1>3, <2>1, IdleOK DEF Tasks
  <1>. QED BY <1>1, <1>4 DEF LoneInv, SettledInv

LEMMA RejectLone ==
  ASSUME IInv, NEW s \in Slots, Reject(s)
  PROVE  LoneInv' /\ SettledInv'
  <1>1. /\ UNCHANGED <<core, buildId, view, before>> /\ task' = [task EXCEPT ![s] = Idle]
        /\ clean' = (clean /\ task[s].kind \in {"hover", "explain"}) /\ task[s].got
    BY Zenon DEF Reject
  <1>2. task[s].kind \in Kinds \ {"none"} /\ task \in [Slots -> Tasks] /\ clean \in BOOLEAN
    BY <1>1, ResumeFacts DEF IInv, TypeInv, ControlTypes
  <1>3. task'[s] = Idle /\ \A x \in Slots \ {s} : task'[x] = task[x]
    BY <1>1, <1>2
  <1>4. SameScreen
    BY <1>1 DEF SameScreen
  <1>5. CASE task[s].kind = "hover"
    <2>1. clean' = clean
      BY <1>1, <1>2, <1>5, Zenon
    <2>2. Busy' = Busy /\ \A x \in Busy : task'[x] = task[x]
      BY <1>3, <1>5, IdleOK DEF Busy
    <2>. QED BY <1>1, <1>4, <2>1, <2>2, QuietStep DEF IInv
  <1>6. CASE task[s].kind # "hover"
    <2>1. s \in Busy
      BY <1>2, <1>6 DEF Busy
    <2>2. clean' => clean /\ task[s].kind = "explain"
      BY <1>1, <1>6
    <2>3. ~task[s].alone => ~clean'
      BY <2>1, <2>2 DEF IInv, LoneInv
    <2>4. ASSUME task[s].alone, clean' PROVE AllShown'
      <3>1. EditAt(s)
        BY <2>1, <2>2, <2>4 DEF IInv, LoneInv, LoneAt
      <3>2. AllShown
        BY <2>2, <2>4, <3>1 DEF EditAt, AllShown
      <3>. QED BY <1>1, <1>4, <3>2, SameShown
    <2>. QED BY <1>3, <2>1, <2>3, <2>4, LoneStep DEF IInv
  <1>. QED BY <1>5, <1>6

(* What a handler is like after it went on. *)
LEMMA ContinueFacts ==
  ASSUME IInv, NEW s \in Slots, task[s].got, Continue(s)
  PROVE  /\ UNCHANGED core /\ \A x \in Slots \ {s} : task'[x] = task[x]
         /\ Left(s) = 1 =>
              /\ task'[s] = Idle
              /\ clean' = (clean \/ (task[s].kind = "open" /\ task[s].alone))
              /\ before' = IF task[s].kind = "open" THEN Undefined ELSE before
         /\ Left(s) # 1 =>
              /\ UNCHANGED <<clean, before>>
              /\ task'[s].kind = task[s].kind /\ task'[s].alone = task[s].alone
              /\ task'[s].first = IF task[s].first = NoReply THEN task[s].reply ELSE task[s].first
              /\ Left(s)' = Left(s) - 1 /\ ~task'[s].got
  <1>. DEFINE t == task[s]
              u == [t EXCEPT !.todo = Tail(@), !.got = FALSE, !.id = buildId',
                             !.first = IF @ = NoReply THEN t.reply ELSE @]
  <1>1. /\ t \in Tasks /\ t.kind \in Kinds \ {"none"} /\ t.todo \in Seq(Requests)
        /\ Script(t.kind, t.todo) /\ task \in [Slots -> Tasks]
    BY ResumeFacts DEF IInv, TypeInv, ControlTypes
  <1>2. UNCHANGED core
    BY Zenon DEF Continue
  <1>3. CASE Left(s) = 1
    <2>1. /\ task' = [task EXCEPT ![s] = Idle]
          /\ clean' = (clean \/ (t.kind = "open" /\ t.alone))
          /\ before' = IF t.kind = "open" THEN Undefined ELSE before
      BY <1>3, Zenon DEF Continue, Left
    <2>2. task'[s] = Idle /\ \A x \in Slots \ {s} : task'[x] = task[x]
      BY <1>1, <2>1
    <2>. QED BY <1>2, <1>3, <2>1, <2>2, Zenon
  <1>4. CASE Left(s) # 1
    <2>1. task' = [task EXCEPT ![s] = u] /\ UNCHANGED <<clean, before>>
      BY <1>4, Zenon DEF Continue, Left
    <2>2. Len(Tail(t.todo)) = Len(t.todo) - 1
      BY <1>1, <1>4, RestRuns DEF Left
    <2>. HIDE DEF t
    <2>3. /\ u.kind = t.kind /\ u.alone = t.alone /\ u.todo = Tail(t.todo) /\ u.got = FALSE
          /\ u.first = IF t.first = NoReply THEN t.reply ELSE t.first
      BY <1>1 DEF Tasks
    <2>. HIDE DEF u
    <2>4. task'[s] = u /\ \A x \in Slots \ {s} : task'[x] = task[x]
      BY <1>1, <2>1
    <2>5. Left(s)' = Left(s) - 1
      BY <2>2, <2>3, <2>4 DEF Left, t
    <2>. QED BY <1>2, <1>4, <2>1, <2>3, <2>4, <2>5 DEF t
  <1>. QED BY <1>3, <1>4

(* The next request of an open that runs alone. *)
LEMMA OpenGoesOn ==
  ASSUME IInv, NEW s \in Busy, task[s].alone, task[s].kind = "open", Resume(s), Left(s) # 1
  PROVE  OpenAt(s)'
  <1>. DEFINE t == task[s]
  <1>1. t.got /\ t.reply.code = "OK" /\ Continue(s)
    BY DEF Resume, Resumes, Loaded, Written, Recalculated, Equipped, Groups, Options, Tree, Explained, Previewed
  <1>2. /\ s \in Slots /\ Left(s) \in Nat \ {0} /\ Asked(s) = At("open", Left(s)) /\ Longest("open", Left(s))
        /\ t.reply \in Reply
    BY <1>1, ResumeFacts, BusyType DEF IInv, Left, Asked, Script
  <1>3. Answered(s) /\ OpenAt(s) /\ AnswerAt(s)
    BY <1>1 DEF IInv, LoneInv, LoneAt, Answered
  <1>4. /\ UNCHANGED core /\ Left(s)' = Left(s) - 1 /\ ~Answered(s)'
        /\ task'[s].first = IF t.first = NoReply THEN t.reply ELSE t.first
    BY <1>1, <1>2, ContinueFacts DEF Answered
  <1>5. view \in Views
    BY DEF IInv, TypeInv, ScreenTypes
  <1>6. Asked(s) \in Reads =>
          t.reply.doc = core.live /\ t.reply.shows = Served(core, Asked(s))
    BY <1>3 DEF AnswerAt
  <1>7. Left(s) \in {2, 3, 4, 5, 6}
    BY <1>2 DEF Longest
  <1>8. CASE Left(s) = 6
    <2>1. Asked(s) = "build.load"
      BY <1>2, <1>8 DEF At
    <2>2. buildId' = t.reply.id
      BY <2>1 DEF Resume, Resumes, Asked, Loaded, Written, Recalculated, Equipped, Groups, Options, Tree, Explained, Previewed
    <2>3. /\ t.first = NoReply /\ t.reply.id = core.active /\ t.reply.id # NoId
          /\ t.reply.doc = core.live
      BY <1>3, <1>8 DEF OpenAt
    <2>4. t.reply # NoReply
      BY <2>3 DEF NoReply, Refusal
    <2>5. Left(s)' = 5 /\ task'[s].first = t.reply
      BY <1>4, <1>8, <2>3
    <2>. QED BY <1>4, <2>2, <2>3, <2>4, <2>5 DEF OpenAt
  <1>9. ASSUME Left(s) <= 5 PROVE OpenAt(s)'
    <2>1. /\ buildId = core.active /\ t.first.doc = core.live /\ t.first # NoReply
      BY <1>3, <1>9 DEF OpenAt
    <2>2. task'[s].first = t.first
      BY <1>4, <2>1
    <2>3. CASE Left(s) = 5
      <3>1. Asked(s) = "calc.run"
        BY <1>2, <2>3 DEF At
      <3>2. Recalculated(s)
        BY <3>1 DEF Resume, Resumes, Asked, Loaded, Written, Equipped, Groups, Options, Tree, Explained, Previewed
      <3>3. /\ UNCHANGED buildId
            /\ view' = [view EXCEPT !.build = [doc |-> t.first.doc, stats |-> t.reply.shows]]
        BY <3>2 DEF Recalculated
      <3>4. t.reply.shows = core.out
        BY <1>6, <3>1 DEF Reads, Served
      <3>5. view'.build = [doc |-> core.live, stats |-> core.out]
        BY <1>5, <2>1, <3>3, <3>4 DEF Views
      <3>6. Left(s)' = 4
        BY <1>4, <2>3
      <3>. QED BY <1>4, <2>1, <2>2, <3>3, <3>5, <3>6 DEF OpenAt
    <2>4. CASE Left(s) = 4
      <3>1. Asked(s) = "items.getEquipped"
        BY <1>2, <2>4 DEF At
      <3>2. Equipped(s)
        BY <3>1 DEF Resume, Resumes, Asked, Loaded, Written, Recalculated, Groups, Options, Tree, Explained, Previewed
      <3>3. UNCHANGED buildId /\ view' = [view EXCEPT !.grid = t.reply.doc]
        BY <3>2 DEF Equipped
      <3>4. t.reply.doc = core.live
        BY <1>6, <3>1 DEF Reads
      <3>5. view'.build = view.build /\ view'.grid = core.live
        BY <1>5, <3>3, <3>4 DEF Views
      <3>6. Left(s)' = 3 /\ view.build = [doc |-> core.live, stats |-> core.out]
        BY <1>3, <1>4, <2>4 DEF OpenAt
      <3>. QED BY <1>4, <2>1, <2>2, <3>3, <3>5, <3>6 DEF OpenAt
    <2>5. CASE Left(s) = 3
      <3>1. Asked(s) = "skills.getGroups"
        BY <1>2, <2>5 DEF At
      <3>2. Groups(s)
        BY <3>1 DEF Resume, Resumes, Asked, Loaded, Written, Recalculated, Equipped, Options, Tree, Explained, Previewed
      <3>3. /\ UNCHANGED buildId
            /\ view' = [view EXCEPT !.skillGroups = t.reply.shows.gems, !.calcExplains = Traces(s)]
        BY <3>2 DEF Groups
      <3>4. t.reply.shows = core.inp
        BY <1>6, <3>1 DEF Reads, Served
      <3>5. view'.build = view.build /\ view'.grid = view.grid /\ view'.skillGroups = core.inp.gems
        BY <1>5, <3>3, <3>4 DEF Views
      <3>6. /\ Left(s)' = 2 /\ view.build = [doc |-> core.live, stats |-> core.out]
            /\ view.grid = core.live
        BY <1>3, <1>4, <2>5 DEF OpenAt
      <3>. QED BY <1>4, <2>1, <2>2, <3>3, <3>5, <3>6 DEF OpenAt, GemsShown
    <2>6. CASE Left(s) = 2
      <3>1. Asked(s) = "config.getOptions"
        BY <1>2, <2>6 DEF At
      <3>2. Options(s)
        BY <3>1 DEF Resume, Resumes, Asked, Loaded, Written, Recalculated, Equipped, Groups, Tree, Explained, Previewed
      <3>3. /\ UNCHANGED buildId
            /\ view' = [view EXCEPT !.configOptions = t.reply.shows.opt, !.calcExplains = Traces(s)]
        BY <3>2 DEF Options
      <3>4. t.reply.shows = core.inp
        BY <1>6, <3>1 DEF Reads, Served
      <3>5. /\ view'.build = view.build /\ view'.grid = view.grid
            /\ view'.skillGroups = view.skillGroups /\ view'.configOptions = core.inp.opt
        BY <1>5, <3>3, <3>4 DEF Views
      <3>6. /\ Left(s)' = 1 /\ view.build = [doc |-> core.live, stats |-> core.out]
            /\ view.grid = core.live /\ view.skillGroups = core.inp.gems
        BY <1>3, <1>4, <2>6 DEF OpenAt, GemsShown
      <3>. QED BY <1>4, <2>1, <2>2, <3>3, <3>5, <3>6 DEF OpenAt, GemsShown, OptionsShown
    <2>. QED BY <1>7, <1>9, <2>3, <2>4, <2>5, <2>6
  <1>. QED BY <1>7, <1>8, <1>9

(* The end of an open that ran alone. *)
LEMMA OpenEnds ==
  ASSUME IInv, NEW s \in Busy, task[s].alone, task[s].kind = "open", Resume(s), Left(s) = 1
  PROVE  AllShown'
  <1>. DEFINE t == task[s]
  <1>1. t.got /\ t.reply.code = "OK" /\ Continue(s)
    BY DEF Resume, Resumes, Loaded, Written, Recalculated, Equipped, Groups, Options, Tree, Explained, Previewed
  <1>2. s \in Slots /\ Asked(s) = "tree.getData"
    <2>1. At("open", 1) = "tree.getData"
      BY DEF At
    <2>2. s \in Slots /\ Asked(s) = At("open", Left(s))
      BY <1>1, ResumeFacts, BusyType DEF IInv, Left, Asked
    <2>. QED BY <2>1, <2>2
  <1>3. /\ buildId = core.active /\ view.build = [doc |-> core.live, stats |-> core.out]
        /\ view.grid = core.live /\ GemsShown /\ OptionsShown
    BY DEF IInv, LoneInv, LoneAt, OpenAt
  <1>4. t.reply.doc = core.live /\ t.reply.shows = core.inp
    BY <1>1, <1>2 DEF IInv, LoneInv, LoneAt, AnswerAt, Answered, Reads, Served
  <1>5. UNCHANGED core /\ before' = Undefined
    BY <1>1, <1>2, ContinueFacts
  <1>6. Tree(s)
    BY <1>2 DEF Resume, Resumes, Asked, Loaded, Written, Recalculated, Equipped, Groups, Options, Explained, Previewed
  <1>7. /\ UNCHANGED buildId
        /\ view' = [view EXCEPT !.treeGraph = t.reply.doc, !.treeAllocated = t.reply.shows.alloc,
                                !.hoverNode = Undefined, !.hoverDeltas = Undefined,
                                !.calcExplains = NoTraces, !.prevStats = Undefined]
    BY <1>6, Zenon DEF Tree
  <1>8. view \in Views /\ core \in CoreState
    BY DEF IInv, TypeInv, ControlTypes, ScreenTypes
  <1>. HIDE DEF t
  <1>9. /\ view'.build = view.build /\ view'.grid = view.grid /\ view'.treeGraph = core.live
        /\ view'.treeAllocated = core.inp.alloc /\ view'.prevStats = Undefined
        /\ view'.skillGroups = view.skillGroups /\ view'.configOptions = view.configOptions
        /\ view'.calcExplains = NoTraces
    BY <1>4, <1>7, <1>8 DEF Views
  <1>10. [doc |-> core.live, stats |-> core.out] \in Screens
    BY <1>8 DEF CoreState, Screens
  <1>11. BaseShown'
    BY <1>3, <1>5, <1>7, <1>9, <1>10 DEF BaseShown
  <1>12. StatsShown' /\ GemsShown' /\ OptionsShown' /\ AllocShown'
    BY <1>3, <1>5, <1>9 DEF StatsShown, GemsShown, OptionsShown, AllocShown
  <1>13. TracesShown'
    BY <1>9 DEF TracesShown, NoTraces
  <1>. QED BY <1>11, <1>12, <1>13 DEF AllShown

(* An edit that runs alone goes on to its next request. *)
LEMMA EditGoesOn ==
  ASSUME IInv, NEW s \in Busy, task[s].alone, task[s].kind # "open", clean, Resume(s), Left(s) # 1
  PROVE  EditAt(s)'
  <1>. DEFINE t == task[s]
  <1>1. t.got /\ t.reply.code = "OK" /\ Continue(s)
    BY DEF Resume, Resumes, Loaded, Written, Recalculated, Equipped, Groups, Options, Tree, Explained, Previewed
  <1>2. /\ s \in Slots /\ Left(s) \in Nat \ {0} /\ Asked(s) = At(t.kind, Left(s)) /\ Longest(t.kind, Left(s))
        /\ t.kind \in Kinds \ {"none", "open", "hover"}
    BY <1>1, ResumeFacts, BusyType DEF IInv, Left, Asked, Script, Busy
  <1>3. EditAt(s) /\ AnswerAt(s) /\ Answered(s)
    BY <1>1 DEF IInv, LoneInv, LoneAt, Answered
  <1>4. /\ UNCHANGED <<core, clean, before>> /\ task'[s].kind = t.kind /\ Left(s)' = Left(s) - 1
        /\ task'[s].first = IF t.first = NoReply THEN t.reply ELSE t.first
    BY <1>1, <1>2, ContinueFacts
  <1>5. view \in Views
    BY DEF IInv, TypeInv, ScreenTypes
  <1>6. Asked(s) = "calc.run" \/ Asked(s) \in Writes
    <2>1. CASE t.kind = "config"
      BY <1>2, <2>1 DEF At, Writes
    <2>2. CASE t.kind = "toggle"
      BY <1>2, <2>2 DEF At, Longest, Writes
    <2>3. CASE t.kind = "allocate"
      BY <1>2, <2>3 DEF At, Longest, Writes
    <2>4. CASE t.kind = "explain"
      BY <1>2, <2>4 DEF Longest
    <2>. QED BY <1>2, <2>1, <2>2, <2>3, <2>4 DEF Kinds
  <1>7. CASE Asked(s) \in Writes
    <2>1. \/ t.kind = "config" /\ Left(s) % 2 # 0
          \/ t.kind = "toggle" /\ Left(s) = 3
          \/ t.kind = "allocate" /\ Left(s) = 2
      BY <1>2, <1>7, WhoseRequest DEF Writes
    <2>2. Written(s)
      BY <1>7 DEF Writes, Resume, Resumes, Asked, Loaded, Recalculated, Equipped, Groups, Options, Tree, Explained, Previewed
    <2>3. UNCHANGED <<buildId, view>>
      BY <2>2, Zenon DEF Written
    <2>4. /\ BaseShown' = BaseShown /\ StatsShown' = StatsShown /\ GemsShown' = GemsShown
          /\ OptionsShown' = OptionsShown /\ AllocShown' = AllocShown /\ TracesShown' = TracesShown
      BY <1>4, <2>3, SameShown DEF SameScreen
    <2>5. ~(t.kind \in {"config", "toggle"} /\ Left(s)' = 1)
      <3>1. CASE t.kind = "config" /\ Left(s) % 2 # 0
        <4>1. Left(s) # 2
          BY <3>1
        <4>. QED BY <1>2, <1>4, <4>1
      <3>2. CASE t.kind # "config"
        BY <1>4, <2>1, <3>2
      <3>. QED BY <2>1, <3>1, <3>2
    <2>6. t.kind = "allocate" => Left(s)' = 1 /\ task'[s].first.shows = core.inp
      <3>1. t.kind = "allocate" => t.first = NoReply
        BY <1>3, <2>1 DEF EditAt
      <3>2. t.reply.shows = core.inp
        BY <1>3, <1>7 DEF AnswerAt
      <3>. QED BY <1>4, <2>1, <3>1, <3>2
    <2>. QED BY <1>3, <1>4, <2>1, <2>3, <2>4, <2>5, <2>6 DEF EditAt
  <1>8. CASE Asked(s) = "calc.run"
    <2>1. \/ t.kind = "config" /\ Left(s) % 2 = 0
          \/ t.kind = "toggle" /\ Left(s) = 2
      BY <1>2, <1>8, WhoseRequest
    <2>2. Recalculated(s)
      BY <1>8 DEF Resume, Resumes, Asked, Loaded, Written, Equipped, Groups, Options, Tree, Explained, Previewed
    <2>3. /\ UNCHANGED buildId
          /\ Left(s) = 2 => view' = [view EXCEPT !.build = Shown(t.reply.shows)]
          /\ Left(s) # 2 => view' = view
      BY <2>1, <2>2 DEF Recalculated, Left
    <2>4. t.reply.shows = core.out
      BY <1>3, <1>8 DEF AnswerAt, Reads, Served
    <2>5. view.build \in Screens /\ view.build.doc = core.live /\ core.out \in Inputs /\ core.live \in Builds
      BY <1>3 DEF EditAt, BaseShown, IInv, TypeInv, ControlTypes, CoreState
    <2>6. Undefined \notin Screens
      BY AppAssumption, Zenon DEF Screens
    <2>7. CASE Left(s) # 2
      <3>1. /\ BaseShown' = BaseShown /\ GemsShown' = GemsShown
            /\ OptionsShown' = OptionsShown /\ AllocShown' = AllocShown
        BY <1>4, <2>3, <2>7, SameShown DEF SameScreen
      <3>2. Left(s)' # 1
        BY <1>2, <1>4, <2>7
      <3>. QED BY <1>3, <1>4, <2>1, <2>3, <2>7, <3>1, <3>2 DEF EditAt
    <2>8. CASE Left(s) = 2
      <3>1. /\ view'.build \in Screens /\ view'.build.doc = core.live /\ view'.build.stats = core.out
            /\ view'.grid = view.grid /\ view'.treeGraph = view.treeGraph /\ view'.prevStats = view.prevStats
            /\ view'.skillGroups = view.skillGroups /\ view'.configOptions = view.configOptions
            /\ view'.treeAllocated = view.treeAllocated
        BY <1>5, <2>3, <2>4, <2>5, <2>6, <2>8 DEF Shown, Views, Screens
      <3>2. BaseShown' /\ StatsShown'
        BY <1>3, <1>4, <2>3, <3>1 DEF EditAt, BaseShown, StatsShown
      <3>3. GemsShown' = GemsShown /\ OptionsShown' = OptionsShown /\ AllocShown' = AllocShown
        BY <1>4, <3>1 DEF GemsShown, OptionsShown, AllocShown
      <3>. QED BY <1>3, <1>4, <2>1, <2>3, <3>2, <3>3 DEF EditAt
    <2>. QED BY <2>7, <2>8
  <1>. QED BY <1>6, <1>7, <1>8

(* The end of an edit that ran alone on a clean screen. *)
LEMMA EditEnds ==
  ASSUME IInv, NEW s \in Busy, task[s].alone, task[s].kind # "open", clean, Resume(s), Left(s) = 1
  PROVE  AllShown'
  <1>. DEFINE t == task[s]
  <1>1. t.got /\ t.reply.code = "OK" /\ Continue(s)
    BY DEF Resume, Resumes, Loaded, Written, Recalculated, Equipped, Groups, Options, Tree, Explained, Previewed
  <1>2. /\ s \in Slots /\ Asked(s) = At(t.kind, Left(s)) /\ TaskOK(t)
        /\ t.kind \in Kinds \ {"none", "open", "hover"}
    BY <1>1, ResumeFacts, BusyType DEF IInv, Left, Asked, Busy
  <1>3. EditAt(s) /\ AnswerAt(s) /\ Answered(s)
    BY <1>1 DEF IInv, LoneInv, LoneAt, Answered
  <1>4. UNCHANGED <<core, before>>
    BY <1>1, <1>2, ContinueFacts
  <1>5. view \in Views /\ core \in CoreState
    BY DEF IInv, TypeInv, ControlTypes, ScreenTypes
  <1>6. BaseShown
    BY <1>3 DEF EditAt
  <1>7. CASE t.kind = "explain"
    <2>1. Asked(s) = "calc.explain" /\ t.topic \in StatIds
      BY <1>2, <1>7 DEF At, TaskOK
    <2>2. Explained(s)
      BY <2>1 DEF Resume, Resumes, Asked, Loaded, Written, Recalculated, Equipped, Groups, Options, Tree, Previewed
    <2>3. UNCHANGED buildId /\ view' = [view EXCEPT !.calcExplains[t.topic] = t.reply.shows]
      BY <2>2, Zenon DEF Explained
    <2>4. t.reply.shows = core.out
      BY <1>3, <2>1 DEF AnswerAt, Reads, Served
    <2>. HIDE DEF t
    <2>5. /\ view'.build = view.build /\ view'.grid = view.grid /\ view'.treeGraph = view.treeGraph
          /\ view'.prevStats = view.prevStats /\ view'.skillGroups = view.skillGroups
          /\ view'.configOptions = view.configOptions /\ view'.treeAllocated = view.treeAllocated
          /\ view'.calcExplains = [view.calcExplains EXCEPT ![t.topic] = core.out]
      BY <1>5, <2>3, <2>4 DEF Views
    <2>6. StatsShown /\ TracesShown /\ GemsShown /\ OptionsShown /\ AllocShown
      BY <1>3, <1>7 DEF EditAt, t
    <2>7. BaseShown' /\ StatsShown' /\ GemsShown' /\ OptionsShown' /\ AllocShown'
      BY <1>4, <1>6, <2>3, <2>5, <2>6 DEF BaseShown, StatsShown, GemsShown, OptionsShown, AllocShown
    <2>8. TracesShown'
      <3>1. view.calcExplains \in [StatIds -> {Undefined} \cup Inputs]
        BY <1>5 DEF Views
      <3>. QED BY <1>4, <2>5, <2>6, <3>1 DEF TracesShown
    <2>. QED BY <2>7, <2>8 DEF AllShown
  <1>8. CASE t.kind = "allocate"
    <2>1. Asked(s) = "calc.run"
      BY <1>2, <1>8 DEF At
    <2>2. Recalculated(s)
      BY <2>1 DEF Resume, Resumes, Asked, Loaded, Written, Equipped, Groups, Options, Tree, Explained, Previewed
    <2>3. /\ UNCHANGED buildId
          /\ view' = [view EXCEPT !.treeAllocated = t.first.shows.alloc,
                                  !.build = Shown(t.reply.shows), !.calcExplains = NoTraces]
      BY <1>8, <2>2 DEF Recalculated
    <2>4. t.reply.shows = core.out /\ t.first.shows = core.inp
      BY <1>3, <1>8, <2>1 DEF AnswerAt, Reads, Served, EditAt
    <2>5. view.build \in Screens /\ Undefined \notin Screens /\ core.out \in Inputs
      BY <1>5, <1>6, AppAssumption DEF BaseShown, CoreState, Screens
    <2>. HIDE DEF t
    <2>6. view'.build = [view.build EXCEPT !.stats = core.out]
      BY <1>5, <2>3, <2>4, <2>5 DEF Shown, Views
    <2>7. view'.build \in Screens /\ view'.build.doc = view.build.doc /\ view'.build.stats = core.out
      BY <2>5, <2>6 DEF Screens
    <2>8. /\ view'.grid = view.grid /\ view'.treeGraph = view.treeGraph /\ view'.prevStats = view.prevStats
          /\ view'.skillGroups = view.skillGroups /\ view'.configOptions = view.configOptions
          /\ view'.treeAllocated = core.inp.alloc /\ view'.calcExplains = NoTraces
      BY <1>5, <2>3, <2>4 DEF Views
    <2>9. GemsShown /\ OptionsShown
      BY <1>3, <1>8 DEF EditAt, t
    <2>10. BaseShown' /\ StatsShown' /\ GemsShown' /\ OptionsShown' /\ AllocShown'
      BY <1>4, <1>6, <2>3, <2>7, <2>8, <2>9 DEF BaseShown, StatsShown, GemsShown, OptionsShown, AllocShown
    <2>11. TracesShown'
      BY <2>8 DEF TracesShown, NoTraces
    <2>. QED BY <2>10, <2>11 DEF AllShown
  <1>9. CASE t.kind \in {"config", "toggle"}
    <2>1. Asked(s) = IF t.kind = "config" THEN "config.getOptions" ELSE "skills.getGroups"
      BY <1>2, <1>9 DEF At
    <2>2. IF t.kind = "config" THEN Options(s) ELSE Groups(s)
      BY <1>9, <2>1 DEF Resume, Resumes, Asked, Loaded, Written, Recalculated, Equipped, Groups, Options, Tree,
                        Explained, Previewed
    <2>3. /\ UNCHANGED buildId
          /\ view' = IF t.kind = "config"
                     THEN [view EXCEPT !.configOptions = t.reply.shows.opt, !.calcExplains = Traces(s)]
                     ELSE [view EXCEPT !.skillGroups = t.reply.shows.gems, !.calcExplains = Traces(s)]
      BY <2>2 DEF Options, Groups
    <2>4. t.reply.shows = core.inp /\ Traces(s) = NoTraces
      BY <1>3, <2>1 DEF AnswerAt, Reads, Served, Traces
    <2>5. /\ StatsShown /\ AllocShown
          /\ t.kind = "config" => GemsShown
          /\ t.kind = "toggle" => OptionsShown
      BY <1>3, <1>9 DEF EditAt
    <2>. HIDE DEF t
    <2>6. /\ view'.build = view.build /\ view'.grid = view.grid /\ view'.treeGraph = view.treeGraph
          /\ view'.prevStats = view.prevStats /\ view'.treeAllocated = view.treeAllocated
          /\ view'.calcExplains = NoTraces
          /\ t.kind = "config" =>
               view'.skillGroups = view.skillGroups /\ view'.configOptions = core.inp.opt
          /\ t.kind # "config" =>
               view'.skillGroups = core.inp.gems /\ view'.configOptions = view.configOptions
      BY <1>5, <2>3, <2>4 DEF Views
    <2>7. BaseShown' /\ StatsShown' /\ AllocShown'
      BY <1>4, <1>6, <2>3, <2>5, <2>6 DEF BaseShown, StatsShown, AllocShown
    <2>8. GemsShown' /\ OptionsShown'
      BY <1>4, <1>9, <2>5, <2>6 DEF GemsShown, OptionsShown
    <2>9. TracesShown'
      BY <2>6 DEF TracesShown, NoTraces
    <2>. QED BY <2>7, <2>8, <2>9 DEF AllShown
  <1>. QED BY <1>2, <1>7, <1>8, <1>9 DEF Kinds

LEMMA ResumeLone ==
  ASSUME IInv, NEW s \in Slots, Resume(s)
  PROVE  LoneInv' /\ SettledInv'
  <1>1. task[s].got /\ Continue(s)
    BY DEF Resume, Resumes, Loaded, Written, Recalculated, Equipped, Groups, Options, Tree, Explained, Previewed
  <1>2. /\ task[s].kind \in Kinds \ {"none"} /\ Left(s) \in Nat \ {0} /\ clean \in BOOLEAN
        /\ Asked(s) = At(task[s].kind, Left(s)) /\ Longest(task[s].kind, Left(s))
    BY <1>1, ResumeFacts DEF IInv, TypeInv, ControlTypes, Left, Asked, Script
  <1>3. /\ UNCHANGED core /\ \A x \in Slots \ {s} : task'[x] = task[x]
        /\ Left(s) = 1 =>
             /\ task'[s] = Idle
             /\ clean' = (clean \/ (task[s].kind = "open" /\ task[s].alone))
             /\ before' = IF task[s].kind = "open" THEN Undefined ELSE before
        /\ Left(s) # 1 =>
             /\ UNCHANGED <<clean, before>>
             /\ task'[s].kind = task[s].kind /\ task'[s].alone = task[s].alone /\ ~task'[s].got
    BY <1>1, ContinueFacts
  <1>4. CASE task[s].kind = "hover"
    <2>1. Asked(s) = "tree.previewAllocate" /\ Left(s) = 1
      BY <1>2, <1>4 DEF At, Longest
    <2>2. Previewed(s)
      BY <2>1 DEF Resume, Resumes, Asked, Loaded, Written, Recalculated, Equipped, Groups, Options, Tree, Explained
    <2>3. UNCHANGED buildId /\ SameScreen
      BY <2>2 DEF Previewed, SameScreen, IInv, TypeInv, ScreenTypes, Views
    <2>4. clean' = clean
      BY <1>2, <1>3, <1>4, <2>1, Zenon
    <2>5. UNCHANGED before
      BY <1>3, <1>4, <2>1
    <2>6. Busy' = Busy /\ \A x \in Busy : task'[x] = task[x]
      BY <1>3, <1>4, <2>1, IdleOK DEF Busy
    <2>. QED BY <1>3, <2>3, <2>4, <2>5, <2>6, QuietStep DEF IInv
  <1>5. CASE task[s].kind # "hover"
    <2>1. s \in Busy
      BY <1>2, <1>5 DEF Busy
    <2>2. ~task[s].alone => ~clean'
      <3>1. ~task[s].alone => ~clean
        BY <2>1 DEF IInv, LoneInv
      <3>. QED BY <1>3, <3>1
    <2>3. ASSUME task[s].alone, task'[s] # Idle PROVE LoneAt(s)'
      <3>1. Left(s) # 1 /\ clean' = clean /\ task'[s].kind = task[s].kind
        BY <1>3, <2>3
      <3>2. AnswerAt(s)'
        BY <1>3, <3>1 DEF AnswerAt, Answered
      <3>3. task[s].kind = "open" => OpenAt(s)'
        BY <2>1, <2>3, <3>1, OpenGoesOn
      <3>4. task[s].kind # "open" /\ clean => EditAt(s)'
        BY <2>1, <2>3, <3>1, EditGoesOn
      <3>. QED BY <3>1, <3>2, <3>3, <3>4 DEF LoneAt
    <2>4. ASSUME task[s].alone, task'[s] = Idle, clean' PROVE AllShown'
      <3>1. Left(s) = 1
        BY <1>2, <1>3, <2>4, IdleOK
      <3>2. CASE task[s].kind = "open"
        BY <2>1, <2>4, <3>1, <3>2, OpenEnds
      <3>3. CASE task[s].kind # "open"
        <4>1. clean
          BY <1>3, <2>4, <3>1, <3>3
        <4>. QED BY <2>1, <2>4, <3>1, <3>3, <4>1, EditEnds
      <3>. QED BY <3>2, <3>3
    <2>5. task'[s] = Idle \/ (task'[s].kind = task[s].kind /\ task'[s].alone = task[s].alone)
      BY <1>3
    <2>. QED BY <1>3, <2>1, <2>2, <2>3, <2>4, <2>5, LoneStep DEF IInv
  <1>. QED BY <1>4, <1>5

LEMMA InvAlways == Safety => []IInv
  <1>1. Init => IInv
    BY TypesAtStart, LoneAtStart DEF IInv
  <1>2. ASSUME IInv, [Next]_vars PROVE IInv'
    <2>1. TypeInv'
      BY <1>2, TypesKept DEF IInv
    <2>2. LoneInv' /\ SettledInv'
      <3>1. CASE UNCHANGED vars
        <4>1. SameScreen /\ UNCHANGED <<core, buildId, clean, before, task>>
          BY <3>1 DEF vars, SameScreen
        <4>2. Busy' = Busy
          BY <4>1 DEF Busy
        <4>. QED BY <1>2, <4>1, <4>2, QuietStep DEF IInv
      <3>2. ASSUME NEW s \in Slots, Respond(s) \/ RunnerLost(s) \/ Reject(s) \/ Resume(s)
            PROVE  LoneInv' /\ SettledInv'
        BY <1>2, <3>2, RespondLone, LostLone, RejectLone, ResumeLone
      <3>. QED BY <1>2, <3>1, <3>2, UserLone, HoverLone DEF Next
    <2>. QED BY <2>1, <2>2 DEF IInv
  <1>. QED BY <1>1, <1>2, PTL DEF Safety

(* Once an open has run alone to its end, every panel matches the core whenever *)
(* nothing is in flight, after any number of edits (App.tsx 251-383, 418-441).   *)
THEOREM ScreenMatchesCore == Safety => []SettledViewMatchesCore
  <1>1. IInv => SettledViewMatchesCore
    <2>. SUFFICES ASSUME IInv, Busy = {}, clean
         PROVE  /\ buildId = core.active
                /\ view.build = [doc |-> core.live, stats |-> core.out]
                /\ view.grid = core.live /\ view.treeGraph = core.live
                /\ view.skillGroups = core.inp.gems /\ view.configOptions = core.inp.opt
                /\ view.treeAllocated = core.inp.alloc
                /\ \A x \in StatIds : view.calcExplains[x] \in {Undefined, core.out}
      BY DEF SettledViewMatchesCore
    <2>1. AllShown
      BY DEF IInv, SettledInv
    <2>2. view.build = [doc |-> core.live, stats |-> core.out]
      BY <2>1 DEF AllShown, BaseShown, StatsShown, Screens
    <2>. QED
      BY <2>1, <2>2 DEF AllShown, BaseShown, GemsShown, OptionsShown, AllocShown, TracesShown
  <1>. QED BY <1>1, InvAlways, PTL

(* In the same states the baseline of the before/after delta is the core's stats *)
(* from before the last edit of the build on screen (App.tsx 201-203).           *)
THEOREM BaselineIsRight == Safety => []BaselineIsTheStateBefore
  <1>1. IInv => BaselineIsTheStateBefore
    BY DEF IInv, SettledInv, AllShown, BaseShown, BaselineIsTheStateBefore
  <1>. QED BY <1>1, InvAlways, PTL
-----------------------------------------------------------------------------
(* The service of CoreHost is all the handlers need (CoreService).         *)

(* The outcomes of every method are those of the service's core. *)
LEMMA SameOutcomes ==
  \A c, method, id, arg : Service!Outcomes(c, method, id, arg) = Outcomes(c, method, id, arg)
  BY DEF Service!Outcomes, Outcomes, Service!Outcome, Outcome, Service!Serve, Serve,
         Service!FromFile, FromFile, Service!NoId, NoId, Service!Load, Load,
         Service!Boot, Boot, Service!BootFailure, BootFailure, Service!Refuse, Refuse,
         Service!Refusal, Refusal, Service!Save, Save, Service!WithBuild, WithBuild,
         Service!Resolves, Resolves, Service!CalcRun, CalcRun, Service!Explain, Explain,
         Service!ReadOnly, ReadOnly, Service!ParseClipboard, ParseClipboard,
         Service!GetEquipped, GetEquipped, Service!Compare, Compare,
         Service!GetGroups, GetGroups, Service!GetOptions, GetOptions,
         Service!GetTree, GetTree, Service!PreviewAllocate, PreviewAllocate,
         Service!SetGemGroup, SetGemGroup, Service!SetOption, SetOption,
         Service!ApplyAllocate, ApplyAllocate, Service!Frame, Frame

(* So are its fresh core and what it says before and instead of an answer. *)
LEMMA SameConstants ==
  /\ Service!FreshCore = FreshCore /\ Service!NoAnswer = NoReply
  /\ Service!Unasked = Unasked /\ \A k : Service!Refusal(k) = Refusal(k)
  BY DEF FreshCore, Service!FreshCore, FromFile, Service!FromFile, NoId, Service!NoId,
         Service!NoAnswer, NoReply, Refusal, Service!Refusal, Unasked, Service!Unasked

(* A failure is known by its code. *)
LEMMA FailuresAreRefusals ==
  ASSUME NEW c, NEW method, NEW id, NEW arg, NEW o \in Outcomes(c, method, id, arg),
         o.reply.code # "OK"
  PROVE  o.reply = Refusal(o.reply.code)
  <1>. DEFINE Known(x) == x.reply.code # "OK" => x.reply = Refusal(x.reply.code)
  <1>1. /\ \A x, k : Known(Outcome(x, Refusal(k)))
        /\ \A x, y, shows : Known(Outcome(x, Serve(y, shows)))
        /\ \A x : x.reply.code = "OK" => Known(x)
    BY DEF Outcome, Refusal, Serve
  <1>2. \A x, codes : \A y \in Refuse(x, codes) : Known(y)
    BY <1>1 DEF Refuse
  <1>. HIDE DEF Known
  <1>3. \A x : \A y \in Frame(x) : Known(y)
    BY <1>1 DEF Frame
  <1>4. \A y \in Load(c, arg) : Known(y)
    <2>. SUFFICES ASSUME NEW y \in Load(c, arg) PROVE Known(y)
      OBVIOUS
    <2>1. \/ \E x, codes : y \in Refuse(x, codes)
          \/ \E x, d, n : y = Outcome(x, [Serve(d, FromFile) EXCEPT !.id = n])
      BY Zenon DEF Load, BootFailure
    <2>2. ASSUME NEW x, NEW d, NEW n, y = Outcome(x, [Serve(d, FromFile) EXCEPT !.id = n])
          PROVE  Known(y)
      <3>1. y.reply.code = "OK"
        BY <2>2 DEF Outcome, Serve
      <3>. QED BY <1>1, <3>1
    <2>. QED BY <1>2, <2>1, <2>2
  <1>5. \A shows, codes : \A y \in ReadOnly(c, id, shows, codes) : Known(y)
    BY <1>1, <1>2 DEF ReadOnly, WithBuild
  <1>6. \A y \in Save(c, id) \cup CalcRun(c, id) \cup ParseClipboard(c) : Known(y)
    BY <1>1, <1>2 DEF Save, CalcRun, ParseClipboard, WithBuild, BootFailure
  <1>7. \A y \in SetGemGroup(c, id, arg) \cup SetOption(c, id, arg)
                   \cup ApplyAllocate(c, id, arg) : Known(y)
    BY <1>1, <1>2, <1>3 DEF SetGemGroup, SetOption, ApplyAllocate, WithBuild
  <1>8. \A y \in Explain(c, id) \cup GetEquipped(c, id) \cup Compare(c, id) \cup GetGroups(c, id)
                   \cup GetOptions(c, id) \cup GetTree(c, id) \cup PreviewAllocate(c, id) : Known(y)
    BY <1>5 DEF Explain, GetEquipped, Compare, GetGroups, GetOptions, GetTree, PreviewAllocate
  <1>9. Known(o)
    BY <1>1, <1>2, <1>4, <1>6, <1>7, <1>8 DEF Outcomes
  <1>. QED BY <1>9 DEF Known

(* The service's view of the handlers. *)
AskedOf == [s \in Slots |-> Wire(task[s])]
GivenTo == [s \in Slots |-> Settled(task[s])]

(* A slot that asks nothing, and a handler that has been answered. *)
LEMMA WireFacts ==
  /\ Wire(Idle) = Unasked /\ Settled(Idle) = NoReply
  /\ \A t : t.got => Wire(t) = Unasked
  /\ \A t : ~t.got => Settled(t) = NoReply
  BY DEF Wire, Settled, Idle

(* A handler that waits asks for one of the core's methods. *)
LEMMA WaitingAsks ==
  ASSUME NEW t, TaskOK(t), t.kind # "none", ~t.got
  PROVE  LET req == Head(t.todo)
         IN  /\ Wire(t) = [method |-> req.method, id |-> t.id, arg |-> req.arg]
             /\ req.method \in Service!CoreMethods /\ Wire(t) # Unasked
  <1>. DEFINE todo == t.todo
              req == Head(todo)
  <1>1. todo \in Seq(Requests) /\ Len(todo) >= 1
    BY DEF TaskOK, Tasks, Script
  <1>2. Wire(t) = [method |-> req.method, id |-> t.id, arg |-> req.arg]
    BY DEF Wire
  <1>. HIDE DEF todo
  <1>3. req \in Requests
    BY <1>1
  <1>. HIDE DEF req
  <1>4. req.method \in Service!CoreMethods /\ req.method # "none"
    BY <1>3 DEF Requests, Reads, Service!CoreMethods
  <1>5. Wire(t) # Unasked
    BY <1>2, <1>4 DEF Unasked
  <1>. QED BY <1>2, <1>4, <1>5 DEF req, todo

(* A step about one slot: no other handler asks or hears anything by it. *)
OnlyFor(s) ==
  /\ AskedOf' = [AskedOf EXCEPT ![s] = Wire(task'[s])]
  /\ GivenTo' = [GivenTo EXCEPT ![s] = Settled(task'[s])]

LEMMA OneSlot ==
  ASSUME NEW s \in Slots,
         \A x \in Slots \ {s} : \/ task'[x] = task[x]
                                \/ task'[x] = [task[x] EXCEPT !.alone = FALSE]
                                   /\ task[x] \in Tasks
  PROVE  OnlyFor(s)
  <1>1. ASSUME NEW x \in Slots \ {s}
        PROVE  Wire(task'[x]) = Wire(task[x]) /\ Settled(task'[x]) = Settled(task[x])
    <2>1. CASE task'[x] = [task[x] EXCEPT !.alone = FALSE] /\ task[x] \in Tasks
      <3>1. /\ task'[x].kind = task[x].kind /\ task'[x].todo = task[x].todo
            /\ task'[x].id = task[x].id /\ task'[x].got = task[x].got
            /\ task'[x].reply = task[x].reply
        BY <2>1 DEF Tasks
      <3>. QED BY <3>1 DEF Wire, Settled
    <2>. QED BY <2>1
  <1>. QED BY <1>1 DEF OnlyFor, AskedOf, GivenTo

(* A handler that starts, or goes on, asks. *)
LEMMA Asking ==
  ASSUME TypeInv', NEW s \in Slots, OnlyFor(s), UNCHANGED core, Wire(task[s]) = Unasked,
         task'[s].kind # "none", ~task'[s].got
  PROVE  Service!Ask(s)
  <1>1. TaskOK(task'[s])
    BY DEF TypeInv, ControlTypes, TaskOK
  <1>2. Wire(task'[s]) # Unasked
    BY <1>1, WaitingAsks
  <1>3. AskedOf[s] = Unasked /\ AskedOf'[s] = Wire(task'[s])
    BY DEF AskedOf
  <1>4. Settled(task'[s]) = NoReply
    BY WireFacts
  <1>. QED BY <1>2, <1>3, <1>4, SameConstants DEF Service!Ask, OnlyFor, AskedOf, GivenTo

(* One that ends forgets what it was told. *)
LEMMA Ending ==
  ASSUME NEW s \in Slots, OnlyFor(s), UNCHANGED core, Wire(task[s]) = Unasked, task'[s] = Idle
  PROVE  Service!Forget(s)
  <1>1. AskedOf[s] = Unasked /\ AskedOf' = AskedOf
    BY WireFacts DEF OnlyFor, AskedOf
  <1>. QED BY <1>1, WireFacts, SameConstants DEF Service!Forget, OnlyFor, AskedOf, GivenTo

(* The first request of a handler. *)
LEMMA BeginAsks ==
  ASSUME TypeInv, TypeInv', NEW s \in Slots, NEW kind \in Kinds \ {"none"}, NEW script, NEW topic,
         Begin(s, kind, script, topic)
  PROVE  Service!Ask(s) \/ UNCHANGED <<core, task>>
  <1>1. task[s] = Idle
    BY Zenon DEF Begin
  <1>2. \/ UNCHANGED <<core, task>>
        \/ /\ UNCHANGED core /\ task'[s].kind = kind /\ ~task'[s].got
           /\ \A x \in Slots \ {s} :
                 task'[x] = IF x \in Busy /\ kind # "hover"
                            THEN [task[x] EXCEPT !.alone = FALSE] ELSE task[x]
    BY BeginFacts
  <1>3. CASE /\ UNCHANGED core /\ task'[s].kind = kind /\ ~task'[s].got
             /\ \A x \in Slots \ {s} :
                   task'[x] = IF x \in Busy /\ kind # "hover"
                              THEN [task[x] EXCEPT !.alone = FALSE] ELSE task[x]
    <2>1. OnlyFor(s)
      BY <1>3, OneSlot DEF TypeInv, ControlTypes
    <2>. QED BY <1>1, <1>3, <2>1, Asking, WireFacts
  <1>. QED BY <1>2, <1>3

(* An answer that leaves the runner is one service of the core. *)
LEMMA RespondServes ==
  ASSUME TypeInv, NEW s \in Slots, Respond(s)
  PROVE  Service!ServeOne(s)
  <1>. DEFINE t == task[s]
              req == Head(t.todo)
  <1>1. /\ t.kind # "none" /\ ~t.got /\ t \in Tasks
        /\ Wire(t) = [method |-> req.method, id |-> t.id, arg |-> req.arg]
        /\ req.method \in Service!CoreMethods /\ Wire(t) # Unasked
    BY WaitingAsks DEF Respond, Waiting, TypeInv, ControlTypes
  <1>2. PICK o \in Outcomes(core, req.method, t.id, req.arg) :
          /\ ~Fatal(o.reply.code) /\ core' = o.core
          /\ task' = [task EXCEPT ![s].got = TRUE, ![s].reply = o.reply]
    BY Zenon DEF Respond
  <1>3. task'[s] = [t EXCEPT !.got = TRUE, !.reply = o.reply]
        /\ \A x \in Slots \ {s} : task'[x] = task[x]
    BY <1>2 DEF TypeInv, ControlTypes
  <1>4. task'[s].got /\ task'[s].reply = o.reply
    BY <1>1, <1>3 DEF Tasks
  <1>5. OnlyFor(s)
    BY <1>3, OneSlot
  <1>6. o.reply.code # "OK" => o.reply = Refusal(o.reply.code)
    BY <1>2, FailuresAreRefusals
  <1>7. Settled(task'[s]) = Service!Told(o.reply)
    BY <1>4, <1>6, SameConstants DEF Settled, Service!Told
  <1>8. Service!Answer(s, Service!Told(o.reply))
    BY <1>1, <1>4, <1>5, <1>7, WireFacts, SameConstants DEF Service!Answer, OnlyFor, AskedOf, GivenTo
  <1>9. o.reply.code \notin Service!Costly
    BY <1>2 DEF Fatal, Service!Costly
  <1>10. /\ AskedOf[s] = [method |-> req.method, id |-> t.id, arg |-> req.arg]
         /\ o \in Service!Outcomes(core, AskedOf[s].method, AskedOf[s].id, AskedOf[s].arg)
    BY <1>1, <1>2, SameOutcomes DEF AskedOf
  <1>. QED BY <1>1, <1>2, <1>8, <1>9, <1>10 DEF Service!ServeOne, AskedOf

(* An answer that costs the runner is the loss of the core. *)
LEMMA LostLoses ==
  ASSUME TypeInv, NEW s \in Slots, RunnerLost(s)
  PROVE  Service!Lose(s)
  <1>1. /\ task[s].kind # "none" /\ ~task[s].got /\ TaskOK(task[s]) /\ task[s] \in Tasks
        /\ Wire(task[s]) # Unasked /\ core' = FreshCore
    BY WaitingAsks, Zenon DEF RunnerLost, Waiting, TypeInv, ControlTypes
  <1>. DEFINE lost(t) == [t EXCEPT !.got = TRUE, !.alone = FALSE,
                                   !.reply = Refusal("CORE_INIT_FAILED")]
              disturbed(t) == IF t = Idle THEN Idle ELSE [t EXCEPT !.alone = FALSE]
  <1>2. task'[s] = lost(task[s]) /\ \A x \in Slots \ {s} : task'[x] = disturbed(task[x])
    <2>1. task' = [t \in Slots |-> IF t = s THEN lost(task[t]) ELSE disturbed(task[t])]
      BY Zenon DEF RunnerLost
    <2>. HIDE DEF lost, disturbed
    <2>. QED BY <2>1
  <1>3. OnlyFor(s)
    BY <1>2, OneSlot DEF TypeInv, ControlTypes
  <1>4. task'[s].got /\ task'[s].reply = Refusal("CORE_INIT_FAILED")
    BY <1>1, <1>2 DEF Tasks
  <1>5. Settled(task'[s]) = Refusal("CORE_INIT_FAILED")
    BY <1>4 DEF Settled, Refusal
  <1>6. Service!Answer(s, Service!Refusal("CORE_INIT_FAILED"))
    BY <1>1, <1>3, <1>4, <1>5, WireFacts, SameConstants
       DEF Service!Answer, OnlyFor, AskedOf, GivenTo
  <1>. QED BY <1>1, <1>6, SameConstants DEF Service!Lose, Service!Costly

(* A continuation asks the next request, or is the last. *)
LEMMA ResumeAsks ==
  ASSUME TypeInv, TypeInv', NEW s \in Slots, Resume(s)
  PROVE  Service!Ask(s) \/ Service!Forget(s)
  <1>. DEFINE t == task[s]
  <1>1. t.got /\ Continue(s)
    BY DEF Resume, Resumes, Loaded, Written, Recalculated, Equipped, Groups, Options, Tree,
           Explained, Previewed
  <1>2. t.kind # "none" /\ t \in Tasks /\ Wire(t) = Unasked /\ UNCHANGED core
    BY <1>1, ResumeFacts, WireFacts DEF Continue
  <1>3. CASE Len(t.todo) = 1
    <2>1. task' = [task EXCEPT ![s] = Idle]
      BY <1>1, <1>3, Zenon DEF Continue
    <2>2. task'[s] = Idle /\ OnlyFor(s)
      BY <2>1, OneSlot DEF TypeInv, ControlTypes
    <2>. QED BY <1>2, <2>2, Ending
  <1>4. CASE Len(t.todo) # 1
    <2>1. task' = [task EXCEPT ![s] =
                     [t EXCEPT !.todo = Tail(@), !.got = FALSE, !.id = buildId',
                               !.first = IF @ = NoReply THEN t.reply ELSE @]]
      BY <1>1, <1>4, Zenon DEF Continue
    <2>2. task'[s].kind = t.kind /\ ~task'[s].got /\ OnlyFor(s)
      BY <1>2, <2>1, OneSlot DEF TypeInv, ControlTypes, Tasks
    <2>. QED BY <1>2, <2>2, Asking
  <1>. QED BY <1>3, <1>4

(* The handlers need no more of the core than CoreHost is proved to give:  *)
(* a request served in one step, or its loss told to the one it befell.    *)
THEOREM RunsOnTheService == Safety => UsesTheService
  <1>1. Init => Service!Init
    <2>. SUFFICES ASSUME Init PROVE Service!Init
      OBVIOUS
    <2>1. /\ AskedOf = [s \in Slots |-> Unasked] /\ GivenTo = [s \in Slots |-> NoReply]
          /\ core = FreshCore
      BY WireFacts DEF Init, AskedOf, GivenTo
    <2>. QED BY <2>1, SameConstants DEF Service!Init, AskedOf, GivenTo
  <1>2. ASSUME TypeInv, TypeInv', [Next]_vars
        PROVE  [Service!Next]_<<AskedOf, core, GivenTo>>
    <2>1. ASSUME UNCHANGED <<core, task>>
          PROVE  UNCHANGED <<AskedOf, core, GivenTo>>
      BY <2>1 DEF AskedOf, GivenTo
    <2>2. ASSUME NEW s \in Slots, NEW kind \in Kinds \ {"none"}, NEW script, NEW topic,
                 Begin(s, kind, script, topic)
          PROVE  Service!Next \/ UNCHANGED <<core, task>>
      BY <1>2, <2>2, BeginAsks DEF Service!Next
    <2>3. CASE User
      <3>1. PICK s \in Slots, kind \in Kinds \ {"none"} :
              \E script, topic : Begin(s, kind, script, topic)
        BY <2>3 DEF User, Open, ApplyConfig, ToggleGem, AllocateTreeNode, ExplainStat, BeginEdit,
                    Kinds
      <3>. QED BY <2>1, <2>2, <3>1
    <2>4. CASE Hovering
      <3>1. CASE LeaveNodes \/ \E n \in Nodes : HoverNode(n)
        <4>1. UNCHANGED <<core, buildId, task, started, clean, before>>
          BY <3>1, Zenon DEF LeaveNodes, HoverNode
        <4>. QED BY <2>1, <4>1
      <3>2. ASSUME NEW s \in Slots, HoverTimerFires(s)
            PROVE  [Service!Next]_<<AskedOf, core, GivenTo>>
        BY <2>1, <2>2, <3>2 DEF HoverTimerFires, Kinds
      <3>. QED BY <2>4, <3>1, <3>2 DEF Hovering
    <2>5. ASSUME NEW s \in Slots, Respond(s) \/ RunnerLost(s) \/ Reject(s) \/ Resume(s)
          PROVE  Service!Next
      <3>1. CASE Reject(s)
        <4>1. task' = [task EXCEPT ![s] = Idle] /\ UNCHANGED core /\ Wire(task[s]) = Unasked
          BY <3>1, WireFacts DEF Reject
        <4>2. task'[s] = Idle /\ OnlyFor(s)
          BY <1>2, <4>1, OneSlot DEF TypeInv, ControlTypes
        <4>. QED BY <4>1, <4>2, Ending DEF Service!Next
      <3>. QED BY <1>2, <2>5, <3>1, RespondServes, LostLoses, ResumeAsks DEF Service!Next
    <2>6. CASE UNCHANGED vars
      BY <2>1, <2>6 DEF vars
    <2>7. User \/ Hovering \/ (\E s \in Slots : Respond(s) \/ RunnerLost(s) \/ Reject(s) \/ Resume(s))
            \/ UNCHANGED vars
      BY <1>2 DEF Next
    <2>. QED BY <2>3, <2>4, <2>5, <2>6, <2>7, Zenon
  <1>. QED BY <1>1, <1>2, TypesAlways, PTL DEF Safety, UsesTheService, Service!Spec, AskedOf, GivenTo
=============================================================================

------------------------------ MODULE CoreApi ------------------------------
(***************************************************************************)
(* The Lua side of one runner process: overlays/lua/modern_api.lua behind  *)
(* overlays/lua/runner.lua's dispatch.  The vendored calculation core is a *)
(* process-global singleton holding ONE live build; modern_api gives that  *)
(* build an id and refuses every other id.                                 *)
(*                                                                         *)
(* The process answers one request line at a time, so each handler is an   *)
(* operator: Outcomes(c, req) is the set of pairs (state after, reply)     *)
(* that handling req in state c can produce.  What the vendored core       *)
(* decides (does this document parse, does this calculation raise) is      *)
(* external and is a choice between outcomes.                              *)
(*                                                                         *)
(* Data is abstracted to what the properties tell apart: a document is a   *)
(* model value, and the editable inputs of a build are its gem list, one   *)
(* configuration value and the set of passive nodes allocated since load.  *)
(***************************************************************************)
EXTENDS Naturals

CONSTANTS
  Docs,        \* documents that LoadDB and the first frame accept
  BadXml,      \* a non-empty string that LoadDB rejects
  NoXml,       \* an empty or non-string xml argument
  HugeXml,     \* a document whose request frame exceeds MAX_FRAME_BYTES
  Default,     \* the build the core hosts after boot, before any load
  HalfBuilt,   \* the un-saveable build a rejected load leaves behind
  NoDoc,       \* no build global: the core has not booted
  GemLists,    \* gem lists skills.setGemGroup may install
  Values,      \* values config.setOption may write
  Nodes,       \* passive nodes tree.applyAllocate may allocate
  AsLoaded     \* the gem list / option value the document itself carries

ASSUME DocAssumption ==
  /\ BadXml \notin Docs /\ NoXml \notin Docs /\ HugeXml \notin Docs
  /\ Default \notin Docs /\ HalfBuilt \notin Docs /\ NoDoc \notin Docs
  /\ NoXml # BadXml /\ HugeXml # NoXml
  /\ HalfBuilt # Default /\ HalfBuilt # NoDoc

ASSUME InputAssumption == AsLoaded \notin GemLists /\ AsLoaded \notin Values

(***************************************************************************)
(* State of the process.  Ids are numbers: n stands for "build-n", and     *)
(* NoId for activeBuildId = nil and for an id argument that is not a       *)
(* non-empty string.                                                       *)
(***************************************************************************)
NoId == 0

Builds == Docs \cup {Default, HalfBuilt, NoDoc}

Inputs == [gems  : GemLists \cup {AsLoaded},
           opt   : Values \cup {AsLoaded},
           alloc : SUBSET Nodes]

FromFile == [gems |-> AsLoaded, opt |-> AsLoaded, alloc |-> {}]

CoreState == [booted  : BOOLEAN,
              counter : Nat,      \* buildCounter
              active  : Nat,      \* activeBuildId
              live    : Builds,   \* which document the build global came from
              inp     : Inputs,   \* the live build's inputs
              out     : Inputs]   \* the inputs calcsTab.mainOutput was computed from

FreshCore == [booted |-> FALSE, counter |-> 0, active |-> NoId,
              live |-> NoDoc, inp |-> FromFile, out |-> FromFile]

CoreMethods ==
  {"core.version", "build.load", "build.save", "calc.run", "calc.explain",
   "items.parseClipboard", "items.getEquipped", "items.compare",
   "skills.getGroups", "skills.setGemGroup", "config.getOptions", "config.setOption",
   "tree.getData", "tree.previewAllocate", "tree.applyAllocate"}

(***************************************************************************)
(* Replies.  code is "OK", a CoreError code carried in error.data.code,    *)
(* "RAISED" for a handler that crashed (-32000 without data.code) or       *)
(* "METHOD_NOT_FOUND" (-32601).  id is the build id a load returns; doc    *)
(* and shows are what the reply serves: the live build it was read from    *)
(* and the inputs it reflects.                                             *)
(***************************************************************************)
CoreErrorCodes == {"CORE_INIT_FAILED", "BUILD_PARSE_FAILED", "UNKNOWN_MOD",
                   "CALC_FAILED", "LOCALIZATION_MISSING", "UPSTREAM_INCOMPATIBLE"}

Codes == CoreErrorCodes \cup {"OK", "RAISED", "METHOD_NOT_FOUND"}

Reply == [code : Codes, id : Nat, doc : Builds, shows : Inputs]

Refusal(code) == [code |-> code, id |-> NoId, doc |-> NoDoc, shows |-> FromFile]

Serve(c, shows) == [code |-> "OK", id |-> NoId, doc |-> c.live, shows |-> shows]

Outcome(c, r) == [core |-> c, reply |-> r]

Refuse(c, codes) == {Outcome(c, Refusal(k)) : k \in codes}

(* bootstrap.boot(): a no-op once it succeeded; the boot creates the build *)
(* global.  A failed boot caches nothing, so the next call boots again.    *)
Boot(c) == IF c.booted THEN c ELSE [c EXCEPT !.booted = TRUE, !.live = Default]

BootFailure(c) == IF c.booted THEN {} ELSE Refuse(c, {"CORE_INIT_FAILED"})

(* nextBuildId runs before the load is attempted; activeBuildId is written *)
(* only when it succeeded.  The core replaces its singleton either way.    *)
Load(c, xml) ==
  LET b  == Boot(c)
      id == b.counter + 1
  IN  IF xml = NoXml THEN Refuse(c, {"BUILD_PARSE_FAILED"})
      ELSE BootFailure(c) \cup
           IF xml \in Docs
           THEN LET loaded == [b EXCEPT !.counter = id, !.active = id, !.live = xml,
                                        !.inp = FromFile, !.out = FromFile]
                IN  {Outcome(loaded, [Serve(loaded, FromFile) EXCEPT !.id = id])}
           ELSE Refuse([b EXCEPT !.counter = id, !.live = HalfBuilt,
                                 !.inp = FromFile, !.out = FromFile],
                       {"BUILD_PARSE_FAILED"})

(* Mutant of Resolves: any id is taken for the loaded build. *)
ResolvesAnyId(c, id) == id # NoId

(* resolveBuild: the one id accepted is activeBuildId. *)
Resolves(c, id) == id # NoId /\ id = c.active

WithBuild(c, id, outcomes) ==
  IF ~Resolves(c, id) THEN Refuse(c, {"BUILD_PARSE_FAILED"})
  ELSE IF c.live = NoDoc THEN Refuse(c, {"CORE_INIT_FAILED"}) ELSE outcomes

(* build:SaveDB may raise or return nothing; a half-built build cannot be  *)
(* saved at all (its savers were never wired).                             *)
Save(c, id) ==
  WithBuild(c, id,
    Refuse(c, {"BUILD_PARSE_FAILED"}) \cup
    (IF c.live = HalfBuilt THEN {} ELSE {Outcome(c, Serve(c, c.inp))}))

(* calc.run recomputes nothing: it reads the mainOutput there is. *)
CalcRun(c, id) ==
  WithBuild(c, id, Refuse(c, {"CALC_FAILED"}) \cup {Outcome(c, Serve(c, c.out))})

(* A lookup of the live build: it reflects the inputs in shows, fails with *)
(* one of the codes or raises in a serializer.                             *)
ReadOnly(c, id, shows, codes) ==
  WithBuild(c, id, Refuse(c, codes \cup {"RAISED"}) \cup {Outcome(c, Serve(c, shows))})

(* The breakdowns are those of the last frame, like mainOutput. *)
Explain(c, id) == ReadOnly(c, id, c.out, {"CALC_FAILED"})

GetEquipped(c, id) == ReadOnly(c, id, c.inp, {"BUILD_PARSE_FAILED"})

(* Compare and preview calculate beside the build, which stays as it is. *)
Compare(c, id) == ReadOnly(c, id, c.inp, {"BUILD_PARSE_FAILED", "CALC_FAILED"})

PreviewAllocate(c, id) ==
  ReadOnly(c, id, c.inp, {"BUILD_PARSE_FAILED", "CALC_FAILED", "UPSTREAM_INCOMPATIBLE"})

GetGroups(c, id) == ReadOnly(c, id, c.inp, {"BUILD_PARSE_FAILED", "CALC_FAILED"})

GetOptions(c, id) == ReadOnly(c, id, c.inp, {"BUILD_PARSE_FAILED", "CORE_INIT_FAILED"})

GetTree(c, id) == ReadOnly(c, id, c.inp, {"UPSTREAM_INCOMPATIBLE"})

(* parseClipboard touches no build, but it boots the core, unless it finds *)
(* the text empty.                                                         *)
ParseClipboard(c) ==
  BootFailure(c) \cup Refuse(c, {"UNKNOWN_MOD"}) \cup Refuse(Boot(c), {"UNKNOWN_MOD"})
                 \cup {Outcome(Boot(c), Serve(Boot(c), FromFile))}

(***************************************************************************)
(* The mutators write the input first and recalculate after.  Frame is the *)
(* wired OnFrame callback: it recomputes mainOutput, or raises into the    *)
(* mutator's pcall, or records the error in launch.promptMsg, which only   *)
(* build.load looks at.  In the last two cases the input stays written and *)
(* mainOutput stays what it was.                                           *)
(***************************************************************************)
Frame(c) == { Outcome([c EXCEPT !.out = c.inp], Serve(c, c.inp)),
              Outcome(c, Refusal("CALC_FAILED")),
              Outcome(c, Serve(c, c.inp)) }

SetGemGroup(c, id, gems) ==
  WithBuild(c, id,
    Refuse(c, {"BUILD_PARSE_FAILED"}) \cup Frame([c EXCEPT !.inp.gems = gems]))

SetOption(c, id, value) ==
  WithBuild(c, id,
    Refuse(c, {"BUILD_PARSE_FAILED", "CORE_INIT_FAILED"})
      \cup Frame([c EXCEPT !.inp.opt = value]))

(* Mutant of ApplyAllocate: the requested nodes replace the allocated ones. *)
ApplyReplacing(c, id, nodes) ==
  WithBuild(c, id,
    Refuse(c, {"BUILD_PARSE_FAILED", "UPSTREAM_INCOMPATIBLE"})
      \cup Frame([c EXCEPT !.inp.alloc = nodes]))

(* AllocNode runs once per requested node; a raise between two of them     *)
(* leaves the earlier ones allocated.                                      *)
ApplyAllocate(c, id, nodes) ==
  WithBuild(c, id,
    Refuse(c, {"BUILD_PARSE_FAILED", "UPSTREAM_INCOMPATIBLE"})
      \cup Frame([c EXCEPT !.inp.alloc = @ \cup nodes])
      \cup { Outcome([c EXCEPT !.inp.alloc = @ \cup part], Refusal("CALC_FAILED")) :
               part \in SUBSET nodes })

(* runner.lua M.dispatch: route by method; a handler that raises becomes a *)
(* -32000 error without a CoreError code.                                  *)
Outcomes(c, method, id, arg) ==
  CASE method = "core.version"         -> {Outcome(c, Serve(c, FromFile))}
    [] method = "build.load"           -> Load(c, arg)
    [] method = "build.save"           -> Save(c, id)
    [] method = "calc.run"             -> CalcRun(c, id)
    [] method = "calc.explain"         -> Explain(c, id)
    [] method = "items.parseClipboard" -> ParseClipboard(c)
    [] method = "items.getEquipped"    -> GetEquipped(c, id)
    [] method = "items.compare"        -> Compare(c, id)
    [] method = "skills.getGroups"     -> GetGroups(c, id)
    [] method = "skills.setGemGroup"   -> SetGemGroup(c, id, arg)
    [] method = "config.getOptions"    -> GetOptions(c, id)
    [] method = "config.setOption"     -> SetOption(c, id, arg)
    [] method = "tree.getData"         -> GetTree(c, id)
    [] method = "tree.previewAllocate" -> PreviewAllocate(c, id)
    [] method = "tree.applyAllocate"   -> ApplyAllocate(c, id, arg)
    [] OTHER                           -> Refuse(c, {"METHOD_NOT_FOUND"})
=============================================================================

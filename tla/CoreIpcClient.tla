--------------------------- MODULE CoreIpcClient ---------------------------
(***************************************************************************)
(* The desktop client: what createIpcCoreClient sends through core_request *)
(* and what it makes of the answer.  A translation of core-ipc-client.ts,  *)
(* kept apart from CoreClient as the two files are.                        *)
(***************************************************************************)
EXTENDS CoreShapes

CORE_ERROR_CODES == {"CORE_INIT_FAILED", "BUILD_PARSE_FAILED", "UNKNOWN_MOD", "CALC_FAILED",
                     "LOCALIZATION_MISSING", "UPSTREAM_INCOMPATIBLE"}

(* The host's reading of a JSON-RPC error frame. *)
rpc_error_to_core(error) ==
  CASE error.data \in CORE_ERROR_CODES -> error.data
    [] error.data \notin CORE_ERROR_CODES /\ error.code = -32000 -> "CALC_FAILED"
    [] OTHER -> "UPSTREAM_INCOMPATIBLE"

Empty == Array(<<>>)

(* The parameters of an invocation: the optional locale is sent, even undefined. *)
Sent(m, a) ==
  IF m = "calc.explain" /\ ~Truthy(Field(a, "activeSkillId")) THEN Without(a, "activeSkillId")
  ELSE IF m = "items.parseClipboard"
         THEN Object([text |-> Field(a, "text"), localeHint |-> Field(a, "localeHint")])
         ELSE a

toSkillGemRef(gem) ==
  LET Scalar(n, kind, default) == IF Field(gem, n).is = kind THEN Field(gem, n) ELSE default
  IN Object([gemId |-> Scalar("gemId", "string", String("")),
             name |-> Scalar("nameSpec", "string", String("")),
             level |-> Scalar("level", "number", Number(0)),
             quality |-> Scalar("quality", "number", Number(0)),
             enabled |-> IsTrue(Field(gem, "enabled"))])

(* Bug: the two gem lists filled the wrong way round. *)
toSkillGroupCardSwapped(group) ==
  LET gems == Or(Field(group, "gems"), Empty).items
      Refs(kept) == MapItems(toSkillGemRef, Array(kept))
      IsSupport(g) == Field(g, "isSupport") = Boolean(TRUE)
      IsActive(g) == ~IsSupport(g)
  IN Object([groupId |-> StringOr(Field(group, "groupId"), String("")),
             label |-> StringOr(Field(group, "label"), String("")),
             enabled |-> IsTrue(Field(group, "enabled")),
             spirit |-> NumberOr(Field(Field(group, "spirit"), "reserved"), Number(0)),
             reservation |-> NumberOr(Field(Field(Field(group, "reservation"), "mana"), "reserved"), Number(0)),
             gems |-> Refs(gems),
             activeGems |-> Refs(Filter(gems, IsSupport)),
             supportGems |-> Refs(Filter(gems, IsActive))])

toSkillGroupCard(group) ==
  LET gems == Or(Field(group, "gems"), Empty).items
      Refs(kept) == MapItems(toSkillGemRef, Array(kept))
      IsSupport(g) == Field(g, "isSupport") = Boolean(TRUE)
      IsActive(g) == ~IsSupport(g)
  IN Object([groupId |-> StringOr(Field(group, "groupId"), String("")),
             label |-> StringOr(Field(group, "label"), String("")),
             enabled |-> IsTrue(Field(group, "enabled")),
             spirit |-> NumberOr(Field(Field(group, "spirit"), "reserved"), Number(0)),
             reservation |-> NumberOr(Field(Field(Field(group, "reservation"), "mana"), "reserved"), Number(0)),
             gems |-> Refs(gems),
             activeGems |-> Refs(Filter(gems, IsActive)),
             supportGems |-> Refs(Filter(gems, IsSupport))])

toConfigOptionCard(option) ==
  LET Ids(field) == IF Field(option, field).is = "array" THEN Strings(Field(option, field)) ELSE <<>>
  IN Object([optionId |-> StringOr(Field(option, "optionId"), String("")),
             type |-> StringOr(Field(option, "type"), String("")),
             label |-> StringOr(Field(option, "label"), String("")),
             value |-> Field(option, "value"),
             dependentModifiers |-> Array(Ids("ifSkillData") \o Ids("ifEnemyCond")
                                          \o Ids("ifCond") \o Ids("ifOption"))])

EXPLAIN_SOURCE_KINDS == {"item", "passive", "skillGem", "supportGem", "config", "buff"}

toExplainSource(src) ==
  LET named == {n \in {"sourceName", "name"} : Field(src, n).is = "string" /\ Truthy(Field(src, n))}
  IN Object([kind |-> IF OneOf(Field(src, "kind"), EXPLAIN_SOURCE_KINDS)
                        THEN Field(src, "kind") ELSE String("buff"),
             label |-> CASE "sourceName" \in named -> Field(src, "sourceName")
                         [] named = {"name"} -> Field(src, "name")
                         [] OTHER -> StringOr(Field(src, "source"), String("")),
             value |-> NumberOr(Field(src, "value"), Number(0))])

assembleExplain(r, requestedStatId) ==
  LET StatIdOr(n) == StringOr(Field(r, n), requestedStatId)
  IN Object([statId |-> StatIdOr("statId"),
             finalValue |-> NumberOr(Field(r, "finalValue"), Number(0)),
             label |-> StatIdOr("label"),
             sources |-> MapItems(toExplainSource, Or(Field(r, "sources"), Empty)),
             formula |-> String(IF Field(r, "trace").is = "array" THEN Strings(Field(r, "trace")) ELSE <<>>),
             upstreamStatId |-> StatIdOr("upstreamRawStatId")])

getTreeData(r) ==
  LET constants == Object([classes |-> Object(<<>>), orbitAnglesByOrbit |-> Empty,
                           orbitRadii |-> Empty, skillsPerOrbit |-> Empty])
  IN Object([treeVersion |-> StringOr(Field(r, "treeVersion"), String("")),
             nodes |-> Or(Field(r, "nodes"), Empty),
             groups |-> Or(Field(r, "groups"), Empty),
             constants |-> Or(Field(r, "constants"), constants),
             allocatedNodeIds |-> Or(Field(r, "allocatedNodeIds"), Empty)])

(* A result that must carry a string under a name, or the call is refused. *)
Requiring(r, name, code, v) == IF Field(r, name).is = "string" THEN Resolved(v) ELSE Rejected(code)

(* load, loadShareCode, calcRun, save. *)
BuildResult(m, a, r) ==
  CASE m = "build.load" ->
         Requiring(r, "buildId", "BUILD_PARSE_FAILED",
                   Object([buildId |-> Field(r, "buildId"), summary |-> Or(Field(r, "summary"), Object(<<>>))]))
    [] m = "build.save" ->
         Requiring(r, "xml", "UPSTREAM_INCOMPATIBLE",
                   Object([format |-> String("xml"), data |-> Field(r, "xml")]))
    [] m = "calc.run" ->
         Resolved(Object([buildId |-> Field(a, "buildId"), stats |-> Or(Field(r, "stats"), Empty)]))

(* A parsed item is handed on as the runner sent it. *)
ItemsResult(m, a, r) ==
  CASE m = "items.getEquipped" -> Object([equipped |-> Or(Field(r, "equipped"), Empty)])
    [] m \in {"items.parseClipboard", "items.createCustom"} -> r
    [] m = "items.compare" -> Object([slot |-> Or(Field(r, "slot"), Field(a, "slot")),
                                      deltas |-> Or(Field(r, "deltas"), Empty)])

(* getSkillGroups, setGemGroup, getConfigOptions, setConfigOption. *)
SkillsConfigResult(m, r) ==
  CASE m = "skills.getGroups" ->
         Resolved(Object([groups |-> MapItems(toSkillGroupCard, Or(Field(r, "groups"), Empty))]))
    [] m = "skills.setGemGroup" ->
         Requiring(r, "groupId", "UPSTREAM_INCOMPATIBLE", Object([groupId |-> Field(r, "groupId")]))
    [] m = "config.getOptions" ->
         Resolved(Object([options |-> MapItems(toConfigOptionCard, Or(Field(r, "options"), Empty))]))
    [] m = "config.setOption" ->
         Requiring(r, "optionId", "UPSTREAM_INCOMPATIBLE", Object([optionId |-> Field(r, "optionId")]))

TreeResult(m, r) ==
  CASE m = "tree.getData" -> getTreeData(r)
    [] m = "tree.previewAllocate" -> Object([deltas |-> Or(Field(r, "deltas"), Empty)])
    [] m = "tree.applyAllocate" -> Object([allocatedNodeIds |-> Or(Field(r, "allocatedNodeIds"), Empty)])

Result(m, a, r) ==
  CASE m \in {"build.load", "build.save", "calc.run"} -> BuildResult(m, a, r)
    [] m \in {"skills.getGroups", "skills.setGemGroup", "config.getOptions", "config.setOption"} ->
         SkillsConfigResult(m, r)
    [] m \in {"items.getEquipped", "items.parseClipboard", "items.createCustom", "items.compare"} ->
         Resolved(ItemsResult(m, a, r))
    [] m = "calc.explain" -> Resolved(assembleExplain(r, Field(a, "statId")))
    [] OTHER -> Resolved(TreeResult(m, r))

(* request: the host's CoreError is rethrown with the code it has. *)
Answer(m, a, reply) ==
  IF "error" \in DOMAIN reply THEN Rejected(rpc_error_to_core(reply.error)) ELSE Result(m, a, reply.result)
=============================================================================

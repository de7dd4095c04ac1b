----------------------------- MODULE CoreClient -----------------------------
(***************************************************************************)
(* The Node facade: what CoreClient sends for a typed call and what it     *)
(* makes of the runner's reply, between the two schema validations of      *)
(* RunnerClient.request.  RunnerClient models the transport in between.    *)
(***************************************************************************)
EXTENDS CoreShapes

CORE_ERROR_CODES == {"CORE_INIT_FAILED", "BUILD_PARSE_FAILED", "UNKNOWN_MOD", "CALC_FAILED",
                     "LOCALIZATION_MISSING", "UPSTREAM_INCOMPATIBLE"}

(* The code of a JSON-RPC error frame: the core's own if it is a known one. *)
rpcErrorToCode(error) ==
  IF error.data \in CORE_ERROR_CODES THEN error.data
  ELSE IF error.code = -32000 THEN "CALC_FAILED" ELSE "UPSTREAM_INCOMPATIBLE"

(* The write companions have no schema; their result is an acknowledgement. *)
Acknowledges == [m \in {"skills.setGemGroup", "config.setOption"} |->
                   IF m = "skills.setGemGroup" THEN "groupId" ELSE "optionId"]

(* The typed request, and the wire parameters it becomes.  A share code is checked *)
(* for its size and decoded before the load of its XML: that is left out.          *)
Request(m, a) ==
  CASE m = "build.load" -> Object([source |-> Field(a, "xml"), format |-> String("xml")])
    [] m = "build.save" -> Object([buildId |-> Field(a, "buildId"), format |-> String("xml")])
    [] m = "items.parseClipboard" -> IF Truthy(Field(a, "localeHint")) THEN a ELSE Without(a, "localeHint")
    [] m = "calc.explain" -> IF Truthy(Field(a, "activeSkillId")) THEN a ELSE Without(a, "activeSkillId")
    [] OTHER -> a

wire(m, p) ==
  CASE m = "build.load" -> Object([xml |-> Field(p, "source")])
    [] m = "build.save" -> Without(p, "format")
    [] m = "items.parseClipboard" -> Without(p, "localeHint")
    [] OTHER -> p

toSkillGemRef(gem) ==
  Object([gemId |-> StringOr(Field(gem, "gemId"), String("")),
          name |-> StringOr(Field(gem, "nameSpec"), String("")),
          level |-> NumberOr(Field(gem, "level"), Number(0)),
          quality |-> NumberOr(Field(gem, "quality"), Number(0)),
          enabled |-> IsTrue(Field(gem, "enabled"))])

toSkillGroupCard(group) ==
  LET gems == Or(Field(group, "gems"), Array(<<>>)).items
      IsSupport(g) == Field(g, "isSupport") = Boolean(TRUE)
      IsActive(g) == ~IsSupport(g)
  IN Object([groupId |-> StringOr(Field(group, "groupId"), String("")),
             label |-> StringOr(Field(group, "label"), String("")),
             enabled |-> IsTrue(Field(group, "enabled")),
             spirit |-> NumberOr(Field(Field(group, "spirit"), "reserved"), Number(0)),
             reservation |-> NumberOr(Field(Field(Field(group, "reservation"), "mana"), "reserved"), Number(0)),
             gems |-> MapItems(toSkillGemRef, Array(gems)),
             activeGems |-> MapItems(toSkillGemRef, Array(Filter(gems, IsActive))),
             supportGems |-> MapItems(toSkillGemRef, Array(Filter(gems, IsSupport)))])

CONFIG_DEPENDENCY_FIELDS == <<"ifSkillData", "ifEnemyCond", "ifCond", "ifOption">>

(* Bug: the card spread over the runner's option, its list of choices with it. *)
toConfigOptionCardSpread(option) ==
  Object(Spread(option.fields, [dependentModifiers |-> Array(<<>>)]))

(* The value is passed on as it is, absent when the runner left it out. *)
toConfigOptionCard(option) ==
  LET Hint(i) == LET h == Field(option, CONFIG_DEPENDENCY_FIELDS[i])
                 IN IF h.is = "array" THEN Strings(h) ELSE <<>>
  IN Object([optionId |-> StringOr(Field(option, "optionId"), String("")),
             type |-> StringOr(Field(option, "type"), String("")),
             label |-> StringOr(Field(option, "label"), String("")),
             value |-> Field(option, "value"),
             dependentModifiers |-> Array(Hint(1) \o Hint(2) \o Hint(3) \o Hint(4))])

EXPLAIN_SOURCE_KINDS == {"item", "passive", "skillGem", "supportGem", "config", "buff"}

toExplainSource(src) ==
  LET kind == Field(src, "kind")
      Named(n) == Field(src, n).is = "string" /\ Field(src, n) # String("")
  IN Object([kind |-> IF kind.is = "string" /\ kind.text \in EXPLAIN_SOURCE_KINDS THEN kind ELSE String("buff"),
             label |-> IF Named("sourceName") THEN Field(src, "sourceName")
                       ELSE IF Named("name") THEN Field(src, "name")
                       ELSE StringOr(Field(src, "source"), String("")),
             value |-> NumberOr(Field(src, "value"), Number(0))])

(* The trace lines are joined into one string. *)
assembleExplain(r, requestedStatId) ==
  LET trace == Field(r, "trace")
  IN Object([statId |-> StringOr(Field(r, "statId"), requestedStatId),
             finalValue |-> NumberOr(Field(r, "finalValue"), Number(0)),
             label |-> StringOr(Field(r, "label"), requestedStatId),
             sources |-> MapItems(toExplainSource, Or(Field(r, "sources"), Array(<<>>))),
             formula |-> String(IF trace.is = "array" THEN Strings(trace) ELSE <<>>),
             upstreamStatId |-> StringOr(Field(r, "upstreamRawStatId"), requestedStatId)])

(* Recognised lines first, then the unsupported ones, each with its status. *)
assembleParseResult(r, localeHint) ==
  LET item == Field(r, "item")
      LineOf(entry) == Field(entry, "line")
      raws == Strings(MapItems(LineOf, Or(Field(r, "mods"), Array(<<>>))))
      unsupported == Strings(Or(Field(r, "unsupported"), Array(<<>>)))
      Marked(lines, status) == [i \in DOMAIN lines |-> Object([raw |-> lines[i], status |-> String(status)])]
      Source(n) == CASE n = "baseId" -> "baseName" [] OTHER -> n
      out == [locale |-> IF localeHint.is \notin {"undefined", "null"} THEN localeHint
                         ELSE IF Locale(Field(r, "locale")) THEN Field(r, "locale") ELSE String("en-US"),
              mods |-> Array(Marked(raws, "parsed") \o Marked(unsupported, "unsupported")),
              unsupported |-> Array(unsupported)]
  IN Object(Spread([n \in {k \in {"baseId", "rarity", "name"} : Text(Field(item, Source(k)))}
                      |-> Field(item, Source(n))], out))

getTreeData(r) ==
  Object([treeVersion |-> StringOr(Field(r, "treeVersion"), String("")),
          nodes |-> Or(Field(r, "nodes"), Array(<<>>)),
          groups |-> Or(Field(r, "groups"), Array(<<>>)),
          constants |-> Or(Field(r, "constants"),
                           Object([classes |-> Object(<<>>), orbitAnglesByOrbit |-> Array(<<>>),
                                   orbitRadii |-> Array(<<>>), skillsPerOrbit |-> Array(<<>>)])),
          allocatedNodeIds |-> Or(Field(r, "allocatedNodeIds"), Array(<<>>))])

(* A list the runner left out is an empty list. *)
ListField(r, name) == Or(Field(r, name), Array(<<>>))

assembleBuild(m, a, r) ==
  CASE m = "build.load" -> r
    [] m = "build.save" -> Object([format |-> String("xml"), data |-> Field(r, "xml")])
    [] m = "calc.run" -> Object([buildId |-> Field(a, "buildId"), stats |-> Field(r, "stats")])

assembleItems(m, a, r) ==
  CASE m = "items.parseClipboard" -> assembleParseResult(r, Field(a, "localeHint"))
    [] m = "items.getEquipped" -> Object([equipped |-> ListField(r, "equipped")])
    [] m = "items.createCustom" -> r
    [] m = "items.compare" -> Object([slot |-> Or(Field(r, "slot"), Field(a, "slot")),
                                      deltas |-> ListField(r, "deltas")])

getSkillGroups(r) == Object([groups |-> MapItems(toSkillGroupCard, ListField(r, "groups"))])
getConfigOptions(r) == Object([options |-> MapItems(toConfigOptionCard, ListField(r, "options"))])
explainStat(a, r) == assembleExplain(r, Field(a, "statId"))
previewAllocate(r) == Object([deltas |-> ListField(r, "deltas")])
applyAllocate(r) == Object([allocatedNodeIds |-> ListField(r, "allocatedNodeIds")])

assemble(m, a, r) ==
  CASE m \in {"build.load", "build.save", "calc.run"} -> assembleBuild(m, a, r)
    [] m = "skills.getGroups" -> getSkillGroups(r)
    [] m = "config.getOptions" -> getConfigOptions(r)
    [] m = "calc.explain" -> explainStat(a, r)
    [] m = "tree.getData" -> getTreeData(r)
    [] m = "tree.previewAllocate" -> previewAllocate(r)
    [] m = "tree.applyAllocate" -> applyAllocate(r)
    [] OTHER -> assembleItems(m, a, r)

(* load fills in an absent summary after the validation. *)
load(v) ==
  IF Field(v, "buildId").is # "string" THEN Rejected("BUILD_PARSE_FAILED")
  ELSE Resolved(Object([buildId |-> Field(v, "buildId"), summary |-> Or(Field(v, "summary"), Object(<<>>))]))

(* Ids checked by hand, the acknowledgement read through. *)
setThrough(m, a, reply) ==
  LET ack == Acknowledges[m] IN
  IF ~Truthy(Field(a, "buildId")) \/ ~Truthy(Field(a, ack)) THEN Rejected("UPSTREAM_INCOMPATIBLE")
  ELSE IF "error" \in DOMAIN reply THEN Rejected(rpcErrorToCode(reply.error))
  ELSE IF Field(reply.result, ack).is # "string" THEN Rejected("UPSTREAM_INCOMPATIBLE")
  ELSE Resolved(Object([n \in {ack} |-> Field(reply.result, n)]))

setGemGroup(a, reply) == setThrough("skills.setGemGroup", a, reply)
setConfigOption(a, reply) == setThrough("config.setOption", a, reply)

(* Bug: validateResponse left off. *)
requestUnvalidated(m, a, reply) ==
  IF "error" \in DOMAIN reply THEN Rejected(rpcErrorToCode(reply.error))
  ELSE IF m = "build.load" THEN load(reply.result) ELSE Resolved(assemble(m, a, reply.result))

(* request: validate, call, assemble, validate. *)
request(m, a, reply) ==
  IF ~validRequest(m, Request(m, a)) THEN Rejected("UPSTREAM_INCOMPATIBLE")
  ELSE IF "error" \in DOMAIN reply THEN Rejected(rpcErrorToCode(reply.error))
  ELSE LET v == assemble(m, a, reply.result) IN
       IF ~validResponse(m, v) THEN Rejected("UPSTREAM_INCOMPATIBLE")
       ELSE IF m = "build.load" THEN load(v) ELSE Resolved(v)

Sent(m, a) == IF m \in DOMAIN Acknowledges THEN a ELSE wire(m, Request(m, a))
Answer(m, a, reply) ==
  CASE m = "skills.setGemGroup" -> setGemGroup(a, reply)
    [] m = "config.setOption" -> setConfigOption(a, reply)
    [] OTHER -> request(m, a, reply)
=============================================================================

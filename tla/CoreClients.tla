---------------------------- MODULE CoreClients ----------------------------
(***************************************************************************)
(* The two clients of the Core API side by side: one typed call, one reply *)
(* of the runner, and what each client makes of it, whatever the runner    *)
(* can serialize.  A Lua field without a value is missing from the JSON,   *)
(* an empty table is an empty array, and a number that is not finite is    *)
(* null.                                                                   *)
(***************************************************************************)
EXTENDS CoreClient

CONSTANTS
  ArgTexts,      \* the texts a caller passes: xml, ids, slots, copied items
  ArgNodes,      \* the lists of node ids it allocates
  RunnerResults, \* for each method the runner has, the results it may answer with
  RunnerErrors   \* the errors it may answer with, as [code, data]

Ipc == INSTANCE CoreIpcClient

VARIABLE exchange  \* the last call: method, arguments, reply, both outcomes, or none yet

Methods == MvpMethod \cup DOMAIN Acknowledges

(* The arguments of a typed call; the two optional ones may be left out. *)
texts == {String(t) : t \in ArgTexts}
oneMod(t) == Array(<<Object([text |-> t])>>)
ids(list) == Array([i \in DOMAIN list |-> Number(list[i])])
loadArgs == {Object([xml |-> x]) : x \in texts}
buildArgs == {Object([buildId |-> b]) : b \in texts}
parseArgs ==
  {Object([text |-> t]) : t \in texts}
  \cup {Object([text |-> t, localeHint |-> String(l)]) : t \in texts, l \in {"ko-KR", "en-US"}}
statArgs == {Object([buildId |-> b, statId |-> s]) : b \in texts, s \in texts}
skillStatArgs ==
  {Object([buildId |-> b, statId |-> s, activeSkillId |-> k]) : b \in texts, s \in texts, k \in texts}
customArgs == {Object([baseId |-> b, mods |-> oneMod(t)]) : b \in texts, t \in texts}
compareArgs == {Object([buildId |-> b, itemId |-> i, slot |-> s]) : b \in texts, i \in texts, s \in texts}
allocateArgs == {Object([buildId |-> b, nodeIds |-> ids(list)]) : b \in texts, list \in ArgNodes}
gemGroupArgs == {Object([buildId |-> b, groupId |-> g]) : b \in texts, g \in texts}
optionArgs == {Object([buildId |-> b, optionId |-> o]) : b \in texts, o \in texts}

Args(m) ==
  CASE m = "build.load" -> loadArgs
    [] m = "items.parseClipboard" -> parseArgs
    [] m = "calc.explain" -> statArgs \cup skillStatArgs
    [] m = "items.createCustom" -> customArgs
    [] m = "items.compare" -> compareArgs
    [] m \in {"tree.previewAllocate", "tree.applyAllocate"} -> allocateArgs
    [] m = "skills.setGemGroup" -> gemGroupArgs
    [] m = "config.setOption" -> optionArgs
    [] OTHER -> buildArgs

-----------------------------------------------------------------------------
(* What modern_api.lua serializes, each serializer as the test of its values.   *)
(* `whole' is an answer in which the core had every value a schema requires and *)
(* every figure was finite.                                                     *)

Table(v, always, nilable, whole) ==
  Strict(v, IF whole THEN always \cup nilable ELSE always, nilable)
Scalar(v) == v.is \in {"string", "number", "boolean", "null"}
Figure(v) == v.is \in {"number", "null"}
Figures(v, names, whole) == Each(v, names, Figure) /\ (whole => Each(v, names, Num))
List(v) == v.is = "array" /\ v.items \in Seq({v.items[i] : i \in DOMAIN v.items})
Lines(v) == List(v) /\ TextList(v)
Ids(v) == List(v) /\ NumList(v)
Rows(v, Row(_, _), whole) == List(v) /\ \A i \in DOMAIN v.items : Row(v.items[i], whole)
Empty(v) == v = Array(<<>>)

summarizeBuild(v) ==
  /\ Strict(v, {"level", "itemCount"}, {"className", "ascendancyName"})
  /\ Each(v, {"className", "ascendancyName"}, Text)
  /\ Each(v, {"level", "itemCount"}, Num)

curateStats(v, whole) ==
  Table(v, {"statId", "value", "label"}, {}, whole) /\ Each(v, {"statId", "label"}, Text)
  /\ Figures(v, {"value"}, whole)

serializeContrib(v, whole) ==
  /\ Strict(v, {"kind"}, {"source", "sourceName", "value", "name", "modType", "total"})
  /\ Each(v, {"kind", "source", "sourceName", "name"}, Text)
  /\ Each(v, {"value", "modType", "total"}, Scalar)

serializeEquippedItem(v, whole) ==
  /\ Table(v, {"slot", "itemId", "requirements", "summaryMods", "unsupportedMods"},
           {"name", "rarity", "baseName"}, whole)
  /\ Each(v, {"slot", "itemId", "name", "rarity", "baseName"}, Text)
  /\ Strict(Field(v, "requirements"), {"level", "str", "dex", "int"}, {})
  /\ Each(Field(v, "requirements"), {"level", "str", "dex", "int"}, Num)
  /\ Each(v, {"summaryMods", "unsupportedMods"}, Lines)

delta(v, whole) ==
  Strict(v, {"statId", "before", "after", "delta"}, {}) /\ Each(v, {"statId"}, Text)
  /\ Figures(v, {"before", "after", "delta"}, whole)

serializeGem(v, whole) ==
  /\ Strict(v, {"nameSpec", "level", "quality", "enabled", "isSupport"}, {"gemId"})
  /\ Each(v, {"gemId", "nameSpec", "level", "quality"}, Scalar)
  /\ Each(v, {"enabled", "isSupport"}, Bool)

pool(v) == Strict(v, {"reserved", "unreserved"}, {"total"})
           /\ Each(v, {"reserved", "unreserved", "total"}, Figure)
reservation(v) == Strict(v, {"mana", "life"}, {}) /\ Each(v, {"mana", "life"}, pool)
serializeGroup(v, whole) ==
  /\ Strict(v, {"groupId", "label", "enabled", "mainActiveSkill", "gems", "spirit", "reservation"}, {})
  /\ Each(v, {"groupId", "label"}, Text) /\ Each(v, {"mainActiveSkill"}, Num)
  /\ Each(v, {"enabled"}, Bool)
  /\ Rows(Field(v, "gems"), serializeGem, whole)
  /\ Each(v, {"spirit"}, pool) /\ Each(v, {"reservation"}, reservation)

serializeOption(v, whole) ==
  /\ Strict(v, IF whole THEN {"optionId", "type", "label", "value"} ELSE {"optionId", "type", "label"},
            {"value", "list", "ifSkillData", "ifEnemyCond", "ifCond", "ifOption"})
  /\ Each(v, {"optionId", "type", "label"}, Text) /\ Each(v, {"value"}, Scalar)
  /\ Each(v, {"list"}, List)
  /\ Each(v, {"ifSkillData", "ifEnemyCond", "ifCond", "ifOption"}, Lines)

serializeNode(v, whole) ==
  /\ Table(v, {"nodeId", "isAscendancy", "connections"},
           {"name", "type", "x", "y", "orbit", "orbitIndex", "group"}, whole)
  /\ Each(v, {"name", "type"}, Text)
  /\ Each(v, {"nodeId"}, Num) /\ Each(v, {"isAscendancy"}, Bool) /\ Each(v, {"connections"}, Ids)
  /\ Figures(v, {"x", "y", "orbit", "orbitIndex", "group"}, whole)

serializeTreeGroup(v, whole) ==
  Table(v, {"groupId"}, {"x", "y"}, whole) /\ Each(v, {"groupId"}, Num) /\ Figures(v, {"x", "y"}, whole)

serializeConstants(v, whole) ==
  /\ Strict(v, {"classes", "orbitAnglesByOrbit", "orbitRadii", "skillsPerOrbit"}, {})
  /\ Classes(Field(v, "classes")) \/ (~whole /\ Empty(Field(v, "classes")))

clipboardItem(v) ==
  Strict(v, {}, {"name", "rarity", "baseName", "itemType"})
  /\ Each(v, {"name", "rarity", "baseName", "itemType"}, Text)

modLine(v, whole) == Table(v, {"mods"}, {"line"}, whole) /\ Each(v, {"line"}, Text)

(* The result of a method, its `ok' dropped; items.createCustom has none. *)
Serialized(m, v, whole) ==
  CASE m = "build.load" -> Strict(v, {"buildId", "summary"}, {}) /\ Each(v, {"buildId"}, Text)
                           /\ Each(v, {"summary"}, summarizeBuild)
    [] m = "build.save" -> Strict(v, {"xml"}, {}) /\ Each(v, {"xml"}, Text)
    [] m = "calc.run" -> Strict(v, {"stats"}, {}) /\ Rows(Field(v, "stats"), curateStats, whole)
    [] m = "calc.explain" ->
         /\ Strict(v, {"statId", "upstreamRawStatId", "label", "trace", "sources"}, {"finalValue"})
         /\ Each(v, {"statId", "upstreamRawStatId", "label"}, Text)
         /\ Each(v, {"finalValue"}, Scalar) /\ Each(v, {"trace"}, Lines)
         /\ Rows(Field(v, "sources"), serializeContrib, whole)
    [] m = "items.parseClipboard" ->
         /\ Strict(v, {"locale", "item", "mods", "unsupported"}, {})
         /\ Each(v, {"locale"}, Locale) /\ Each(v, {"unsupported"}, Lines)
         /\ clipboardItem(Field(v, "item")) \/ Empty(Field(v, "item"))
         /\ Rows(Field(v, "mods"), modLine, whole)
    [] m = "items.getEquipped" ->
         Strict(v, {"equipped"}, {}) /\ Rows(Field(v, "equipped"), serializeEquippedItem, whole)
    [] m = "items.compare" -> Strict(v, {"slot", "deltas"}, {}) /\ Each(v, {"slot"}, Text)
                              /\ Rows(Field(v, "deltas"), delta, whole)
    [] m = "skills.getGroups" -> Strict(v, {"groups"}, {}) /\ Rows(Field(v, "groups"), serializeGroup, whole)
    [] m = "config.getOptions" -> Strict(v, {"options"}, {}) /\ Rows(Field(v, "options"), serializeOption, whole)
    [] m = "skills.setGemGroup" -> Strict(v, {"groupId"}, {}) /\ Each(v, {"groupId"}, Text)
    [] m = "config.setOption" -> Strict(v, {"optionId"}, {}) /\ Each(v, {"optionId"}, Text)
    [] m = "tree.getData" ->
         /\ Table(v, {"nodes", "groups", "constants", "allocatedNodeIds"}, {"treeVersion"}, FALSE)
         /\ Each(v, {"treeVersion"}, Text)
         /\ Rows(Field(v, "nodes"), serializeNode, whole)
         /\ Rows(Field(v, "groups"), serializeTreeGroup, whole)
         /\ serializeConstants(Field(v, "constants"), whole)
         /\ Each(v, {"allocatedNodeIds"}, Ids)
    [] m = "tree.previewAllocate" -> Strict(v, {"deltas"}, {}) /\ Rows(Field(v, "deltas"), delta, whole)
    [] m = "tree.applyAllocate" -> Strict(v, {"allocatedNodeIds"}, {}) /\ Each(v, {"allocatedNodeIds"}, Ids)
    [] OTHER -> FALSE

ASSUME RunnerAssumption ==
  \A m \in Methods \ {"items.createCustom"} : \A r \in RunnerResults[m] : Serialized(m, r, FALSE)

(* A method the runner does not have is an error of the protocol. *)
Replies(m) ==
  IF m = "items.createCustom" THEN {[error |-> [code |-> -32601, data |-> "none"]]}
  ELSE {[error |-> e] : e \in RunnerErrors} \cup {[result |-> r] : r \in RunnerResults[m]}

-----------------------------------------------------------------------------
ClientsInit == exchange = [method |-> "none"]

(* The same call through both clients, against the same reply of the runner. *)
Exchange(m, a, reply) ==
  exchange' = [method |-> m, args |-> a, reply |-> reply,
               node |-> Answer(m, a, reply), ipc |-> Ipc!Answer(m, a, reply)]

ClientsNext == \E m \in Methods : \E a \in Args(m), reply \in Replies(m) : Exchange(m, a, reply)

ClientsSpec == ClientsInit /\ [][ClientsNext]_exchange

Done == exchange.method # "none"
Failed == "error" \in DOMAIN exchange.reply
Identified ==
  exchange.method \in DOMAIN Acknowledges =>
    Truthy(Field(exchange.args, "buildId"))
    /\ Truthy(Field(exchange.args, Acknowledges[exchange.method]))

(* An item import is left out: there the desktop client assembles nothing.      *)
(* When the Node client resolves, the desktop client resolves to the same value *)
(* having sent the same parameters, and when the runner answers with an error   *)
(* both reject with the same code, although the two files share no line.  (The  *)
(* Node client refuses a write with an empty id before it sends it.)            *)
ClientsAgree ==
  Done /\ exchange.method # "items.parseClipboard" =>
    /\ exchange.node.ok =>
         /\ exchange.ipc = exchange.node
         /\ Ipc!Sent(exchange.method, exchange.args) = Sent(exchange.method, exchange.args)
    /\ Failed => ~exchange.node.ok /\ ~exchange.ipc.ok
    /\ Failed /\ Identified => exchange.node.code = exchange.ipc.code

(* The casts of CoreClient are right: what it resolves to inhabits the response *)
(* type it is declared to have, in whatever the runner left out.                *)
ResolvesToItsType ==
  Done /\ exchange.method \in MvpMethod /\ exchange.node.ok =>
    CoreResponseMap(exchange.method, exchange.node.value)

(* A typed call the runner answers in full is never refused by the schemas on   *)
(* the way: they admit every request its type admits, and what the assembler    *)
(* makes of every answer in which the core had what the schema requires.        *)
CompleteAnswersAreAccepted ==
  Done /\ exchange.method \in MvpMethod =>
    /\ CoreRequestMap(exchange.method, Request(exchange.method, exchange.args))
    /\ ~Failed /\ Serialized(exchange.method, exchange.reply.result, TRUE) => exchange.node.ok

(* The desktop client validates nothing and only casts: a call the runner       *)
(* answers in full resolves there too, to a value of the response type.         *)
DesktopCastsAreRight ==
  Done /\ exchange.method \in MvpMethod \ {"items.parseClipboard"} /\ ~Failed
  /\ Serialized(exchange.method, exchange.reply.result, TRUE) =>
    exchange.ipc.ok /\ CoreResponseMap(exchange.method, exchange.ipc.value)

-----------------------------------------------------------------------------
(* What the desktop's import box shows of a parsed clipboard item. *)
toInspected(v) ==
  LET IsParsed(m) == Field(m, "status") = String("parsed")
  IN [parsedMods |-> Filter(Field(v, "mods").items, IsParsed),
      unsupportedMods |-> Field(v, "unsupported").items,
      name |-> Or(Field(v, "name"), String("")),
      baseType |-> Or(Field(v, "baseId"), String(""))]

(* build-session.ts on toInspected: the source text is reconstructed from the   *)
(* recognised name and base and every line.                                     *)
PasteKeepsEveryLine ==
  Done /\ exchange.method = "items.parseClipboard" /\ ~Failed
  /\ Serialized("items.parseClipboard", exchange.reply.result, TRUE) =>
    LET shown == toInspected(exchange.ipc.value)
        sent == exchange.reply.result
    IN /\ Len(shown.parsedMods) = Len(Field(sent, "mods").items)
       /\ Len(shown.unsupportedMods) = Len(Field(sent, "unsupported").items)
=============================================================================

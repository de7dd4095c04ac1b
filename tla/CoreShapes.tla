----------------------------- MODULE CoreShapes -----------------------------
(***************************************************************************)
(* The contract of the Core API: the TypeScript payload types of           *)
(* core-api.ts and the JSON schemas of schemas/index.ts, each as the test  *)
(* whether a value inhabits it, and the JSON values they are tests of.     *)
(***************************************************************************)
EXTENDS Collections

(* JSON values, each tagged with its kind. *)
Undefined == [is |-> "undefined"]
Null == [is |-> "null"]
String(s) == [is |-> "string", text |-> s]
Number(n) == [is |-> "number", amount |-> n]
Boolean(b) == [is |-> "boolean", truth |-> b]
Array(s) == [is |-> "array", items |-> s]
Object(f) == [is |-> "object", fields |-> f]

Field(v, name) ==
  IF v.is = "object" /\ name \in DOMAIN v.fields THEN v.fields[name] ELSE Undefined

Without(v, name) == Object([n \in DOMAIN v.fields \ {name} |-> v.fields[n]])

(* What a value inhabits.  A TypeScript interface admits fields it does not     *)
(* declare; a schema with additionalProperties: false does not.  As for AJV, a  *)
(* required property that is present but undefined is missing, and an optional  *)
(* one is tested when it is there.                                              *)
Text(v) == v.is = "string"
Num(v) == v.is = "number"
Bool(v) == v.is = "boolean"
OneOf(v, values) == v.is = "string" /\ v.text \in values
ListOf(v, Part(_)) == v.is = "array" /\ \A i \in DOMAIN v.items : Part(v.items[i])
Interface(v, required) == v.is = "object" /\ \A n \in required : Field(v, n) # Undefined
Strict(v, required, optional) ==
  Interface(v, required) /\ DOMAIN v.fields \subseteq required \cup optional
Each(v, names, Part(_)) == \A n \in names : Field(v, n) # Undefined => Part(Field(v, n))

TextList(v) == ListOf(v, Text)
NumList(v) == ListOf(v, Num)

(* typeof v === 'string' ? v : d, the same for numbers, v ?? d, v === true. *)
StringOr(v, d) == IF v.is = "string" THEN v ELSE d
NumberOr(v, d) == IF v.is = "number" THEN v ELSE d
Or(v, d) == IF v \in {Undefined, Null} THEN d ELSE v
IsTrue(v) == Boolean(v = Boolean(TRUE))
Truthy(v) == v \notin {Undefined, Null, String("")}

MapItems(f(_), list) == Array([i \in DOMAIN list.items |-> f(list.items[i])])
Strings(list) == Filter(list.items, Text)

(* What a call settles to. *)
Resolved(v) == [ok |-> TRUE, value |-> v]
Rejected(code) == [ok |-> FALSE, code |-> code]

MvpMethod ==
  {"build.load", "build.save", "calc.run", "calc.explain", "items.parseClipboard",
   "items.getEquipped", "items.createCustom", "items.compare", "skills.getGroups",
   "config.getOptions", "tree.getData", "tree.previewAllocate", "tree.applyAllocate"}

-----------------------------------------------------------------------------
(* core-api.ts: payload fragments.  A field of type unknown may be undefined. *)

Locale(v) == OneOf(v, {"ko-KR", "en-US"})
CodecFormat(v) == OneOf(v, {"xml", "shareCode"})
ModStatus(v) == OneOf(v, {"parsed", "unsupported", "unknown"})
ExplainSourceKind(v) ==
  OneOf(v, {"item", "passive", "skillGem", "supportGem", "config", "buff"})

CalcOptions(v) == Interface(v, {}) /\ Each(v, {"activeSkillId", "configSetId"}, Text)
StatResult(v) ==
  /\ Interface(v, {"statId", "value", "label"})
  /\ Each(v, {"statId", "label"}, Text)
  /\ Each(v, {"value"}, Num)
ItemModInput(v) == Interface(v, {"text"}) /\ Each(v, {"text", "statId"}, Text)
ParsedItemMod(v) ==
  /\ Interface(v, {"raw", "status"})
  /\ Each(v, {"raw", "statId"}, Text)
  /\ Each(v, {"status"}, ModStatus)
ItemRequirements(v) ==
  /\ Interface(v, {"level", "str", "dex", "int"})
  /\ Each(v, {"level", "str", "dex", "int"}, Num)
EquippedItem(v) ==
  /\ Interface(v, {"slot", "itemId", "name", "rarity", "baseName", "requirements",
                   "summaryMods", "unsupportedMods"})
  /\ Each(v, {"slot", "itemId", "name", "rarity", "baseName"}, Text)
  /\ Each(v, {"requirements"}, ItemRequirements)
  /\ Each(v, {"summaryMods", "unsupportedMods"}, TextList)
EquipDelta(v) ==
  /\ Interface(v, {"statId", "before", "after", "delta"})
  /\ Each(v, {"statId"}, Text)
  /\ Each(v, {"before", "after", "delta"}, Num)
SkillGemRef(v) ==
  /\ Interface(v, {"gemId", "name", "level", "quality", "enabled"})
  /\ Each(v, {"gemId", "name"}, Text)
  /\ Each(v, {"level", "quality"}, Num)
  /\ Each(v, {"enabled"}, Bool)
SkillGemRefs(v) == ListOf(v, SkillGemRef)
SkillGroupCard(v) ==
  /\ Interface(v, {"groupId", "label", "enabled", "spirit", "reservation", "gems",
                   "activeGems", "supportGems"})
  /\ Each(v, {"groupId", "label"}, Text)
  /\ Each(v, {"enabled"}, Bool)
  /\ Each(v, {"spirit", "reservation"}, Num)
  /\ Each(v, {"gems", "activeGems", "supportGems"}, SkillGemRefs)
ConfigOptionCard(v) ==
  /\ Interface(v, {"optionId", "type", "label", "dependentModifiers"})
  /\ Each(v, {"optionId", "type", "label"}, Text)
  /\ Each(v, {"dependentModifiers"}, TextList)
TreeNode(v) ==
  /\ Interface(v, {"nodeId", "name", "type", "x", "y", "orbit", "orbitIndex", "group",
                   "isAscendancy", "connections"})
  /\ Each(v, {"name", "type"}, Text)
  /\ Each(v, {"nodeId", "x", "y", "orbit", "orbitIndex", "group"}, Num)
  /\ Each(v, {"isAscendancy"}, Bool)
  /\ Each(v, {"connections"}, NumList)
TreeGroup(v) == Interface(v, {"groupId", "x", "y"}) /\ Each(v, {"groupId", "x", "y"}, Num)
Classes(v) == Interface(v, {}) /\ Each(v, DOMAIN v.fields, Num)
TreeConstants(v) == Interface(v, {"classes"}) /\ Each(v, {"classes"}, Classes)
TreeStatDelta(v) == EquipDelta(v)
ExplainSource(v) ==
  /\ Interface(v, {"kind", "label", "value"})
  /\ Each(v, {"kind"}, ExplainSourceKind)
  /\ Each(v, {"label"}, Text)
  /\ Each(v, {"value"}, Num)
BuildSummary(v) ==
  /\ Interface(v, {})
  /\ Each(v, {"className", "ascendancyName"}, Text)
  /\ Each(v, {"level", "itemCount"}, Num)

ItemModInputs(v) == ListOf(v, ItemModInput)
StatResults(v) == ListOf(v, StatResult)
ParsedItemMods(v) == ListOf(v, ParsedItemMod)
EquippedItems(v) == ListOf(v, EquippedItem)
EquipDeltas(v) == ListOf(v, EquipDelta)
SkillGroupCards(v) == ListOf(v, SkillGroupCard)
ConfigOptionCards(v) == ListOf(v, ConfigOptionCard)
ExplainSources(v) == ListOf(v, ExplainSource)
TreeNodes(v) == ListOf(v, TreeNode)
TreeGroups(v) == ListOf(v, TreeGroup)
TreeStatDeltas(v) == ListOf(v, TreeStatDelta)

(* The request types of the registry's methods. *)
CoreRequestMap(m, v) ==
  CASE m = "build.load" ->
         Interface(v, {"source", "format"}) /\ Each(v, {"source"}, Text)
         /\ Each(v, {"format"}, CodecFormat)
    [] m = "build.save" ->
         Interface(v, {"buildId", "format"}) /\ Each(v, {"buildId"}, Text)
         /\ Each(v, {"format"}, CodecFormat)
    [] m = "calc.run" ->
         Interface(v, {"buildId"}) /\ Each(v, {"buildId"}, Text) /\ Each(v, {"options"}, CalcOptions)
    [] m = "calc.explain" ->
         Interface(v, {"buildId", "statId"}) /\ Each(v, {"buildId", "statId", "activeSkillId"}, Text)
    [] m = "items.parseClipboard" ->
         Interface(v, {"text"}) /\ Each(v, {"text"}, Text) /\ Each(v, {"localeHint"}, Locale)
    [] m = "items.createCustom" ->
         Interface(v, {"baseId", "mods"}) /\ Each(v, {"baseId"}, Text)
         /\ Each(v, {"mods"}, ItemModInputs)
    [] m = "items.compare" ->
         Interface(v, {"buildId", "itemId", "slot"}) /\ Each(v, {"buildId", "itemId", "slot"}, Text)
    [] m \in {"items.getEquipped", "skills.getGroups", "config.getOptions", "tree.getData"} ->
         Interface(v, {"buildId"}) /\ Each(v, {"buildId"}, Text)
    [] m \in {"tree.previewAllocate", "tree.applyAllocate"} ->
         Interface(v, {"buildId", "nodeIds"}) /\ Each(v, {"buildId"}, Text)
         /\ Each(v, {"nodeIds"}, NumList)

(* The response types. *)
CoreResponseMap(m, v) ==
  CASE m = "build.load" ->
         Interface(v, {"buildId", "summary"}) /\ Each(v, {"buildId"}, Text)
         /\ Each(v, {"summary"}, BuildSummary)
    [] m = "build.save" ->
         Interface(v, {"format", "data"}) /\ Each(v, {"format"}, CodecFormat)
         /\ Each(v, {"data"}, Text)
    [] m = "calc.run" ->
         Interface(v, {"buildId", "stats"}) /\ Each(v, {"buildId"}, Text)
         /\ Each(v, {"stats"}, StatResults)
    [] m = "calc.explain" ->
         Interface(v, {"statId", "finalValue", "label", "sources", "formula", "upstreamStatId"})
         /\ Each(v, {"statId", "label", "formula", "upstreamStatId"}, Text)
         /\ Each(v, {"finalValue"}, Num) /\ Each(v, {"sources"}, ExplainSources)
    [] m = "items.parseClipboard" ->
         Interface(v, {"locale", "mods", "unsupported"}) /\ Each(v, {"locale"}, Locale)
         /\ Each(v, {"baseId", "rarity", "name"}, Text) /\ Each(v, {"mods"}, ParsedItemMods)
         /\ Each(v, {"unsupported"}, TextList)
    [] m = "items.getEquipped" -> Interface(v, {"equipped"}) /\ Each(v, {"equipped"}, EquippedItems)
    [] m = "items.createCustom" ->
         Interface(v, {"itemId", "item"}) /\ Each(v, {"itemId"}, Text)
         /\ Each(v, {"item"}, EquippedItem)
    [] m = "items.compare" ->
         Interface(v, {"slot", "deltas"}) /\ Each(v, {"slot"}, Text)
         /\ Each(v, {"deltas"}, EquipDeltas)
    [] m = "skills.getGroups" -> Interface(v, {"groups"}) /\ Each(v, {"groups"}, SkillGroupCards)
    [] m = "config.getOptions" -> Interface(v, {"options"}) /\ Each(v, {"options"}, ConfigOptionCards)
    [] m = "tree.getData" ->
         Interface(v, {"treeVersion", "nodes", "groups", "constants", "allocatedNodeIds"})
         /\ Each(v, {"treeVersion"}, Text) /\ Each(v, {"nodes"}, TreeNodes)
         /\ Each(v, {"groups"}, TreeGroups) /\ Each(v, {"constants"}, TreeConstants)
         /\ Each(v, {"allocatedNodeIds"}, NumList)
    [] m = "tree.previewAllocate" -> Interface(v, {"deltas"}) /\ Each(v, {"deltas"}, TreeStatDeltas)
    [] m = "tree.applyAllocate" ->
         Interface(v, {"allocatedNodeIds"}) /\ Each(v, {"allocatedNodeIds"}, NumList)

-----------------------------------------------------------------------------
(* schemas/index.ts: the cards, then a request and a response schema a method. *)

localeSchema(v) == OneOf(v, {"ko-KR", "en-US"})
itemRequirementsSchema(v) ==
  /\ Strict(v, {"level", "str", "dex", "int"}, {})
  /\ Each(v, {"level", "str", "dex", "int"}, Num)
equippedItemSchema(v) ==
  /\ Strict(v, {"slot", "itemId", "name", "rarity", "baseName", "requirements",
                "summaryMods", "unsupportedMods"}, {})
  /\ Each(v, {"slot", "itemId", "name", "rarity", "baseName"}, Text)
  /\ Each(v, {"requirements"}, itemRequirementsSchema)
  /\ Each(v, {"summaryMods", "unsupportedMods"}, TextList)
equipDeltaSchema(v) ==
  /\ Strict(v, {"statId", "before", "after", "delta"}, {})
  /\ Each(v, {"statId"}, Text)
  /\ Each(v, {"before", "after", "delta"}, Num)
skillGemRefSchema(v) ==
  /\ Strict(v, {"gemId", "name", "level", "quality", "enabled"}, {})
  /\ Each(v, {"gemId", "name"}, Text)
  /\ Each(v, {"level", "quality"}, Num)
  /\ Each(v, {"enabled"}, Bool)
gemListSchema(v) == ListOf(v, skillGemRefSchema)
skillGroupCardSchema(v) ==
  /\ Strict(v, {"groupId", "label", "enabled", "spirit", "reservation", "gems",
                "activeGems", "supportGems"}, {})
  /\ Each(v, {"groupId", "label"}, Text)
  /\ Each(v, {"enabled"}, Bool)
  /\ Each(v, {"spirit", "reservation"}, Num)
  /\ Each(v, {"gems", "activeGems", "supportGems"}, gemListSchema)
configOptionCardSchema(v) ==
  /\ Strict(v, {"optionId", "type", "label", "value", "dependentModifiers"}, {})
  /\ Each(v, {"optionId", "type", "label"}, Text)
  /\ Each(v, {"dependentModifiers"}, TextList)
explainSourceKinds == {"item", "passive", "skillGem", "supportGem", "config", "buff"}
kindSchema(v) == OneOf(v, explainSourceKinds)
explainSourceSchema(v) ==
  /\ Strict(v, {"kind", "label", "value"}, {})
  /\ Each(v, {"kind"}, kindSchema)
  /\ Each(v, {"label"}, Text)
  /\ Each(v, {"value"}, Num)
treeNodeSchema(v) ==
  /\ Strict(v, {"nodeId", "name", "type", "x", "y", "orbit", "orbitIndex", "group",
                "isAscendancy", "connections"}, {})
  /\ Each(v, {"name", "type"}, Text)
  /\ Each(v, {"nodeId", "x", "y", "orbit", "orbitIndex", "group"}, Num)
  /\ Each(v, {"isAscendancy"}, Bool)
  /\ Each(v, {"connections"}, NumList)
treeGroupSchema(v) == Strict(v, {"groupId", "x", "y"}, {}) /\ Each(v, {"groupId", "x", "y"}, Num)
classesSchema(v) == Interface(v, {})
treeConstantsSchema(v) ==
  /\ Interface(v, {"classes", "orbitAnglesByOrbit", "orbitRadii", "skillsPerOrbit"})
  /\ Each(v, {"classes"}, classesSchema)
treeStatDeltaSchema(v) ==
  /\ Strict(v, {"statId", "before", "after", "delta"}, {})
  /\ Each(v, {"statId"}, Text)
  /\ Each(v, {"before", "after", "delta"}, Num)
nodeIdListSchema(v) == ListOf(v, Num)
buildSummarySchema(v) ==
  /\ Interface(v, {})
  /\ Each(v, {"className", "ascendancyName"}, Text)
  /\ Each(v, {"level", "itemCount"}, Num)
formatSchema(v) == OneOf(v, {"xml", "shareCode"})

buildLoadRequestSchema(v) ==
  Strict(v, {"source", "format"}, {}) /\ Each(v, {"source"}, Text) /\ Each(v, {"format"}, formatSchema)
buildLoadResponseSchema(v) ==
  Strict(v, {"buildId"}, {"summary"}) /\ Each(v, {"buildId"}, Text)
  /\ Each(v, {"summary"}, buildSummarySchema)
buildSaveRequestSchema(v) ==
  Strict(v, {"buildId", "format"}, {}) /\ Each(v, {"buildId"}, Text) /\ Each(v, {"format"}, formatSchema)
buildSaveResponseSchema(v) ==
  Strict(v, {"format", "data"}, {}) /\ Each(v, {"format"}, formatSchema) /\ Each(v, {"data"}, Text)
calcOptionsSchema(v) ==
  Strict(v, {}, {"activeSkillId", "configSetId"}) /\ Each(v, {"activeSkillId", "configSetId"}, Text)
calcRunRequestSchema(v) ==
  Strict(v, {"buildId"}, {"options"}) /\ Each(v, {"buildId"}, Text)
  /\ Each(v, {"options"}, calcOptionsSchema)
statSchema(v) ==
  /\ Strict(v, {"statId", "value", "label"}, {})
  /\ Each(v, {"statId", "label"}, Text)
  /\ Each(v, {"value"}, Num)
statsSchema(v) == ListOf(v, statSchema)
calcRunResponseSchema(v) ==
  Strict(v, {"buildId", "stats"}, {}) /\ Each(v, {"buildId"}, Text) /\ Each(v, {"stats"}, statsSchema)
itemsParseClipboardRequestSchema(v) ==
  Strict(v, {"text"}, {"localeHint"}) /\ Each(v, {"text"}, Text)
  /\ Each(v, {"localeHint"}, localeSchema)
statusSchema(v) == OneOf(v, {"parsed", "unsupported", "unknown"})
parsedModSchema(v) ==
  Strict(v, {"raw", "status"}, {"statId"}) /\ Each(v, {"raw", "statId"}, Text)
  /\ Each(v, {"status"}, statusSchema)
parsedModsSchema(v) == ListOf(v, parsedModSchema)
itemsParseClipboardResponseSchema(v) ==
  Strict(v, {"locale", "mods", "unsupported"}, {"baseId", "rarity", "name"})
  /\ Each(v, {"locale"}, localeSchema) /\ Each(v, {"baseId", "rarity", "name"}, Text)
  /\ Each(v, {"mods"}, parsedModsSchema) /\ Each(v, {"unsupported"}, TextList)
itemsGetEquippedRequestSchema(v) == Strict(v, {"buildId"}, {}) /\ Each(v, {"buildId"}, Text)
equippedListSchema(v) == ListOf(v, equippedItemSchema)
itemsGetEquippedResponseSchema(v) ==
  Strict(v, {"equipped"}, {}) /\ Each(v, {"equipped"}, equippedListSchema)
itemModSchema(v) == Strict(v, {"text"}, {"statId"}) /\ Each(v, {"text", "statId"}, Text)
itemModsSchema(v) == ListOf(v, itemModSchema)
itemsCreateCustomRequestSchema(v) ==
  Strict(v, {"baseId", "mods"}, {}) /\ Each(v, {"baseId"}, Text) /\ Each(v, {"mods"}, itemModsSchema)
itemsCreateCustomResponseSchema(v) ==
  Strict(v, {"itemId", "item"}, {}) /\ Each(v, {"itemId"}, Text)
  /\ Each(v, {"item"}, equippedItemSchema)
itemsCompareRequestSchema(v) ==
  Strict(v, {"buildId", "itemId", "slot"}, {}) /\ Each(v, {"buildId", "itemId", "slot"}, Text)
equipDeltasSchema(v) == ListOf(v, equipDeltaSchema)
itemsCompareResponseSchema(v) ==
  Strict(v, {"slot", "deltas"}, {}) /\ Each(v, {"slot"}, Text) /\ Each(v, {"deltas"}, equipDeltasSchema)
skillsGetGroupsRequestSchema(v) == Strict(v, {"buildId"}, {}) /\ Each(v, {"buildId"}, Text)
groupsSchema(v) == ListOf(v, skillGroupCardSchema)
skillsGetGroupsResponseSchema(v) == Strict(v, {"groups"}, {}) /\ Each(v, {"groups"}, groupsSchema)
configGetOptionsRequestSchema(v) == Strict(v, {"buildId"}, {}) /\ Each(v, {"buildId"}, Text)
optionsSchema(v) == ListOf(v, configOptionCardSchema)
configGetOptionsResponseSchema(v) ==
  Strict(v, {"options"}, {}) /\ Each(v, {"options"}, optionsSchema)
calcExplainRequestSchema(v) ==
  Strict(v, {"buildId", "statId"}, {"activeSkillId"})
  /\ Each(v, {"buildId", "statId", "activeSkillId"}, Text)
sourcesSchema(v) == ListOf(v, explainSourceSchema)
calcExplainResponseSchema(v) ==
  Strict(v, {"statId", "finalValue", "label", "sources", "formula", "upstreamStatId"}, {})
  /\ Each(v, {"statId", "label", "formula", "upstreamStatId"}, Text)
  /\ Each(v, {"finalValue"}, Num) /\ Each(v, {"sources"}, sourcesSchema)
treeGetDataRequestSchema(v) == Strict(v, {"buildId"}, {}) /\ Each(v, {"buildId"}, Text)
treeNodesSchema(v) == ListOf(v, treeNodeSchema)
treeGroupsSchema(v) == ListOf(v, treeGroupSchema)
treeGetDataResponseSchema(v) ==
  Strict(v, {"treeVersion", "nodes", "groups", "constants", "allocatedNodeIds"}, {})
  /\ Each(v, {"treeVersion"}, Text) /\ Each(v, {"nodes"}, treeNodesSchema)
  /\ Each(v, {"groups"}, treeGroupsSchema) /\ Each(v, {"constants"}, treeConstantsSchema)
  /\ Each(v, {"allocatedNodeIds"}, nodeIdListSchema)
treePreviewAllocateRequestSchema(v) ==
  Strict(v, {"buildId", "nodeIds"}, {}) /\ Each(v, {"buildId"}, Text)
  /\ Each(v, {"nodeIds"}, nodeIdListSchema)
treeStatDeltasSchema(v) == ListOf(v, treeStatDeltaSchema)
treePreviewAllocateResponseSchema(v) ==
  Strict(v, {"deltas"}, {}) /\ Each(v, {"deltas"}, treeStatDeltasSchema)
treeApplyAllocateRequestSchema(v) == treePreviewAllocateRequestSchema(v)
treeApplyAllocateResponseSchema(v) ==
  Strict(v, {"allocatedNodeIds"}, {}) /\ Each(v, {"allocatedNodeIds"}, nodeIdListSchema)

(* schemaRegistry[method].request and .response, as the validators AJV makes of them. *)
validRequest(m, v) ==
  CASE m = "build.load" -> buildLoadRequestSchema(v)
    [] m = "build.save" -> buildSaveRequestSchema(v)
    [] m = "calc.run" -> calcRunRequestSchema(v)
    [] m = "calc.explain" -> calcExplainRequestSchema(v)
    [] m = "items.parseClipboard" -> itemsParseClipboardRequestSchema(v)
    [] m = "items.getEquipped" -> itemsGetEquippedRequestSchema(v)
    [] m = "items.createCustom" -> itemsCreateCustomRequestSchema(v)
    [] m = "items.compare" -> itemsCompareRequestSchema(v)
    [] m = "skills.getGroups" -> skillsGetGroupsRequestSchema(v)
    [] m = "config.getOptions" -> configGetOptionsRequestSchema(v)
    [] m = "tree.getData" -> treeGetDataRequestSchema(v)
    [] m = "tree.previewAllocate" -> treePreviewAllocateRequestSchema(v)
    [] m = "tree.applyAllocate" -> treeApplyAllocateRequestSchema(v)

validResponse(m, v) ==
  CASE m = "build.load" -> buildLoadResponseSchema(v)
    [] m = "build.save" -> buildSaveResponseSchema(v)
    [] m = "calc.run" -> calcRunResponseSchema(v)
    [] m = "calc.explain" -> calcExplainResponseSchema(v)
    [] m = "items.parseClipboard" -> itemsParseClipboardResponseSchema(v)
    [] m = "items.getEquipped" -> itemsGetEquippedResponseSchema(v)
    [] m = "items.createCustom" -> itemsCreateCustomResponseSchema(v)
    [] m = "items.compare" -> itemsCompareResponseSchema(v)
    [] m = "skills.getGroups" -> skillsGetGroupsResponseSchema(v)
    [] m = "config.getOptions" -> configGetOptionsResponseSchema(v)
    [] m = "tree.getData" -> treeGetDataResponseSchema(v)
    [] m = "tree.previewAllocate" -> treePreviewAllocateResponseSchema(v)
    [] m = "tree.applyAllocate" -> treeApplyAllocateResponseSchema(v)
=============================================================================

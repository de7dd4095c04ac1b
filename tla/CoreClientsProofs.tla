------------------------- MODULE CoreClientsProofs -------------------------
(***************************************************************************)
(* Theorems of CoreClients, for every text a caller may pass and every     *)
(* answer the runner may serialize: the two clients of the Core API agree, *)
(* the Node client resolves only to values of its declared types, and no   *)
(* answer given in full is refused.  The state is one call, so the work is *)
(* in the operators: the schemas against the types, the desktop client's   *)
(* copy of every assembler against the Node client's, and each assembler   *)
(* against the schema that validates it.                                   *)
(***************************************************************************)
EXTENDS CoreClients, TLAPS, CollectionsProofs

-----------------------------------------------------------------------------
(* The schemas against the types: each card first, then each response. *)

(* A card that fits its schema has its type: an equipped item, *)
LEMMA ItemType == \A v : equippedItemSchema(v) => EquippedItem(v)
  BY DEF equippedItemSchema, EquippedItem, itemRequirementsSchema, ItemRequirements, Strict, Each

(* the change of a stat, *)
LEMMA DeltaTypes ==
  /\ \A v : equipDeltaSchema(v) => EquipDelta(v)
  /\ \A v : treeStatDeltaSchema(v) => TreeStatDelta(v)
  BY DEF equipDeltaSchema, EquipDelta, treeStatDeltaSchema, TreeStatDelta, Strict

(* a skill group and its gems, *)
LEMMA GroupType == \A v : skillGroupCardSchema(v) => SkillGroupCard(v)
  <1>1. \A v : gemListSchema(v) => SkillGemRefs(v)
    <2>1. \A v : skillGemRefSchema(v) => SkillGemRef(v)
      BY DEF skillGemRefSchema, SkillGemRef, Strict
    <2>. QED BY <2>1 DEF gemListSchema, SkillGemRefs, ListOf
  <1>. QED BY <1>1 DEF skillGroupCardSchema, SkillGroupCard, Strict, Each

(* a config option, *)
LEMMA OptionType == \A v : configOptionCardSchema(v) => ConfigOptionCard(v)
  BY DEF configOptionCardSchema, ConfigOptionCard, Strict, Interface

(* a contribution to a stat, *)
LEMMA SourceType == \A v : explainSourceSchema(v) => ExplainSource(v)
  <1>1. \A v : kindSchema(v) => ExplainSourceKind(v)
    BY DEF kindSchema, explainSourceKinds, ExplainSourceKind
  <1>. QED BY <1>1 DEF explainSourceSchema, ExplainSource, Strict, Each

(* a parsed line, *)
LEMMA ModType == \A v : parsedModSchema(v) => ParsedItemMod(v)
  <1>1. \A v : statusSchema(v) => ModStatus(v)
    BY DEF statusSchema, ModStatus
  <1>. QED BY <1>1 DEF parsedModSchema, ParsedItemMod, Strict, Each

(* a tree node and a tree group, *)
LEMMA NodeTypes ==
  /\ \A v : treeNodeSchema(v) => TreeNode(v)
  /\ \A v : treeGroupSchema(v) => TreeGroup(v)
  BY DEF treeNodeSchema, TreeNode, treeGroupSchema, TreeGroup, Strict

(* and a stat. *)
LEMMA StatType == \A v : statSchema(v) => StatResult(v)
  BY DEF statSchema, StatResult, Strict

(* build.load and tree.getData are apart: load fills in a summary, and of the   *)
(* classes of a tree the schema says less than the type.                        *)
LEMMA ResponsesHaveTheirType ==
  ASSUME NEW m \in MvpMethod \ {"build.load", "tree.getData"}, NEW v, validResponse(m, v)
  PROVE  CoreResponseMap(m, v)
  <1>1. CASE m = "build.save"
    <2>1. buildSaveResponseSchema(v)
      BY <1>1 DEF validResponse
    <2>. QED BY <1>1, <2>1 DEF buildSaveResponseSchema, CoreResponseMap, formatSchema, CodecFormat, Strict, Each
  <1>2. CASE m = "calc.run"
    <2>1. calcRunResponseSchema(v)
      BY <1>2 DEF validResponse
    <2>2. \A w : statsSchema(w) => StatResults(w)
      BY StatType DEF statsSchema, StatResults, ListOf
    <2>. QED BY <1>2, <2>1, <2>2 DEF calcRunResponseSchema, CoreResponseMap, Strict, Each
  <1>3. CASE m = "calc.explain"
    <2>1. calcExplainResponseSchema(v)
      BY <1>3 DEF validResponse
    <2>2. \A w : sourcesSchema(w) => ExplainSources(w)
      BY SourceType DEF sourcesSchema, ExplainSources, ListOf
    <2>. QED BY <1>3, <2>1, <2>2 DEF calcExplainResponseSchema, CoreResponseMap, Strict, Each
  <1>4. CASE m = "items.parseClipboard"
    <2>1. itemsParseClipboardResponseSchema(v)
      BY <1>4 DEF validResponse
    <2>2. \A w : (parsedModsSchema(w) => ParsedItemMods(w)) /\ (localeSchema(w) => Locale(w))
      BY ModType DEF parsedModsSchema, ParsedItemMods, ListOf, localeSchema, Locale
    <2>. QED BY <1>4, <2>1, <2>2 DEF itemsParseClipboardResponseSchema, CoreResponseMap, Strict, Each
  <1>5. CASE m = "items.getEquipped"
    <2>1. itemsGetEquippedResponseSchema(v)
      BY <1>5 DEF validResponse
    <2>2. \A w : equippedListSchema(w) => EquippedItems(w)
      BY ItemType DEF equippedListSchema, EquippedItems, ListOf
    <2>. QED BY <1>5, <2>1, <2>2 DEF itemsGetEquippedResponseSchema, CoreResponseMap, Strict, Each
  <1>6. CASE m = "items.createCustom"
    <2>1. itemsCreateCustomResponseSchema(v)
      BY <1>6 DEF validResponse
    <2>. QED BY <1>6, <2>1, ItemType DEF itemsCreateCustomResponseSchema, CoreResponseMap, Strict, Each
  <1>7. CASE m = "items.compare"
    <2>1. itemsCompareResponseSchema(v)
      BY <1>7 DEF validResponse
    <2>2. \A w : equipDeltasSchema(w) => EquipDeltas(w)
      BY DeltaTypes DEF equipDeltasSchema, EquipDeltas, ListOf
    <2>. QED BY <1>7, <2>1, <2>2 DEF itemsCompareResponseSchema, CoreResponseMap, Strict, Each
  <1>8. CASE m = "skills.getGroups"
    <2>1. skillsGetGroupsResponseSchema(v)
      BY <1>8 DEF validResponse
    <2>2. \A w : groupsSchema(w) => SkillGroupCards(w)
      BY GroupType DEF groupsSchema, SkillGroupCards, ListOf
    <2>. QED BY <1>8, <2>1, <2>2 DEF skillsGetGroupsResponseSchema, CoreResponseMap, Strict, Each
  <1>9. CASE m = "config.getOptions"
    <2>1. configGetOptionsResponseSchema(v)
      BY <1>9 DEF validResponse
    <2>2. \A w : optionsSchema(w) => ConfigOptionCards(w)
      BY OptionType DEF optionsSchema, ConfigOptionCards, ListOf
    <2>. QED BY <1>9, <2>1, <2>2 DEF configGetOptionsResponseSchema, CoreResponseMap, Strict, Each
  <1>10. CASE m = "tree.previewAllocate"
    <2>1. treePreviewAllocateResponseSchema(v)
      BY <1>10 DEF validResponse
    <2>2. \A w : treeStatDeltasSchema(w) => TreeStatDeltas(w)
      BY DeltaTypes DEF treeStatDeltasSchema, TreeStatDeltas, ListOf
    <2>. QED BY <1>10, <2>1, <2>2 DEF treePreviewAllocateResponseSchema, CoreResponseMap, Strict, Each
  <1>11. CASE m = "tree.applyAllocate"
    <2>1. treeApplyAllocateResponseSchema(v)
      BY <1>11 DEF validResponse
    <2>2. \A w : nodeIdListSchema(w) => NumList(w)
      BY DEF nodeIdListSchema, NumList
    <2>. QED BY <1>11, <2>1, <2>2 DEF treeApplyAllocateResponseSchema, CoreResponseMap, Strict, Each
  <1>. QED BY <1>1, <1>2, <1>3, <1>4, <1>5, <1>6, <1>7, <1>8, <1>9, <1>10, <1>11 DEF MvpMethod

-----------------------------------------------------------------------------
(* The desktop client reads values with operators of its own copy of CoreShapes. *)
LEMMA SameShapes ==
  /\ \A v, n : Ipc!Field(v, n) = Field(v, n)
  /\ \A v, n : Ipc!Without(v, n) = Without(v, n)
  /\ \A f : Ipc!Object(f) = Object(f) /\ Ipc!Array(f) = Array(f) /\ Ipc!String(f) = String(f)
            /\ Ipc!Number(f) = Number(f) /\ Ipc!Boolean(f) = Boolean(f)
  /\ \A v, d : Ipc!StringOr(v, d) = StringOr(v, d) /\ Ipc!NumberOr(v, d) = NumberOr(v, d)
               /\ Ipc!Or(v, d) = Or(v, d)
  /\ \A v : Ipc!IsTrue(v) = IsTrue(v) /\ Ipc!Truthy(v) = Truthy(v) /\ Ipc!Strings(v) = Strings(v)
  /\ \A v : Ipc!Resolved(v) = Resolved(v) /\ Ipc!Rejected(v) = Rejected(v)
  <1>1. \A v, n : Ipc!Field(v, n) = Field(v, n)
    BY DEF Ipc!Field, Field, Ipc!Undefined, Undefined
  <1>2. \A v, n : Ipc!Without(v, n) = Without(v, n)
    BY DEF Ipc!Without, Without, Ipc!Object, Object
  <1>3. \A f : Ipc!Object(f) = Object(f) /\ Ipc!Array(f) = Array(f) /\ Ipc!String(f) = String(f)
            /\ Ipc!Number(f) = Number(f) /\ Ipc!Boolean(f) = Boolean(f)
    BY DEF Ipc!Object, Ipc!Array, Ipc!String, Ipc!Number, Ipc!Boolean, Object, Array, String, Number, Boolean
  <1>4. \A v, d : Ipc!StringOr(v, d) = StringOr(v, d) /\ Ipc!NumberOr(v, d) = NumberOr(v, d)
               /\ Ipc!Or(v, d) = Or(v, d)
    BY DEF Ipc!StringOr, StringOr, Ipc!NumberOr, NumberOr, Ipc!Or, Or, Ipc!Undefined, Undefined,
           Ipc!Null, Null
  <1>5. \A v : Ipc!IsTrue(v) = IsTrue(v) /\ Ipc!Truthy(v) = Truthy(v)
    BY DEF Ipc!IsTrue, IsTrue, Ipc!Truthy, Truthy, Ipc!Undefined, Undefined, Ipc!Null, Null,
           Ipc!String, String, Ipc!Boolean, Boolean
  <1>6. \A v : Ipc!Strings(v) = Strings(v)
    BY DEF Ipc!Strings, Strings, Ipc!Filter, Filter, Ipc!Kept, Kept, Ipc!KeptUpTo, KeptUpTo, Ipc!Text, Text
  <1>7. \A v : Ipc!Resolved(v) = Resolved(v) /\ Ipc!Rejected(v) = Rejected(v)
    BY DEF Ipc!Resolved, Resolved, Ipc!Rejected, Rejected
  <1>. QED BY <1>1, <1>2, <1>3, <1>4, <1>5, <1>6, <1>7

(* Client and host read an error frame the same way. *)
LEMMA SameCodes == \A e : Ipc!rpc_error_to_core(e) = rpcErrorToCode(e)
  BY DEF Ipc!rpc_error_to_core, rpcErrorToCode, Ipc!CORE_ERROR_CODES, CORE_ERROR_CODES

(* A gem, whose defaults the two clients write differently. *)
LEMMA SameGems == \A g : Ipc!toSkillGemRef(g) = toSkillGemRef(g)
  BY SameShapes DEF Ipc!toSkillGemRef, toSkillGemRef, StringOr, NumberOr

(* A config option, its four hints concatenated. *)
LEMMA SameOptions == \A o : Ipc!toConfigOptionCard(o) = toConfigOptionCard(o)
  <1>. SUFFICES ASSUME NEW o PROVE Ipc!toConfigOptionCard(o) = toConfigOptionCard(o)
    OBVIOUS
  <1>. DEFINE Hint(n) == IF Field(o, n).is = "array" THEN Strings(Field(o, n)) ELSE <<>>
              IpcHint(n) == IF Ipc!Field(o, n).is = "array" THEN Ipc!Strings(Ipc!Field(o, n)) ELSE <<>>
              card == [optionId |-> StringOr(Field(o, "optionId"), String("")),
                       type |-> StringOr(Field(o, "type"), String("")),
                       label |-> StringOr(Field(o, "label"), String("")),
                       value |-> Field(o, "value"),
                       dependentModifiers |-> Array(Hint("ifSkillData") \o Hint("ifEnemyCond")
                                                    \o Hint("ifCond") \o Hint("ifOption"))]
              ipcCard == [optionId |-> Ipc!StringOr(Ipc!Field(o, "optionId"), Ipc!String("")),
                          type |-> Ipc!StringOr(Ipc!Field(o, "type"), Ipc!String("")),
                          label |-> Ipc!StringOr(Ipc!Field(o, "label"), Ipc!String("")),
                          value |-> Ipc!Field(o, "value"),
                          dependentModifiers |-> Ipc!Array(IpcHint("ifSkillData") \o IpcHint("ifEnemyCond")
                                                           \o IpcHint("ifCond") \o IpcHint("ifOption"))]
  <1>1. toConfigOptionCard(o) = Object(card)
    BY DEF toConfigOptionCard, CONFIG_DEPENDENCY_FIELDS
  <1>2. Ipc!toConfigOptionCard(o) = Ipc!Object(ipcCard)
    BY DEF Ipc!toConfigOptionCard
  <1>3. \A n : IpcHint(n) = Hint(n)
    BY SameShapes
  <1>. HIDE DEF Hint, IpcHint
  <1>4. ipcCard = card
    BY <1>3, SameShapes
  <1>. HIDE DEF card, ipcCard
  <1>. QED BY <1>1, <1>2, <1>4, SameShapes

(* A contribution, whose name the two clients choose differently. *)
LEMMA SameSources == \A s : Ipc!toExplainSource(s) = toExplainSource(s)
  <1>. SUFFICES ASSUME NEW s PROVE Ipc!toExplainSource(s) = toExplainSource(s)
    OBVIOUS
  <1>. DEFINE named == {n \in {"sourceName", "name"} : Field(s, n).is = "string" /\ Truthy(Field(s, n))}
              Named(n) == Field(s, n).is = "string" /\ Field(s, n) # String("")
              rest == StringOr(Field(s, "source"), String(""))
              label == IF Named("sourceName") THEN Field(s, "sourceName")
                       ELSE IF Named("name") THEN Field(s, "name") ELSE rest
  <1>1. \A n : Named(n) <=> Field(s, n).is = "string" /\ Truthy(Field(s, n))
    <2>1. Undefined.is # "string" /\ Null.is # "string"
      BY DEF Undefined, Null
    <2>2. \A v : v.is = "string" => (Truthy(v) <=> v # String(""))
      BY <2>1 DEF Truthy
    <2>. QED BY <2>2
  <1>2. ("sourceName" \in named <=> Named("sourceName"))
        /\ ("sourceName" \notin named => (named = {"name"} <=> Named("name")))
    BY <1>1
  <1>3. label = CASE "sourceName" \in named -> Field(s, "sourceName")
                  [] named = {"name"} -> Field(s, "name")
                  [] OTHER -> rest
    <2>. HIDE DEF named, Named, rest
    <2>. QED BY <1>2
  <1>4. Ipc!OneOf(Field(s, "kind"), Ipc!EXPLAIN_SOURCE_KINDS)
        <=> Field(s, "kind").is = "string" /\ Field(s, "kind").text \in EXPLAIN_SOURCE_KINDS
    BY DEF Ipc!OneOf, Ipc!EXPLAIN_SOURCE_KINDS, EXPLAIN_SOURCE_KINDS
  <1>. QED BY <1>3, <1>4, SameShapes DEF Ipc!toExplainSource, toExplainSource

(* The card of a group, its two partial lists written out. *)
LEMMA GroupCard ==
  ASSUME NEW g
  PROVE  LET gems == Or(Field(g, "gems"), Array(<<>>)).items
             all == {gems[i] : i \in DOMAIN gems}
             sup == {x \in all : Field(x, "isSupport") = Boolean(TRUE)}
             act == {x \in all : ~(Field(x, "isSupport") = Boolean(TRUE))}
         IN
         toSkillGroupCard(g) =
           Object([groupId |-> StringOr(Field(g, "groupId"), String("")),
                   label |-> StringOr(Field(g, "label"), String("")),
                   enabled |-> IsTrue(Field(g, "enabled")),
                   spirit |-> NumberOr(Field(Field(g, "spirit"), "reserved"), Number(0)),
                   reservation |-> NumberOr(Field(Field(Field(g, "reservation"), "mana"), "reserved"), Number(0)),
                   gems |-> MapItems(toSkillGemRef, Array(gems)),
                   activeGems |-> MapItems(toSkillGemRef, Array(Kept(gems, act))),
                   supportGems |-> MapItems(toSkillGemRef, Array(Kept(gems, sup)))])
  BY DEF toSkillGroupCard, Filter

(* A skill group, its gems filtered twice. *)
LEMMA SameGroups == \A g : Ipc!toSkillGroupCard(g) = toSkillGroupCard(g)
  <1>. SUFFICES ASSUME NEW g PROVE Ipc!toSkillGroupCard(g) = toSkillGroupCard(g)
    OBVIOUS
  <1>. DEFINE gems == Or(Field(g, "gems"), Array(<<>>)).items
              IsSupport(x) == Field(x, "isSupport") = Boolean(TRUE)
              IsActive(x) == ~IsSupport(x)
  <1>1. \A list : Ipc!MapItems(Ipc!toSkillGemRef, list) = MapItems(toSkillGemRef, list)
    BY SameGems, SameShapes DEF Ipc!MapItems, MapItems
  <1>. DEFINE igems == Ipc!Or(Ipc!Field(g, "gems"), Ipc!Empty).items
  <1>2. igems = gems
    BY SameShapes DEF Ipc!Empty
  <1>. DEFINE all == {gems[i] : i \in DOMAIN gems}
              iall == {igems[i] : i \in DOMAIN igems}
              sup == {x \in all : Field(x, "isSupport") = Boolean(TRUE)}
              act == {x \in all : ~(Field(x, "isSupport") = Boolean(TRUE))}
              isup == {x \in iall : Ipc!Field(x, "isSupport") = Ipc!Boolean(TRUE)}
              iact == {x \in iall : ~(Ipc!Field(x, "isSupport") = Ipc!Boolean(TRUE))}
  <1>4. Ipc!Kept(igems, isup) = Kept(gems, sup) /\ Ipc!Kept(igems, iact) = Kept(gems, act)
    <2>1. isup = sup /\ iact = act
      <3>1. iall = all
        BY <1>2
      <3>2. \A x : (Ipc!Field(x, "isSupport") = Ipc!Boolean(TRUE)) <=> (Field(x, "isSupport") = Boolean(TRUE))
        BY SameShapes
      <3>. HIDE DEF iall, all
      <3>. QED BY <3>1, <3>2
    <2>2. \A list, keep : Ipc!Kept(list, keep) = Kept(list, keep)
      BY DEF Ipc!Kept, Kept, Ipc!KeptUpTo, KeptUpTo
    <2>. HIDE DEF isup, iact, sup, act, gems, igems
    <2>. QED BY <1>2, <2>1, <2>2
  <1>5. toSkillGroupCard(g) =
          Object([groupId |-> StringOr(Field(g, "groupId"), String("")),
                  label |-> StringOr(Field(g, "label"), String("")),
                  enabled |-> IsTrue(Field(g, "enabled")),
                  spirit |-> NumberOr(Field(Field(g, "spirit"), "reserved"), Number(0)),
                  reservation |-> NumberOr(Field(Field(Field(g, "reservation"), "mana"), "reserved"), Number(0)),
                  gems |-> MapItems(toSkillGemRef, Array(gems)),
                  activeGems |-> MapItems(toSkillGemRef, Array(Kept(gems, act))),
                  supportGems |-> MapItems(toSkillGemRef, Array(Kept(gems, sup)))])
    BY GroupCard
  <1>6. Ipc!toSkillGroupCard(g) =
          Ipc!Object([groupId |-> Ipc!StringOr(Ipc!Field(g, "groupId"), Ipc!String("")),
                  label |-> Ipc!StringOr(Ipc!Field(g, "label"), Ipc!String("")),
                  enabled |-> Ipc!IsTrue(Ipc!Field(g, "enabled")),
                  spirit |-> Ipc!NumberOr(Ipc!Field(Ipc!Field(g, "spirit"), "reserved"), Ipc!Number(0)),
                  reservation |-> Ipc!NumberOr(Ipc!Field(Ipc!Field(Ipc!Field(g, "reservation"), "mana"), "reserved"), Ipc!Number(0)),
                  gems |-> Ipc!MapItems(Ipc!toSkillGemRef, Ipc!Array(igems)),
                  activeGems |-> Ipc!MapItems(Ipc!toSkillGemRef, Ipc!Array(Kept(gems, act))),
                  supportGems |-> Ipc!MapItems(Ipc!toSkillGemRef, Ipc!Array(Kept(gems, sup)))])
    <2>1. Ipc!toSkillGroupCard(g) =
          Ipc!Object([groupId |-> Ipc!StringOr(Ipc!Field(g, "groupId"), Ipc!String("")),
                  label |-> Ipc!StringOr(Ipc!Field(g, "label"), Ipc!String("")),
                  enabled |-> Ipc!IsTrue(Ipc!Field(g, "enabled")),
                  spirit |-> Ipc!NumberOr(Ipc!Field(Ipc!Field(g, "spirit"), "reserved"), Ipc!Number(0)),
                  reservation |-> Ipc!NumberOr(Ipc!Field(Ipc!Field(Ipc!Field(g, "reservation"), "mana"), "reserved"), Ipc!Number(0)),
                  gems |-> Ipc!MapItems(Ipc!toSkillGemRef, Ipc!Array(igems)),
                  activeGems |-> Ipc!MapItems(Ipc!toSkillGemRef, Ipc!Array(Ipc!Kept(igems, iact))),
                  supportGems |-> Ipc!MapItems(Ipc!toSkillGemRef, Ipc!Array(Ipc!Kept(igems, isup)))])
      BY DEF Ipc!toSkillGroupCard, Ipc!Filter
    <2>. HIDE DEF act, sup, gems, igems, isup, iact
    <2>. QED BY <1>4, <2>1
  <1>7. Ipc!toSkillGroupCard(g) =
          Ipc!Object([groupId |-> StringOr(Field(g, "groupId"), String("")),
                  label |-> StringOr(Field(g, "label"), String("")),
                  enabled |-> IsTrue(Field(g, "enabled")),
                  spirit |-> NumberOr(Field(Field(g, "spirit"), "reserved"), Number(0)),
                  reservation |-> NumberOr(Field(Field(Field(g, "reservation"), "mana"), "reserved"), Number(0)),
                  gems |-> MapItems(toSkillGemRef, Array(gems)),
                  activeGems |-> MapItems(toSkillGemRef, Array(Kept(gems, act))),
                  supportGems |-> MapItems(toSkillGemRef, Array(Kept(gems, sup)))])
    <2>. HIDE DEF act, sup, gems, igems
    <2>1. \A list : Ipc!MapItems(Ipc!toSkillGemRef, Ipc!Array(list)) = MapItems(toSkillGemRef, Array(list))
      BY <1>1, SameShapes
    <2>. QED BY <1>2, <1>6, <2>1, SameShapes
  <1>. QED BY <1>5, <1>7, SameShapes

(* The lists of these cards, *)
LEMMA SameLists ==
  ASSUME NEW list
  PROVE  /\ Ipc!MapItems(Ipc!toSkillGroupCard, list) = MapItems(toSkillGroupCard, list)
         /\ Ipc!MapItems(Ipc!toConfigOptionCard, list) = MapItems(toConfigOptionCard, list)
         /\ Ipc!MapItems(Ipc!toExplainSource, list) = MapItems(toExplainSource, list)
  BY SameGroups, SameOptions, SameSources, SameShapes DEF Ipc!MapItems, MapItems

(* the tree, *)
LEMMA SameTrees == \A r : Ipc!getTreeData(r) = getTreeData(r)
  BY SameShapes DEF Ipc!getTreeData, getTreeData, Ipc!Empty

(* and the explanation of a stat. *)
LEMMA SameExplains == \A r, id : Ipc!assembleExplain(r, id) = assembleExplain(r, id)
  BY SameLists, SameShapes DEF Ipc!assembleExplain, assembleExplain, Ipc!Empty

-----------------------------------------------------------------------------
(* Reading an object: a field it has, one it has not, one taken away. *)
LEMMA Fields ==
  /\ \A f : Object(f).is = "object" /\ Object(f).fields = f
  /\ \A f, n : n \in DOMAIN f => Field(Object(f), n) = f[n]
  /\ \A f, n : n \notin DOMAIN f => Field(Object(f), n) = Undefined
  /\ \A v, n : Without(v, n).is = "object" /\ DOMAIN Without(v, n).fields = DOMAIN v.fields \ {n}
  /\ \A v, n : Field(Without(v, n), n) = Undefined
  /\ \A v, n, k : v.is = "object" /\ k # n => Field(Without(v, n), k) = Field(v, k)
  BY DEF Object, Field, Without

(* The kinds of JSON values, and which of them a default replaces. *)
LEMMA Kinds ==
  /\ Undefined.is = "undefined" /\ Null.is = "null"
  /\ \A x : /\ String(x).is = "string" /\ String(x).text = x
            /\ Number(x).is = "number" /\ Boolean(x).is = "boolean"
            /\ Array(x).is = "array" /\ Array(x).items = x
  /\ \A v : v.is \notin {"undefined", "null"} => \A d : Or(v, d) = v
  /\ \A v : Text(v) => v # Undefined
  /\ \A v : Num(v) => v # Undefined
  /\ \A v : v \in texts => Text(v)
  BY DEF Undefined, Null, String, Number, Boolean, Array, Or, Text, Num, texts

(* A caller's arguments fit the request type and the request schema. *)
LEMMA RequestsAreValid ==
  ASSUME NEW m \in MvpMethod, NEW a \in Args(m)
  PROVE  validRequest(m, Request(m, a)) /\ CoreRequestMap(m, Request(m, a))
  <1>. DEFINE q == Request(m, a)
  <1>1. CASE m = "build.load"
    <2>1. PICK x \in texts : a = Object([xml |-> x])
      BY <1>1 DEF Args, loadArgs
    <2>2. q = Object([source |-> x, format |-> String("xml")])
      BY <1>1, <2>1, Fields DEF Request
    <2>3. /\ q.is = "object" /\ DOMAIN q.fields = {"source", "format"}
          /\ Field(q, "source") = x /\ Field(q, "format") = String("xml")
      BY <2>2, Fields
    <2>. HIDE DEF q
    <2>4. buildLoadRequestSchema(q)
      BY <2>3, Kinds DEF buildLoadRequestSchema, Strict, Interface, Each, formatSchema, OneOf
    <2>. QED BY <1>1, <2>4 DEF validRequest, buildLoadRequestSchema, CoreRequestMap, formatSchema,
                               CodecFormat, Strict, Each, q
  <1>2. CASE m = "build.save"
    <2>1. PICK x \in texts : a = Object([buildId |-> x])
      BY <1>2 DEF Args, buildArgs
    <2>2. q = Object([buildId |-> x, format |-> String("xml")])
      BY <1>2, <2>1, Fields DEF Request
    <2>3. /\ q.is = "object" /\ DOMAIN q.fields = {"buildId", "format"}
          /\ Field(q, "buildId") = x /\ Field(q, "format") = String("xml")
      BY <2>2, Fields
    <2>. HIDE DEF q
    <2>4. buildSaveRequestSchema(q)
      BY <2>3, Kinds DEF buildSaveRequestSchema, Strict, Interface, Each, formatSchema, OneOf
    <2>. QED BY <1>2, <2>4 DEF validRequest, buildSaveRequestSchema, CoreRequestMap, formatSchema,
                               CodecFormat, Strict, Each, q
  <1>3. CASE m \in {"calc.run", "items.getEquipped", "skills.getGroups", "config.getOptions", "tree.getData"}
    <2>1. PICK x \in texts : a = Object([buildId |-> x])
      BY <1>3 DEF Args, buildArgs
    <2>2. q = a
      BY <1>3 DEF Request
    <2>3. /\ q.is = "object" /\ DOMAIN q.fields = {"buildId"} /\ Field(q, "buildId") = x
          /\ Field(q, "options") = Undefined
      BY <2>1, <2>2, Fields
    <2>. HIDE DEF q
    <2>4. /\ calcRunRequestSchema(q) /\ itemsGetEquippedRequestSchema(q) /\ skillsGetGroupsRequestSchema(q)
          /\ configGetOptionsRequestSchema(q) /\ treeGetDataRequestSchema(q)
      BY <2>3, Kinds DEF calcRunRequestSchema, itemsGetEquippedRequestSchema, skillsGetGroupsRequestSchema,
            configGetOptionsRequestSchema, treeGetDataRequestSchema, Strict, Interface, Each
    <2>5. CoreRequestMap(m, q)
      BY <1>3, <2>3, Kinds DEF CoreRequestMap, Interface, Each
    <2>6. validRequest(m, q)
      BY <1>3, <2>4 DEF validRequest
    <2>. QED BY <2>5, <2>6 DEF q
  <1>4. CASE m = "calc.explain"
    <2>1. /\ a.is = "object" /\ DOMAIN a.fields \subseteq {"buildId", "statId", "activeSkillId"}
          /\ Field(a, "buildId") \in texts /\ Field(a, "statId") \in texts
          /\ Field(a, "activeSkillId") \in texts \cup {Undefined}
      <3>1. \/ \E b, s \in texts : a = Object([buildId |-> b, statId |-> s])
            \/ \E b, s, k \in texts : a = Object([buildId |-> b, statId |-> s, activeSkillId |-> k])
        <4>1. a \in statArgs \/ a \in skillStatArgs
          BY <1>4 DEF Args
        <4>2. a \in statArgs => \E b, s \in texts : a = Object([buildId |-> b, statId |-> s])
          BY DEF statArgs
        <4>3. a \in skillStatArgs =>
                \E b, s, k \in texts : a = Object([buildId |-> b, statId |-> s, activeSkillId |-> k])
          BY DEF skillStatArgs
        <4>. QED BY <4>1, <4>2, <4>3
      <3>2. CASE \E b, s \in texts : a = Object([buildId |-> b, statId |-> s])
        BY <3>2, Fields
      <3>3. CASE \E b, s, k \in texts : a = Object([buildId |-> b, statId |-> s, activeSkillId |-> k])
        BY <3>3, Fields
      <3>. QED BY <3>1, <3>2, <3>3
    <2>2. q = a \/ q = Without(a, "activeSkillId")
      BY <1>4 DEF Request
    <2>3. /\ q.is = "object" /\ DOMAIN q.fields \subseteq {"buildId", "statId", "activeSkillId"}
          /\ Field(q, "buildId") \in texts /\ Field(q, "statId") \in texts
          /\ Field(q, "activeSkillId") \in texts \cup {Undefined}
      BY <2>1, <2>2, Fields
    <2>. HIDE DEF q
    <2>4. calcExplainRequestSchema(q)
      BY <2>3, Kinds DEF calcExplainRequestSchema, Strict, Interface, Each
    <2>. QED BY <1>4, <2>4 DEF validRequest, calcExplainRequestSchema, CoreRequestMap, Strict, q
  <1>5. CASE m = "items.parseClipboard"
    <2>1. /\ a.is = "object" /\ DOMAIN a.fields \subseteq {"text", "localeHint"}
          /\ Field(a, "text") \in texts
          /\ Field(a, "localeHint") \in {String("ko-KR"), String("en-US"), Undefined}
      <3>1. \/ \E t \in texts : a = Object([text |-> t])
            \/ \E t \in texts, l \in {"ko-KR", "en-US"} : a = Object([text |-> t, localeHint |-> String(l)])
        <4>1. a \in parseArgs
          BY <1>5 DEF Args
        <4>. QED BY <4>1, SMTT(40) DEF parseArgs
      <3>2. CASE \E t \in texts : a = Object([text |-> t])
        BY <3>2, Fields
      <3>3. CASE \E t \in texts, l \in {"ko-KR", "en-US"} : a = Object([text |-> t, localeHint |-> String(l)])
        BY <3>3, Fields
      <3>. QED BY <3>1, <3>2, <3>3
    <2>2. q = a \/ q = Without(a, "localeHint")
      BY <1>5 DEF Request
    <2>3. /\ q.is = "object" /\ DOMAIN q.fields \subseteq {"text", "localeHint"}
          /\ Field(q, "text") \in texts
          /\ Field(q, "localeHint") \in {String("ko-KR"), String("en-US"), Undefined}
      BY <2>1, <2>2, Fields
    <2>. HIDE DEF q
    <2>4. itemsParseClipboardRequestSchema(q)
      BY <2>3, Kinds DEF itemsParseClipboardRequestSchema, Strict, Interface, Each, localeSchema, OneOf
    <2>. QED BY <1>5, <2>4 DEF validRequest, itemsParseClipboardRequestSchema, CoreRequestMap, Strict,
                               localeSchema, Locale, Each, q
  <1>6. CASE m = "items.createCustom"
    <2>0. a \in customArgs
      BY <1>6 DEF Args
    <2>1. PICK b, t \in texts : a = Object([baseId |-> b, mods |-> oneMod(t)])
      BY <2>0 DEF customArgs
    <2>2. q = a
      BY <1>6 DEF Request
    <2>. DEFINE card == Object([text |-> t])
                cards == oneMod(t)
    <2>3. card.is = "object" /\ DOMAIN card.fields = {"text"} /\ Field(card, "text") = t
          /\ Field(card, "statId") = Undefined
      BY Fields
    <2>. HIDE DEF card
    <2>4. itemModSchema(card)
      BY <2>3, Kinds DEF itemModSchema, Strict, Interface, Each
    <2>5. ItemModInput(card)
      BY <2>4 DEF itemModSchema, ItemModInput, Strict
    <2>6. itemModsSchema(cards) /\ ItemModInputs(cards) /\ cards # Undefined
      BY <2>4, <2>5, Kinds DEF itemModsSchema, ItemModInputs, ListOf, oneMod, card
    <2>. HIDE DEF cards
    <2>7. /\ q.is = "object" /\ DOMAIN q.fields = {"baseId", "mods"} /\ Field(q, "baseId") = b
          /\ Field(q, "mods") = cards
      BY <2>1, <2>2, Fields DEF cards
    <2>. HIDE DEF q
    <2>8. itemsCreateCustomRequestSchema(q)
      BY <2>6, <2>7, Kinds DEF itemsCreateCustomRequestSchema, Strict, Interface, Each
    <2>9. CoreRequestMap(m, q)
      BY <1>6, <2>6, <2>7, Kinds DEF CoreRequestMap, Interface, Each
    <2>. QED BY <1>6, <2>8, <2>9 DEF validRequest, q
  <1>7. CASE m = "items.compare"
    <2>0. a \in compareArgs
      BY <1>7 DEF Args
    <2>1. PICK b, i, s \in texts : a = Object([buildId |-> b, itemId |-> i, slot |-> s])
      BY <2>0 DEF compareArgs
    <2>2. q = a
      BY <1>7 DEF Request
    <2>3. /\ q.is = "object" /\ DOMAIN q.fields = {"buildId", "itemId", "slot"}
          /\ Field(q, "buildId") = b /\ Field(q, "itemId") = i /\ Field(q, "slot") = s
      BY <2>1, <2>2, Fields
    <2>. HIDE DEF q
    <2>4. itemsCompareRequestSchema(q)
      BY <2>3, Kinds DEF itemsCompareRequestSchema, Strict, Interface, Each
    <2>. QED BY <1>7, <2>4 DEF validRequest, itemsCompareRequestSchema, CoreRequestMap, Strict, q
  <1>8. CASE m \in {"tree.previewAllocate", "tree.applyAllocate"}
    <2>0. a \in allocateArgs
      BY <1>8 DEF Args
    <2>1. PICK b \in texts, list \in ArgNodes :
            a = Object([buildId |-> b, nodeIds |-> ids(list)])
      BY <2>0 DEF allocateArgs
    <2>2. q = a
      BY <1>8 DEF Request
    <2>3. NumList(ids(list)) /\ ids(list) # Undefined
      BY Kinds DEF NumList, ListOf, Num, ids
    <2>4. /\ q.is = "object" /\ DOMAIN q.fields = {"buildId", "nodeIds"} /\ Field(q, "buildId") = b
          /\ Field(q, "nodeIds") = ids(list)
      BY <2>1, <2>2, Fields
    <2>. HIDE DEF q
    <2>5. treePreviewAllocateRequestSchema(q)
      BY <2>3, <2>4, Kinds DEF treePreviewAllocateRequestSchema, Strict, Interface, Each, nodeIdListSchema, NumList
    <2>6. CoreRequestMap(m, q)
      BY <1>8, <2>3, <2>4, Kinds DEF CoreRequestMap, Interface, Each
    <2>. QED BY <1>8, <2>5, <2>6 DEF validRequest, treeApplyAllocateRequestSchema, q
  <1>. QED BY <1>1, <1>2, <1>3, <1>4, <1>5, <1>6, <1>7, <1>8 DEF MvpMethod

-----------------------------------------------------------------------------
(* One call and one reply, through both clients. *)
LEMMA Settled ==
  /\ \A v : Resolved(v).ok = TRUE /\ Resolved(v).value = v
  /\ \A c : Rejected(c).ok = FALSE /\ Rejected(c).code = c
  BY DEF Resolved, Rejected

(* A reply is an error, or a result the runner serialized. *)
LEMMA RepliesAre ==
  ASSUME NEW m \in Methods, NEW reply \in Replies(m)
  PROVE  \/ "error" \in DOMAIN reply
         \/ /\ "error" \notin DOMAIN reply /\ m # "items.createCustom"
            /\ reply.result \in RunnerResults[m] /\ Serialized(m, reply.result, FALSE)
  <1>1. CASE m = "items.createCustom"
    BY <1>1 DEF Replies
  <1>2. CASE m # "items.createCustom"
    <2>1. \/ \E e \in RunnerErrors : reply = [error |-> e]
          \/ \E r \in RunnerResults[m] : reply = [result |-> r]
      BY <1>2 DEF Replies
    <2>2. CASE \E e \in RunnerErrors : reply = [error |-> e]
      BY <2>2
    <2>3. CASE \E r \in RunnerResults[m] : reply = [result |-> r]
      <3>1. PICK r \in RunnerResults[m] : reply = [result |-> r]
        BY <2>3
      <3>2. Serialized(m, r, FALSE)
        BY <1>2, RunnerAssumption
      <3>3. "error" \notin DOMAIN reply /\ reply.result = r
        BY <3>1
      <3>. QED BY <1>2, <3>2, <3>3
    <2>. QED BY <2>1, <2>2, <2>3
  <1>. QED BY <1>1, <1>2

(* The request is always admitted, so the reply decides. *)
LEMMA Requested ==
  ASSUME NEW m \in MvpMethod, NEW a \in Args(m), NEW reply
  PROVE  /\ "error" \in DOMAIN reply => Answer(m, a, reply) = Rejected(rpcErrorToCode(reply.error))
         /\ "error" \notin DOMAIN reply =>
              LET v == assemble(m, a, reply.result)
              IN /\ ~validResponse(m, v) => ~Answer(m, a, reply).ok
                 /\ validResponse(m, v) =>
                      Answer(m, a, reply) = IF m = "build.load" THEN load(v) ELSE Resolved(v)
  <1>1. Answer(m, a, reply) = request(m, a, reply)
    BY DEF Answer, MvpMethod
  <1>2. validRequest(m, Request(m, a))
    BY RequestsAreValid
  <1>. QED BY <1>1, <1>2, Settled DEF request

(* The same value, read back by two separate pieces of code. *)
LEMMA SameResults ==
  ASSUME NEW m \in MvpMethod \ {"items.parseClipboard", "items.createCustom"}, NEW a, NEW r,
         validResponse(m, assemble(m, a, r))
  PROVE  Ipc!Result(m, a, r) =
           IF m = "build.load" THEN load(assemble(m, a, r)) ELSE Resolved(assemble(m, a, r))
  <1>. DEFINE v == assemble(m, a, r)
  <1>1. CASE m = "build.load"
    BY <1>1, SameShapes
    DEF Ipc!Result, Ipc!BuildResult, Ipc!Requiring, assemble, assembleBuild, load
  <1>2. CASE m = "build.save"
    <2>1. v = Object([format |-> String("xml"), data |-> Field(r, "xml")])
      BY <1>2 DEF assemble, assembleBuild
    <2>2. Field(v, "data") = Field(r, "xml")
      BY <2>1, Fields
    <2>3. buildSaveResponseSchema(v)
      BY <1>2 DEF validResponse
    <2>4. Field(r, "xml").is = "string"
      BY <2>2, <2>3 DEF buildSaveResponseSchema, Strict, Interface, Each, Text
    <2>. QED BY <1>2, <2>1, <2>4, SameShapes DEF Ipc!Result, Ipc!BuildResult, Ipc!Requiring
  <1>3. CASE m = "calc.run"
    <2>1. v = Object([buildId |-> Field(a, "buildId"), stats |-> Field(r, "stats")])
      BY <1>3 DEF assemble, assembleBuild
    <2>2. Field(v, "stats") = Field(r, "stats")
      BY <2>1, Fields
    <2>3. calcRunResponseSchema(v)
      BY <1>3 DEF validResponse
    <2>4. Field(r, "stats").is = "array"
      BY <2>2, <2>3 DEF calcRunResponseSchema, Strict, Interface, Each, statsSchema, ListOf
    <2>5. Or(Field(r, "stats"), Ipc!Empty) = Field(r, "stats")
      BY <2>4, Kinds
    <2>. QED BY <1>3, <2>1, <2>5, SameShapes DEF Ipc!Result, Ipc!BuildResult
  <1>4. CASE m \in {"items.getEquipped", "items.compare"}
    BY <1>4, SameShapes DEF Ipc!Result, Ipc!ItemsResult, Ipc!Empty, assemble, assembleItems, ListField
  <1>5. CASE m \in {"skills.getGroups", "config.getOptions"}
    BY <1>5, SameLists, SameShapes
    DEF Ipc!Result, Ipc!SkillsConfigResult, Ipc!Empty, assemble, getSkillGroups, getConfigOptions, ListField
  <1>6. CASE m = "calc.explain"
    BY <1>6, SameExplains, SameShapes DEF Ipc!Result, assemble, explainStat
  <1>7. CASE m \in {"tree.getData", "tree.previewAllocate", "tree.applyAllocate"}
    BY <1>7, SameTrees, SameShapes
    DEF Ipc!Result, Ipc!TreeResult, Ipc!Empty, assemble, previewAllocate, applyAllocate, ListField
  <1>. QED BY <1>1, <1>2, <1>3, <1>4, <1>5, <1>6, <1>7 DEF MvpMethod

(* Both clients send the same parameters. *)
LEMMA SameRequests ==
  ASSUME NEW m \in MvpMethod \ {"items.parseClipboard"}, NEW a \in Args(m)
  PROVE  Ipc!Sent(m, a) = Sent(m, a)
  <1>1. CASE m = "build.load"
    <2>1. PICK x \in texts : a = Object([xml |-> x])
      BY <1>1 DEF Args, loadArgs
    <2>. QED BY <1>1, <2>1, Fields DEF Ipc!Sent, Sent, wire, Request, Acknowledges
  <1>2. CASE m = "build.save"
    <2>1. PICK x \in texts : a = Object([buildId |-> x])
      BY <1>2 DEF Args, buildArgs
    <2>. DEFINE f == [buildId |-> x, format |-> String("xml")]
    <2>2. Sent(m, a) = Without(Object(f), "format")
      BY <1>2, <2>1, Fields DEF Sent, wire, Request, Acknowledges
    <2>3. [n \in DOMAIN f \ {"format"} |-> f[n]] = [buildId |-> x]
      OBVIOUS
    <2>4. Sent(m, a) = Object([buildId |-> x])
      BY <2>2, <2>3, Fields DEF Without
    <2>. QED BY <1>2, <2>1, <2>4 DEF Ipc!Sent
  <1>3. CASE m = "calc.explain"
    BY <1>3, SameShapes DEF Ipc!Sent, Sent, wire, Request, Acknowledges
  <1>4. CASE m \notin {"build.load", "build.save", "calc.explain"}
    BY <1>4, SameShapes DEF Ipc!Sent, Sent, wire, Request, Acknowledges
  <1>. QED BY <1>1, <1>2, <1>3, <1>4

(* The acknowledgement of a write, read by hand in both clients. *)
LEMMA SameWrites ==
  ASSUME NEW m \in DOMAIN Acknowledges, NEW a, NEW reply, Answer(m, a, reply).ok
  PROVE  "error" \notin DOMAIN reply /\ Ipc!Answer(m, a, reply) = Answer(m, a, reply)
  <1>. DEFINE ack == Acknowledges[m]
  <1>1. /\ \/ m = "skills.setGemGroup" /\ ack = "groupId"
           \/ m = "config.setOption" /\ ack = "optionId"
        /\ Answer(m, a, reply) = setThrough(m, a, reply)
    BY DEF Acknowledges, Answer, setGemGroup, setConfigOption
  <1>2. /\ "error" \notin DOMAIN reply /\ Field(reply.result, ack).is = "string"
        /\ Answer(m, a, reply) = Resolved(Object([n \in {ack} |-> Field(reply.result, n)]))
    <2>. HIDE DEF ack
    <2>. QED BY <1>1, Settled DEF setThrough, ack
  <1>3. /\ ack = "groupId" => [n \in {ack} |-> Field(reply.result, n)] = [groupId |-> Field(reply.result, "groupId")]
        /\ ack = "optionId" => [n \in {ack} |-> Field(reply.result, n)] = [optionId |-> Field(reply.result, "optionId")]
    <2>. HIDE DEF ack
    <2>. QED OBVIOUS
  <1>4. Ipc!Answer(m, a, reply) = Ipc!SkillsConfigResult(m, reply.result)
    BY <1>1, <1>2 DEF Ipc!Answer, Ipc!Result
  <1>. HIDE DEF ack
  <1>5. Ipc!SkillsConfigResult(m, reply.result) = Answer(m, a, reply)
    BY <1>1, <1>2, <1>3, SameShapes DEF Ipc!SkillsConfigResult, Ipc!Requiring
  <1>. QED BY <1>2, <1>4, <1>5

(* A failed write, once its ids were there, has the code of the reply. *)
LEMMA WritesFail ==
  ASSUME NEW m \in DOMAIN Acknowledges, NEW a, NEW reply, "error" \in DOMAIN reply
  PROVE  /\ ~Answer(m, a, reply).ok
         /\ Truthy(Field(a, "buildId")) /\ Truthy(Field(a, Acknowledges[m])) =>
              Answer(m, a, reply) = Rejected(rpcErrorToCode(reply.error))
  <1>1. Answer(m, a, reply) = setThrough(m, a, reply)
    BY DEF Acknowledges, Answer, setGemGroup, setConfigOption
  <1>. HIDE DEF Acknowledges
  <1>. QED BY <1>1, Settled DEF setThrough

(* What ClientsAgree says, of one call. *)
LEMMA AgreementOfACall ==
  ASSUME NEW m \in Methods \ {"items.parseClipboard"}, NEW a \in Args(m), NEW reply \in Replies(m)
  PROVE  /\ Answer(m, a, reply).ok =>
              Ipc!Answer(m, a, reply) = Answer(m, a, reply) /\ Ipc!Sent(m, a) = Sent(m, a)
         /\ "error" \in DOMAIN reply => ~Answer(m, a, reply).ok /\ ~Ipc!Answer(m, a, reply).ok
         /\ "error" \in DOMAIN reply
            /\ (m \in DOMAIN Acknowledges =>
                  Truthy(Field(a, "buildId")) /\ Truthy(Field(a, Acknowledges[m]))) =>
              Answer(m, a, reply).code = Ipc!Answer(m, a, reply).code
  <1>1. CASE "error" \in DOMAIN reply
    <2>1. Ipc!Answer(m, a, reply) = Rejected(rpcErrorToCode(reply.error))
      BY <1>1, SameShapes, SameCodes DEF Ipc!Answer
    <2>2. CASE m \in MvpMethod
      <3>1. Answer(m, a, reply) = Rejected(rpcErrorToCode(reply.error))
        BY <1>1, <2>2, Requested
      <3>. QED BY <2>1, <3>1, Settled
    <2>3. CASE m \in DOMAIN Acknowledges
      BY <1>1, <2>1, <2>3, WritesFail, Settled
    <2>. QED BY <2>2, <2>3 DEF Methods
  <1>2. CASE "error" \notin DOMAIN reply
    <2>1. CASE m \in MvpMethod
      <3>1. m # "items.createCustom"
        BY <1>2, RepliesAre
      <3>2. Ipc!Answer(m, a, reply) = Ipc!Result(m, a, reply.result)
        BY <1>2 DEF Ipc!Answer
      <3>3. Ipc!Sent(m, a) = Sent(m, a)
        BY <2>1, SameRequests
      <3>. SUFFICES ASSUME Answer(m, a, reply).ok
                    PROVE  Ipc!Answer(m, a, reply) = Answer(m, a, reply)
        BY <1>2, <3>3
      <3>4. validResponse(m, assemble(m, a, reply.result))
        BY <1>2, <2>1, Requested
      <3>5. Ipc!Result(m, a, reply.result) =
              IF m = "build.load" THEN load(assemble(m, a, reply.result))
              ELSE Resolved(assemble(m, a, reply.result))
        BY <2>1, <3>1, <3>4, SameResults
      <3>. QED BY <1>2, <2>1, <3>2, <3>4, <3>5, Requested
    <2>2. CASE m \in DOMAIN Acknowledges
      <3>1. m \notin {"calc.explain", "items.parseClipboard"}
        BY <2>2 DEF Acknowledges
      <3>2. Ipc!Sent(m, a) = Sent(m, a)
        BY <2>2, <3>1 DEF Ipc!Sent, Sent
      <3>. QED BY <1>2, <2>2, <3>2, SameWrites
    <2>. QED BY <2>1, <2>2 DEF Methods
  <1>. QED BY <1>1, <1>2

(* A call through both clients is all the state there is. *)
ExchangeInv ==
  \/ exchange.method = "none"
  \/ \E m \in Methods : \E a \in Args(m), reply \in Replies(m) :
       exchange = [method |-> m, args |-> a, reply |-> reply,
                   node |-> Answer(m, a, reply), ipc |-> Ipc!Answer(m, a, reply)]

(* Every reachable state is one call through both clients: the invariant the    *)
(* theorems below are read off.                                                 *)
THEOREM ExchangesAreCalls == ClientsSpec => []ExchangeInv
  <1>1. ClientsInit => ExchangeInv
    BY DEF ClientsInit, ExchangeInv
  <1>2. ExchangeInv /\ [ClientsNext]_exchange => ExchangeInv'
    BY DEF ExchangeInv, ClientsNext, Exchange
  <1>. QED BY <1>1, <1>2, PTL DEF ClientsSpec

(* The call a state is. *)
LEMMA ACall ==
  ASSUME ExchangeInv, Done
  PROVE  \E m \in Methods : \E a \in Args(m), reply \in Replies(m) :
           /\ exchange.method = m /\ exchange.args = a /\ exchange.reply = reply
           /\ exchange.node = Answer(m, a, reply) /\ exchange.ipc = Ipc!Answer(m, a, reply)
  BY DEF ExchangeInv, Done

(* When the Node client resolves, the desktop client resolves to the same       *)
(* value, and both fail with the same code, whatever the runner answers.        *)
THEOREM TheClientsAgree == ClientsSpec => []ClientsAgree
  <1>1. ExchangeInv => ClientsAgree
    <2>. SUFFICES ASSUME ExchangeInv, Done, exchange.method # "items.parseClipboard"
                  PROVE  /\ exchange.node.ok =>
                              /\ exchange.ipc = exchange.node
                              /\ Ipc!Sent(exchange.method, exchange.args) = Sent(exchange.method, exchange.args)
                         /\ Failed => ~exchange.node.ok /\ ~exchange.ipc.ok
                         /\ Failed /\ Identified => exchange.node.code = exchange.ipc.code
      BY DEF ClientsAgree
    <2>0. PICK m \in Methods : \E a \in Args(m), reply \in Replies(m) :
            /\ exchange.method = m /\ exchange.args = a /\ exchange.reply = reply
            /\ exchange.node = Answer(m, a, reply) /\ exchange.ipc = Ipc!Answer(m, a, reply)
      BY ACall, Zenon
    <2>1. PICK a \in Args(m), reply \in Replies(m) :
            /\ exchange.method = m /\ exchange.args = a /\ exchange.reply = reply
            /\ exchange.node = Answer(m, a, reply) /\ exchange.ipc = Ipc!Answer(m, a, reply)
      BY <2>0, Zenon
    <2>2. m # "items.parseClipboard"
      BY <2>1
    <2>. QED BY <2>1, <2>2, AgreementOfACall DEF Failed, Identified
  <1>. QED BY <1>1, ExchangesAreCalls, PTL

-----------------------------------------------------------------------------
(* The two responses whose schema says less than their type. *)
LEMMA LoadedHasItsType ==
  ASSUME NEW v, buildLoadResponseSchema(v)
  PROVE  load(v).ok /\ CoreResponseMap("build.load", load(v).value)
  <1>. DEFINE summary == Or(Field(v, "summary"), Object(<<>>))
              w == Object([buildId |-> Field(v, "buildId"), summary |-> summary])
  <1>1. Field(v, "buildId").is = "string"
    BY DEF buildLoadResponseSchema, Strict, Interface, Each, Text
  <1>2. load(v) = Resolved(w)
    BY <1>1 DEF load
  <1>3. BuildSummary(summary)
    <2>1. CASE Field(v, "summary") = Undefined
      <3>1. summary = Object(<<>>)
        BY <2>1 DEF Or
      <3>2. \A n \in {"className", "ascendancyName", "level", "itemCount"} : Field(Object(<<>>), n) = Undefined
        BY Fields
      <3>. HIDE DEF summary
      <3>. QED BY <3>1, <3>2, Fields DEF BuildSummary, Interface, Each
    <2>2. CASE Field(v, "summary") # Undefined
      <3>1. buildSummarySchema(Field(v, "summary"))
        BY <2>2 DEF buildLoadResponseSchema, Each
      <3>2. Field(v, "summary").is = "object"
        BY <3>1 DEF buildSummarySchema, Interface
      <3>3. summary = Field(v, "summary")
        BY <3>2, Kinds
      <3>. QED BY <3>1, <3>3 DEF buildSummarySchema, BuildSummary
    <2>. QED BY <2>1, <2>2
  <1>4. summary # Undefined
    BY <1>3, Kinds DEF BuildSummary, Interface
  <1>5. w.is = "object" /\ Field(w, "buildId") = Field(v, "buildId") /\ Field(w, "summary") = summary
    BY Fields
  <1>. HIDE DEF summary, w
  <1>6. CoreResponseMap("build.load", w)
    BY <1>1, <1>3, <1>4, <1>5, Kinds DEF CoreResponseMap, Interface, Each, Text
  <1>. QED BY <1>2, <1>6, Settled

(* A tree's classes: the schema only asks for an object, the runner has numbers. *)
LEMMA TreeHasItsType ==
  ASSUME NEW r, Serialized("tree.getData", r, FALSE), validResponse("tree.getData", getTreeData(r))
  PROVE  CoreResponseMap("tree.getData", getTreeData(r))
  <1>. DEFINE v == getTreeData(r)
              c == Field(r, "constants")
  <1>1. serializeConstants(c, FALSE)
    BY DEF Serialized
  <1>2. c.is = "object"
    BY <1>1 DEF serializeConstants, Strict, Interface
  <1>3. Field(v, "constants") = c
    <2>1. Or(c, Object([classes |-> Object(<<>>), orbitAnglesByOrbit |-> Array(<<>>),
                        orbitRadii |-> Array(<<>>), skillsPerOrbit |-> Array(<<>>)])) = c
      BY <1>2, Kinds
    <2>. DEFINE f == [treeVersion |-> StringOr(Field(r, "treeVersion"), String("")),
                      nodes |-> Or(Field(r, "nodes"), Array(<<>>)),
                      groups |-> Or(Field(r, "groups"), Array(<<>>)),
                      constants |-> Or(Field(r, "constants"),
                                       Object([classes |-> Object(<<>>), orbitAnglesByOrbit |-> Array(<<>>),
                                               orbitRadii |-> Array(<<>>), skillsPerOrbit |-> Array(<<>>)])),
                      allocatedNodeIds |-> Or(Field(r, "allocatedNodeIds"), Array(<<>>))]
    <2>2. v = Object(f)
      BY DEF getTreeData
    <2>3. f["constants"] = c /\ "constants" \in DOMAIN f
      BY <2>1
    <2>. HIDE DEF c, f, v
    <2>. QED BY <2>2, <2>3, Fields
  <1>. HIDE DEF v
  <1>4. treeGetDataResponseSchema(v)
    BY DEF validResponse, v
  <1>5. treeConstantsSchema(c)
    <2>1. c # Undefined
      BY <1>2, Kinds
    <2>. QED BY <1>3, <1>4, <2>1 DEF treeGetDataResponseSchema, Each
  <1>6. Classes(Field(c, "classes"))
    <2>1. Field(c, "classes").is = "object"
      BY <1>5 DEF treeConstantsSchema, Interface, Each, classesSchema
    <2>2. ~Empty(Field(c, "classes"))
      BY <2>1, Kinds DEF Empty
    <2>. QED BY <1>1, <2>2 DEF serializeConstants
  <1>7. TreeConstants(c)
    BY <1>5, <1>6 DEF TreeConstants, treeConstantsSchema, Interface, Each
  <1>8. \A w : /\ treeNodesSchema(w) => TreeNodes(w)
               /\ treeGroupsSchema(w) => TreeGroups(w)
               /\ nodeIdListSchema(w) => NumList(w)
    BY NodeTypes DEF treeNodesSchema, TreeNodes, treeGroupsSchema, TreeGroups, nodeIdListSchema, NumList, ListOf
  <1>9. CoreResponseMap("tree.getData", v)
    BY <1>3, <1>4, <1>7, <1>8 DEF treeGetDataResponseSchema, CoreResponseMap, Strict, Each
  <1>. QED BY <1>9 DEF v

(* The casts of CoreClient are right: what a call resolves to inhabits the      *)
(* response type it is declared to have, in whatever the runner left out and    *)
(* whichever of its figures was not finite.                                     *)
THEOREM CallsResolveToTheirType == ClientsSpec => []ResolvesToItsType
  <1>1. ASSUME NEW m \in MvpMethod, NEW a \in Args(m), NEW reply \in Replies(m), Answer(m, a, reply).ok
        PROVE  CoreResponseMap(m, Answer(m, a, reply).value)
    <2>. DEFINE v == assemble(m, a, reply.result)
    <2>1. "error" \notin DOMAIN reply
      BY <1>1, Requested, Settled
    <2>2. Serialized(m, reply.result, FALSE)
      BY <2>1, RepliesAre DEF Methods
    <2>3. validResponse(m, v)
      BY <1>1, <2>1, Requested
    <2>4. Answer(m, a, reply) = IF m = "build.load" THEN load(v) ELSE Resolved(v)
      BY <2>1, <2>3, Requested
    <2>5. CASE m = "build.load"
      <3>1. buildLoadResponseSchema(v)
        BY <2>3, <2>5 DEF validResponse
      <3>. QED BY <2>4, <2>5, <3>1, LoadedHasItsType
    <2>6. CASE m = "tree.getData"
      <3>1. v = getTreeData(reply.result)
        BY <2>6 DEF assemble
      <3>2. CoreResponseMap("tree.getData", v)
        BY <2>2, <2>3, <2>6, <3>1, TreeHasItsType
      <3>. QED BY <2>4, <2>6, <3>2, Settled
    <2>7. CASE m \notin {"build.load", "tree.getData"}
      <3>1. CoreResponseMap(m, v)
        BY <2>3, <2>7, ResponsesHaveTheirType
      <3>. QED BY <2>4, <2>7, <3>1, Settled
    <2>. QED BY <2>5, <2>6, <2>7
  <1>2. ExchangeInv => ResolvesToItsType
    <2>. SUFFICES ASSUME ExchangeInv, Done, exchange.method \in MvpMethod, exchange.node.ok
                  PROVE  CoreResponseMap(exchange.method, exchange.node.value)
      BY DEF ResolvesToItsType
    <2>0. PICK m \in Methods : \E a \in Args(m), reply \in Replies(m) :
            /\ exchange.method = m /\ exchange.args = a /\ exchange.reply = reply
            /\ exchange.node = Answer(m, a, reply) /\ exchange.ipc = Ipc!Answer(m, a, reply)
      BY ACall, Zenon
    <2>1. PICK a \in Args(m), reply \in Replies(m) :
            /\ exchange.method = m /\ exchange.args = a /\ exchange.reply = reply
            /\ exchange.node = Answer(m, a, reply) /\ exchange.ipc = Ipc!Answer(m, a, reply)
      BY <2>0, Zenon
    <2>. QED BY <1>1, <2>1
  <1>. QED BY <1>2, ExchangesAreCalls, PTL

-----------------------------------------------------------------------------
(* What the assemblers make always fits; what is passed on fits when it was whole. *)
LEMMA GemsFit == \A list : gemListSchema(MapItems(toSkillGemRef, list)) /\ MapItems(toSkillGemRef, list) # Undefined
  <1>1. ASSUME NEW g
        PROVE  skillGemRefSchema(toSkillGemRef(g))
    <2>. DEFINE f == [gemId |-> StringOr(Field(g, "gemId"), String("")),
                      name |-> StringOr(Field(g, "nameSpec"), String("")),
                      level |-> NumberOr(Field(g, "level"), Number(0)),
                      quality |-> NumberOr(Field(g, "quality"), Number(0)),
                      enabled |-> IsTrue(Field(g, "enabled"))]
                v == Object(f)
    <2>0. /\ DOMAIN f = {"gemId", "name", "level", "quality", "enabled"}
          /\ Text(f.gemId) /\ Text(f.name) /\ Num(f.level) /\ Num(f.quality) /\ Bool(f.enabled)
      BY Kinds DEF Text, Num, Bool, StringOr, NumberOr, IsTrue
    <2>. HIDE DEF f
    <2>1. /\ v.is = "object" /\ DOMAIN v.fields = {"gemId", "name", "level", "quality", "enabled"}
          /\ Text(Field(v, "gemId")) /\ Text(Field(v, "name")) /\ Num(Field(v, "level"))
          /\ Num(Field(v, "quality")) /\ Bool(Field(v, "enabled"))
      BY <2>0, Fields
    <2>2. toSkillGemRef(g) = v
      BY DEF toSkillGemRef, f
    <2>. HIDE DEF v
    <2>. QED BY <2>1, <2>2, Kinds DEF skillGemRefSchema, Strict, Interface, Each, Bool
  <1>. QED BY <1>1, Kinds DEF MapItems, gemListSchema, ListOf

(* A list of skill groups fits, whatever the groups were. *)
LEMMA GroupsFit == \A list : groupsSchema(MapItems(toSkillGroupCard, list)) /\ MapItems(toSkillGroupCard, list) # Undefined
  <1>1. ASSUME NEW g
        PROVE  skillGroupCardSchema(toSkillGroupCard(g))
    <2>. DEFINE list == Or(Field(g, "gems"), Array(<<>>)).items
                all == {list[i] : i \in DOMAIN list}
                sup == Kept(list, {x \in all : Field(x, "isSupport") = Boolean(TRUE)})
                act == Kept(list, {x \in all : ~(Field(x, "isSupport") = Boolean(TRUE))})
                f == [groupId |-> StringOr(Field(g, "groupId"), String("")),
                      label |-> StringOr(Field(g, "label"), String("")),
                      enabled |-> IsTrue(Field(g, "enabled")),
                      spirit |-> NumberOr(Field(Field(g, "spirit"), "reserved"), Number(0)),
                      reservation |-> NumberOr(Field(Field(Field(g, "reservation"), "mana"), "reserved"), Number(0)),
                      gems |-> MapItems(toSkillGemRef, Array(list)),
                      activeGems |-> MapItems(toSkillGemRef, Array(act)),
                      supportGems |-> MapItems(toSkillGemRef, Array(sup))]
                v == Object(f)
    <2>1. toSkillGroupCard(g) = v
      BY GroupCard
    <2>. HIDE DEF list, sup, act
    <2>2. /\ DOMAIN f = {"groupId", "label", "enabled", "spirit", "reservation", "gems",
                         "activeGems", "supportGems"}
          /\ Text(f.groupId) /\ Text(f.label) /\ Bool(f.enabled) /\ Num(f.spirit) /\ Num(f.reservation)
      BY Kinds DEF Text, Num, Bool, StringOr, NumberOr, IsTrue
    <2>3. \A n \in {"gems", "activeGems", "supportGems"} : gemListSchema(f[n]) /\ f[n] # Undefined
      <3>1. \A x : gemListSchema(MapItems(toSkillGemRef, Array(x))) /\ MapItems(toSkillGemRef, Array(x)) # Undefined
        BY GemsFit
      <3>2. f["gems"] = MapItems(toSkillGemRef, Array(list))
        OBVIOUS
      <3>3. f["activeGems"] = MapItems(toSkillGemRef, Array(act))
        OBVIOUS
      <3>4. f["supportGems"] = MapItems(toSkillGemRef, Array(sup))
        OBVIOUS
      <3>. HIDE DEF f
      <3>. QED BY <3>1, <3>2, <3>3, <3>4
    <2>. HIDE DEF f
    <2>4. /\ v.is = "object" /\ DOMAIN v.fields = DOMAIN f /\ \A n \in DOMAIN f : Field(v, n) = f[n]
      BY Fields
    <2>. HIDE DEF v
    <2>5. skillGroupCardSchema(v)
      BY <2>2, <2>3, <2>4, Kinds DEF skillGroupCardSchema, Strict, Interface, Each, Bool
    <2>. QED BY <2>1, <2>5
  <1>. QED BY <1>1, Kinds DEF MapItems, groupsSchema, ListOf

(* So does a list of contributions. *)
LEMMA SourcesFit == \A list : sourcesSchema(MapItems(toExplainSource, list)) /\ MapItems(toExplainSource, list) # Undefined
  <1>1. ASSUME NEW s
        PROVE  explainSourceSchema(toExplainSource(s))
    <2>. DEFINE kind == Field(s, "kind")
                Named(n) == Field(s, n).is = "string" /\ Field(s, n) # String("")
                k == IF kind.is = "string" /\ kind.text \in EXPLAIN_SOURCE_KINDS THEN kind ELSE String("buff")
                l == IF Named("sourceName") THEN Field(s, "sourceName")
                     ELSE IF Named("name") THEN Field(s, "name")
                     ELSE StringOr(Field(s, "source"), String(""))
                v == Object([kind |-> k, label |-> l, value |-> NumberOr(Field(s, "value"), Number(0))])
    <2>1. kindSchema(k) /\ k # Undefined
      BY Kinds DEF kindSchema, OneOf, explainSourceKinds, EXPLAIN_SOURCE_KINDS
    <2>2. Text(l)
      BY Kinds DEF Text, StringOr
    <2>. HIDE DEF k, l
    <2>3. /\ v.is = "object" /\ DOMAIN v.fields = {"kind", "label", "value"}
          /\ Field(v, "kind") = k /\ Field(v, "label") = l /\ Num(Field(v, "value"))
      BY Fields, Kinds DEF Num, NumberOr
    <2>4. toExplainSource(s) = v
      BY DEF toExplainSource, k, l
    <2>. HIDE DEF v
    <2>. QED BY <2>1, <2>2, <2>3, <2>4, Kinds DEF explainSourceSchema, Strict, Interface, Each
  <1>. QED BY <1>1, Kinds DEF MapItems, sourcesSchema, ListOf

(* A sequence of strings, and that joining two leaves one. *)
TextSeq(s) == \E S : s \in Seq(S) /\ \A x \in S : Text(x)

LEMMA TextSeqs ==
  /\ TextSeq(<<>>)
  /\ \A s, t : TextSeq(s) /\ TextSeq(t) => TextSeq(s \o t)
  /\ \A s : TextSeq(s) => TextList(Array(s))
  <1>1. TextSeq(<<>>)
    <2>. DEFINE S == {String("")}
    <2>1. \A x \in S : Text(x)
      BY Kinds DEF Text
    <2>. HIDE DEF S
    <2>2. <<>> \in Seq(S)
      OBVIOUS
    <2>. QED BY <2>1, <2>2, Zenon DEF TextSeq
  <1>2. ASSUME NEW s, NEW t, TextSeq(s), TextSeq(t)
        PROVE  TextSeq(s \o t)
    <2>1. PICK S : s \in Seq(S) /\ \A x \in S : Text(x)
      BY <1>2 DEF TextSeq
    <2>2. PICK T : t \in Seq(T) /\ \A x \in T : Text(x)
      BY <1>2 DEF TextSeq
    <2>3. s \in Seq(S \cup T) /\ t \in Seq(S \cup T)
      BY <2>1, <2>2, LenProperties, ElementOfSeq, SeqDef
    <2>4. s \o t \in Seq(S \cup T)
      BY <2>3
    <2>. QED BY <2>1, <2>2, <2>4 DEF TextSeq
  <1>3. ASSUME NEW s, TextSeq(s)
        PROVE  TextList(Array(s))
    <2>1. PICK S : s \in Seq(S) /\ \A x \in S : Text(x)
      BY <1>3 DEF TextSeq
    <2>2. \A i \in DOMAIN s : s[i] \in S
      BY <2>1
    <2>. QED BY <2>1, <2>2, Kinds DEF TextList, ListOf
  <1>. QED BY <1>1, <1>2, <1>3

(* The strings of any list are such a sequence. *)
LEMMA StringsOfAList == \A v : List(v) => TextSeq(Strings(v)) /\ Len(Strings(v)) \in Nat
  <1>. SUFFICES ASSUME NEW v, List(v)
                PROVE  TextSeq(Strings(v)) /\ Len(Strings(v)) \in Nat
    OBVIOUS
  <1>. DEFINE S == {v.items[i] : i \in DOMAIN v.items}
              T == {x \in S : Text(x)}
              s == Kept(v.items, T)
  <1>1. Strings(v) = s
    BY DEF Strings, Filter
  <1>2. v.items \in Seq(S)
    BY DEF List
  <1>. HIDE DEF S
  <1>3. s \in Seq(S) /\ {s[i] : i \in DOMAIN s} \subseteq T
    <2>. DEFINE list == v.items
    <2>. HIDE DEF T, list
    <2>1. list \in Seq(S)
      BY <1>2 DEF list
    <2>2. {Kept(list, T)[i] : i \in DOMAIN Kept(list, T)} = {list[i] : i \in DOMAIN list} \cap T
      BY <2>1, KeptElements
    <2>3. Kept(list, T) \in Seq(S) /\ s = Kept(list, T)
      BY <2>1, KeptIsASubsequence DEF list
    <2>. HIDE DEF s
    <2>. QED BY <2>2, <2>3
  <1>. HIDE DEF T, s
  <1>4. s \in Seq(T)
    <2>1. \A i \in 1 .. Len(s) : s[i] \in T
      BY <1>3
    <2>. QED BY <1>3, <2>1, SeqDef, LenProperties
  <1>. QED BY <1>1, <1>3, <1>4, LenProperties DEF TextSeq, T

(* A config option fits when the core had a value for it, *)
LEMMA OptionFits ==
  ASSUME NEW o, serializeOption(o, TRUE)
  PROVE  configOptionCardSchema(toConfigOptionCard(o))
  <1>. DEFINE Hint(n) == LET h == Field(o, n) IN IF h.is = "array" THEN Strings(h) ELSE <<>>
              hints == Array(Hint("ifSkillData") \o Hint("ifEnemyCond") \o Hint("ifCond") \o Hint("ifOption"))
  <1>1. ASSUME NEW n \in {"ifSkillData", "ifEnemyCond", "ifCond", "ifOption"}
        PROVE  TextSeq(Hint(n))
    <2>1. CASE Field(o, n).is = "array"
      <3>1. Field(o, n) # Undefined
        BY <2>1, Kinds
      <3>2. List(Field(o, n))
        BY <3>1 DEF serializeOption, Each, Lines
      <3>. QED BY <2>1, <3>2, StringsOfAList
    <2>2. CASE Field(o, n).is # "array"
      BY <2>2, TextSeqs
    <2>. QED BY <2>1, <2>2
  <1>2. TextList(hints)
    <2>1. /\ TextSeq(Hint("ifSkillData")) /\ TextSeq(Hint("ifEnemyCond")) /\ TextSeq(Hint("ifCond"))
          /\ TextSeq(Hint("ifOption"))
      BY <1>1
    <2>. HIDE DEF Hint
    <2>. QED BY <2>1, TextSeqs
  <1>3. /\ Text(Field(o, "optionId")) /\ Text(Field(o, "type")) /\ Text(Field(o, "label"))
        /\ Field(o, "value") # Undefined
    BY DEF serializeOption, Strict, Interface, Each
  <1>. DEFINE f == [optionId |-> StringOr(Field(o, "optionId"), String("")),
                    type |-> StringOr(Field(o, "type"), String("")),
                    label |-> StringOr(Field(o, "label"), String("")),
                    value |-> Field(o, "value"),
                    dependentModifiers |-> hints]
              v == Object(f)
  <1>4. toConfigOptionCard(o) = v
    BY DEF toConfigOptionCard, CONFIG_DEPENDENCY_FIELDS
  <1>. HIDE DEF hints
  <1>5. /\ DOMAIN f = {"optionId", "type", "label", "value", "dependentModifiers"}
        /\ Text(f.optionId) /\ Text(f.type) /\ Text(f.label) /\ f.value # Undefined
        /\ TextList(f.dependentModifiers) /\ f.dependentModifiers # Undefined
    BY <1>2, <1>3, Kinds DEF Text, StringOr, TextList, ListOf
  <1>. HIDE DEF f
  <1>6. v.is = "object" /\ DOMAIN v.fields = DOMAIN f /\ \A n \in DOMAIN f : Field(v, n) = f[n]
    BY Fields
  <1>. HIDE DEF v
  <1>7. configOptionCardSchema(v)
    BY <1>5, <1>6, Kinds DEF configOptionCardSchema, Strict, Interface, Each
  <1>. QED BY <1>4, <1>7

(* and so does a list of them. *)
LEMMA OptionsFit ==
  ASSUME NEW list, Rows(list, serializeOption, TRUE)
  PROVE  optionsSchema(MapItems(toConfigOptionCard, list)) /\ MapItems(toConfigOptionCard, list) # Undefined
  <1>. DEFINE in == list.items
              cards == [i \in DOMAIN in |-> toConfigOptionCard(in[i])]
  <1>1. \A i \in DOMAIN in : serializeOption(in[i], TRUE)
    BY DEF Rows
  <1>2. MapItems(toConfigOptionCard, list) = Array(cards)
    BY DEF MapItems
  <1>. HIDE DEF in
  <1>3. \A i \in DOMAIN cards : configOptionCardSchema(cards[i])
    BY <1>1, OptionFits
  <1>. HIDE DEF cards
  <1>4. optionsSchema(Array(cards)) /\ Array(cards) # Undefined
    BY <1>3, Kinds DEF optionsSchema, ListOf
  <1>. QED BY <1>2, <1>4

(* The rows that are passed on as they are. *)
LEMMA RowsFit ==
  ASSUME NEW v
  PROVE  /\ Rows(v, curateStats, TRUE) => statsSchema(v)
         /\ Rows(v, serializeEquippedItem, TRUE) => equippedListSchema(v)
         /\ Rows(v, delta, TRUE) => equipDeltasSchema(v) /\ treeStatDeltasSchema(v)
         /\ Rows(v, serializeNode, TRUE) => treeNodesSchema(v)
         /\ Rows(v, serializeTreeGroup, TRUE) => treeGroupsSchema(v)
         /\ Ids(v) => nodeIdListSchema(v)
  <1>1. \A w : curateStats(w, TRUE) => statSchema(w)
    BY DEF curateStats, statSchema, Table, Figures, Strict
  <1>2. \A w : serializeEquippedItem(w, TRUE) => equippedItemSchema(w)
    <2>. SUFFICES ASSUME NEW w, serializeEquippedItem(w, TRUE)
                  PROVE  equippedItemSchema(w)
      OBVIOUS
    <2>1. itemRequirementsSchema(Field(w, "requirements"))
      BY DEF serializeEquippedItem, itemRequirementsSchema
    <2>2. /\ Strict(w, {"slot", "itemId", "name", "rarity", "baseName", "requirements",
                        "summaryMods", "unsupportedMods"}, {})
          /\ Each(w, {"slot", "itemId", "name", "rarity", "baseName"}, Text)
      BY DEF serializeEquippedItem, Table, Strict, Interface, Each
    <2>3. Each(w, {"summaryMods", "unsupportedMods"}, TextList)
      BY DEF serializeEquippedItem, Each, Lines
    <2>. QED BY <2>1, <2>2, <2>3 DEF equippedItemSchema, Each
  <1>3. \A w : delta(w, TRUE) => equipDeltaSchema(w) /\ treeStatDeltaSchema(w)
    BY DEF delta, equipDeltaSchema, treeStatDeltaSchema, Figures
  <1>4. \A w : serializeNode(w, TRUE) => treeNodeSchema(w)
    <2>. SUFFICES ASSUME NEW w, serializeNode(w, TRUE)
                  PROVE  treeNodeSchema(w)
      OBVIOUS
    <2>1. Strict(w, {"nodeId", "name", "type", "x", "y", "orbit", "orbitIndex", "group",
                     "isAscendancy", "connections"}, {})
      BY DEF serializeNode, Table, Strict, Interface
    <2>2. Each(w, {"nodeId", "x", "y", "orbit", "orbitIndex", "group"}, Num)
      BY DEF serializeNode, Figures, Each
    <2>3. Each(w, {"connections"}, NumList)
      BY DEF serializeNode, Each, Ids
    <2>. QED BY <2>1, <2>2, <2>3 DEF treeNodeSchema, serializeNode
  <1>5. \A w : serializeTreeGroup(w, TRUE) => treeGroupSchema(w)
    BY DEF serializeTreeGroup, treeGroupSchema, Table, Figures, Strict, Interface, Each
  <1>. QED BY <1>1, <1>2, <1>3, <1>4, <1>5
       DEF Rows, List, statsSchema, equippedListSchema, equipDeltasSchema, treeStatDeltasSchema, treeNodesSchema,
           treeGroupsSchema, nodeIdListSchema, Ids, NumList, ListOf

(* A parsed item: the lines of both lists, each with its status. *)
LEMMA ParsedFits ==
  ASSUME NEW r, Serialized("items.parseClipboard", r, TRUE),
         NEW hint, hint \in {String("ko-KR"), String("en-US"), Undefined}
  PROVE  itemsParseClipboardResponseSchema(assembleParseResult(r, hint))
  <1>. DEFINE item == Field(r, "item")
              LineOf(entry) == Field(entry, "line")
              mods == MapItems(LineOf, Or(Field(r, "mods"), Array(<<>>)))
              raws == Strings(mods)
              unsupported == Strings(Or(Field(r, "unsupported"), Array(<<>>)))
              Marked(lines, status) == [i \in DOMAIN lines |-> Object([raw |-> lines[i], status |-> String(status)])]
              locale == IF hint.is \notin {"undefined", "null"} THEN hint
                        ELSE IF Locale(Field(r, "locale")) THEN Field(r, "locale") ELSE String("en-US")
              list == Marked(raws, "parsed") \o Marked(unsupported, "unsupported")
              out == [locale |-> locale, mods |-> Array(list), unsupported |-> Array(unsupported)]
              Source(n) == CASE n = "baseId" -> "baseName" [] OTHER -> n
              named == [n \in {k \in {"baseId", "rarity", "name"} : Text(Field(item, Source(k)))}
                          |-> Field(item, Source(n))]
              v == Object(Spread(named, out))
  <1>1. TextSeq(raws)
    <2>1. List(Field(r, "mods"))
      BY DEF Serialized, Rows
    <2>2. Or(Field(r, "mods"), Array(<<>>)) = Field(r, "mods")
      BY <2>1, Kinds DEF List
    <2>. DEFINE in == Field(r, "mods").items
                lines == [i \in DOMAIN in |-> Field(in[i], "line")]
    <2>3. mods = Array(lines)
      BY <2>2 DEF MapItems
    <2>4. lines \in Seq({lines[i] : i \in DOMAIN lines})
      <3>1. PICK S : in \in Seq(S)
        BY <2>1 DEF List
      <3>2. Len(in) \in Nat /\ DOMAIN in = 1 .. Len(in)
        BY <3>1
      <3>. HIDE DEF in
      <3>3. DOMAIN lines = 1 .. Len(in) /\ lines = [i \in 1 .. Len(in) |-> lines[i]]
        BY <3>2
      <3>. HIDE DEF lines
      <3>. QED BY <3>2, <3>3, SeqDef
    <2>. HIDE DEF lines, mods
    <2>5. \A x : x \in Seq({x[i] : i \in DOMAIN x}) => List(Array(x))
      BY Kinds DEF List
    <2>6. List(mods)
      BY <2>3, <2>4, <2>5
    <2>. QED BY <2>6, StringsOfAList
  <1>2. TextSeq(unsupported)
    <2>1. List(Field(r, "unsupported"))
      BY DEF Serialized, Strict, Interface, Each, Lines
    <2>2. Or(Field(r, "unsupported"), Array(<<>>)) = Field(r, "unsupported")
      BY <2>1, Kinds DEF List
    <2>. QED BY <2>1, <2>2, StringsOfAList
  <1>3. localeSchema(locale) /\ locale # Undefined
    BY Kinds DEF localeSchema, Locale, OneOf
  <1>. HIDE DEF raws, unsupported, locale
  <1>4. ASSUME NEW lines, TextSeq(lines), NEW status \in {"parsed", "unsupported"}
        PROVE  \E S : Marked(lines, status) \in Seq(S) /\ \A x \in S : parsedModSchema(x)
    <2>. DEFINE Mark(x) == Object([raw |-> x, status |-> String(status)])
                S == {x \in {Mark(lines[i]) : i \in DOMAIN lines} : parsedModSchema(x)}
    <2>1. PICK T : lines \in Seq(T) /\ \A x \in T : Text(x)
      BY <1>4 DEF TextSeq
    <2>2. \A x : Text(x) => parsedModSchema(Mark(x))
      <3>. SUFFICES ASSUME NEW x, Text(x) PROVE parsedModSchema(Mark(x))
        OBVIOUS
      <3>1. /\ Mark(x).is = "object" /\ DOMAIN Mark(x).fields = {"raw", "status"}
            /\ Field(Mark(x), "raw") = x /\ Field(Mark(x), "status") = String(status)
            /\ Field(Mark(x), "statId") = Undefined
        BY Fields
      <3>. HIDE DEF Mark
      <3>. QED BY <3>1, Kinds DEF parsedModSchema, Strict, Interface, Each, statusSchema, OneOf
    <2>. HIDE DEF Mark
    <2>3. \A i \in DOMAIN lines : Mark(lines[i]) \in S
      BY <2>1, <2>2
    <2>. HIDE DEF S
    <2>4. DOMAIN lines = 1 .. Len(lines) /\ Len(lines) \in Nat
      BY <2>1
    <2>5. [i \in DOMAIN lines |-> Mark(lines[i])] \in Seq(S)
      BY <2>3, <2>4, SeqDef
    <2>6. Marked(lines, status) \in Seq(S)
      BY <2>5 DEF Mark
    <2>7. \A x \in S : parsedModSchema(x)
      BY DEF S
    <2>. HIDE DEF Marked
    <2>. QED BY <2>6, <2>7
  <1>5. parsedModsSchema(Array(list))
    <2>1. PICK S : Marked(raws, "parsed") \in Seq(S) /\ \A x \in S : parsedModSchema(x)
      BY <1>1, <1>4
    <2>2. PICK T : Marked(unsupported, "unsupported") \in Seq(T) /\ \A x \in T : parsedModSchema(x)
      BY <1>2, <1>4
    <2>. HIDE DEF Marked
    <2>3. Marked(raws, "parsed") \in Seq(S \cup T) /\ Marked(unsupported, "unsupported") \in Seq(S \cup T)
      BY <2>1, <2>2, LenProperties, ElementOfSeq, SeqDef
    <2>4. list \in Seq(S \cup T)
      BY <2>3
    <2>. HIDE DEF list
    <2>5. \A i \in DOMAIN list : list[i] \in S \cup T
      BY <2>4
    <2>. QED BY <2>1, <2>2, <2>5, Kinds DEF parsedModsSchema, ListOf
  <1>6. TextList(Array(unsupported))
    BY <1>2, TextSeqs
  <1>. HIDE DEF list
  <1>7. /\ DOMAIN out = {"locale", "mods", "unsupported"}
        /\ out["locale"] = locale /\ out["mods"] = Array(list) /\ out["unsupported"] = Array(unsupported)
    OBVIOUS
  <1>8. /\ DOMAIN named \subseteq {"baseId", "rarity", "name"}
        /\ \A n \in DOMAIN named : Text(named[n])
    OBVIOUS
  <1>9. assembleParseResult(r, hint) = v
    BY DEF assembleParseResult, raws, unsupported, locale, list
  <1>. HIDE DEF out, named
  <1>10. /\ v.is = "object" /\ DOMAIN v.fields = DOMAIN named \cup DOMAIN out
         /\ Field(v, "locale") = locale /\ Field(v, "mods") = Array(list)
         /\ Field(v, "unsupported") = Array(unsupported)
         /\ \A n \in {"baseId", "rarity", "name"} : Field(v, n) # Undefined => Text(Field(v, n))
    BY <1>7, <1>8, Fields DEF Spread
  <1>. HIDE DEF v
  <1>11. itemsParseClipboardResponseSchema(v)
    BY <1>3, <1>5, <1>6, <1>7, <1>8, <1>10, Kinds DEF itemsParseClipboardResponseSchema, Strict, Interface, Each
  <1>. QED BY <1>9, <1>11

(* Every answer given in full fits the schema of its method. *)
LEMMA WholeAnswersFit ==
  ASSUME NEW m \in MvpMethod \ {"items.createCustom"}, NEW a \in Args(m), NEW r, Serialized(m, r, TRUE)
  PROVE  validResponse(m, assemble(m, a, r))
  <1>. DEFINE v == assemble(m, a, r)
  <1>. USE Kinds
  <1>1. CASE m = "build.load"
    <2>1. v = r
      BY <1>1 DEF assemble, assembleBuild
    <2>2. \A w : summarizeBuild(w) => buildSummarySchema(w)
      BY DEF summarizeBuild, buildSummarySchema, Strict, Interface
    <2>3. buildLoadResponseSchema(r)
      BY <1>1, <2>2 DEF Serialized, buildLoadResponseSchema, Strict, Interface, Each
    <2>. QED BY <1>1, <2>1, <2>3 DEF validResponse
  <1>2. CASE m = "build.save"
    <2>1. v = Object([format |-> String("xml"), data |-> Field(r, "xml")])
      BY <1>2 DEF assemble, assembleBuild
    <2>2. Text(Field(r, "xml"))
      BY <1>2 DEF Serialized, Strict, Interface, Each
    <2>3. /\ v.is = "object" /\ DOMAIN v.fields = {"format", "data"}
          /\ Field(v, "format") = String("xml") /\ Field(v, "data") = Field(r, "xml")
      BY <2>1, Fields
    <2>. HIDE DEF v
    <2>4. buildSaveResponseSchema(v)
      BY <2>2, <2>3 DEF buildSaveResponseSchema, Strict, Interface, Each, formatSchema, OneOf
    <2>. QED BY <1>2, <2>4 DEF validResponse, v
  <1>3. CASE m = "calc.run"
    <2>1. v = Object([buildId |-> Field(a, "buildId"), stats |-> Field(r, "stats")])
      BY <1>3 DEF assemble, assembleBuild
    <2>2. statsSchema(Field(r, "stats")) /\ Field(r, "stats") # Undefined
      BY <1>3, RowsFit DEF Serialized, Strict, Interface
    <2>3. Text(Field(a, "buildId"))
      <3>1. PICK x \in texts : a = Object([buildId |-> x])
        BY <1>3 DEF Args, buildArgs
      <3>. QED BY <3>1, Fields
    <2>4. /\ v.is = "object" /\ DOMAIN v.fields = {"buildId", "stats"}
          /\ Field(v, "buildId") = Field(a, "buildId") /\ Field(v, "stats") = Field(r, "stats")
      BY <2>1, Fields
    <2>. HIDE DEF v
    <2>5. calcRunResponseSchema(v)
      BY <2>2, <2>3, <2>4 DEF calcRunResponseSchema, Strict, Interface, Each
    <2>. QED BY <1>3, <2>5 DEF validResponse, v
  <1>4. CASE m = "calc.explain"
    <2>. DEFINE id == Field(a, "statId")
                trace == Field(r, "trace")
                sources == MapItems(toExplainSource, Or(Field(r, "sources"), Array(<<>>)))
                formula == String(IF trace.is = "array" THEN Strings(trace) ELSE <<>>)
                f == [statId |-> StringOr(Field(r, "statId"), id),
                      finalValue |-> NumberOr(Field(r, "finalValue"), Number(0)),
                      label |-> StringOr(Field(r, "label"), id), sources |-> sources,
                      formula |-> formula, upstreamStatId |-> StringOr(Field(r, "upstreamRawStatId"), id)]
    <2>1. v = Object(f)
      BY <1>4 DEF assemble, explainStat, assembleExplain
    <2>2. Text(id)
      <3>1. a \in statArgs \/ a \in skillStatArgs
        BY <1>4 DEF Args
      <3>2. CASE a \in statArgs
        <4>1. PICK b, s \in texts : a = Object([buildId |-> b, statId |-> s])
          BY <3>2 DEF statArgs
        <4>. QED BY <4>1, Fields
      <3>3. CASE a \in skillStatArgs
        <4>1. PICK b, s, k \in texts : a = Object([buildId |-> b, statId |-> s, activeSkillId |-> k])
          BY <3>3 DEF skillStatArgs
        <4>. QED BY <4>1, Fields
      <3>. QED BY <3>1, <3>2, <3>3
    <2>3. sourcesSchema(sources) /\ sources # Undefined
      BY SourcesFit
    <2>4. Text(formula)
      BY DEF Text
    <2>. HIDE DEF id, sources, formula
    <2>5. /\ DOMAIN f = {"statId", "finalValue", "label", "sources", "formula", "upstreamStatId"}
          /\ Text(f.statId) /\ Text(f.label) /\ Text(f.formula) /\ Text(f.upstreamStatId)
          /\ Num(f.finalValue) /\ sourcesSchema(f.sources) /\ f.sources # Undefined
      BY <2>2, <2>3, <2>4 DEF Text, Num, StringOr, NumberOr
    <2>. HIDE DEF f
    <2>6. v.is = "object" /\ DOMAIN v.fields = DOMAIN f /\ \A n \in DOMAIN f : Field(v, n) = f[n]
      BY <2>1, Fields
    <2>. HIDE DEF v
    <2>7. calcExplainResponseSchema(v)
      BY <2>5, <2>6 DEF calcExplainResponseSchema, Strict, Interface, Each
    <2>. QED BY <1>4, <2>7 DEF validResponse, v
  <1>5. CASE m = "items.parseClipboard"
    <2>1. v = assembleParseResult(r, Field(a, "localeHint"))
      BY <1>5 DEF assemble, assembleItems
    <2>2. Field(a, "localeHint") \in {String("ko-KR"), String("en-US"), Undefined}
      <3>1. a \in parseArgs
        BY <1>5 DEF Args
      <3>2. \/ \E t \in texts : a = Object([text |-> t])
            \/ \E t \in texts, l \in {"ko-KR", "en-US"} : a = Object([text |-> t, localeHint |-> String(l)])
        BY <3>1, SMTT(40) DEF parseArgs
      <3>3. CASE \E t \in texts : a = Object([text |-> t])
        BY <3>3, Fields
      <3>4. CASE \E t \in texts, l \in {"ko-KR", "en-US"} : a = Object([text |-> t, localeHint |-> String(l)])
        BY <3>4, Fields
      <3>. QED BY <3>2, <3>3, <3>4
    <2>3. Serialized("items.parseClipboard", r, TRUE)
      BY <1>5
    <2>4. itemsParseClipboardResponseSchema(assembleParseResult(r, Field(a, "localeHint")))
      BY <2>2, <2>3, ParsedFits
    <2>. QED BY <1>5, <2>1, <2>4 DEF validResponse
  <1>6. CASE m = "items.getEquipped"
    <2>1. Rows(Field(r, "equipped"), serializeEquippedItem, TRUE)
      BY <1>6 DEF Serialized
    <2>2. ListField(r, "equipped") = Field(r, "equipped") /\ Field(r, "equipped") # Undefined
      BY <2>1 DEF Rows, List, ListField
    <2>3. v = Object([equipped |-> Field(r, "equipped")])
      BY <1>6, <2>2 DEF assemble, assembleItems
    <2>4. v.is = "object" /\ DOMAIN v.fields = {"equipped"} /\ Field(v, "equipped") = Field(r, "equipped")
      BY <2>3, Fields
    <2>. HIDE DEF v
    <2>5. itemsGetEquippedResponseSchema(v)
      BY <2>1, <2>2, <2>4, RowsFit DEF itemsGetEquippedResponseSchema, Strict, Interface, Each
    <2>. QED BY <1>6, <2>5 DEF validResponse, v
  <1>7. CASE m = "items.compare"
    <2>1. Rows(Field(r, "deltas"), delta, TRUE) /\ Text(Field(r, "slot"))
      BY <1>7 DEF Serialized, Strict, Interface, Each
    <2>2. ListField(r, "deltas") = Field(r, "deltas") /\ Field(r, "deltas") # Undefined
      BY <2>1 DEF Rows, List, ListField
    <2>3. Or(Field(r, "slot"), Field(a, "slot")) = Field(r, "slot")
      BY <2>1 DEF Text
    <2>4. v = Object([slot |-> Field(r, "slot"), deltas |-> Field(r, "deltas")])
      BY <1>7, <2>2, <2>3 DEF assemble, assembleItems
    <2>5. /\ v.is = "object" /\ DOMAIN v.fields = {"slot", "deltas"}
          /\ Field(v, "slot") = Field(r, "slot") /\ Field(v, "deltas") = Field(r, "deltas")
      BY <2>4, Fields
    <2>. HIDE DEF v
    <2>6. itemsCompareResponseSchema(v)
      BY <2>1, <2>2, <2>5, RowsFit DEF itemsCompareResponseSchema, Strict, Interface, Each
    <2>. QED BY <1>7, <2>6 DEF validResponse, v
  <1>8. CASE m = "skills.getGroups"
    <2>. DEFINE cards == MapItems(toSkillGroupCard, ListField(r, "groups"))
    <2>1. v = Object([groups |-> cards])
      BY <1>8 DEF assemble, getSkillGroups
    <2>2. groupsSchema(cards) /\ cards # Undefined
      BY GroupsFit
    <2>. HIDE DEF cards
    <2>3. v.is = "object" /\ DOMAIN v.fields = {"groups"} /\ Field(v, "groups") = cards
      BY <2>1, Fields
    <2>. HIDE DEF v
    <2>4. skillsGetGroupsResponseSchema(v)
      BY <2>2, <2>3 DEF skillsGetGroupsResponseSchema, Strict, Interface, Each
    <2>. QED BY <1>8, <2>4 DEF validResponse, v
  <1>9. CASE m = "config.getOptions"
    <2>1. Rows(Field(r, "options"), serializeOption, TRUE)
      BY <1>9 DEF Serialized
    <2>2. ListField(r, "options") = Field(r, "options")
      BY <2>1 DEF Rows, List, ListField
    <2>. DEFINE cards == MapItems(toConfigOptionCard, Field(r, "options"))
    <2>3. v = Object([options |-> cards])
      BY <1>9, <2>2 DEF assemble, getConfigOptions
    <2>4. optionsSchema(cards) /\ cards # Undefined
      BY <2>1, OptionsFit
    <2>. HIDE DEF cards
    <2>5. v.is = "object" /\ DOMAIN v.fields = {"options"} /\ Field(v, "options") = cards
      BY <2>3, Fields
    <2>. HIDE DEF v
    <2>6. configGetOptionsResponseSchema(v)
      BY <2>4, <2>5 DEF configGetOptionsResponseSchema, Strict, Interface, Each
    <2>. QED BY <1>9, <2>6 DEF validResponse, v
  <1>10. CASE m = "tree.getData"
    <2>1. /\ treeNodesSchema(Field(r, "nodes")) /\ treeGroupsSchema(Field(r, "groups"))
          /\ nodeIdListSchema(Field(r, "allocatedNodeIds")) /\ treeConstantsSchema(Field(r, "constants"))
      <3>1. /\ Rows(Field(r, "nodes"), serializeNode, TRUE) /\ Rows(Field(r, "groups"), serializeTreeGroup, TRUE)
            /\ serializeConstants(Field(r, "constants"), TRUE)
        BY <1>10 DEF Serialized
      <3>2. Ids(Field(r, "allocatedNodeIds"))
        BY <1>10 DEF Serialized, Table, Strict, Interface, Each
      <3>3. treeConstantsSchema(Field(r, "constants"))
        BY <3>1 DEF serializeConstants, treeConstantsSchema, Classes, classesSchema, Strict, Each, Interface
      <3>. QED BY <3>1, <3>2, <3>3, RowsFit
    <2>2. /\ Field(r, "nodes").is = "array" /\ Field(r, "groups").is = "array"
          /\ Field(r, "allocatedNodeIds").is = "array" /\ Field(r, "constants").is = "object"
      BY <2>1 DEF treeNodesSchema, treeGroupsSchema, nodeIdListSchema, treeConstantsSchema, ListOf, Interface
    <2>. DEFINE version == StringOr(Field(r, "treeVersion"), String(""))
                none == Object([classes |-> Object(<<>>), orbitAnglesByOrbit |-> Array(<<>>),
                                orbitRadii |-> Array(<<>>), skillsPerOrbit |-> Array(<<>>)])
                g == [treeVersion |-> version,
                      nodes |-> Or(Field(r, "nodes"), Array(<<>>)),
                      groups |-> Or(Field(r, "groups"), Array(<<>>)),
                      constants |-> Or(Field(r, "constants"), none),
                      allocatedNodeIds |-> Or(Field(r, "allocatedNodeIds"), Array(<<>>))]
    <2>3. v = Object(g)
      BY <1>10 DEF assemble, getTreeData
    <2>4. Text(version)
      BY DEF Text, StringOr
    <2>. HIDE DEF none, version
    <2>5. /\ DOMAIN g = {"treeVersion", "nodes", "groups", "constants", "allocatedNodeIds"}
          /\ g.treeVersion = version /\ g.nodes = Field(r, "nodes") /\ g.groups = Field(r, "groups")
          /\ g.constants = Field(r, "constants") /\ g.allocatedNodeIds = Field(r, "allocatedNodeIds")
      BY <2>2
    <2>. HIDE DEF g
    <2>6. v.is = "object" /\ DOMAIN v.fields = DOMAIN g /\ \A n \in DOMAIN g : Field(v, n) = g[n]
      BY <2>3, Fields
    <2>. HIDE DEF v
    <2>7. treeGetDataResponseSchema(v)
      BY <2>1, <2>2, <2>4, <2>5, <2>6 DEF treeGetDataResponseSchema, Strict, Interface, Each
    <2>. QED BY <1>10, <2>7 DEF validResponse, v
  <1>11. CASE m = "tree.previewAllocate"
    <2>1. Rows(Field(r, "deltas"), delta, TRUE)
      BY <1>11 DEF Serialized
    <2>2. ListField(r, "deltas") = Field(r, "deltas") /\ Field(r, "deltas") # Undefined
      BY <2>1 DEF Rows, List, ListField
    <2>3. v = Object([deltas |-> Field(r, "deltas")])
      BY <1>11, <2>2 DEF assemble, previewAllocate
    <2>4. v.is = "object" /\ DOMAIN v.fields = {"deltas"} /\ Field(v, "deltas") = Field(r, "deltas")
      BY <2>3, Fields
    <2>. HIDE DEF v
    <2>5. treePreviewAllocateResponseSchema(v)
      BY <2>1, <2>2, <2>4, RowsFit DEF treePreviewAllocateResponseSchema, Strict, Interface, Each
    <2>. QED BY <1>11, <2>5 DEF validResponse, v
  <1>12. CASE m = "tree.applyAllocate"
    <2>1. Ids(Field(r, "allocatedNodeIds"))
      BY <1>12 DEF Serialized, Strict, Interface, Each
    <2>2. ListField(r, "allocatedNodeIds") = Field(r, "allocatedNodeIds") /\ Field(r, "allocatedNodeIds") # Undefined
      BY <2>1 DEF Ids, List, ListField
    <2>3. v = Object([allocatedNodeIds |-> Field(r, "allocatedNodeIds")])
      BY <1>12, <2>2 DEF assemble, applyAllocate
    <2>4. /\ v.is = "object" /\ DOMAIN v.fields = {"allocatedNodeIds"}
          /\ Field(v, "allocatedNodeIds") = Field(r, "allocatedNodeIds")
      BY <2>3, Fields
    <2>. HIDE DEF v
    <2>5. treeApplyAllocateResponseSchema(v)
      BY <2>1, <2>2, <2>4, RowsFit DEF treeApplyAllocateResponseSchema, Strict, Interface, Each
    <2>. QED BY <1>12, <2>5 DEF validResponse, v
  <1>. QED BY <1>1, <1>2, <1>3, <1>4, <1>5, <1>6, <1>7, <1>8, <1>9, <1>10, <1>11, <1>12 DEF MvpMethod

(* A typed call the runner answers in full is never refused by the schemas on   *)
(* the way, the request's or the response's.                                    *)
THEOREM WholeAnswersAreAccepted == ClientsSpec => []CompleteAnswersAreAccepted
  <1>1. ASSUME NEW m \in MvpMethod, NEW a \in Args(m), NEW reply \in Replies(m),
               "error" \notin DOMAIN reply, Serialized(m, reply.result, TRUE)
        PROVE  Answer(m, a, reply).ok
    <2>. DEFINE v == assemble(m, a, reply.result)
    <2>1. m # "items.createCustom"
      BY <1>1, RepliesAre DEF Methods
    <2>2. validResponse(m, v)
      BY <1>1, <2>1, WholeAnswersFit
    <2>3. Answer(m, a, reply) = IF m = "build.load" THEN load(v) ELSE Resolved(v)
      BY <1>1, <2>2, Requested
    <2>4. m = "build.load" => load(v).ok
      BY <2>2, LoadedHasItsType DEF validResponse
    <2>. QED BY <2>3, <2>4, Settled
  <1>2. ExchangeInv => CompleteAnswersAreAccepted
    <2>. SUFFICES ASSUME ExchangeInv, Done, exchange.method \in MvpMethod
                  PROVE  /\ CoreRequestMap(exchange.method, Request(exchange.method, exchange.args))
                         /\ ~Failed /\ Serialized(exchange.method, exchange.reply.result, TRUE) => exchange.node.ok
      BY DEF CompleteAnswersAreAccepted
    <2>0. PICK m \in Methods : \E a \in Args(m), reply \in Replies(m) :
            /\ exchange.method = m /\ exchange.args = a /\ exchange.reply = reply
            /\ exchange.node = Answer(m, a, reply) /\ exchange.ipc = Ipc!Answer(m, a, reply)
      BY ACall, Zenon
    <2>1. PICK a \in Args(m), reply \in Replies(m) :
            /\ exchange.method = m /\ exchange.args = a /\ exchange.reply = reply
            /\ exchange.node = Answer(m, a, reply) /\ exchange.ipc = Ipc!Answer(m, a, reply)
      BY <2>0, Zenon
    <2>. QED BY <1>1, <2>1, RequestsAreValid DEF Failed
  <1>. QED BY <1>2, ExchangesAreCalls, PTL

(* The desktop client, which validates nothing, resolves a call the runner      *)
(* answers in full, and to a value of the response type: there it does what the *)
(* Node client does, and the Node client's answer was validated.                *)
THEOREM DesktopCastsHold == ClientsSpec => []DesktopCastsAreRight
  <1>1. ClientsAgree /\ ResolvesToItsType /\ CompleteAnswersAreAccepted => DesktopCastsAreRight
    BY DEF ClientsAgree, ResolvesToItsType, CompleteAnswersAreAccepted, DesktopCastsAreRight
  <1>. QED BY <1>1, TheClientsAgree, CallsResolveToTheirType, WholeAnswersAreAccepted, PTL
=============================================================================

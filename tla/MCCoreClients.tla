--------------------------- MODULE MCCoreClients ---------------------------
(***************************************************************************)
(* Samples of what modern_api.lua answers with: for each method an answer  *)
(* with everything in it, and that answer with one value the core did not  *)
(* have, one figure that is not finite, or one table that is empty.        *)
(***************************************************************************)
EXTENDS CoreClients, TLC

OrLacking(v, names) == {v} \cup {Without(v, n) : n \in names}
OrNull(v, names) == {v} \cup {Object([v.fields EXCEPT ![n] = Null]) : n \in names}
One(v) == Array(<<v>>)

SampleItem ==
  Object([n \in {"slot", "itemId", "name", "rarity", "baseName"} |-> String(n)]
         @@ [requirements |-> Object([n \in {"level", "str", "dex", "int"} |-> Number(1)]),
             summaryMods |-> One(String("life")), unsupportedMods |-> One(String("odd"))])
SampleGem(name, support) ==
  Object([gemId |-> String("id"), nameSpec |-> String(name), level |-> Number(20),
          quality |-> Number(5), enabled |-> Boolean(TRUE), isSupport |-> Boolean(support)])
SamplePool == Object([reserved |-> Number(30), unreserved |-> Number(70)])
SampleGroup(gems, spirit) ==
  Object([groupId |-> String("1"), label |-> String("Main"), enabled |-> Boolean(TRUE),
          mainActiveSkill |-> Number(1), gems |-> Array(gems), spirit |-> spirit,
          reservation |-> Object([mana |-> SamplePool, life |-> SamplePool])])
SampleOption ==
  Object([optionId |-> String("conditionEnemy"), type |-> String("list"), label |-> String("Enemy"),
          value |-> String("boss"), list |-> One(Object([val |-> String("boss")])),
          ifOption |-> One(String("a")), ifCond |-> Array(<<String("b"), String("c")>>)])
SampleSource ==
  Object([kind |-> String("item"), source |-> String("Item:7"), value |-> Number(40),
          name |-> String("Life"), modType |-> String("BASE")])
SampleSlot ==
  Object([kind |-> String("buff"), source |-> String("Base"), value |-> Number(40),
          total |-> String("40%"), sourceName |-> String("")])
SampleNode ==
  Object([n \in {"x", "y", "orbit", "orbitIndex", "group"} |-> Number(2)]
         @@ [nodeId |-> Number(3), name |-> String("node"), type |-> String("Notable"),
             isAscendancy |-> Boolean(FALSE), connections |-> One(Number(4))])
SampleDelta ==
  Object([statId |-> String("Life"), before |-> Number(1), after |-> Number(3), delta |-> Number(2)])
SampleStat == Object([statId |-> String("Life"), value |-> Number(1), label |-> String("Life")])
SampleTrace(sources) ==
  Object([statId |-> String("Life"), upstreamRawStatId |-> String("Life"), finalValue |-> Number(40),
          label |-> String("Life"), trace |-> Array(<<String("40"), String("= 40")>>),
          sources |-> sources])
SampleItemHead == Object([n \in {"name", "rarity", "baseName", "itemType"} |-> String(n)])
SampleLine == Object([line |-> String("life"), mods |-> Array(<<>>)])
SampleParse(item, mods) ==
  Object([locale |-> String("ko-KR"), item |-> item, mods |-> mods, unsupported |-> One(String("odd"))])
SampleTree(node, classes) ==
  Object([treeVersion |-> String("0_3"), nodes |-> One(node),
          groups |-> One(Object([groupId |-> Number(2), x |-> Number(1), y |-> Number(1)])),
          constants |-> Object([n \in {"orbitAnglesByOrbit", "orbitRadii", "skillsPerOrbit"} |-> Array(<<>>)]
                               @@ [classes |-> classes]),
          allocatedNodeIds |-> One(Number(3))])
SampleClasses == Object([Monk |-> Number(1)])
SampleSummary == Object([className |-> String("Monk"), level |-> Number(9), itemCount |-> Number(0)])

SampleResults ==
  [m \in Methods \ {"items.createCustom"} |->
     CASE m = "build.load" -> {Object([buildId |-> String("build-1"), summary |-> s])
                                 : s \in OrLacking(SampleSummary, {"className"})}
       [] m = "build.save" -> {Object([xml |-> String("saved")])}
       [] m = "calc.run" -> {Object([stats |-> One(s)]) : s \in OrNull(SampleStat, {"value"})}
       [] m = "calc.explain" ->
            {SampleTrace(One(s)) : s \in OrLacking(SampleSource, {"source", "value", "name"})
                                         \cup OrNull(SampleSlot, {"value"})}
            \cup {Without(SampleTrace(Array(<<>>)), "finalValue")}
       [] m = "items.parseClipboard" ->
            {SampleParse(i, Array(<<l, SampleLine>>))
               : i \in OrLacking(SampleItemHead, {"name", "rarity", "baseName"}) \cup {Array(<<>>)},
                 l \in OrLacking(SampleLine, {"line"})}
       [] m = "items.getEquipped" ->
            {Object([equipped |-> One(e)]) : e \in OrLacking(SampleItem, {"name", "rarity", "baseName"})}
       [] m = "items.compare" ->
            {Object([slot |-> String("Helmet"), deltas |-> One(d)]) : d \in OrNull(SampleDelta, {"after"})}
       [] m = "skills.getGroups" ->
            {Object([groups |-> One(SampleGroup(gems, spirit))])
               : gems \in {<<>>, <<SampleGem("Arc", FALSE), SampleGem("Aid", TRUE)>>,
                           <<Without(SampleGem("Arc", TRUE), "gemId")>>},
                 spirit \in OrNull(SamplePool, {"reserved"})}
       [] m = "config.getOptions" ->
            {Object([options |-> One(o)]) : o \in OrLacking(SampleOption, {"value", "ifOption", "ifCond"})}
       [] m = "skills.setGemGroup" -> {Object([groupId |-> String("1")])}
       [] m = "config.setOption" -> {Object([optionId |-> String("1")])}
       [] m = "tree.getData" ->
            {SampleTree(n, SampleClasses)
               : n \in OrLacking(SampleNode, {"name", "group", "orbit"}) \cup OrNull(SampleNode, {"x"})}
            \cup {SampleTree(SampleNode, Array(<<>>)), Without(SampleTree(SampleNode, SampleClasses), "treeVersion")}
       [] m = "tree.previewAllocate" -> {Object([deltas |-> One(d)]) : d \in OrNull(SampleDelta, {"delta"})}
       [] m = "tree.applyAllocate" -> {Object([allocatedNodeIds |-> Array(<<Number(3), Number(4)>>)])}]

(* Errors: a code of the core, one it does not know, and a protocol fault. *)
SampleErrors ==
  {[code |-> -32000, data |-> d] : d \in {"BUILD_PARSE_FAILED", "CALC_FAILED", "none"}}
  \cup {[code |-> -32601, data |-> "none"]}
SampleNodes == {<<>>, <<3, 4>>}
=============================================================================

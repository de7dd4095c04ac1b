---------------------------- MODULE MCComponents ---------------------------
(***************************************************************************)
(* The components that share no state, checked side by side: `focus' is    *)
(* the one that starts anywhere and moves in a behaviour, so their state   *)
(* spaces add up instead of multiplying.                                   *)
(***************************************************************************)
EXTENDS RecordKeepers, MCCoreClients, TreeGraph, TreeCanvas, CalcsTab, ItemsTab,
        PhasePipeline, CommandPalette

VARIABLE focus

Components == {"updater", "clients", "tree", "canvas", "calcs", "items",
               "localization", "assets", "tabs", "phase", "palette"}

MCInit ==
  /\ focus \in Components
  /\ UpdaterInit
  /\ ClientsInit
  /\ TreeInit
  /\ CanvasInit
  /\ CalcsInit
  /\ ItemsInit
  /\ LocInit
  /\ AssetInit
  /\ TabInit
  /\ PhaseInit
  /\ PaletteInit
  /\ focus = "localization" \/ locSnapshot = CHOOSE snapshot \in LocSnapshots : TRUE
  /\ focus = "phase" \/ ppPlan = CHOOSE plan \in PhasePlans : TRUE
  /\ focus = "palette" \/ palCommands = CHOOSE list \in CommandLists : TRUE

Focus(name) == focus = name /\ UNCHANGED focus

UpdaterSteps == Focus("updater") /\ UpdaterNext
  /\ UNCHANGED <<exchange, treeVars, canvasVars, calcsVars, itemsVars,
                 locVars, assetVars, tabVars, ppVars, palVars>>
ClientsSteps == Focus("clients") /\ ClientsNext
  /\ UNCHANGED <<updVars, treeVars, canvasVars, calcsVars, itemsVars,
                 locVars, assetVars, tabVars, ppVars, palVars>>
TreeSteps == Focus("tree") /\ TreeNext
  /\ UNCHANGED <<updVars, exchange, canvasVars, calcsVars, itemsVars,
                 locVars, assetVars, tabVars, ppVars, palVars>>
CanvasSteps == Focus("canvas") /\ CanvasNext
  /\ UNCHANGED <<updVars, exchange, treeVars, calcsVars, itemsVars,
                 locVars, assetVars, tabVars, ppVars, palVars>>
CalcsSteps == Focus("calcs") /\ CalcsNext
  /\ UNCHANGED <<updVars, exchange, treeVars, canvasVars, itemsVars,
                 locVars, assetVars, tabVars, ppVars, palVars>>
ItemsSteps == Focus("items") /\ ItemsNext
  /\ UNCHANGED <<updVars, exchange, treeVars, canvasVars, calcsVars,
                 locVars, assetVars, tabVars, ppVars, palVars>>
LocSteps == Focus("localization") /\ LocNext
  /\ UNCHANGED <<updVars, exchange, treeVars, canvasVars, calcsVars,
                 itemsVars, assetVars, tabVars, ppVars, palVars>>
AssetSteps == Focus("assets") /\ AssetNext
  /\ UNCHANGED <<updVars, exchange, treeVars, canvasVars, calcsVars,
                 itemsVars, locVars, tabVars, ppVars, palVars>>
TabSteps == Focus("tabs") /\ TabNext
  /\ UNCHANGED <<updVars, exchange, treeVars, canvasVars, calcsVars,
                 itemsVars, locVars, assetVars, ppVars, palVars>>
PhaseSteps == Focus("phase") /\ PhaseNext
  /\ UNCHANGED <<updVars, exchange, treeVars, canvasVars, calcsVars,
                 itemsVars, locVars, assetVars, tabVars, palVars>>
PaletteSteps == Focus("palette") /\ PaletteNext
  /\ UNCHANGED <<updVars, exchange, treeVars, canvasVars, calcsVars,
                 itemsVars, locVars, assetVars, tabVars, ppVars>>

MCNext ==
  \/ UpdaterSteps
  \/ ClientsSteps
  \/ TreeSteps
  \/ CanvasSteps
  \/ CalcsSteps
  \/ ItemsSteps
  \/ LocSteps
  \/ AssetSteps
  \/ TabSteps
  \/ PhaseSteps
  \/ PaletteSteps

MCSpec == MCInit /\ [][MCNext]_<<focus, updVars, exchange, treeVars, canvasVars, calcsVars, itemsVars, locVars, assetVars, tabVars, ppVars, palVars>>

-----------------------------------------------------------------------------
(* Passive tree: a ring of four nodes with a dead end, or connections to a node *)
(* that does not exist.                                                         *)
TreeWirings == {<<a, b, c, d>> : a \in {{2}, {2, 3}}, b \in {{}, {4}, {9}}, c \in {{}, {4}}, d \in {{}, {1}}}

(* Canvas: three nodes on a line, the third off to the right. *)
CanvasNodes == <<0, 32, 320>>
CanvasTitles == <<{<<"l", "i">>}, {<<"l", "o">>, <<"m">>}, {<<"k">>}>>
CanvasQueries == {<<"l">>, <<"z">>}

(* Localization: an entry as poe2db lists it, named by a plain word or by one   *)
(* with underscores; pages that agree, that differ, and that lack a name.       *)
Plain(w) == <<w, "plain">>
Slug(w) == <<w, "underscored">>
UpId(w) == <<"id", w>>
PageEntry(slug, name, stat) == [slug |-> slug, name |-> name, icon |-> TRUE, stat |-> stat]
Pages(usSkill, krSkill) ==
  [us |-> [keyword |-> <<PageEntry(Plain("evasion"), Plain("evasion"), Blank)>>,
           base |-> <<PageEntry(Plain("vest"), Plain("vest"), Blank)>>, skill |-> usSkill],
   kr |-> [keyword |-> <<PageEntry(Plain("evasion"), Plain("hoepi"), Blank)>>,
           base |-> <<PageEntry(Plain("vest"), Blank, Blank)>>, skill |-> krSkill]]
FixturePages ==
  {Pages(<<PageEntry(Slug("bolt"), Plain("bolt"), Plain("bolts"))>>,
         <<PageEntry(Slug("bolt"), Plain("hwasal"), Plain("hwasal"))>>),
   Pages(<<PageEntry(Slug("bolt"), Plain("spark"), Plain("bolts"))>>,
         <<PageEntry(Slug("bolt"), Plain("bulkkot"), Plain("hwasal"))>>),
   Pages(<<PageEntry(Slug("bolt"), Plain("bolt"), NoText)>>,
         <<PageEntry(Slug("bolt"), Plain("hwasal"), Plain("hwasal"))>>)}
Upstream(id, name, slug) == [id |-> UpId(id), name |-> name, slug |-> slug]
Snapshot(skill, keyword) ==
  [d \in DOMAIN_BUCKET |->
     CASE d = "skill" -> skill [] d = "keyword" -> keyword
       [] d = "base" -> <<Upstream("vest", Plain("vest"), NoText)>> [] OTHER -> <<>>]
DataSnapshots ==
  {Snapshot(<<Upstream("b1", Plain("bolt"), NoText), Upstream("b2", Slug("bolt"), NoText)>>,
            <<Upstream("ev", Plain("dodge"), Plain("evasion"))>>),
   Snapshot(<<Upstream("b1", Plain("bolt"), NoText)>>, <<>>)}
BoltId == <<"skill", Slug("bolt")>>
LiveTerm ==
  [id |-> BoltId, domain |-> "skill", canonicalEn |-> Plain("bolt"), ko |-> Plain("live"),
   aliasesEn |-> {Plain("bolt")}, aliasesKo |-> {Plain("live")}, slug |-> Slug("bolt"),
   upstreamIds |-> {}, confidence |-> "slug", source |-> "poe2db"]
LiveCollections == {<<>>, <<LiveTerm>>}
HandOverrides ==
  {[id |-> BoltId, ko |-> Plain("hand")], [id |-> BoltId, aliasesEn |-> {Plain("bb")}],
   [id |-> <<"passive", Plain("node")>>, domain |-> "nodes", ko |-> Plain("hand")]}
ClipboardLines == {<<Plain("l1")>>, <<Plain("l2"), Plain("l1")>>}
TypedIds == {Blank, UpId("x")}

(* Assets: two domains, the second first in the order of the ids; an icon        *)
(* replaced, one shared by both domains, another with the same file name.       *)
Icon(host) == [host |-> host, base |-> "fire.webp"]
IconCard(slug, icon) == [slug |-> slug, icon |-> icon]
SitePagesOf(support, spirit) ==
  [page \in {"kr", "us"} \X {"Support", "Spirit"} |-> IF page[2] = "Support" THEN support ELSE spirit]
SiteOverTime ==
  <<SitePagesOf(<<IconCard("fire", Icon("a"))>>, <<IconCard("flame", Icon("b"))>>),
    SitePagesOf(<<IconCard("fire", Icon("a")), IconCard("ember", Icon("c"))>>,
                <<IconCard("flame", NoUrl)>>),
    SitePagesOf(<<IconCard("fire", Icon("b"))>>, <<IconCard("flame", Icon("b"))>>)>>
CollectedPaths == <<[path |-> "Support", domain |-> "support_gem"], [path |-> "Spirit", domain |-> "skill"]>>
KeysAsked == {<<1, 2>>, <<1>>}
OrderOfIds == <<<<"skill", "flame">>, <<"support_gem", "ember">>, <<"support_gem", "fire">>>>

(* Build tabs: the options of the presets, a list and a type with no control. *)
OptionTypes ==
  [enemyIsBoss |-> "check", usePowerCharges |-> "count", useFrenzyCharges |-> "count",
   useEnduranceCharges |-> "count", enemyName |-> "list", other |-> "slider"]
GemInput(id, support, meta) == [gemId |-> id, support |-> support, meta |-> meta, enabled |-> TRUE]
GemsToAdd == {GemInput("g1", FALSE, "active"), GemInput("g2", TRUE, "")}
CalcAnswers == {[FireResist |-> 76, ColdResist |-> 75, ChaosResist |-> 0]}

(* Phase: a chain written backwards, a cycle, an id given twice. *)
Task(id, deps) == [id |-> id, deps |-> deps]
Plans == {<<Task("c", {"b"}), Task("b", {"a"}), Task("a", {})>>,
          <<Task("a", {"b"}), Task("b", {"a"}), Task("c", {"gone"})>>,
          <<Task("a", {"b"}), Task("a", {}), Task("b", {})>>}
RequiredGates == <<TRUE, FALSE>>

(* Palette: the list before and after a session appears. *)
Cmd(id, tokens) == [id |-> id, tokens |-> tokens]
Lists == {<<Cmd("tree", {"tree"}), Cmd("items", {"items"})>>,
          <<Cmd("tree", {"tree"}), Cmd("items", {"items"}), Cmd("save", {"save", "items"})>>}
Typed == {{}, {"items"}, {"zzz"}}

=============================================================================

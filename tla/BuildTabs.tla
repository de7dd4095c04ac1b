----------------------------- MODULE BuildTabs ------------------------------
(***************************************************************************)
(* The Config, Skills and Overview tabs: the models built from the core's  *)
(* answers, and the edits sent back.  A preset is a loop of awaited writes *)
(* that nothing keeps from overlapping another preset or an edit; any of   *)
(* its awaits may reject.  An option value is tagged with its type;        *)
(* booleans are 0 and 1.                                                   *)
(***************************************************************************)
EXTENDS Collections, SequencesExt, FiniteSets, TLC

CONSTANTS
  OptionType,    \* the core's control type of each option
  TabPresets,    \* bound: the presets clicked
  TabTexts,      \* bound: the texts typed into a field
  TabGems,       \* bound: gems that may be added
  TabCalcs,      \* bound: what calc.run may answer: a value per stat
  MaxTabSteps    \* bound on the user's steps

VARIABLES
  cfgCore,     \* the core's value of every option
  cfgCards,    \* the values on screen
  cfgPreset,   \* ConfigPanel: the preset highlighted, or none
  cfgJobs,     \* edits in flight, in the order they were asked for
  cfgWanted,   \* history: the last value asked for, per option
  cfgContested,\* history: options whose last choice met another handler, or a failure
  skGems,      \* the gem list being edited
  calcShown,   \* the calc.run on screen
  tabSteps

tabVars == <<cfgCore, cfgCards, cfgPreset, cfgJobs, cfgWanted, cfgContested, skGems,
             calcShown, tabSteps>>
cfgVars == <<cfgCore, cfgCards, cfgPreset, cfgJobs, cfgWanted, cfgContested>>

-----------------------------------------------------------------------------
(* Config: an option whose type is no known kind has no control. *)
KNOWN_KINDS == {"check", "count", "list"}
inputKind(type) == IF type \in KNOWN_KINDS THEN type ELSE "unsupported"

OptionValue(optionId, value) == [optionId |-> optionId, value |-> value]

CONFIG_PRESETS ==
  [generalMapping |-> <<OptionValue("enemyIsBoss", <<"check", 0>>)>>,
   bossing        |-> <<OptionValue("enemyIsBoss", <<"check", 1>>)>>,
   fullCharges    |-> <<OptionValue("usePowerCharges", <<"count", 3>>),
                        OptionValue("useFrenzyCharges", <<"count", 3>>),
                        OptionValue("useEnduranceCharges", <<"count", 3>>)>>,
   shockedEnemy   |-> <<OptionValue("conditionEnemyShocked", <<"check", 1>>)>>,
   cursedEnemy    |-> <<OptionValue("conditionEnemyCursed", <<"check", 1>>)>>,
   lowLife        |-> <<OptionValue("conditionLowLife", <<"check", 1>>)>>,
   custom         |-> <<>>]

(* Bug: only the first value of a preset is sent. *)
presetToConfigOptionsFirst(preset) ==
  Filter(CONFIG_PRESETS[preset], LAMBDA v : v = Head(CONFIG_PRESETS[preset]))

presetToConfigOptions(preset) == CONFIG_PRESETS[preset]

(* The presets are the ones listed, and give an option a value of its own type. *)
ASSUME PresetsFit ==
  /\ TabPresets \subseteq DOMAIN CONFIG_PRESETS
  /\ \A preset \in TabPresets : \A i \in DOMAIN CONFIG_PRESETS[preset] :
       LET v == CONFIG_PRESETS[preset][i]
       IN v.optionId \in DOMAIN OptionType => v.value[1] = OptionType[v.optionId]

toInput(optionId, cards) ==
  [optionId |-> optionId, kind |-> inputKind(OptionType[optionId]), value |-> cards[optionId]]

buildConfigModel(cards) == {toInput(optionId, cards) : optionId \in DOMAIN cards}

(* What the control of a kind may send: a toggle, Number of the text, the text. *)
NumberOf(text) == IF text = "" THEN 0 ELSE CHOOSE n \in 0 .. 99 : ToString(n) = text
Digits(text) == text = "" \/ \E n \in 0 .. 99 : ToString(n) = text

(* Bug: a count is sent as the text of its field. *)
OptionControlText(input) ==
  CASE input.kind = "check" -> {<<"check", 0>>, <<"check", 1>>} \ {input.value}
    [] input.kind = "count" -> {<<"list", text>> : text \in {x \in TabTexts : Digits(x)}}
    [] input.kind = "list"  -> {<<"list", text>> : text \in TabTexts}
    [] OTHER -> {}

OptionControl(input) ==
  CASE input.kind = "check" -> {<<"check", 0>>, <<"check", 1>>} \ {input.value}
    [] input.kind = "count" -> {<<"count", NumberOf(text)>> : text \in {x \in TabTexts : Digits(x)}}
    [] input.kind = "list"  -> {<<"list", text>> : text \in TabTexts}
    [] OTHER -> {}

(* A custom scenario: an entry is replaced in place, or appended. *)
setOptionValue(values, optionId, value) ==
  IF \E i \in DOMAIN values : values[i].optionId = optionId
  THEN [i \in DOMAIN values |->
          IF values[i].optionId = optionId THEN OptionValue(optionId, value) ELSE values[i]]
  ELSE Append(values, OptionValue(optionId, value))

-----------------------------------------------------------------------------
(* Skills: active gems are classed by metadata, supports by position. *)
activeCategory(gem) == IF gem.meta = "" THEN "unsupported" ELSE gem.meta
toChip(gem) == [gemId |-> gem.gemId, enabled |-> gem.enabled,
                category |-> IF gem.support THEN "support" ELSE activeCategory(gem)]

GemsOf(Ids, Metas) == [gemId : Ids, enabled : BOOLEAN, support : BOOLEAN, meta : Metas]

ASSUME GemsAreRecords ==
  TabGems \subseteq GemsOf({gem.gemId : gem \in TabGems}, {gem.meta : gem \in TabGems})

IsActive(gem) == ~gem.support
IsSupport(gem) == gem.support

ActiveFirst(gems) == Filter(gems, IsActive) \o Filter(gems, IsSupport)

toCard(gems) == LET ordered == ActiveFirst(gems) IN [i \in DOMAIN ordered |-> toChip(ordered[i])]

groupToGemInputs(gems) == ActiveFirst(gems)

toggleGemEnabled(gems, gemId) ==
  [i \in DOMAIN gems |-> IF gems[i].gemId = gemId THEN [gems[i] EXCEPT !.enabled = ~@] ELSE gems[i]]

(* Bug: a gem that is there already is added again. *)
addGemTwice(gems, gem) == Append(gems, gem)

addGem(gems, gem) ==
  IF \E i \in DOMAIN gems : gems[i].gemId = gem.gemId THEN gems ELSE Append(gems, gem)

removeGem(gems, gemId) == Filter(gems, LAMBDA gem : gem.gemId # gemId)

-----------------------------------------------------------------------------
(* Overview: a card's fields, missing where the core sent no value. *)
OFFENCE_SPEC == <<"TotalDPS", "AverageDamage", "CritChance", "CritMultiplier", "Speed">>
DEFENCE_SPEC == <<"Life", "Mana", "EnergyShield", "Armour", "Evasion", "FireResist", "ColdResist",
                  "LightningResist", "ChaosResist", "TotalEHP">>
RESOURCE_SPEC == <<"Spirit", "SpiritReserved", "ManaReserved", "ManaUnreserved">>

(* The value is undefined, an empty set here, in a field that is missing. *)
toField(calc, statId) ==
  [statId |-> statId, present |-> statId \in DOMAIN calc,
   value |-> {calc[s] : s \in {statId} \cap DOMAIN calc}]

buildCard(calc, spec) == [i \in DOMAIN spec |-> toField(calc, spec[i])]

buildOverviewModel(calc) ==
  [offence |-> buildCard(calc, OFFENCE_SPEC), defence |-> buildCard(calc, DEFENCE_SPEC),
   resource |-> buildCard(calc, RESOURCE_SPEC)]

RESIST_STATS == {"FireResist", "ColdResist", "LightningResist"}
DEFAULT_MAX_RESIST == 75

MaxResist(maxResists, statId) ==
  IF statId \in DOMAIN maxResists THEN maxResists[statId] ELSE DEFAULT_MAX_RESIST

buildWarningModel(calc, maxResists) ==
  {[code |-> <<"resist-below-cap", r>>, statId |-> r] :
     r \in {s \in RESIST_STATS \cap DOMAIN calc : calc[s] < MaxResist(maxResists, s)}}

-----------------------------------------------------------------------------
NoPreset == "none"
ZeroOf(type) == IF type = "list" THEN <<"list", "">> ELSE <<type, 0>>

TabInit ==
  /\ cfgCore = [o \in DOMAIN OptionType |-> ZeroOf(OptionType[o])]
  /\ cfgCards = cfgCore /\ cfgPreset = NoPreset
  /\ cfgJobs = <<>> /\ cfgWanted = cfgCore /\ cfgContested = {}
  /\ skGems = <<>>
  /\ calcShown = <<>>
  /\ tabSteps = 0

TabStep == tabSteps < MaxTabSteps /\ tabSteps' = tabSteps + 1

Named(payload) == {payload[i].optionId : i \in DOMAIN payload}

(* A handler: the writes it has left, the options it names, and the answer to    *)
(* its refresh once the core has given it, an empty set before.                  *)
Job(payload) == [todo |-> payload, named |-> Named(payload), options |-> {}]
InFlight == UNION {cfgJobs[j].named : j \in DOMAIN cfgJobs}
RefreshOnTheWay == \E j \in DOMAIN cfgJobs : cfgJobs[j].options # {}

(* A handler of App starts with its list of writes; an empty one ends at once. *)
StartWrites(payload, asked) ==
  /\ cfgJobs' = IF payload = <<>> THEN cfgJobs ELSE Append(cfgJobs, Job(payload))
  /\ cfgWanted' = [o \in DOMAIN cfgWanted |->
                     IF o \in Named(asked) THEN asked[CHOOSE i \in DOMAIN asked : asked[i].optionId = o].value
                     ELSE cfgWanted[o]]
  /\ cfgContested' = IF cfgJobs = <<>> THEN cfgContested \ Named(asked)
                     ELSE cfgContested \cup (Named(asked) \cap InFlight)

handleApplyPreset ==
  /\ TabStep
  /\ \E preset \in TabPresets :
       cfgPreset' = preset /\ StartWrites(presetToConfigOptions(preset), CONFIG_PRESETS[preset])
  /\ UNCHANGED <<cfgCore, cfgCards, skGems, calcShown>>

(* An edit leaves the highlighted preset as it is. *)
onChangeOption ==
  /\ TabStep
  /\ \E input \in buildConfigModel(cfgCards) : \E value \in OptionControl(input) :
       LET payload == setOptionValue(<<>>, input.optionId, value)
       IN StartWrites(payload, payload)
  /\ UNCHANGED <<cfgCore, cfgCards, cfgPreset, skGems, calcShown>>

Write(core, value) == [core EXCEPT ![value.optionId] = value.value]

(* The core takes the next write of some handler and computes anew; the last    *)
(* one shows the new calculation.                                               *)
WriteAnswered ==
  /\ \E j \in DOMAIN cfgJobs :
       LET todo == cfgJobs[j].todo
       IN /\ todo # <<>>
          /\ cfgCore' = Write(cfgCore, Head(todo))
          /\ cfgJobs' = [cfgJobs EXCEPT ![j].todo = Tail(@)]
          /\ calcShown' \in IF Len(todo) > 1 THEN {calcShown} ELSE TabCalcs
          /\ cfgContested' = IF RefreshOnTheWay THEN cfgContested \cup {Head(todo).optionId}
                             ELSE cfgContested
  /\ UNCHANGED <<cfgCards, cfgPreset, cfgWanted, skGems, tabSteps>>

(* An await rejects - the write, which the core may have taken, its calc.run, or *)
(* the refresh: the handler ends where it is and the cards stay as they are.     *)
HandlerRejects ==
  /\ \E j \in DOMAIN cfgJobs :
       LET job == cfgJobs[j]
       IN /\ job.options = {}
          /\ \/ UNCHANGED cfgCore
             \/ job.todo # <<>> /\ cfgCore' = Write(cfgCore, Head(job.todo))
          /\ cfgJobs' = RemoveAt(cfgJobs, j)
          /\ cfgContested' = cfgContested \cup job.named
  /\ UNCHANGED <<cfgCards, cfgPreset, cfgWanted, skGems, calcShown, tabSteps>>

(* A handler that has written everything asks for the options: the core answers *)
(* with what it holds, ...                                                      *)
OptionsServed ==
  /\ \E j \in DOMAIN cfgJobs :
       /\ cfgJobs[j].todo = <<>> /\ cfgJobs[j].options = {}
       /\ cfgJobs' = [cfgJobs EXCEPT ![j].options = {cfgCore}]
  /\ UNCHANGED <<cfgCore, cfgCards, cfgPreset, cfgWanted, cfgContested, skGems, calcShown,
                 tabSteps>>

(* ... and the cards show that when the answer arrives. *)
OptionsAnswered ==
  /\ \E j \in DOMAIN cfgJobs :
       cfgCards' \in cfgJobs[j].options /\ cfgJobs' = RemoveAt(cfgJobs, j)
  /\ UNCHANGED <<cfgCore, cfgPreset, cfgWanted, cfgContested, skGems, calcShown, tabSteps>>

EditGems ==
  /\ TabStep
  /\ \/ \E gem \in TabGems : skGems' = addGem(groupToGemInputs(skGems), gem)
     \/ \E gem \in TabGems : skGems' = removeGem(skGems, gem.gemId)
     \/ \E gem \in TabGems : skGems' = toggleGemEnabled(skGems, gem.gemId)
  /\ UNCHANGED <<cfgVars, calcShown>>

TabNext == \/ handleApplyPreset \/ onChangeOption \/ WriteAnswered \/ HandlerRejects
           \/ OptionsServed \/ OptionsAnswered \/ EditGems

TabSpec == TabInit /\ [][TabNext]_tabVars

-----------------------------------------------------------------------------
(* Every option keeps a value of its own type, from a preset or from a control. *)
TabTypeOK ==
  /\ \A o \in DOMAIN OptionType : cfgCore[o][1] = OptionType[o] /\ cfgCards[o][1] = OptionType[o]
  /\ cfgPreset \in DOMAIN CONFIG_PRESETS \cup {NoPreset}

(* Once no handler is in flight the core and the cards have, for every option,   *)
(* the value the user asked for last, through a preset or an edit - unless the   *)
(* option was asked for while a handler that names it was in flight, when an     *)
(* earlier preset may undo a later edit (App.tsx:264); was written while the     *)
(* answer to another handler's refresh was on its way, when the older answer may *)
(* be shown last (App.tsx:270); or its handler failed.  To ask for it again with *)
(* nothing in flight repairs it.                                                 *)
LastChoiceIsApplied ==
  cfgJobs = <<>> =>
    \A o \in DOMAIN OptionType \ cfgContested :
      cfgCore[o] = cfgWanted[o] /\ cfgCards[o] = cfgWanted[o]

(* No sequence of edits leaves two gems of one id in a group: chips are keyed    *)
(* and toggled by their id, so one toggle would flip both; and the card shows    *)
(* each gem once (skills-model.ts:144, SkillGroupCard.tsx:166).                  *)
OneChipPerGem ==
  LET chips == toCard(skGems)
  IN /\ Len(chips) = Len(skGems)
     /\ \A i, j \in DOMAIN chips : chips[i].gemId = chips[j].gemId => i = j

(* The warnings and the defence card read one calculation: a resistance is       *)
(* warned about exactly when the card shows it, and shows it below the cap       *)
(* (warnings.ts:90, view-model.ts:101).                                          *)
WarningsMatchTheCards ==
  LET card == buildOverviewModel(calcShown).defence
      warned == {w.statId : w \in buildWarningModel(calcShown, [FireResist |-> 78])}
      low == {i \in DOMAIN card : \E v \in card[i].value :
                v < MaxResist([FireResist |-> 78], card[i].statId)}
  IN warned = {card[i].statId : i \in low} \cap RESIST_STATS
=============================================================================

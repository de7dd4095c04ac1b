------------------------------ MODULE CalcsTab ------------------------------
(***************************************************************************)
(* The Calcs tab: the breakdown tree built from calc.run and calc.explain, *)
(* its collapsible sections and rows, and the debounced request for a      *)
(* trace that is missing.  One timer serves every row.                     *)
(***************************************************************************)
EXTENDS Collections, FiniteSets

CONSTANTS
  CalcsStats,   \* the stats the core emits; rows of others are shown as missing
  CalcsWatched, \* bound: the stats whose rows the user opens
  MaxCalcsSteps \* bound on the user's steps

VARIABLES
  calcsRun,      \* calc.run: a value per stat, or no open build
  calcsPrev,     \* the run before the last edit
  calcsExplains, \* the traces loaded, by stat
  calcsOpen,     \* rows expanded
  calcsFolded,   \* sections collapsed
  calcsTimer,    \* the stat the debounce timer will ask for
  calcsAsked,    \* stats whose calc.explain is in flight
  calcsExcused,  \* history: stats whose open row lost its trace or its request since:
                 \* to a later row, to an edit, to a failure
  calcsSteps

calcsVars == <<calcsRun, calcsPrev, calcsExplains, calcsOpen, calcsFolded, calcsTimer,
               calcsAsked, calcsExcused, calcsSteps>>

Group(id, stats) == [id |-> id, stats |-> stats]

CALCS_BREAKDOWN_SPEC ==
  <<[id |-> "summary", groups |-> <<Group("summary", <<"TotalDPS", "TotalEHP">>)>>],
    [id |-> "offence", groups |->
       <<Group("hit", <<"TotalDPS", "AverageDamage">>),
         Group("crit", <<"CritChance", "CritMultiplier">>),
         Group("ailments", <<"IgniteDPS">>),
         Group("dot", <<"TotalDotDPS">>)>>],
    [id |-> "defence", groups |->
       <<Group("pools", <<"Life", "EnergyShield", "Mana">>),
         Group("resistances", <<"FireResist", "ColdResist", "LightningResist", "ChaosResist">>),
         Group("mitigation", <<"Armour", "Evasion">>),
         Group("ehp", <<"TotalEHP">>)>>],
    [id |-> "resource", groups |->
       <<Group("resource", <<"Spirit", "SpiritReserved", "ManaReserved", "ManaUnreserved">>)>>]>>

NoStat == "no stat"

ASSUME CalcsAssumption == NoStat \notin CalcsWatched
NoRun == <<>>

traceFor(explains, stat) ==
  IF stat \in DOMAIN explains THEN [explained |-> TRUE, formula |-> explains[stat]]
  ELSE [explained |-> FALSE, formula |-> "noTrace"]

(* undefined, the empty set here, unless both runs have the stat. *)
deltaFor(run, prev, stat) ==
  {[before |-> prev[s], after |-> run[s], delta |-> run[s] - prev[s]] :
     s \in {stat} \cap DOMAIN run \cap DOMAIN prev}

toBreakdownStat(run, explains, prev, stat) ==
  [statId |-> stat, present |-> stat \in DOMAIN run, trace |-> traceFor(explains, stat),
   finalValue |-> {run[s] : s \in {stat} \cap DOMAIN run}, delta |-> deltaFor(run, prev, stat)]

(* The raw traces as supplied, whether the run has their stats or not. *)
rawTraceSection(explains) ==
  {[section |-> "rawTrace", group |-> "rawTrace",
    stat |-> [statId |-> s, present |-> TRUE, trace |-> traceFor(explains, s),
              finalValue |-> {explains[s]}, delta |-> {}]] : s \in DOMAIN explains}

(* The leaves of the model, each with its section and group. *)
buildCalcsModel(run, explains, prev) ==
  (UNION {UNION {{[section |-> CALCS_BREAKDOWN_SPEC[i].id,
                   group |-> CALCS_BREAKDOWN_SPEC[i].groups[j].id,
                   stat |-> toBreakdownStat(run, explains, prev, CALCS_BREAKDOWN_SPEC[i].groups[j].stats[k])]
                  : k \in DOMAIN CALCS_BREAKDOWN_SPEC[i].groups[j].stats}
                 : j \in DOMAIN CALCS_BREAKDOWN_SPEC[i].groups}
          : i \in DOMAIN CALCS_BREAKDOWN_SPEC})
  \cup rawTraceSection(explains)

Leaves == buildCalcsModel(calcsRun, calcsExplains, calcsPrev)

(* React keeps a row's state by its place and stat id. *)
RowOf(leaf) == <<leaf.section, leaf.group, leaf.stat.statId>>

explainedIds == {leaf.stat.statId : leaf \in {l \in Leaves : l.stat.trace.explained}}

CalcsInit ==
  /\ calcsRun = NoRun /\ calcsPrev = NoRun /\ calcsExplains = <<>>
  /\ calcsOpen = {} /\ calcsFolded = {}
  /\ calcsTimer = NoStat /\ calcsAsked = {} /\ calcsExcused = {}
  /\ calcsSteps = 0

CalcsStep == calcsSteps < MaxCalcsSteps /\ calcsSteps' = calcsSteps + 1

OpenStats(rows) == {row[3] : row \in rows}

(* Opening a row without a trace restarts the one timer for it. *)
handleExpandStat(stat) ==
  IF stat \in explainedIds THEN UNCHANGED <<calcsTimer, calcsExcused>>
  ELSE /\ calcsTimer' = stat
       /\ calcsExcused' = (calcsExcused \ {stat}) \cup ({calcsTimer} \ {NoStat, stat})

(* Bug: a row that closes takes the pending request with it. *)
handleToggleCancelling(row) ==
  /\ CalcsStep
  /\ row[1] \notin calcsFolded
  /\ IF row \in calcsOpen
       THEN calcsOpen' = calcsOpen \ {row} /\ calcsTimer' = NoStat /\ UNCHANGED calcsExcused
       ELSE calcsOpen' = calcsOpen \cup {row} /\ handleExpandStat(row[3])
  /\ UNCHANGED <<calcsRun, calcsPrev, calcsExplains, calcsFolded, calcsAsked>>

(* A click on a row opens or closes it; closing leaves the timer alone. *)
handleToggle(row) ==
  /\ CalcsStep
  /\ row[1] \notin calcsFolded
  /\ IF row \in calcsOpen
       THEN calcsOpen' = calcsOpen \ {row} /\ UNCHANGED <<calcsTimer, calcsExcused>>
       ELSE calcsOpen' = calcsOpen \cup {row} /\ handleExpandStat(row[3])
  /\ UNCHANGED <<calcsRun, calcsPrev, calcsExplains, calcsFolded, calcsAsked>>

(* Collapsing a section unmounts its rows. *)
ToggleSection(section) ==
  /\ CalcsStep
  /\ IF section \in calcsFolded
       THEN calcsFolded' = calcsFolded \ {section} /\ UNCHANGED calcsOpen
       ELSE /\ calcsFolded' = calcsFolded \cup {section}
            /\ calcsOpen' = {row \in calcsOpen : row[1] # section}
  /\ UNCHANGED <<calcsRun, calcsPrev, calcsExplains, calcsTimer, calcsAsked, calcsExcused>>

(* Another tab is chosen: the panel and its timer go, requests in flight stay. *)
LeaveCalcs ==
  /\ CalcsStep
  /\ calcsOpen' = {} /\ calcsFolded' = {} /\ calcsTimer' = NoStat
  /\ UNCHANGED <<calcsRun, calcsPrev, calcsExplains, calcsAsked, calcsExcused>>

ExplainTimerFires ==
  /\ calcsTimer # NoStat
  /\ calcsTimer' = NoStat
  /\ calcsAsked' = calcsAsked \cup {calcsTimer}
  /\ UNCHANGED <<calcsRun, calcsPrev, calcsExplains, calcsOpen, calcsFolded, calcsExcused,
                 calcsSteps>>

(* The trace arrives, as the core computed it, or the call fails. *)
Explained(stat, ok) ==
  /\ stat \in calcsAsked
  /\ calcsAsked' = calcsAsked \ {stat}
  /\ IF ok THEN /\ calcsExplains' = Put(calcsExplains, stat, 1)
                /\ UNCHANGED calcsExcused
           ELSE /\ calcsExcused' = calcsExcused \cup {stat}
                /\ UNCHANGED calcsExplains
  /\ UNCHANGED <<calcsRun, calcsPrev, calcsOpen, calcsFolded, calcsTimer, calcsSteps>>

(* An edit ends: new stats, the old ones as the baseline, every trace dropped,   *)
(* and with the traces the rows of the raw-trace section.                       *)
EditEnds(emitted) ==
  /\ CalcsStep
  /\ calcsPrev' = calcsRun
  /\ calcsRun' = [s \in emitted |-> 1]
  /\ calcsExplains' = <<>>
  /\ calcsOpen' = {row \in calcsOpen : row[1] # "rawTrace"}
  /\ calcsExcused' = calcsExcused \cup DOMAIN calcsExplains
  /\ UNCHANGED <<calcsFolded, calcsTimer, calcsAsked>>

CalcsNext ==
  \/ \E leaf \in {l \in Leaves : l.stat.statId \in CalcsWatched} : handleToggle(RowOf(leaf))
  \/ \E section \in {"summary", "rawTrace"} : ToggleSection(section)
  \/ LeaveCalcs
  \/ ExplainTimerFires
  \/ \E stat \in calcsAsked, ok \in BOOLEAN : Explained(stat, ok)
  \/ \E emitted \in {CalcsStats, CalcsWatched} : EditEnds(emitted)

CalcsSpec == CalcsInit /\ [][CalcsNext]_calcsVars

-----------------------------------------------------------------------------
(* A stat with an open row has its trace, or a request for it is pending or in  *)
(* flight, unless a row opened within the window, an edit or a failure took it  *)
(* away; only then does a row stay at "no trace" until it is opened again.      *)
OpenRowsAreServed ==
  \A stat \in OpenStats(calcsOpen) :
    stat \in explainedIds \cup {calcsTimer} \cup calcsAsked \cup calcsExcused
=============================================================================

--------------------------- MODULE CommandPalette --------------------------
(***************************************************************************)
(* The Ctrl+K palette: the list narrows as the user types, and the App may *)
(* replace its commands while the palette is open.  A command is its id    *)
(* and its searchable tokens; a query is the set of tokens it is part of.  *)
(***************************************************************************)
EXTENDS Collections, FiniteSets

CONSTANTS
  CommandLists,    \* the lists the App may pass: sequences of [id, tokens]
  PaletteQueries,  \* bound: what is typed, each the tokens that contain it
  MaxPaletteKeys   \* bound on the user's events

ASSUME CommandListsAreLists ==
  \A list \in CommandLists : list \in Seq({list[i] : i \in DOMAIN list})

VARIABLES palOpen, palQuery, palHighlight, palCommands,
          palLastRun,   \* history: the command run last and the one marked then
          palKeys

palVars == <<palOpen, palQuery, palHighlight, palCommands, palLastRun, palKeys>>

EmptyQuery == {}
NoCommand == "none"

matchCommand(command, query) == query = EmptyQuery \/ command.tokens \cap query # {}

filterCommands(commands, query) == Filter(commands, LAMBDA c : matchCommand(c, query))

results == filterCommands(palCommands, palQuery)

(* Bug: the highlight is not brought back into a list that shrank. *)
activeIndexRaw == IF results = <<>> THEN -1 ELSE palHighlight

activeIndex ==
  CASE results = <<>> -> -1
    [] palHighlight > Len(results) - 1 -> Len(results) - 1
    [] OTHER -> palHighlight

(* The option with aria-selected, if any: what the user sees marked. *)
Marked == {results[i].id : i \in {j \in DOMAIN results : j - 1 = activeIndex}}

PaletteInit ==
  /\ palOpen = FALSE /\ palQuery = EmptyQuery /\ palHighlight = 0
  /\ palCommands \in CommandLists
  /\ palLastRun = [ran |-> NoCommand, marked |-> {NoCommand}, list |-> {NoCommand}]
  /\ palKeys = 0

Key == palKeys < MaxPaletteKeys /\ palKeys' = palKeys + 1

(* Ctrl+K starts clean, also when the palette is open already. *)
openPalette ==
  /\ Key
  /\ palOpen' = TRUE /\ palQuery' = EmptyQuery /\ palHighlight' = 0
  /\ UNCHANGED <<palCommands, palLastRun>>

onChange ==
  /\ Key /\ palOpen
  /\ palQuery' \in PaletteQueries
  /\ palHighlight' = 0
  /\ UNCHANGED <<palOpen, palCommands, palLastRun>>

RunCommand(id, marked) ==
  /\ palLastRun' = [ran |-> id, marked |-> marked,
                    list |-> {results[i].id : i \in DOMAIN results}]
  /\ palOpen' = FALSE

(* Enter without a highlighted command leaves the palette open. *)
Enter ==
  /\ Key /\ palOpen
  /\ IF activeIndex + 1 \in DOMAIN results
       THEN RunCommand(results[activeIndex + 1].id, Marked)
       ELSE UNCHANGED <<palOpen, palLastRun>>
  /\ UNCHANGED <<palQuery, palHighlight, palCommands>>

Arrow ==
  /\ Key /\ palOpen
  /\ \E d \in {1, -1} :
       palHighlight' = IF results = <<>> THEN 0
                       ELSE (palHighlight + d + Len(results)) % Len(results)
  /\ UNCHANGED <<palOpen, palQuery, palCommands, palLastRun>>

Escape ==
  /\ Key /\ palOpen
  /\ palOpen' = FALSE
  /\ UNCHANGED <<palQuery, palHighlight, palCommands, palLastRun>>

(* A click runs the option it lands on. *)
ClickOption ==
  /\ Key /\ palOpen
  /\ \E i \in DOMAIN results : RunCommand(results[i].id, {results[i].id})
  /\ UNCHANGED <<palQuery, palHighlight, palCommands>>

(* The App's list changes: a build is opened, or a session appears. *)
CommandsChange ==
  /\ palCommands' \in CommandLists
  /\ UNCHANGED <<palOpen, palQuery, palHighlight, palLastRun, palKeys>>

PaletteNext == openPalette \/ onChange \/ Enter \/ Arrow \/ Escape \/ ClickOption \/ CommandsChange

PaletteSpec == PaletteInit /\ [][PaletteNext]_palVars

-----------------------------------------------------------------------------
(* While a query has matches exactly one option is marked, whatever happened    *)
(* to the list since the arrows moved the highlight, and the command that ran   *)
(* was the marked one, of the list as shown (CommandPalette.tsx:46, 58).        *)
EnterRunsTheMarkedOption ==
  /\ (palOpen /\ results # <<>>) => Cardinality(Marked) = 1
  /\ palLastRun.marked = {palLastRun.ran} /\ palLastRun.ran \in palLastRun.list
=============================================================================

------------------------------ MODULE ItemsTab ------------------------------
(***************************************************************************)
(* The Items tab: the equipped grid, the library with its scope and its    *)
(* filters, clipboard imports and custom items.  Imports and creations are *)
(* calls to the core; several may be in flight, and they are answered in   *)
(* any order.                                                              *)
(***************************************************************************)
EXTENDS Integers, Sequences, SequencesExt, FiniteSets

CONSTANTS
  ItemLocales,   \* the locales a clipboard text can be recognised as
  MaxItemCalls   \* bound on the imports and creations of a behaviour

VARIABLES
  itemsGrid,     \* the cards of the grid, one per slot
  itemsSelected, \* ItemsPanel: the item id last clicked
  itemsScope,    \* build or shared
  itemsSlot,     \* ItemLibrary: the slot filter, or none
  itemsCreated,  \* rows of the custom items created, in the order they were answered
  importedItem,
  importedLocale,
  itemsPending,  \* calls in flight
  itemsCalls,    \* calls made so far
  itemsMade,     \* history: the items the core created
  itemsOverlap   \* history: an import was asked for while another was in flight

itemsVars == <<itemsGrid, itemsSelected, itemsScope, itemsSlot, itemsCreated, importedItem,
               importedLocale, itemsPending, itemsCalls, itemsMade, itemsOverlap>>

EQUIP_SLOT_ORDER == <<"Weapon 1", "Weapon 2", "Helmet", "Body Armour", "Gloves", "Boots",
                      "Ring 1", "Ring 2", "Amulet", "Belt", "Charm", "Flask">>

NoItem == [itemId |-> 0, slot |-> ""]
Imported(call, locale) == [itemId |-> call, slot |-> "Weapon 1", locale |-> locale]

(* A card per slot of the order, for the last item listed in it; an item in any *)
(* other slot has none.                                                         *)
buildEquippedGridModel(equipped) ==
  [slot \in ToSet(EQUIP_SLOT_ORDER) |->
     LET there == SelectSeq(equipped, LAMBDA item : item.slot = slot)
     IN IF there = <<>> THEN NoItem ELSE Last(there)]

(* The last card of the order that holds the item, if any does. *)
cardById(grid, itemId) ==
  LET slots == SelectSeq(EQUIP_SLOT_ORDER, LAMBDA slot : grid[slot].itemId = itemId)
  IN IF itemId = 0 \/ slots = <<>> THEN NoItem ELSE grid[Last(slots)]

(* What the inspector shows: the selected item if it is equipped, else the      *)
(* host's last import, also when a row of the library was clicked.              *)
inspectedItem ==
  IF cardById(itemsGrid, itemsSelected) # NoItem THEN cardById(itemsGrid, itemsSelected)
  ELSE importedItem

(* What items.compare returned becomes chips; a stat asked for and not returned *)
(* is a missing chip, after them.                                               *)
directionOf(delta) == IF delta > 0 THEN "gain" ELSE IF delta < 0 THEN "loss" ELSE "neutral"
DeltaChips(deltas, requested) ==
  [i \in DOMAIN deltas |-> [statId |-> deltas[i].statId, direction |-> directionOf(deltas[i].delta)]]
  \o [i \in DOMAIN SelectSeq(requested, LAMBDA s : \A d \in ToSet(deltas) : d.statId # s) |->
        [statId |-> SelectSeq(requested, LAMBDA s : \A d \in ToSet(deltas) : d.statId # s)[i],
         direction |-> "missing"]]

BuildLibrary == <<[itemId |-> 101, slot |-> "Helmet"]>>
SharedLibrary == <<[itemId |-> 201, slot |-> "Boots"]>>

library ==
  IF itemsScope = "shared" THEN SharedLibrary ELSE BuildLibrary \o itemsCreated

filterItems(items, slot) == SelectSeq(items, LAMBDA row : slot = "" \/ row.slot = slot)

ItemsInit ==
  /\ itemsGrid = buildEquippedGridModel(<<>>)
  /\ itemsSelected = 0
  /\ itemsScope = "build" /\ itemsSlot = ""
  /\ itemsCreated = <<>>
  /\ importedItem = NoItem /\ importedLocale = "none"
  /\ itemsPending = {} /\ itemsCalls = 0
  /\ itemsMade = {} /\ itemsOverlap = FALSE

(* items.getEquipped has answered for an opened build. *)
ShowGrid(equipped) ==
  /\ itemsGrid = buildEquippedGridModel(<<>>)
  /\ itemsGrid' = buildEquippedGridModel(equipped)
  /\ UNCHANGED <<itemsSelected, itemsScope, itemsSlot, itemsCreated, importedItem,
                 importedLocale, itemsPending, itemsCalls, itemsMade, itemsOverlap>>

setSelectedId(itemId) ==
  /\ itemId # itemsSelected
  /\ itemsSelected' = itemId
  /\ UNCHANGED <<itemsGrid, itemsScope, itemsSlot, itemsCreated, importedItem,
                 importedLocale, itemsPending, itemsCalls, itemsMade, itemsOverlap>>

(* The scope changes; the filter keeps its slot, though the new rows may have   *)
(* no item in it.                                                               *)
setScope(scope) ==
  /\ scope # itemsScope
  /\ itemsScope' = scope
  /\ UNCHANGED <<itemsGrid, itemsSelected, itemsSlot, itemsCreated, importedItem,
                 importedLocale, itemsPending, itemsCalls, itemsMade, itemsOverlap>>

setSlot(slot) ==
  /\ slot # itemsSlot
  /\ itemsSlot' = slot
  /\ UNCHANGED <<itemsGrid, itemsSelected, itemsScope, itemsCreated, importedItem,
                 importedLocale, itemsPending, itemsCalls, itemsMade, itemsOverlap>>

(* A call starts; rows is what its render knew of the created items. *)
Call(kind, hint) ==
  /\ itemsCalls < MaxItemCalls
  /\ itemsCalls' = itemsCalls + 1
  /\ itemsPending' = itemsPending \cup
       {[kind |-> kind, call |-> itemsCalls + 1, hint |-> hint, rows |-> itemsCreated]}

importFromClipboard(hint) ==
  /\ Call("import", hint)
  /\ itemsOverlap' = (itemsOverlap \/ \E p \in itemsPending : p.kind = "import")
  /\ UNCHANGED <<itemsGrid, itemsSelected, itemsScope, itemsSlot, itemsCreated, importedItem,
                 importedLocale, itemsMade>>

(* Bug: the locale on screen is the one hinted at, when there was a hint. *)
ParsedHinted(p, locale) ==
  /\ p.kind = "import"
  /\ itemsPending' = itemsPending \ {p}
  /\ importedItem' = Imported(p.call, locale)
  /\ importedLocale' = IF p.hint = "none" THEN importedLocale ELSE p.hint
  /\ UNCHANGED <<itemsGrid, itemsSelected, itemsScope, itemsSlot, itemsCreated, itemsCalls,
                 itemsMade, itemsOverlap>>

(* The parser's answer: the item and the locale it was parsed under. *)
Parsed(p, locale) ==
  /\ p.kind = "import"
  /\ itemsPending' = itemsPending \ {p}
  /\ importedItem' = Imported(p.call, locale)
  /\ importedLocale' = locale
  /\ UNCHANGED <<itemsGrid, itemsSelected, itemsScope, itemsSlot, itemsCreated, itemsCalls,
                 itemsMade, itemsOverlap>>

createCustom ==
  /\ Call("create", "none")
  /\ UNCHANGED <<itemsGrid, itemsSelected, itemsScope, itemsSlot, itemsCreated, importedItem,
                 importedLocale, itemsMade, itemsOverlap>>

toLibraryRow(item) == [itemId |-> item, slot |-> "Helmet"]

(* Bug: the row is appended to the rows the render of the call knew. *)
CreatedOnOldRows(p) ==
  /\ p.kind = "create"
  /\ itemsPending' = itemsPending \ {p}
  /\ itemsMade' = itemsMade \cup {p.call}
  /\ itemsCreated' = Append(p.rows, toLibraryRow(p.call))
  /\ UNCHANGED <<itemsGrid, itemsSelected, itemsScope, itemsSlot, importedItem,
                 importedLocale, itemsCalls, itemsOverlap>>

(* The created item's row is appended to the rows of the build scope. *)
Created(p) ==
  /\ p.kind = "create"
  /\ itemsPending' = itemsPending \ {p}
  /\ itemsMade' = itemsMade \cup {p.call}
  /\ itemsCreated' = Append(itemsCreated, toLibraryRow(p.call))
  /\ UNCHANGED <<itemsGrid, itemsSelected, itemsScope, itemsSlot, importedItem,
                 importedLocale, itemsCalls, itemsOverlap>>

(* A rejected call sets nothing. *)
CallRejected(p) ==
  /\ itemsPending' = itemsPending \ {p}
  /\ UNCHANGED <<itemsGrid, itemsSelected, itemsScope, itemsSlot, itemsCreated, importedItem,
                 importedLocale, itemsCalls, itemsMade, itemsOverlap>>

Equipped == <<[itemId |-> 7, slot |-> "Helmet"], [itemId |-> 8, slot |-> "Jewel 1"]>>

ItemsNext ==
  \/ ShowGrid(Equipped)
  \/ \E row \in ToSet(filterItems(library, itemsSlot)) \cup {c \in {itemsGrid["Helmet"]} : c # NoItem} :
       setSelectedId(row.itemId)
  \/ \E scope \in {"build", "shared"} : setScope(scope)
  \/ \E slot \in {"", "Helmet"} : setSlot(slot)
  \/ \E hint \in ItemLocales \cup {"none"} : importFromClipboard(hint)
  \/ \E p \in itemsPending, locale \in ItemLocales : Parsed(p, locale)
  \/ createCustom
  \/ \E p \in itemsPending : Created(p)
  \/ \E p \in itemsPending : CallRejected(p)

ItemsSpec == ItemsInit /\ [][ItemsNext]_itemsVars

-----------------------------------------------------------------------------
(* Every custom item the core created is in the library of the build, once,     *)
(* however many creations overlapped and whichever scope was on screen, and     *)
(* nothing else was added.                                                      *)
CreatedItemsAreKept ==
  /\ {row.itemId : row \in ToSet(itemsCreated)} = itemsMade
  /\ Len(itemsCreated) = Cardinality(itemsMade)

(* The import on screen is one answer of the parser: its item and its locale    *)
(* belong together, and unless imports overlapped it is the last one asked for  *)
(* that was answered.                                                           *)
ImportShowsOneAnswer ==
  importedItem # NoItem =>
    /\ importedLocale = importedItem.locale
    /\ ~itemsOverlap => \A p \in itemsPending : p.kind = "import" => p.call > importedItem.itemId
=============================================================================

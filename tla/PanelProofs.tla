---------------------------- MODULE PanelProofs -----------------------------
(***************************************************************************)
(* Theorems about the panels that hold state of their own: the Items and   *)
(* the Calcs tab, the edits of the build tabs, the command palette, and    *)
(* the passive tree (the mouse and the viewport, the two transforms of a   *)
(* tree, the path shown on hover).                                         *)
(***************************************************************************)
EXTENDS ItemsTab, CalcsTab, BuildTabs, CommandPalette, TreeCanvas, TreeGraph,
        CollectionsProofs, FiniteSetTheorems

-----------------------------------------------------------------------------
(* Items.  Calls are numbered as they are made, so a call in flight is one      *)
(* nobody has answered, and the rows of the library are the answers.            *)
ItemRows == [itemId : Nat, slot : {"Helmet"}]
Pendings == [kind : {"import", "create"}, call : Nat, hint : ItemLocales \cup {"none"},
             rows : Seq(ItemRows)]
ImportedItems == [itemId : Nat, slot : {"Weapon 1"}, locale : ItemLocales]

ItemsTypeInv ==
  /\ itemsCalls \in Nat
  /\ itemsPending \subseteq Pendings
  /\ itemsCreated \in Seq(ItemRows)
  /\ importedItem \in ImportedItems \cup {NoItem}
  /\ itemsOverlap \in BOOLEAN
  /\ itemsMade \subseteq 1 .. itemsCalls

(* Every call in flight has a number of its own that no answer has used.        *)
NumberInv ==
  /\ \A p \in itemsPending : p.call \in 1 .. itemsCalls /\ p.call \notin itemsMade
  /\ \A p, q \in itemsPending : p.call = q.call => p = q
  /\ importedItem # NoItem => importedItem.itemId \in 1 .. itemsCalls

(* Without an overlap one import at most is in flight. *)
LoneImportInv ==
  ~itemsOverlap => \A p, q \in itemsPending : p.kind = "import" /\ q.kind = "import" => p = q

ItemsInv == ItemsTypeInv /\ NumberInv /\ LoneImportInv /\ CreatedItemsAreKept /\ ImportShowsOneAnswer

(* What the parser's answer is as a record. *)
LEMMA ImportedRecord ==
  ASSUME NEW n \in Nat, NEW locale \in ItemLocales
  PROVE  /\ Imported(n, locale) \in ImportedItems
         /\ Imported(n, locale) # NoItem
         /\ Imported(n, locale).itemId = n
         /\ Imported(n, locale).locale = locale
  <1>1. "locale" \in DOMAIN Imported(n, locale) /\ "locale" \notin DOMAIN NoItem
    BY DEF Imported, NoItem
  <1>. QED BY <1>1 DEF ImportedItems, Imported

(* Appending the row of a new item. *)
LEMMA RowAppended ==
  ASSUME CreatedItemsAreKept, ItemsTypeInv, NEW n \in Nat, n \notin itemsMade,
         itemsCreated' = Append(itemsCreated, toLibraryRow(n)), itemsMade' = itemsMade \cup {n}
  PROVE  /\ itemsCreated' \in Seq(ItemRows)
         /\ CreatedItemsAreKept'
  <1>1. toLibraryRow(n) \in ItemRows /\ toLibraryRow(n).itemId = n
    BY DEF toLibraryRow, ItemRows
  <1>2. /\ itemsCreated' \in Seq(ItemRows) /\ Len(itemsCreated') = Len(itemsCreated) + 1
        /\ \A i \in 1 .. Len(itemsCreated) : itemsCreated'[i] = itemsCreated[i]
        /\ itemsCreated'[Len(itemsCreated) + 1] = toLibraryRow(n)
        /\ Len(itemsCreated) \in Nat /\ DOMAIN itemsCreated = 1 .. Len(itemsCreated)
        /\ DOMAIN itemsCreated' = 1 .. (Len(itemsCreated) + 1)
    BY <1>1, AppendProperties, LenProperties DEF ItemsTypeInv
  <1>3. ToSet(itemsCreated') = ToSet(itemsCreated) \cup {toLibraryRow(n)}
    <2>1. 1 .. (Len(itemsCreated) + 1) = 1 .. Len(itemsCreated) \cup {Len(itemsCreated) + 1}
      BY <1>2
    <2>. QED BY <1>2, <2>1 DEF ToSet
  <1>4. {row.itemId : row \in ToSet(itemsCreated')} = itemsMade'
    BY <1>1, <1>3 DEF CreatedItemsAreKept
  <1>5. IsFiniteSet(itemsMade)
    <2>1. IsFiniteSet(1 .. itemsCalls)
      BY FS_Interval DEF ItemsTypeInv
    <2>. QED BY <2>1, FS_Subset DEF ItemsTypeInv
  <1>6. Cardinality(itemsMade') = Cardinality(itemsMade) + 1
    BY <1>5, FS_AddElement
  <1>. QED BY <1>2, <1>4, <1>6 DEF CreatedItemsAreKept

LEMMA ItemsInitInv == ItemsInit => ItemsInv
  <1>. SUFFICES ASSUME ItemsInit PROVE ItemsInv
    OBVIOUS
  <1>0. /\ itemsCreated = <<>> /\ importedItem = NoItem /\ itemsPending = {} /\ itemsCalls = 0
        /\ itemsMade = {} /\ itemsOverlap = FALSE
    BY DEF ItemsInit
  <1>1. ItemsTypeInv /\ NumberInv /\ LoneImportInv /\ ImportShowsOneAnswer
    BY <1>0, EmptySeq DEF ItemsTypeInv, NumberInv, LoneImportInv, ImportShowsOneAnswer
  <1>2. CreatedItemsAreKept
    <2>1. ToSet(itemsCreated) = {} /\ Len(itemsCreated) = 0
      BY <1>0 DEF ToSet
    <2>2. {row.itemId : row \in ToSet(itemsCreated)} = {}
      BY <2>1
    <2>. QED BY <1>0, <2>1, <2>2, FS_EmptySet DEF CreatedItemsAreKept
  <1>. QED BY <1>1, <1>2 DEF ItemsInv

(* A call gets the next number. *)
LEMMA CallStep ==
  ASSUME ItemsInv, NEW kind \in {"import", "create"}, NEW hint \in ItemLocales \cup {"none"},
         Call(kind, hint),
         itemsOverlap' = (itemsOverlap \/ (kind = "import" /\ \E p \in itemsPending : p.kind = "import")),
         UNCHANGED <<itemsCreated, importedItem, importedLocale, itemsMade>>
  PROVE  ItemsInv'
  <1>. DEFINE new == [kind |-> kind, call |-> itemsCalls + 1, hint |-> hint, rows |-> itemsCreated]
  <1>1. itemsCalls' = itemsCalls + 1 /\ itemsPending' = itemsPending \cup {new}
    BY DEF Call
  <1>2. itemsCalls \in Nat /\ itemsPending \subseteq Pendings /\ new \in Pendings
        /\ new.kind = kind /\ new.call = itemsCalls + 1
    BY DEF ItemsInv, ItemsTypeInv, Pendings
  <1>. HIDE DEF new
  <1>3. ItemsTypeInv'
    BY <1>1, <1>2 DEF ItemsInv, ItemsTypeInv
  <1>4. NumberInv'
    BY <1>1, <1>2 DEF ItemsInv, ItemsTypeInv, NumberInv
  <1>5. LoneImportInv'
    BY <1>1, <1>2 DEF ItemsInv, LoneImportInv
  <1>6. CreatedItemsAreKept'
    BY DEF ItemsInv, CreatedItemsAreKept
  <1>7. ImportShowsOneAnswer'
    <2>. SUFFICES ASSUME importedItem # NoItem
                  PROVE  /\ importedLocale = importedItem.locale
                         /\ ~itemsOverlap' => \A p \in itemsPending' :
                              p.kind = "import" => p.call > importedItem.itemId
      BY DEF ImportShowsOneAnswer
    <2>1. importedItem.itemId \in 1 .. itemsCalls
      BY DEF ItemsInv, NumberInv
    <2>2. itemsCalls + 1 > importedItem.itemId
      BY <1>2, <2>1
    <2>. QED BY <1>1, <1>2, <2>2 DEF ItemsInv, ImportShowsOneAnswer
  <1>. QED BY <1>3, <1>4, <1>5, <1>6, <1>7 DEF ItemsInv

LEMMA ParsedStep ==
  ASSUME ItemsInv, NEW p \in itemsPending, NEW locale \in ItemLocales, Parsed(p, locale)
  PROVE  ItemsInv'
  <1>. DEFINE item == Imported(p.call, locale)
  <1>1. /\ p.kind = "import" /\ itemsPending' = itemsPending \ {p}
        /\ importedItem' = item /\ importedLocale' = locale
        /\ UNCHANGED <<itemsCreated, itemsCalls, itemsMade, itemsOverlap>>
    BY DEF Parsed
  <1>2. p.call \in Nat /\ p.call \in 1 .. itemsCalls
    BY DEF ItemsInv, ItemsTypeInv, NumberInv, Pendings
  <1>3. item \in ImportedItems /\ item # NoItem /\ item.itemId = p.call /\ item.locale = locale
    BY <1>2, ImportedRecord
  <1>. HIDE DEF item
  <1>4. ItemsTypeInv'
    BY <1>1, <1>3 DEF ItemsInv, ItemsTypeInv
  <1>5. NumberInv'
    BY <1>1, <1>2, <1>3 DEF ItemsInv, NumberInv
  <1>6. LoneImportInv'
    BY <1>1 DEF ItemsInv, LoneImportInv
  <1>7. CreatedItemsAreKept'
    BY <1>1 DEF ItemsInv, CreatedItemsAreKept
  <1>8. ImportShowsOneAnswer'
    BY <1>1, <1>3 DEF ItemsInv, LoneImportInv, ImportShowsOneAnswer
  <1>. QED BY <1>4, <1>5, <1>6, <1>7, <1>8 DEF ItemsInv

LEMMA CreatedStep ==
  ASSUME ItemsInv, NEW p \in itemsPending, Created(p)
  PROVE  ItemsInv'
  <1>1. /\ p.kind = "create" /\ itemsPending' = itemsPending \ {p}
        /\ itemsMade' = itemsMade \cup {p.call}
        /\ itemsCreated' = Append(itemsCreated, toLibraryRow(p.call))
        /\ UNCHANGED <<importedItem, importedLocale, itemsCalls, itemsOverlap>>
    BY DEF Created
  <1>2. p.call \in Nat /\ p.call \in 1 .. itemsCalls /\ p.call \notin itemsMade
    BY DEF ItemsInv, ItemsTypeInv, NumberInv, Pendings
  <1>3. itemsCreated' \in Seq(ItemRows) /\ CreatedItemsAreKept'
    BY <1>1, <1>2, RowAppended DEF ItemsInv
  <1>4. ItemsTypeInv'
    BY <1>1, <1>2, <1>3 DEF ItemsInv, ItemsTypeInv
  <1>5. NumberInv'
    BY <1>1, <1>2 DEF ItemsInv, NumberInv
  <1>6. LoneImportInv' /\ ImportShowsOneAnswer'
    BY <1>1 DEF ItemsInv, LoneImportInv, ImportShowsOneAnswer
  <1>. QED BY <1>3, <1>4, <1>5, <1>6 DEF ItemsInv

LEMMA CallRejectedStep ==
  ASSUME ItemsInv, NEW p \in itemsPending, CallRejected(p)
  PROVE  ItemsInv'
  <1>1. /\ itemsPending' = itemsPending \ {p}
        /\ UNCHANGED <<itemsCreated, importedItem, importedLocale, itemsCalls, itemsMade, itemsOverlap>>
    BY DEF CallRejected
  <1>2. ItemsTypeInv' /\ NumberInv'
    BY <1>1 DEF ItemsInv, ItemsTypeInv, NumberInv
  <1>3. LoneImportInv' /\ CreatedItemsAreKept' /\ ImportShowsOneAnswer'
    BY <1>1 DEF ItemsInv, LoneImportInv, CreatedItemsAreKept, ImportShowsOneAnswer
  <1>. QED BY <1>2, <1>3 DEF ItemsInv

LEMMA ItemsNextInv == ItemsInv /\ [ItemsNext]_itemsVars => ItemsInv'
  <1>. SUFFICES ASSUME ItemsInv, [ItemsNext]_itemsVars PROVE ItemsInv'
    OBVIOUS
  <1>. DEFINE others == <<itemsCreated, importedItem, importedLocale, itemsPending, itemsCalls,
                          itemsMade, itemsOverlap>>
  <1>1. ASSUME UNCHANGED others PROVE ItemsInv'
    BY <1>1 DEF ItemsInv, ItemsTypeInv, NumberInv, LoneImportInv, CreatedItemsAreKept,
                ImportShowsOneAnswer
  <1>. HIDE DEF others
  <1>2. CASE ShowGrid(Equipped)
    BY <1>1, <1>2 DEF ShowGrid, others
  <1>3. ASSUME NEW id, setSelectedId(id) PROVE ItemsInv'
    BY <1>1, <1>3 DEF setSelectedId, others
  <1>4. ASSUME NEW scope, setScope(scope) PROVE ItemsInv'
    BY <1>1, <1>4 DEF setScope, others
  <1>5. ASSUME NEW slot, setSlot(slot) PROVE ItemsInv'
    BY <1>1, <1>5 DEF setSlot, others
  <1>6. ASSUME NEW hint \in ItemLocales \cup {"none"}, importFromClipboard(hint) PROVE ItemsInv'
    BY <1>6, CallStep DEF importFromClipboard
  <1>7. ASSUME NEW p \in itemsPending, NEW locale \in ItemLocales, Parsed(p, locale) PROVE ItemsInv'
    BY <1>7, ParsedStep
  <1>8. CASE createCustom
    BY <1>8, CallStep DEF createCustom, ItemsInv, ItemsTypeInv
  <1>9. ASSUME NEW p \in itemsPending, Created(p) PROVE ItemsInv'
    BY <1>9, CreatedStep
  <1>10. ASSUME NEW p \in itemsPending, CallRejected(p) PROVE ItemsInv'
    BY <1>10, CallRejectedStep
  <1>11. CASE UNCHANGED itemsVars
    BY <1>1, <1>11 DEF itemsVars, others
  <1>. QED BY <1>2, <1>3, <1>4, <1>5, <1>6, <1>7, <1>8, <1>9, <1>10, <1>11 DEF ItemsNext

LEMMA ItemsCorrect == ItemsSpec => []ItemsInv
  BY ItemsInitInv, ItemsNextInv, PTL DEF ItemsSpec

(* The library has every custom item the core created, once, for any number of  *)
(* overlapping creations (build-session.ts, ItemLibrary).                       *)
THEOREM LibraryKeepsCreations == ItemsSpec => []CreatedItemsAreKept
  <1>1. ItemsInv => CreatedItemsAreKept
    BY DEF ItemsInv
  <1>. QED BY <1>1, ItemsCorrect, PTL

(* The import on screen is one answer, and the newest unless imports overlapped. *)
THEOREM ImportIsOneAnswer == ItemsSpec => []ImportShowsOneAnswer
  <1>1. ItemsInv => ImportShowsOneAnswer
    BY DEF ItemsInv
  <1>. QED BY <1>1, ItemsCorrect, PTL

-----------------------------------------------------------------------------
(* Calcs.  The leaves that show a trace are those whose stat has one: the raw   *)
(* section lists every trace that was loaded.                                   *)
LEMMA ExplainedAreLoaded == explainedIds = DOMAIN calcsExplains
  <1>. DEFINE leafAt(i, j, k) ==
                [section |-> CALCS_BREAKDOWN_SPEC[i].id,
                 group |-> CALCS_BREAKDOWN_SPEC[i].groups[j].id,
                 stat |-> toBreakdownStat(calcsRun, calcsExplains, calcsPrev,
                                          CALCS_BREAKDOWN_SPEC[i].groups[j].stats[k])]
              ofGroup(i, j) ==
                {leafAt(i, j, k) : k \in DOMAIN CALCS_BREAKDOWN_SPEC[i].groups[j].stats}
              ofSection(i) ==
                UNION {ofGroup(i, j) : j \in DOMAIN CALCS_BREAKDOWN_SPEC[i].groups}
  <1>9. Leaves = (UNION {ofSection(i) : i \in DOMAIN CALCS_BREAKDOWN_SPEC})
                   \cup rawTraceSection(calcsExplains)
    BY DEF Leaves, buildCalcsModel
  <1>0. \A x : x \in Leaves <=> \/ x \in rawTraceSection(calcsExplains)
                               \/ \E i \in DOMAIN CALCS_BREAKDOWN_SPEC : x \in ofSection(i)
    <2>. HIDE DEF ofSection
    <2>. QED BY <1>9
  <1>1. ASSUME NEW leaf \in Leaves, leaf.stat.trace.explained
        PROVE  leaf.stat.statId \in DOMAIN calcsExplains
    <2>1. CASE leaf \in rawTraceSection(calcsExplains)
      <3>1. PICK s \in DOMAIN calcsExplains : leaf.stat.statId = s
        BY <2>1 DEF rawTraceSection
      <3>. QED BY <3>1
    <2>2. CASE leaf \notin rawTraceSection(calcsExplains)
      <3>4. PICK i : leaf \in ofSection(i)
        <4>. HIDE DEF ofSection
        <4>. QED BY <1>0, <2>2
      <3>5. PICK j : leaf \in ofGroup(i, j)
        <4>1. PICK A \in {ofGroup(i, j) : j \in DOMAIN CALCS_BREAKDOWN_SPEC[i].groups} : leaf \in A
          BY <3>4
        <4>. HIDE DEF ofGroup
        <4>. QED BY <4>1
      <3>6. PICK k : leaf = leafAt(i, j, k)
        BY <3>5
      <3>1. leaf = leafAt(i, j, k)
        BY <3>6
      <3>. DEFINE stat == CALCS_BREAKDOWN_SPEC[i].groups[j].stats[k]
      <3>2. leaf.stat = toBreakdownStat(calcsRun, calcsExplains, calcsPrev, stat)
        BY <3>1, Zenon
      <3>. HIDE DEF stat
      <3>3. leaf.stat.statId = stat /\ leaf.stat.trace = traceFor(calcsExplains, stat)
        BY <3>2 DEF toBreakdownStat
      <3>. QED BY <1>1, <3>3 DEF traceFor
    <2>. QED BY <2>1, <2>2
  <1>2. ASSUME NEW s \in DOMAIN calcsExplains
        PROVE  \E leaf \in Leaves : leaf.stat.trace.explained /\ leaf.stat.statId = s
    <2>. DEFINE leaf == [section |-> "rawTrace", group |-> "rawTrace",
                         stat |-> [statId |-> s, present |-> TRUE,
                                   trace |-> traceFor(calcsExplains, s),
                                   finalValue |-> {calcsExplains[s]}, delta |-> {}]]
    <2>1. leaf \in rawTraceSection(calcsExplains)
      BY <1>2, Zenon DEF rawTraceSection
    <2>2. leaf \in Leaves
      <3>1. rawTraceSection(calcsExplains) \subseteq Leaves
        <4>. HIDE DEF ofSection
        <4>. QED BY <1>0
      <3>. HIDE DEF leaf
      <3>. QED BY <2>1, <3>1
    <2>3. leaf.stat.statId = s /\ leaf.stat.trace = traceFor(calcsExplains, s)
      OBVIOUS
    <2>4. traceFor(calcsExplains, s).explained
      BY DEF traceFor
    <2>. HIDE DEF leaf
    <2>. QED BY <2>2, <2>3, <2>4
  <1>. HIDE DEF Leaves
  <1>. QED BY <1>1, <1>2 DEF explainedIds

(* Rows are opened for the stats a user can click, which are stats. *)
CalcsInv ==
  /\ OpenStats(calcsOpen) \subseteq CalcsWatched
  /\ OpenRowsAreServed

(* What serves a stat, with the traces read off the state. *)
RowServed(stat) ==
  stat \in DOMAIN calcsExplains \cup {calcsTimer} \cup calcsAsked \cup calcsExcused

LEMMA ServedIsServed ==
  OpenRowsAreServed <=> \A stat \in OpenStats(calcsOpen) : RowServed(stat)
  BY ExplainedAreLoaded DEF OpenRowsAreServed, RowServed

LEMMA ServedIsServedNext ==
  OpenRowsAreServed' <=> \A stat \in OpenStats(calcsOpen') : RowServed(stat)'
  <1>1. (explainedIds = DOMAIN calcsExplains)'
    BY ExplainedAreLoaded, PTL
  <1>. QED BY <1>1 DEF OpenRowsAreServed, RowServed

LEMMA CalcsInitInv == CalcsInit => CalcsInv
  BY DEF CalcsInit, CalcsInv, OpenRowsAreServed, OpenStats

(* Opening and closing a row: whatever the timer was for is excused. *)
LEMMA ToggleStep ==
  ASSUME CalcsInv, NEW row, row[3] \in CalcsWatched, handleToggle(row)
  PROVE  CalcsInv'
  <1>0. NoStat \notin CalcsWatched
    BY CalcsAssumption
  <1>1. UNCHANGED <<calcsExplains, calcsAsked>>
    BY DEF handleToggle
  <1>2. CASE row \in calcsOpen
    <2>1. calcsOpen' = calcsOpen \ {row} /\ UNCHANGED <<calcsTimer, calcsExcused>>
      BY <1>2 DEF handleToggle
    <2>2. OpenStats(calcsOpen') \subseteq OpenStats(calcsOpen)
      BY <2>1 DEF OpenStats
    <2>3. \A stat \in OpenStats(calcsOpen') : RowServed(stat)'
      BY <1>1, <2>1, <2>2, ServedIsServed DEF CalcsInv, RowServed
    <2>. QED BY <2>2, <2>3, ServedIsServedNext DEF CalcsInv
  <1>3. CASE row \notin calcsOpen
    <2>1. calcsOpen' = calcsOpen \cup {row} /\ handleExpandStat(row[3])
      BY <1>3 DEF handleToggle
    <2>2. OpenStats(calcsOpen') = OpenStats(calcsOpen) \cup {row[3]}
      BY <2>1 DEF OpenStats
    <2>3. OpenStats(calcsOpen') \subseteq CalcsWatched
      BY <2>2 DEF CalcsInv
    <2>4. CASE row[3] \in explainedIds
      <3>1. UNCHANGED <<calcsTimer, calcsExcused>> /\ row[3] \in DOMAIN calcsExplains
        BY <2>1, <2>4, ExplainedAreLoaded DEF handleExpandStat
      <3>2. \A stat \in OpenStats(calcsOpen') : RowServed(stat)'
        BY <1>1, <2>2, <3>1, ServedIsServed DEF CalcsInv, RowServed
      <3>. QED BY <2>3, <3>2, ServedIsServedNext DEF CalcsInv
    <2>5. CASE row[3] \notin explainedIds
      <3>1. /\ calcsTimer' = row[3]
            /\ calcsExcused' = (calcsExcused \ {row[3]}) \cup ({calcsTimer} \ {NoStat, row[3]})
        BY <2>1, <2>5 DEF handleExpandStat
      <3>2. ASSUME NEW stat \in OpenStats(calcsOpen') PROVE RowServed(stat)'
        <4>1. CASE stat = row[3]
          BY <3>1, <4>1 DEF RowServed
        <4>2. CASE stat # row[3]
          <5>1. stat \in OpenStats(calcsOpen) /\ stat # NoStat
            BY <1>0, <2>2, <2>3, <4>2
          <5>2. RowServed(stat)
            BY <5>1, ServedIsServed DEF CalcsInv
          <5>. QED BY <1>1, <3>1, <4>2, <5>1, <5>2 DEF RowServed
        <4>. QED BY <4>1, <4>2
      <3>. QED BY <2>3, <3>2, ServedIsServedNext DEF CalcsInv
    <2>. QED BY <2>4, <2>5
  <1>. QED BY <1>2, <1>3

(* Any step after which the rows still open are open rows of before, and        *)
(* everything that served them still does.                                      *)
LEMMA KeepsServing ==
  ASSUME CalcsInv, calcsOpen' \subseteq calcsOpen,
         \A stat \in OpenStats(calcsOpen') : RowServed(stat) => RowServed(stat)'
  PROVE  CalcsInv'
  <1>1. OpenStats(calcsOpen') \subseteq OpenStats(calcsOpen)
    BY DEF OpenStats
  <1>2. \A stat \in OpenStats(calcsOpen') : RowServed(stat)'
    BY <1>1, ServedIsServed DEF CalcsInv
  <1>. QED BY <1>1, <1>2, ServedIsServedNext DEF CalcsInv

LEMMA CalcsNextInv == CalcsInv /\ [CalcsNext]_calcsVars => CalcsInv'
  <1>. SUFFICES ASSUME CalcsInv, [CalcsNext]_calcsVars PROVE CalcsInv'
    OBVIOUS
  <1>1. ASSUME NEW leaf \in {l \in Leaves : l.stat.statId \in CalcsWatched}, handleToggle(RowOf(leaf))
        PROVE  CalcsInv'
    <2>1. RowOf(leaf)[3] \in CalcsWatched
      BY DEF RowOf
    <2>. QED BY <1>1, <2>1, ToggleStep
  <1>2. ASSUME NEW section, ToggleSection(section) PROVE CalcsInv'
    <2>1. /\ calcsOpen' \subseteq calcsOpen
          /\ UNCHANGED <<calcsExplains, calcsTimer, calcsAsked, calcsExcused>>
      BY <1>2 DEF ToggleSection
    <2>. QED BY <2>1, KeepsServing DEF RowServed
  <1>3. CASE LeaveCalcs
    <2>1. calcsOpen' = {}
      BY <1>3 DEF LeaveCalcs
    <2>. QED BY <2>1, KeepsServing DEF OpenStats
  <1>4. CASE ExplainTimerFires
    <2>1. /\ calcsTimer' = NoStat /\ calcsAsked' = calcsAsked \cup {calcsTimer}
          /\ UNCHANGED <<calcsExplains, calcsOpen, calcsExcused>>
      BY <1>4 DEF ExplainTimerFires
    <2>. QED BY <2>1, KeepsServing DEF RowServed
  <1>5. ASSUME NEW stat \in calcsAsked, NEW ok \in BOOLEAN, Explained(stat, ok) PROVE CalcsInv'
    <2>1. /\ calcsAsked' = calcsAsked \ {stat} /\ UNCHANGED <<calcsOpen, calcsTimer>>
          /\ \/ DOMAIN calcsExplains' = DOMAIN calcsExplains \cup {stat} /\ UNCHANGED calcsExcused
             \/ calcsExcused' = calcsExcused \cup {stat} /\ UNCHANGED calcsExplains
      BY <1>5 DEF Explained, Put
    <2>. QED BY <2>1, KeepsServing DEF RowServed
  <1>6. ASSUME NEW emitted, EditEnds(emitted) PROVE CalcsInv'
    <2>1. /\ calcsOpen' \subseteq calcsOpen /\ calcsExcused' = calcsExcused \cup DOMAIN calcsExplains
          /\ UNCHANGED <<calcsTimer, calcsAsked>>
      BY <1>6 DEF EditEnds
    <2>. QED BY <2>1, KeepsServing DEF RowServed
  <1>7. CASE UNCHANGED calcsVars
    BY <1>7, KeepsServing DEF calcsVars, RowServed
  <1>. QED BY <1>1, <1>2, <1>3, <1>4, <1>5, <1>6, <1>7 DEF CalcsNext

(* A row stays at "no trace" only after a later row, an edit or a failure took  *)
(* its request away, for any stats and any number of steps (CalcsPanel.tsx:89).  *)
THEOREM RowsAreServed == CalcsSpec => []OpenRowsAreServed
  <1>1. CalcsInv => OpenRowsAreServed
    BY DEF CalcsInv
  <1>. QED BY <1>1, CalcsInitInv, CalcsNextInv, PTL DEF CalcsSpec

-----------------------------------------------------------------------------
(* Build tabs.  What a preset or a control sends: option values, each option    *)
(* once, of the option's own type.                                              *)
SentValues ==
  {<<"check", 0>>, <<"check", 1>>, <<"count", 3>>}
    \cup {<<"count", NumberOf(text)>> : text \in TabTexts}
    \cup {<<"list", text>> : text \in TabTexts}
PresetOptions ==
  {"enemyIsBoss", "usePowerCharges", "useFrenzyCharges", "useEnduranceCharges",
   "conditionEnemyShocked", "conditionEnemyCursed", "conditionLowLife"}
SentWrites == [optionId : DOMAIN OptionType \cup PresetOptions, value : SentValues]

GoodPayload(payload) ==
  /\ payload \in Seq(SentWrites)
  /\ \A i, k \in 1 .. Len(payload) : payload[i].optionId = payload[k].optionId => i = k
  /\ \A i \in 1 .. Len(payload) :
       payload[i].optionId \in DOMAIN OptionType =>
         payload[i].value[1] = OptionType[payload[i].optionId]

LEMMA PresetWrites ==
  ASSUME NEW preset \in DOMAIN CONFIG_PRESETS
  PROVE  /\ CONFIG_PRESETS[preset] \in Seq(SentWrites)
         /\ \A i, k \in 1 .. Len(CONFIG_PRESETS[preset]) :
              CONFIG_PRESETS[preset][i].optionId = CONFIG_PRESETS[preset][k].optionId => i = k
  <1>1. \A o \in PresetOptions : \A v \in {<<"check", 0>>, <<"check", 1>>, <<"count", 3>>} :
          OptionValue(o, v) \in SentWrites /\ OptionValue(o, v).optionId = o
    BY DEF OptionValue, SentWrites, SentValues
  <1>. DEFINE power == OptionValue("usePowerCharges", <<"count", 3>>)
              frenzy == OptionValue("useFrenzyCharges", <<"count", 3>>)
              endurance == OptionValue("useEnduranceCharges", <<"count", 3>>)
  <1>2. /\ power \in SentWrites /\ power.optionId = "usePowerCharges"
        /\ frenzy \in SentWrites /\ frenzy.optionId = "useFrenzyCharges"
        /\ endurance \in SentWrites /\ endurance.optionId = "useEnduranceCharges"
    BY <1>1 DEF PresetOptions
  <1>. HIDE DEF power, frenzy, endurance
  <1>3. <<power, frenzy, endurance>> \in Seq(SentWrites) /\ Len(<<power, frenzy, endurance>>) = 3
    BY <1>2
  <1>4. \A i, k \in 1 .. 3 :
          <<power, frenzy, endurance>>[i].optionId = <<power, frenzy, endurance>>[k].optionId => i = k
    BY <1>2
  <1>5. \A w \in SentWrites : <<w>> \in Seq(SentWrites) /\ Len(<<w>>) = 1
    OBVIOUS
  <1>6. CASE preset = "fullCharges"
    BY <1>3, <1>4, <1>6 DEF CONFIG_PRESETS, power, frenzy, endurance
  <1>7. CASE preset = "custom"
    BY <1>7 DEF CONFIG_PRESETS
  <1>8. CASE preset \notin {"fullCharges", "custom"}
    <2>1. PICK w \in SentWrites : CONFIG_PRESETS[preset] = <<w>>
      BY <1>1, <1>8 DEF CONFIG_PRESETS, PresetOptions
    <2>. QED BY <1>5, <2>1
  <1>. QED BY <1>6, <1>7, <1>8

LEMMA PresetsAreGood ==
  ASSUME NEW preset \in TabPresets
  PROVE  GoodPayload(CONFIG_PRESETS[preset])
  <1>1. preset \in DOMAIN CONFIG_PRESETS
    BY PresetsFit
  <1>. DEFINE payload == CONFIG_PRESETS[preset]
  <1>2. /\ payload \in Seq(SentWrites)
        /\ \A i, k \in 1 .. Len(payload) : payload[i].optionId = payload[k].optionId => i = k
    BY <1>1, PresetWrites, Zenon
  <1>3. DOMAIN payload = 1 .. Len(payload)
    BY <1>2, LenProperties
  <1>4. \A i \in DOMAIN payload :
       payload[i].optionId \in DOMAIN OptionType =>
         payload[i].value[1] = OptionType[payload[i].optionId]
    BY PresetsFit, Zenon
  <1>. HIDE DEF payload
  <1>5. GoodPayload(payload)
    BY <1>2, <1>3, <1>4 DEF GoodPayload
  <1>. QED BY <1>5 DEF payload

LEMMA EditsAreGood ==
  ASSUME NEW cards, DOMAIN cards = DOMAIN OptionType,
         NEW input \in buildConfigModel(cards), NEW value \in OptionControl(input)
  PROVE  GoodPayload(setOptionValue(<<>>, input.optionId, value))
  <1>1. PICK o \in DOMAIN OptionType : input = toInput(o, cards)
    BY DEF buildConfigModel
  <1>2. input.optionId = o /\ input.kind = inputKind(OptionType[o])
    BY <1>1 DEF toInput
  <1>3. value \in SentValues /\ value[1] = input.kind /\ input.kind \in KNOWN_KINDS
    <2>1. CASE input.kind = "check"
      BY <2>1 DEF OptionControl, SentValues, KNOWN_KINDS
    <2>2. CASE input.kind = "count"
      <3>1. PICK text \in TabTexts : value = <<"count", NumberOf(text)>>
        BY <2>2 DEF OptionControl
      <3>. QED BY <2>2, <3>1 DEF SentValues, KNOWN_KINDS
    <2>3. CASE input.kind = "list"
      <3>1. PICK text \in TabTexts : value = <<"list", text>>
        BY <2>3 DEF OptionControl
      <3>. QED BY <2>3, <3>1 DEF SentValues, KNOWN_KINDS
    <2>4. CASE input.kind \notin {"check", "count", "list"}
      BY <2>4 DEF OptionControl
    <2>. QED BY <2>1, <2>2, <2>3, <2>4
  <1>4. OptionType[o] = input.kind
    BY <1>2, <1>3 DEF inputKind, KNOWN_KINDS
  <1>. DEFINE w == OptionValue(o, value)
  <1>5. w \in SentWrites /\ w.optionId = o /\ w.value = value
    BY <1>3 DEF OptionValue, SentWrites
  <1>6. setOptionValue(<<>>, input.optionId, value) = <<w>>
    <2>1. Append(<<>>, w) = <<w>>
      OBVIOUS
    <2>. QED BY <1>2, <2>1 DEF setOptionValue
  <1>. HIDE DEF w
  <1>7. <<w>> \in Seq(SentWrites) /\ Len(<<w>>) = 1
    BY <1>5
  <1>8. GoodPayload(<<w>>)
    BY <1>3, <1>4, <1>5, <1>7 DEF GoodPayload
  <1>. QED BY <1>6, <1>8

-----------------------------------------------------------------------------
(* The handlers in flight, whatever their order. *)
TabJobs == {cfgJobs[j] : j \in DOMAIN cfgJobs}

ZeroValues == {ZeroOf(OptionType[o]) : o \in DOMAIN OptionType}
OptionCards == [DOMAIN OptionType -> SentValues \cup ZeroValues]
Typed(cards) == cards \in OptionCards /\ \A o \in DOMAIN OptionType : cards[o][1] = OptionType[o]

JobRecords ==
  [todo : Seq(SentWrites), named : SUBSET (DOMAIN OptionType \cup PresetOptions),
   options : SUBSET OptionCards]

GoodJob(job) ==
  /\ job \in JobRecords
  /\ GoodPayload(job.todo)
  /\ Named(job.todo) \subseteq job.named
  /\ \A cards \in job.options : Typed(cards)
  /\ job.options # {} => job.todo = <<>>

Settled == DOMAIN OptionType \ cfgContested

TabTypeInv ==
  /\ cfgJobs \in Seq(JobRecords)
  /\ \A job \in TabJobs : GoodJob(job)
  /\ Typed(cfgCore) /\ Typed(cfgCards)
  /\ DOMAIN cfgWanted = DOMAIN OptionType
  /\ cfgPreset \in DOMAIN CONFIG_PRESETS \cup {NoPreset}

(* What is left to write of an option nobody contested is the last value asked. *)
WritesWhatWasWanted ==
  \A job \in TabJobs : \A i \in DOMAIN job.todo :
    job.todo[i].optionId \in Settled => job.todo[i].value = cfgWanted[job.todo[i].optionId]

WrittenUnlessInFlight ==
  \A o \in Settled : (\A job \in TabJobs : o \notin Named(job.todo)) => cfgCore[o] = cfgWanted[o]

(* An answer on its way agrees with the core, and the cards do or are refreshed. *)
AnswersAreCurrent ==
  \A job \in TabJobs : \A cards \in job.options : \A o \in Settled : cards[o] = cfgCore[o]

CardsFollow ==
  \A o \in Settled : cfgCards[o] = cfgCore[o] \/ \E job \in TabJobs : o \in job.named

WritesInv == WritesWhatWasWanted /\ WrittenUnlessInFlight /\ AnswersAreCurrent /\ CardsFollow

LEMMA TabInitInv == TabInit => TabTypeInv /\ WritesInv
  <1>. SUFFICES ASSUME TabInit PROVE TabTypeInv /\ WritesInv
    OBVIOUS
  <1>1. cfgJobs \in Seq(JobRecords) /\ TabJobs = {}
    BY DEF TabInit, TabJobs
  <1>2. /\ cfgCore = [o \in DOMAIN OptionType |-> ZeroOf(OptionType[o])]
        /\ cfgCards = cfgCore /\ cfgWanted = cfgCore /\ cfgPreset = NoPreset
    BY DEF TabInit
  <1>3. \A type : ZeroOf(type)[1] = type
    BY DEF ZeroOf
  <1>4. cfgCore \in OptionCards
    BY <1>2 DEF OptionCards, ZeroValues
  <1>5. TabTypeInv
    BY <1>1, <1>2, <1>3, <1>4 DEF TabTypeInv, Typed
  <1>6. WritesInv
    BY <1>1, <1>2 DEF WritesInv, WritesWhatWasWanted, WrittenUnlessInFlight, AnswersAreCurrent,
                      CardsFollow, Settled
  <1>. QED BY <1>5, <1>6

(* One handler of the list is replaced, or goes: the others stay. *)
LEMMA ReplaceJob ==
  ASSUME cfgJobs \in Seq(JobRecords), NEW j \in DOMAIN cfgJobs, NEW job \in JobRecords,
         cfgJobs' = [cfgJobs EXCEPT ![j] = job]
  PROVE  /\ cfgJobs' \in Seq(JobRecords) /\ job \in TabJobs'
         /\ TabJobs' \subseteq TabJobs \cup {job} /\ TabJobs \subseteq TabJobs' \cup {cfgJobs[j]}
  <1>1. j \in 1 .. Len(cfgJobs) /\ DOMAIN cfgJobs = 1 .. Len(cfgJobs)
    BY LenProperties
  <1>2. cfgJobs' \in Seq(JobRecords) /\ Len(cfgJobs') = Len(cfgJobs) /\ cfgJobs'[j] = job
        /\ \A i \in 1 .. Len(cfgJobs) : i # j => cfgJobs'[i] = cfgJobs[i]
    BY <1>1, ExceptSeq
  <1>3. DOMAIN cfgJobs' = DOMAIN cfgJobs
    BY <1>1, <1>2, LenProperties
  <1>. QED BY <1>1, <1>2, <1>3 DEF TabJobs

LEMMA DropJob ==
  ASSUME cfgJobs \in Seq(JobRecords), NEW j \in DOMAIN cfgJobs, cfgJobs' = RemoveAt(cfgJobs, j)
  PROVE  /\ cfgJobs' \in Seq(JobRecords)
         /\ TabJobs' \subseteq TabJobs /\ TabJobs \subseteq TabJobs' \cup {cfgJobs[j]}
  <1>1. j \in 1 .. Len(cfgJobs) /\ DOMAIN cfgJobs = 1 .. Len(cfgJobs) /\ Len(cfgJobs) \in Nat
    BY LenProperties
  <1>2. /\ cfgJobs' \in Seq(JobRecords) /\ Len(cfgJobs') = Len(cfgJobs) - 1
        /\ \A i \in 1 .. Len(cfgJobs) - 1 :
             cfgJobs'[i] = IF i < j THEN cfgJobs[i] ELSE cfgJobs[i + 1]
    <2>. DEFINE left == RemoveAt(cfgJobs, j)
    <2>1. /\ left \in Seq(JobRecords) /\ Len(left) = Len(cfgJobs) - 1
          /\ \A i \in 1 .. Len(cfgJobs) - 1 :
               left[i] = IF i < j THEN cfgJobs[i] ELSE cfgJobs[i + 1]
      BY <1>1, RemovedAt, Zenon
    <2>. HIDE DEF left
    <2>. QED BY <2>1 DEF left
  <1>3. DOMAIN cfgJobs' = 1 .. Len(cfgJobs) - 1
    BY <1>2, LenProperties
  <1>4. TabJobs' \subseteq TabJobs
    <2>. SUFFICES ASSUME NEW i \in 1 .. Len(cfgJobs) - 1
                  PROVE  \E k \in 1 .. Len(cfgJobs) : cfgJobs'[i] = cfgJobs[k]
      BY <1>1, <1>3 DEF TabJobs
    <2>1. i \in 1 .. Len(cfgJobs) /\ i + 1 \in 1 .. Len(cfgJobs)
      BY <1>1
    <2>2. cfgJobs'[i] = cfgJobs[i] \/ cfgJobs'[i] = cfgJobs[i + 1]
      BY <1>2
    <2>. QED BY <2>1, <2>2
  <1>5. ASSUME NEW k \in 1 .. Len(cfgJobs), k # j PROVE cfgJobs[k] \in TabJobs'
    <2>1. CASE k < j
      <3>1. k \in 1 .. Len(cfgJobs) - 1 /\ cfgJobs'[k] = cfgJobs[k]
        BY <1>1, <1>2, <2>1
      <3>. QED BY <1>3, <3>1 DEF TabJobs
    <2>2. CASE k > j
      <3>1. k - 1 \in 1 .. Len(cfgJobs) - 1 /\ ~(k - 1 < j) /\ (k - 1) + 1 = k
        BY <1>1, <2>2
      <3>2. cfgJobs'[k - 1] = cfgJobs[k]
        BY <1>2, <3>1
      <3>. QED BY <1>3, <3>1, <3>2 DEF TabJobs
    <2>. QED BY <1>1, <1>5, <2>1, <2>2
  <1>6. TabJobs \subseteq TabJobs' \cup {cfgJobs[j]}
    BY <1>1, <1>5 DEF TabJobs
  <1>. QED BY <1>2, <1>4, <1>6

LEMMA JobTypes ==
  ASSUME TabTypeInv, NEW j \in DOMAIN cfgJobs
  PROVE  /\ cfgJobs[j] \in TabJobs /\ GoodJob(cfgJobs[j]) /\ cfgJobs[j] \in JobRecords
         /\ cfgJobs[j].todo \in Seq(SentWrites) /\ GoodPayload(cfgJobs[j].todo)
         /\ Named(cfgJobs[j].todo) \subseteq cfgJobs[j].named
  BY DEF TabTypeInv, TabJobs, GoodJob, JobRecords

LEMMA InFlightIsNamed ==
  ASSUME NEW o
  PROVE  o \in InFlight <=> \E job \in TabJobs : o \in job.named
  BY DEF InFlight, TabJobs

(* A handler starts: its options are contested or nobody else names them. *)
LEMMA StartStep ==
  ASSUME TabTypeInv, WritesInv, NEW payload, GoodPayload(payload), StartWrites(payload, payload),
         UNCHANGED <<cfgCore, cfgCards>>, cfgPreset' \in DOMAIN CONFIG_PRESETS \cup {NoPreset}
  PROVE  TabTypeInv' /\ WritesInv'
  <1>. DEFINE job == Job(payload)
  <1>0. /\ cfgJobs \in Seq(JobRecords) /\ payload \in Seq(SentWrites)
        /\ DOMAIN payload = 1 .. Len(payload) /\ Len(payload) \in Nat
    BY LenProperties DEF TabTypeInv, GoodPayload
  <1>1. job.todo = payload /\ job.named = Named(payload) /\ job.options = {}
    BY DEF Job
  <1>2. Named(payload) \subseteq DOMAIN OptionType \cup PresetOptions
    <2>1. \A i \in DOMAIN payload : payload[i] \in SentWrites
      BY <1>0
    <2>. QED BY <2>1 DEF Named, SentWrites
  <1>3. job \in JobRecords /\ GoodJob(job)
    <2>1. job \in JobRecords
      BY <1>0, <1>2 DEF Job, JobRecords
    <2>. HIDE DEF job
    <2>. QED BY <1>1, <2>1 DEF GoodJob
  <1>. HIDE DEF job
  <1>4. /\ cfgJobs' \in Seq(JobRecords)
        /\ payload = <<>> => TabJobs' = TabJobs
        /\ payload # <<>> => TabJobs' = TabJobs \cup {job}
    <2>1. CASE payload = <<>>
      <3>1. cfgJobs' = cfgJobs
        BY <2>1 DEF StartWrites
      <3>. QED BY <1>0, <2>1, <3>1 DEF TabJobs
    <2>2. CASE payload # <<>>
      <3>1. cfgJobs' = Append(cfgJobs, job)
        BY <2>2 DEF StartWrites, job
      <3>2. /\ cfgJobs' \in Seq(JobRecords) /\ Len(cfgJobs') = Len(cfgJobs) + 1
            /\ Len(cfgJobs) \in Nat /\ DOMAIN cfgJobs = 1 .. Len(cfgJobs)
            /\ cfgJobs'[Len(cfgJobs) + 1] = job
            /\ \A i \in 1 .. Len(cfgJobs) : cfgJobs'[i] = cfgJobs[i]
        BY <1>0, <1>3, <3>1, AppendProperties, LenProperties
      <3>3. DOMAIN cfgJobs' = 1 .. Len(cfgJobs) + 1
        BY <3>2, LenProperties
      <3>4. \A i \in DOMAIN cfgJobs' : i \in DOMAIN cfgJobs \/ i = Len(cfgJobs) + 1
        BY <3>2, <3>3
      <3>5. DOMAIN cfgJobs \subseteq DOMAIN cfgJobs' /\ Len(cfgJobs) + 1 \in DOMAIN cfgJobs'
        BY <3>2, <3>3
      <3>. QED BY <2>2, <3>2, <3>4, <3>5 DEF TabJobs
    <2>. QED BY <2>1, <2>2
  <1>5. /\ DOMAIN cfgWanted' = DOMAIN OptionType
        /\ \A o \in DOMAIN OptionType :
             cfgWanted'[o] = IF o \in Named(payload)
                             THEN payload[CHOOSE i \in DOMAIN payload : payload[i].optionId = o].value
                             ELSE cfgWanted[o]
    BY DEF StartWrites, TabTypeInv
  <1>6. ASSUME NEW o \in DOMAIN OptionType, NEW i \in DOMAIN payload, payload[i].optionId = o
        PROVE  cfgWanted'[o] = payload[i].value
    <2>1. \A k \in DOMAIN payload : payload[k].optionId = o <=> k = i
      BY <1>0, <1>6 DEF GoodPayload
    <2>2. (CHOOSE k \in DOMAIN payload : payload[k].optionId = o) = i
      BY <1>6, <2>1
    <2>3. o \in Named(payload)
      BY <1>6 DEF Named
    <2>. QED BY <1>5, <2>2, <2>3, ZenonT(40)
  <1>7. /\ Named(payload) # {} => payload # <<>>
        /\ cfgJobs = <<>> <=> TabJobs = {}
    <2>1. payload = <<>> => Named(payload) = {}
      BY DEF Named
    <2>2. cfgJobs # <<>> => 1 \in DOMAIN cfgJobs
      BY <1>0, LenProperties, EmptySeq
    <2>. QED BY <2>1, <2>2 DEF TabJobs
  <1>8. ASSUME NEW o \in Settled', o \in Named(payload)
        PROVE  \A other \in TabJobs : o \notin other.named
    <2>1. CASE cfgJobs = <<>>
      BY <1>7, <2>1
    <2>2. CASE cfgJobs # <<>>
      BY <1>8, <2>2, InFlightIsNamed DEF Settled, StartWrites
    <2>. QED BY <2>1, <2>2
  <1>9. Settled' \subseteq Settled \cup Named(payload) /\ Settled' \subseteq DOMAIN OptionType
    BY DEF Settled, StartWrites
  <1>10. TabJobs # {} => Settled' \subseteq Settled
    BY <1>7 DEF Settled, StartWrites
  <1>11. TabTypeInv'
    BY <1>3, <1>4, <1>5 DEF TabTypeInv, Typed, GoodJob, JobRecords
  <1>12. WritesWhatWasWanted'
    <2>. SUFFICES ASSUME NEW other \in TabJobs', NEW i \in DOMAIN other.todo,
                         other.todo[i].optionId \in Settled'
                  PROVE  other.todo[i].value = cfgWanted'[other.todo[i].optionId]
      BY DEF WritesWhatWasWanted
    <2>. DEFINE o == other.todo[i].optionId
    <2>1. CASE other \in TabJobs
      <3>1. o \in other.named
        BY <2>1 DEF TabTypeInv, GoodJob, Named
      <3>2. o \notin Named(payload)
        BY <1>8, <2>1, <3>1
      <3>3. cfgWanted'[o] = cfgWanted[o] /\ o \in Settled
        BY <1>5, <1>9, <3>2
      <3>. QED BY <2>1, <3>3 DEF WritesInv, WritesWhatWasWanted
    <2>2. CASE other = job
      BY <1>1, <1>6, <1>9, <2>2
    <2>. QED BY <1>4, <2>1, <2>2
  <1>13. WrittenUnlessInFlight'
    <2>. SUFFICES ASSUME NEW o \in Settled', \A other \in TabJobs' : o \notin Named(other.todo)
                  PROVE  cfgCore'[o] = cfgWanted'[o]
      BY DEF WrittenUnlessInFlight
    <2>1. o \notin Named(payload)
      BY <1>1, <1>4, <1>7
    <2>2. \A other \in TabJobs : o \notin Named(other.todo)
      BY <1>4
    <2>3. cfgCore[o] = cfgWanted[o]
      BY <1>9, <2>1, <2>2 DEF WritesInv, WrittenUnlessInFlight
    <2>. QED BY <1>5, <1>9, <2>1, <2>3
  <1>14. AnswersAreCurrent'
    <2>. SUFFICES ASSUME NEW other \in TabJobs', NEW cards \in other.options, NEW o \in Settled'
                  PROVE  cards[o] = cfgCore[o]
      BY DEF AnswersAreCurrent
    <2>1. other \in TabJobs
      BY <1>1, <1>4
    <2>. QED BY <1>10, <2>1 DEF WritesInv, AnswersAreCurrent
  <1>15. CardsFollow'
    <2>. SUFFICES ASSUME NEW o \in Settled'
                  PROVE  cfgCards[o] = cfgCore[o] \/ \E other \in TabJobs' : o \in other.named
      BY DEF CardsFollow
    <2>1. CASE o \in Named(payload)
      BY <1>1, <1>4, <1>7, <2>1
    <2>2. CASE o \notin Named(payload)
      BY <1>4, <1>9, <2>2 DEF WritesInv, CardsFollow
    <2>. QED BY <2>1, <2>2
  <1>. QED BY <1>11, <1>12, <1>13, <1>14, <1>15 DEF WritesInv

(* A write in the core touches its own option, and keeps the types. *)
LEMMA WriteKeepsTypes ==
  ASSUME Typed(cfgCore), NEW w \in SentWrites,
         w.optionId \in DOMAIN OptionType => w.value[1] = OptionType[w.optionId]
  PROVE  /\ Typed(Write(cfgCore, w))
         /\ \A o \in DOMAIN OptionType :
              Write(cfgCore, w)[o] = IF o = w.optionId THEN w.value ELSE cfgCore[o]
  <1>. DEFINE core == Write(cfgCore, w)
  <1>1. w.value \in SentValues
    BY DEF SentWrites
  <1>2. \A o \in DOMAIN OptionType : core[o] = IF o = w.optionId THEN w.value ELSE cfgCore[o]
    BY DEF Typed, OptionCards, Write
  <1>3. core \in OptionCards
    BY <1>1 DEF Typed, OptionCards, Write
  <1>. HIDE DEF core
  <1>4. Typed(core)
    BY <1>2, <1>3 DEF Typed
  <1>. QED BY <1>2, <1>4 DEF core

(* The first of the writes a handler has left. *)
LEMMA FirstWrite ==
  ASSUME NEW todo, GoodPayload(todo), todo # <<>>
  PROVE  /\ Head(todo) = todo[1] /\ 1 \in DOMAIN todo /\ todo[1] \in SentWrites
         /\ todo[1].optionId \in DOMAIN OptionType =>
              todo[1].value[1] = OptionType[todo[1].optionId]
         /\ GoodPayload(Tail(todo))
         /\ \A i \in DOMAIN Tail(todo) : i + 1 \in DOMAIN todo /\ Tail(todo)[i] = todo[i + 1]
         /\ \A i \in DOMAIN todo : i # 1 => i - 1 \in DOMAIN Tail(todo) /\ Tail(todo)[i - 1] = todo[i]
  <1>1. todo \in Seq(SentWrites) /\ Len(todo) \in Nat /\ DOMAIN todo = 1 .. Len(todo)
    BY LenProperties DEF GoodPayload
  <1>2. Len(todo) # 0
    BY <1>1, EmptySeq
  <1>3. /\ Head(todo) = todo[1] /\ Tail(todo) \in Seq(SentWrites)
        /\ Len(Tail(todo)) = Len(todo) - 1
        /\ \A i \in 1 .. Len(todo) - 1 : Tail(todo)[i] = todo[i + 1]
    BY <1>1, <1>2, HeadTailProperties
  <1>4. DOMAIN Tail(todo) = 1 .. Len(todo) - 1
    BY <1>3, LenProperties
  <1>5. 1 \in DOMAIN todo /\ todo[1] \in SentWrites
    BY <1>1, <1>2
  <1>6. \A i \in DOMAIN Tail(todo) : i + 1 \in DOMAIN todo /\ Tail(todo)[i] = todo[i + 1]
    BY <1>1, <1>3, <1>4
  <1>7. GoodPayload(Tail(todo))
    BY <1>1, <1>3 DEF GoodPayload
  <1>8. ASSUME NEW i \in DOMAIN todo, i # 1
        PROVE  i - 1 \in DOMAIN Tail(todo) /\ Tail(todo)[i - 1] = todo[i]
    <2>1. i - 1 \in 1 .. Len(todo) - 1 /\ (i - 1) + 1 = i
      BY <1>1, <1>8
    <2>. QED BY <1>3, <1>4, <2>1
  <1>9. todo[1].optionId \in DOMAIN OptionType => todo[1].value[1] = OptionType[todo[1].optionId]
    BY <1>1, <1>5 DEF GoodPayload
  <1>. QED BY <1>3, <1>5, <1>6, <1>7, <1>8, <1>9

(* The core takes the first write of a job. *)
LEMMA WriteStep ==
  ASSUME TabTypeInv, WritesInv, WriteAnswered
  PROVE  TabTypeInv' /\ WritesInv'
  <1>1. PICK j \in DOMAIN cfgJobs :
          /\ cfgJobs[j].todo # <<>>
          /\ cfgCore' = Write(cfgCore, Head(cfgJobs[j].todo))
          /\ cfgJobs' = [cfgJobs EXCEPT ![j].todo = Tail(@)]
          /\ cfgContested' = IF RefreshOnTheWay THEN cfgContested \cup {Head(cfgJobs[j].todo).optionId}
                             ELSE cfgContested
    BY DEF WriteAnswered
  <1>2. UNCHANGED <<cfgCards, cfgPreset, cfgWanted>>
    BY DEF WriteAnswered
  <1>. DEFINE job == cfgJobs[j]
              w == job.todo[1]
              left == [job EXCEPT !.todo = Tail(@)]
  <1>3. job \in TabJobs /\ GoodJob(job) /\ job \in JobRecords /\ GoodPayload(job.todo)
        /\ Named(job.todo) \subseteq job.named
    BY JobTypes
  <1>4. /\ Head(job.todo) = w /\ 1 \in DOMAIN job.todo /\ w \in SentWrites
        /\ w.optionId \in DOMAIN OptionType => w.value[1] = OptionType[w.optionId]
        /\ GoodPayload(Tail(job.todo))
        /\ \A i \in DOMAIN Tail(job.todo) :
             i + 1 \in DOMAIN job.todo /\ Tail(job.todo)[i] = job.todo[i + 1]
        /\ \A i \in DOMAIN job.todo :
             i # 1 => i - 1 \in DOMAIN Tail(job.todo) /\ Tail(job.todo)[i - 1] = job.todo[i]
    <2>. HIDE DEF job
    <2>. QED BY <1>1, <1>3, FirstWrite DEF job
  <1>5. left.todo = Tail(job.todo) /\ left.named = job.named /\ left.options = job.options
        /\ left \in JobRecords
    BY <1>3, <1>4 DEF JobRecords, GoodPayload
  <1>6. cfgJobs' = [cfgJobs EXCEPT ![j] = left] /\ cfgJobs \in Seq(JobRecords)
    BY <1>1 DEF TabTypeInv
  <1>7. w.optionId \in Named(job.todo) /\ Named(left.todo) \subseteq Named(job.todo)
        /\ Named(job.todo) \subseteq Named(left.todo) \cup {w.optionId}
    BY <1>4, <1>5 DEF Named
  <1>. HIDE DEF job, left, w
  <1>8. /\ cfgJobs' \in Seq(JobRecords) /\ left \in TabJobs'
        /\ TabJobs' \subseteq TabJobs \cup {left} /\ TabJobs \subseteq TabJobs' \cup {job}
    BY <1>5, <1>6, ReplaceJob DEF job
  <1>9. /\ cfgCore' = Write(cfgCore, w)
        /\ Settled' \subseteq Settled
        /\ RefreshOnTheWay => w.optionId \notin Settled'
    BY <1>1, <1>4 DEF Settled, job
  <1>10. /\ Typed(cfgCore')
         /\ \A o \in DOMAIN OptionType : cfgCore'[o] = IF o = w.optionId THEN w.value ELSE cfgCore[o]
    BY <1>4, <1>9, WriteKeepsTypes DEF TabTypeInv
  <1>11. TabTypeInv'
    <2>1. GoodJob(left)
      BY <1>1, <1>3, <1>4, <1>5, <1>7 DEF GoodJob, job
    <2>2. \A other \in TabJobs' : GoodJob(other)
      BY <1>8, <2>1 DEF TabTypeInv
    <2>. QED BY <1>2, <1>8, <1>10, <2>2 DEF TabTypeInv, Typed, GoodJob, GoodPayload, JobRecords
  <1>12. \A o \in Settled : o = w.optionId => w.value = cfgWanted[o]
    BY <1>3, <1>4 DEF WritesInv, WritesWhatWasWanted, w
  <1>13. WritesWhatWasWanted'
    <2>. SUFFICES ASSUME NEW other \in TabJobs', NEW i \in DOMAIN other.todo,
                         other.todo[i].optionId \in Settled
                  PROVE  other.todo[i].value = cfgWanted[other.todo[i].optionId]
      BY <1>2, <1>9 DEF WritesWhatWasWanted
    <2>1. CASE other \in TabJobs
      BY <2>1 DEF WritesInv, WritesWhatWasWanted
    <2>2. CASE other = left
      <3>1. i + 1 \in DOMAIN job.todo /\ other.todo[i] = job.todo[i + 1]
        BY <1>4, <1>5, <2>2
      <3>. QED BY <1>3, <3>1 DEF WritesInv, WritesWhatWasWanted
    <2>. QED BY <1>8, <2>1, <2>2
  <1>14. WrittenUnlessInFlight'
    <2>. SUFFICES ASSUME NEW o \in Settled', \A other \in TabJobs' : o \notin Named(other.todo)
                  PROVE  cfgCore'[o] = cfgWanted[o]
      BY <1>2 DEF WrittenUnlessInFlight
    <2>0. o \in Settled /\ o \in DOMAIN OptionType
      BY <1>9 DEF Settled
    <2>1. CASE o = w.optionId
      BY <1>10, <1>12, <2>0, <2>1
    <2>2. CASE o # w.optionId
      <3>1. \A other \in TabJobs : o \notin Named(other.todo)
        BY <1>7, <1>8, <2>2
      <3>. QED BY <1>10, <2>0, <2>2, <3>1 DEF WritesInv, WrittenUnlessInFlight
    <2>. QED BY <2>1, <2>2
  <1>15. AnswersAreCurrent'
    <2>. SUFFICES ASSUME NEW other \in TabJobs', NEW cards \in other.options, NEW o \in Settled'
                  PROVE  cards[o] = cfgCore'[o]
      BY DEF AnswersAreCurrent
    <2>1. \E old \in TabJobs : old.options = other.options
      BY <1>3, <1>5, <1>8
    <2>2. RefreshOnTheWay
      BY <2>1 DEF RefreshOnTheWay, TabJobs
    <2>3. o # w.optionId /\ o \in DOMAIN OptionType /\ o \in Settled
      BY <1>9, <2>2 DEF Settled
    <2>. QED BY <1>10, <2>1, <2>3 DEF WritesInv, AnswersAreCurrent
  <1>16. CardsFollow'
    <2>. SUFFICES ASSUME NEW o \in Settled'
                  PROVE  cfgCards[o] = cfgCore'[o] \/ \E other \in TabJobs' : o \in other.named
      BY <1>2 DEF CardsFollow
    <2>0. o \in Settled /\ o \in DOMAIN OptionType
      BY <1>9 DEF Settled
    <2>1. CASE o = w.optionId
      BY <1>3, <1>5, <1>7, <1>8, <2>1
    <2>2. CASE o # w.optionId
      BY <1>5, <1>8, <1>10, <2>0, <2>2 DEF WritesInv, CardsFollow
    <2>. QED BY <2>1, <2>2
  <1>. QED BY <1>11, <1>13, <1>14, <1>15, <1>16 DEF WritesInv

(* A handler that fails goes, and what it named is contested. *)
LEMMA RejectStep ==
  ASSUME TabTypeInv, WritesInv, HandlerRejects
  PROVE  TabTypeInv' /\ WritesInv'
  <1>1. PICK j \in DOMAIN cfgJobs :
          /\ \/ UNCHANGED cfgCore
             \/ cfgJobs[j].todo # <<>> /\ cfgCore' = Write(cfgCore, Head(cfgJobs[j].todo))
          /\ cfgJobs' = RemoveAt(cfgJobs, j)
          /\ cfgContested' = cfgContested \cup cfgJobs[j].named
    BY DEF HandlerRejects
  <1>2. UNCHANGED <<cfgCards, cfgPreset, cfgWanted>>
    BY DEF HandlerRejects
  <1>. DEFINE job == cfgJobs[j]
  <1>3. job \in TabJobs /\ GoodJob(job) /\ GoodPayload(job.todo) /\ Named(job.todo) \subseteq job.named
    BY JobTypes
  <1>. HIDE DEF job
  <1>4. /\ cfgJobs' \in Seq(JobRecords)
        /\ TabJobs' \subseteq TabJobs /\ TabJobs \subseteq TabJobs' \cup {job}
    BY <1>1, DropJob DEF TabTypeInv, job
  <1>5. Settled' = Settled \ job.named
    BY <1>1 DEF Settled, job
  <1>6. Typed(cfgCore') /\ \A o \in Settled' : cfgCore'[o] = cfgCore[o]
    <2>1. CASE UNCHANGED cfgCore
      BY <2>1 DEF TabTypeInv, Typed
    <2>2. CASE job.todo # <<>> /\ cfgCore' = Write(cfgCore, Head(job.todo))
      <3>. DEFINE w == job.todo[1]
      <3>1. /\ Head(job.todo) = w /\ 1 \in DOMAIN job.todo /\ w \in SentWrites
            /\ w.optionId \in DOMAIN OptionType => w.value[1] = OptionType[w.optionId]
        BY <1>3, <2>2, FirstWrite
      <3>2. w.optionId \in job.named
        BY <1>3, <3>1 DEF Named
      <3>. HIDE DEF w
      <3>3. /\ Typed(Write(cfgCore, w))
            /\ \A o \in DOMAIN OptionType :
                 Write(cfgCore, w)[o] = IF o = w.optionId THEN w.value ELSE cfgCore[o]
        BY <3>1, WriteKeepsTypes DEF TabTypeInv
      <3>. QED BY <1>5, <2>2, <3>1, <3>2, <3>3 DEF Settled
    <2>. QED BY <1>1, <2>1, <2>2 DEF job
  <1>7. TabTypeInv'
    BY <1>2, <1>4, <1>6 DEF TabTypeInv, Typed, GoodJob, GoodPayload, JobRecords
  <1>8. WritesWhatWasWanted'
    BY <1>2, <1>4, <1>5 DEF WritesInv, WritesWhatWasWanted
  <1>9. WrittenUnlessInFlight'
    BY <1>2, <1>3, <1>4, <1>5, <1>6 DEF WritesInv, WrittenUnlessInFlight
  <1>10. AnswersAreCurrent'
    BY <1>4, <1>5, <1>6 DEF WritesInv, AnswersAreCurrent
  <1>11. CardsFollow'
    BY <1>2, <1>4, <1>5, <1>6 DEF WritesInv, CardsFollow
  <1>. QED BY <1>7, <1>8, <1>9, <1>10, <1>11 DEF WritesInv

(* The answer to a refresh is what the core holds. *)
LEMMA ServeStep ==
  ASSUME TabTypeInv, WritesInv, OptionsServed
  PROVE  TabTypeInv' /\ WritesInv'
  <1>1. PICK j \in DOMAIN cfgJobs :
          cfgJobs[j].todo = <<>> /\ cfgJobs' = [cfgJobs EXCEPT ![j].options = {cfgCore}]
    BY DEF OptionsServed
  <1>2. UNCHANGED <<cfgCore, cfgCards, cfgPreset, cfgWanted, cfgContested>>
    BY DEF OptionsServed
  <1>. DEFINE job == cfgJobs[j]
              served == [job EXCEPT !.options = {cfgCore}]
  <1>3. job \in TabJobs /\ GoodJob(job) /\ job \in JobRecords
    BY JobTypes
  <1>4. served.todo = job.todo /\ served.named = job.named /\ served.options = {cfgCore}
        /\ served \in JobRecords
    BY <1>3 DEF JobRecords, TabTypeInv, Typed
  <1>5. cfgJobs' = [cfgJobs EXCEPT ![j] = served] /\ cfgJobs \in Seq(JobRecords)
    BY <1>1 DEF TabTypeInv
  <1>. HIDE DEF job, served
  <1>6. /\ cfgJobs' \in Seq(JobRecords) /\ served \in TabJobs'
        /\ TabJobs' \subseteq TabJobs \cup {served} /\ TabJobs \subseteq TabJobs' \cup {job}
    BY <1>4, <1>5, ReplaceJob DEF job
  <1>7. Settled' = Settled
    BY <1>2 DEF Settled
  <1>8. TabTypeInv'
    <2>1. GoodJob(served)
      BY <1>1, <1>3, <1>4 DEF GoodJob, TabTypeInv, job
    <2>2. \A other \in TabJobs' : GoodJob(other)
      BY <1>6, <2>1 DEF TabTypeInv
    <2>. QED BY <1>2, <1>6, <2>2 DEF TabTypeInv, Typed, GoodJob, GoodPayload, JobRecords
  <1>9. WritesWhatWasWanted'
    <2>. SUFFICES ASSUME NEW other \in TabJobs'
                  PROVE  \E old \in TabJobs : old.todo = other.todo
      BY <1>2, <1>7 DEF WritesInv, WritesWhatWasWanted
    <2>. QED BY <1>3, <1>4, <1>6
  <1>10. WrittenUnlessInFlight'
    <2>. SUFFICES ASSUME NEW other \in TabJobs
                  PROVE  \E new \in TabJobs' : new.todo = other.todo
      BY <1>2, <1>7 DEF WritesInv, WrittenUnlessInFlight
    <2>. QED BY <1>4, <1>6
  <1>11. AnswersAreCurrent'
    BY <1>2, <1>4, <1>6, <1>7 DEF WritesInv, AnswersAreCurrent
  <1>12. CardsFollow'
    BY <1>2, <1>4, <1>6, <1>7 DEF WritesInv, CardsFollow
  <1>. QED BY <1>8, <1>9, <1>10, <1>11, <1>12 DEF WritesInv

(* The answer is shown: it agrees with the core on what nobody contested. *)
LEMMA RefreshStep ==
  ASSUME TabTypeInv, WritesInv, OptionsAnswered
  PROVE  TabTypeInv' /\ WritesInv'
  <1>1. PICK j \in DOMAIN cfgJobs :
          cfgCards' \in cfgJobs[j].options /\ cfgJobs' = RemoveAt(cfgJobs, j)
    BY DEF OptionsAnswered
  <1>2. UNCHANGED <<cfgCore, cfgPreset, cfgWanted, cfgContested>>
    BY DEF OptionsAnswered
  <1>3. cfgJobs[j] \in TabJobs /\ GoodJob(cfgJobs[j])
    BY JobTypes
  <1>4. /\ cfgJobs' \in Seq(JobRecords)
        /\ TabJobs' \subseteq TabJobs /\ TabJobs \subseteq TabJobs' \cup {cfgJobs[j]}
    BY <1>1, DropJob DEF TabTypeInv
  <1>5. Settled' = Settled /\ \A o \in Settled : cfgCards'[o] = cfgCore[o]
    BY <1>1, <1>2, <1>3 DEF Settled, WritesInv, AnswersAreCurrent
  <1>6. Typed(cfgCards')
    BY <1>1, <1>3 DEF GoodJob
  <1>7. TabTypeInv'
    BY <1>2, <1>4, <1>6 DEF TabTypeInv, Typed, GoodJob, GoodPayload, JobRecords
  <1>8. WritesWhatWasWanted'
    BY <1>2, <1>4, <1>5 DEF WritesInv, WritesWhatWasWanted
  <1>9. WrittenUnlessInFlight'
    <2>. SUFFICES ASSUME NEW o \in Settled, \A other \in TabJobs' : o \notin Named(other.todo)
                  PROVE  cfgCore[o] = cfgWanted[o]
      BY <1>2, <1>5 DEF WrittenUnlessInFlight
    <2>1. Named(cfgJobs[j].todo) = {}
      BY <1>1, <1>3 DEF GoodJob, Named
    <2>. QED BY <1>4, <2>1 DEF WritesInv, WrittenUnlessInFlight
  <1>10. AnswersAreCurrent'
    BY <1>2, <1>4, <1>5 DEF WritesInv, AnswersAreCurrent
  <1>11. CardsFollow'
    BY <1>2, <1>5 DEF CardsFollow
  <1>. QED BY <1>7, <1>8, <1>9, <1>10, <1>11 DEF WritesInv

LEMMA TabNextInv == TabTypeInv /\ WritesInv /\ [TabNext]_tabVars => TabTypeInv' /\ WritesInv'
  <1>. SUFFICES ASSUME TabTypeInv, WritesInv, [TabNext]_tabVars PROVE TabTypeInv' /\ WritesInv'
    OBVIOUS
  <1>1. ASSUME UNCHANGED cfgVars PROVE TabTypeInv' /\ WritesInv'
    <2>1. UNCHANGED <<cfgCore, cfgCards, cfgPreset, cfgJobs, cfgWanted, cfgContested>>
      BY <1>1 DEF cfgVars
    <2>2. TabJobs' = TabJobs /\ Settled' = Settled
      BY <2>1 DEF TabJobs, Settled
    <2>3. WritesWhatWasWanted' /\ WrittenUnlessInFlight' /\ AnswersAreCurrent' /\ CardsFollow'
      BY <2>1, <2>2 DEF WritesInv, WritesWhatWasWanted, WrittenUnlessInFlight, AnswersAreCurrent,
                        CardsFollow
    <2>4. TabTypeInv'
      BY <2>1, <2>2 DEF TabTypeInv, Typed, GoodJob, GoodPayload, JobRecords
    <2>. QED BY <2>3, <2>4 DEF WritesInv
  <1>2. CASE handleApplyPreset
    <2>1. PICK preset \in TabPresets :
            cfgPreset' = preset /\ StartWrites(presetToConfigOptions(preset), CONFIG_PRESETS[preset])
      BY <1>2 DEF handleApplyPreset
    <2>2. StartWrites(CONFIG_PRESETS[preset], CONFIG_PRESETS[preset])
          /\ cfgPreset' \in DOMAIN CONFIG_PRESETS \cup {NoPreset}
          /\ UNCHANGED <<cfgCore, cfgCards>>
      BY <1>2, <2>1, PresetsFit DEF handleApplyPreset, presetToConfigOptions
    <2>. QED BY <2>2, PresetsAreGood, StartStep
  <1>3. CASE onChangeOption
    <2>1. PICK input \in buildConfigModel(cfgCards) : \E value \in OptionControl(input) :
            LET payload == setOptionValue(<<>>, input.optionId, value)
            IN StartWrites(payload, payload)
      BY <1>3 DEF onChangeOption
    <2>2. PICK value \in OptionControl(input) :
            StartWrites(setOptionValue(<<>>, input.optionId, value),
                        setOptionValue(<<>>, input.optionId, value))
      BY <2>1
    <2>3. /\ cfgPreset' \in DOMAIN CONFIG_PRESETS \cup {NoPreset}
          /\ UNCHANGED <<cfgCore, cfgCards>> /\ DOMAIN cfgCards = DOMAIN OptionType
      BY <1>3 DEF onChangeOption, TabTypeInv, Typed, OptionCards
    <2>4. GoodPayload(setOptionValue(<<>>, input.optionId, value))
      BY <2>3, EditsAreGood
    <2>. QED BY <2>2, <2>3, <2>4, StartStep
  <1>4. CASE WriteAnswered
    BY <1>4, WriteStep
  <1>5. CASE OptionsAnswered
    BY <1>5, RefreshStep
  <1>8. CASE HandlerRejects
    BY <1>8, RejectStep
  <1>9. CASE OptionsServed
    BY <1>9, ServeStep
  <1>6. CASE EditGems
    BY <1>1, <1>6 DEF EditGems
  <1>7. CASE UNCHANGED tabVars
    BY <1>1, <1>7 DEF tabVars, cfgVars
  <1>. QED BY <1>2, <1>3, <1>4, <1>5, <1>6, <1>7, <1>8, <1>9 DEF TabNext

LEMMA WritesCorrect == TabSpec => [](TabTypeInv /\ WritesInv)
  BY TabInitInv, TabNextInv, PTL DEF TabSpec

(* Every option keeps a value of its own type, from a preset or from a control   *)
(* (config-model.ts, ConfigOptionRow.tsx).                                     *)
THEOREM OptionsKeepTheirType == TabSpec => []TabTypeOK
  <1>1. TabTypeInv => TabTypeOK
    BY DEF TabTypeInv, Typed, TabTypeOK
  <1>. QED BY <1>1, WritesCorrect, PTL

(* With no handler in flight every option nobody contested has the value asked   *)
(* for last, in the core and on screen, for any options and any number of        *)
(* overlapping and failing presets and edits (App.tsx 260-291).                  *)
THEOREM LastChoices == TabSpec => []LastChoiceIsApplied
  <1>1. TabTypeInv /\ WritesInv => LastChoiceIsApplied
    <2>. SUFFICES ASSUME TabTypeInv, WritesInv, cfgJobs = <<>>, NEW o \in Settled
                  PROVE  cfgCore[o] = cfgWanted[o] /\ cfgCards[o] = cfgWanted[o]
      BY DEF LastChoiceIsApplied, Settled
    <2>1. TabJobs = {}
      BY DEF TabJobs
    <2>. QED BY <2>1 DEF WritesInv, WrittenUnlessInFlight, CardsFollow
  <1>. QED BY <1>1, WritesCorrect, PTL

-----------------------------------------------------------------------------
(* Gem groups. *)
GroupGems == GemsOf({gem.gemId : gem \in TabGems}, {gem.meta : gem \in TabGems})

OneGemPerId(gems) == \A i, j \in 1 .. Len(gems) : gems[i].gemId = gems[j].gemId => i = j

GemsInv == skGems \in Seq(GroupGems) /\ OneGemPerId(skGems)

(* What a filter keeps of a group has one gem per id again. *)
LEMMA FilteredGems ==
  ASSUME NEW gems \in Seq(GroupGems), OneGemPerId(gems), NEW keep
  PROVE  Kept(gems, keep) \in Seq(GroupGems) /\ OneGemPerId(Kept(gems, keep))
  <1>. DEFINE K == Kept(gems, keep)
  <1>1. PICK at : Places(gems, keep, Len(gems), K, at)
    BY KeptIsASubsequence
  <1>2. K \in Seq(GroupGems) /\ Len(K) \in Nat /\ Len(gems) \in Nat
    BY KeptIsASubsequence, LenProperties
  <1>. HIDE DEF K
  <1>3. ASSUME NEW i \in 1 .. Len(K), NEW j \in 1 .. Len(K), K[i].gemId = K[j].gemId
        PROVE  i = j
    <2>1. /\ at[i] \in 1 .. Len(gems) /\ at[j] \in 1 .. Len(gems)
          /\ K[i] = gems[at[i]] /\ K[j] = gems[at[j]]
      BY <1>1 DEF Places
    <2>2. at[i] = at[j]
      BY <1>3, <2>1 DEF OneGemPerId
    <2>3. ~(i < j) /\ ~(j < i)
      BY <1>1, <1>2, <2>1, <2>2 DEF Places
    <2>. QED BY <1>2, <2>3
  <1>. QED BY <1>2, <1>3 DEF K, OneGemPerId

(* Active gems first, supports after them: the same gems, each once. *)
LEMMA OrderedGems ==
  ASSUME NEW gems \in Seq(GroupGems), OneGemPerId(gems)
  PROVE  /\ ActiveFirst(gems) \in Seq(GroupGems)
         /\ Len(ActiveFirst(gems)) = Len(gems)
         /\ OneGemPerId(ActiveFirst(gems))
  <1>. DEFINE there == {gems[i] : i \in DOMAIN gems}
              active == {x \in there : IsActive(x)}
              support == {x \in there : IsSupport(x)}
              A == Kept(gems, active)
              B == Kept(gems, support)
  <1>0. Len(gems) \in Nat /\ DOMAIN gems = 1 .. Len(gems)
    BY LenProperties
  <1>1. /\ active \cap support = {}
        /\ \A i \in 1 .. Len(gems) : gems[i] \in active <=> gems[i] \notin support
    BY <1>0 DEF IsActive, IsSupport
  <1>2. ActiveFirst(gems) = A \o B
    BY DEF ActiveFirst, Filter
  <1>. HIDE DEF active, support
  <1>3. PICK atA : Places(gems, active, Len(gems), A, atA)
    BY KeptIsASubsequence
  <1>4. PICK atB : Places(gems, support, Len(gems), B, atB)
    BY KeptIsASubsequence
  <1>5. /\ A \in Seq(GroupGems) /\ Len(A) \in Nat /\ OneGemPerId(A)
        /\ B \in Seq(GroupGems) /\ Len(B) \in Nat /\ OneGemPerId(B)
    BY FilteredGems, LenProperties
  <1>6. Len(A) + Len(B) = Len(gems)
    BY <1>1, KeptSplits
  <1>. HIDE DEF A, B
  <1>7. /\ A \o B \in Seq(GroupGems) /\ Len(A \o B) = Len(gems)
        /\ \A i \in 1 .. Len(gems) : (A \o B)[i] = IF i <= Len(A) THEN A[i] ELSE B[i - Len(A)]
    <2>1. /\ A \o B \in Seq(GroupGems) /\ Len(A \o B) = Len(A) + Len(B)
          /\ \A i \in 1 .. Len(A) + Len(B) : (A \o B)[i] = IF i <= Len(A) THEN A[i] ELSE B[i - Len(A)]
      BY <1>5, ConcatProperties, Zenon
    <2>. QED BY <1>6, <2>1
  <1>8. ASSUME NEW i \in 1 .. Len(A), NEW j \in 1 .. Len(B) PROVE A[i].gemId # B[j].gemId
    <2>1. /\ atA[i] \in 1 .. Len(gems) /\ A[i] = gems[atA[i]] /\ gems[atA[i]] \in active
      BY <1>3 DEF Places
    <2>2. /\ atB[j] \in 1 .. Len(gems) /\ B[j] = gems[atB[j]] /\ gems[atB[j]] \in support
      BY <1>4 DEF Places
    <2>3. atA[i] # atB[j]
      BY <1>1, <2>1, <2>2
    <2>. QED BY <2>1, <2>2, <2>3 DEF OneGemPerId
  <1>9. ASSUME NEW i \in 1 .. Len(gems), NEW j \in 1 .. Len(gems),
               (A \o B)[i].gemId = (A \o B)[j].gemId
        PROVE  i = j
    <2>1. \A m \in 1 .. Len(gems) :
            \/ m \in 1 .. Len(A) /\ (A \o B)[m] = A[m]
            \/ m - Len(A) \in 1 .. Len(B) /\ (A \o B)[m] = B[m - Len(A)]
      BY <1>5, <1>6, <1>7
    <2>2. CASE i \in 1 .. Len(A) /\ (A \o B)[i] = A[i]
      <3>1. j \in 1 .. Len(A) /\ (A \o B)[j] = A[j]
        BY <1>8, <1>9, <2>1, <2>2
      <3>. QED BY <1>5, <1>9, <2>2, <3>1 DEF OneGemPerId
    <2>3. CASE i - Len(A) \in 1 .. Len(B) /\ (A \o B)[i] = B[i - Len(A)]
      <3>1. j - Len(A) \in 1 .. Len(B) /\ (A \o B)[j] = B[j - Len(A)]
        BY <1>8, <1>9, <2>1, <2>3
      <3>2. i - Len(A) = j - Len(A)
        BY <1>5, <1>9, <2>3, <3>1 DEF OneGemPerId
      <3>. QED BY <1>5, <3>2
    <2>. QED BY <2>1, <2>2, <2>3
  <1>. QED BY <1>2, <1>7, <1>9 DEF OneGemPerId

LEMMA AddedGem ==
  ASSUME NEW gems \in Seq(GroupGems), OneGemPerId(gems), NEW gem \in TabGems
  PROVE  addGem(gems, gem) \in Seq(GroupGems) /\ OneGemPerId(addGem(gems, gem))
  <1>1. gem \in GroupGems
    BY GemsAreRecords DEF GroupGems
  <1>2. Len(gems) \in Nat /\ DOMAIN gems = 1 .. Len(gems)
    BY LenProperties
  <1>3. CASE \E i \in DOMAIN gems : gems[i].gemId = gem.gemId
    BY <1>3 DEF addGem
  <1>4. CASE ~\E i \in DOMAIN gems : gems[i].gemId = gem.gemId
    <2>1. addGem(gems, gem) = Append(gems, gem)
      BY <1>4 DEF addGem
    <2>2. /\ Append(gems, gem) \in Seq(GroupGems) /\ Len(Append(gems, gem)) = Len(gems) + 1
          /\ \A i \in 1 .. Len(gems) : Append(gems, gem)[i] = gems[i]
          /\ Append(gems, gem)[Len(gems) + 1] = gem
      BY <1>1, AppendProperties
    <2>. QED BY <1>2, <1>4, <2>1, <2>2 DEF OneGemPerId
  <1>. QED BY <1>3, <1>4

LEMMA ToggledGem ==
  ASSUME NEW gems \in Seq(GroupGems), OneGemPerId(gems), NEW gemId
  PROVE  toggleGemEnabled(gems, gemId) \in Seq(GroupGems) /\ OneGemPerId(toggleGemEnabled(gems, gemId))
  <1>. DEFINE T == toggleGemEnabled(gems, gemId)
  <1>1. Len(gems) \in Nat /\ DOMAIN gems = 1 .. Len(gems)
    BY LenProperties
  <1>2. \A i \in 1 .. Len(gems) : gems[i] \in GroupGems
    BY ElementOfSeq
  <1>3. ASSUME NEW i \in 1 .. Len(gems)
        PROVE  T[i] \in GroupGems /\ T[i].gemId = gems[i].gemId
    <2>1. T[i] = IF gems[i].gemId = gemId THEN [gems[i] EXCEPT !.enabled = ~@] ELSE gems[i]
      BY <1>1 DEF toggleGemEnabled
    <2>. DEFINE g == gems[i]
    <2>2. g \in GroupGems
      BY <1>2
    <2>. HIDE DEF g
    <2>3. [g EXCEPT !.enabled = ~g.enabled] \in GroupGems /\ [g EXCEPT !.enabled = ~g.enabled].gemId = g.gemId
      BY <2>2 DEF GroupGems, GemsOf
    <2>4. T[i] = IF g.gemId = gemId THEN [g EXCEPT !.enabled = ~g.enabled] ELSE g
      BY <2>1, Zenon DEF g
    <2>5. T[i] \in GroupGems /\ T[i].gemId = g.gemId
      BY <2>2, <2>3, <2>4
    <2>. QED BY <2>5 DEF g
  <1>4. T = [i \in 1 .. Len(gems) |-> T[i]]
    BY <1>1 DEF toggleGemEnabled
  <1>. HIDE DEF T
  <1>5. T \in Seq(GroupGems) /\ Len(T) = Len(gems)
    <2>1. T \in [1 .. Len(gems) -> GroupGems]
      BY <1>3, <1>4
    <2>. QED BY <1>1, <2>1
  <1>6. OneGemPerId(T)
    BY <1>3, <1>5 DEF OneGemPerId
  <1>. QED BY <1>5, <1>6 DEF T

LEMMA GemsNextInv == GemsInv /\ [TabNext]_tabVars => GemsInv'
  <1>. SUFFICES ASSUME GemsInv, [TabNext]_tabVars PROVE GemsInv'
    OBVIOUS
  <1>1. CASE EditGems
    <2>1. CASE \E gem \in TabGems : skGems' = addGem(groupToGemInputs(skGems), gem)
      <3>1. PICK gem \in TabGems : skGems' = addGem(ActiveFirst(skGems), gem)
        BY <2>1 DEF groupToGemInputs
      <3>. QED BY <3>1, OrderedGems, AddedGem DEF GemsInv
    <2>2. CASE \E gem \in TabGems : skGems' = removeGem(skGems, gem.gemId)
      <3>1. PICK keep : skGems' = Kept(skGems, keep)
        BY <2>2 DEF removeGem, Filter
      <3>. QED BY <3>1, FilteredGems DEF GemsInv
    <2>3. CASE \E gem \in TabGems : skGems' = toggleGemEnabled(skGems, gem.gemId)
      BY <2>3, ToggledGem DEF GemsInv
    <2>. QED BY <1>1, <2>1, <2>2, <2>3 DEF EditGems
  <1>2. CASE UNCHANGED skGems
    BY <1>2 DEF GemsInv, OneGemPerId
  <1>. QED BY <1>1, <1>2 DEF TabNext, handleApplyPreset, onChangeOption, WriteAnswered, HandlerRejects,
                            OptionsServed, OptionsAnswered, tabVars

LEMMA GemsCorrect == TabSpec => []GemsInv
  <1>1. TabInit => GemsInv
    BY DEF TabInit, GemsInv, OneGemPerId
  <1>. QED BY <1>1, GemsNextInv, PTL DEF TabSpec

(* A card shows every gem of its group once, and no two with one id.             *)
THEOREM OneChip == TabSpec => []OneChipPerGem
  <1>1. GemsInv => OneChipPerGem
    <2>. SUFFICES ASSUME GemsInv PROVE OneChipPerGem
      OBVIOUS
    <2>. DEFINE ordered == ActiveFirst(skGems)
                chips == [i \in DOMAIN ordered |-> toChip(ordered[i])]
    <2>1. ordered \in Seq(GroupGems) /\ Len(ordered) = Len(skGems) /\ OneGemPerId(ordered)
      BY OrderedGems DEF GemsInv
    <2>2. DOMAIN ordered = 1 .. Len(ordered) /\ Len(ordered) \in Nat
      BY <2>1, LenProperties
    <2>3. toCard(skGems) = chips
      BY DEF toCard
    <2>. HIDE DEF ordered
    <2>4. DOMAIN chips = 1 .. Len(ordered) /\ Len(chips) = Len(ordered)
      BY <2>2
    <2>5. \A i \in 1 .. Len(ordered) : chips[i].gemId = ordered[i].gemId
      BY <2>2 DEF toChip
    <2>. HIDE DEF chips
    <2>. QED BY <2>1, <2>3, <2>4, <2>5 DEF OneChipPerGem, OneGemPerId
  <1>. QED BY <1>1, GemsCorrect, PTL

-----------------------------------------------------------------------------
(* Every resistance the warnings look at has a field on the defence card, and    *)
(* both read the calculation on screen, so they agree whatever it holds.         *)
THEOREM WarningsMatch == TabSpec => []WarningsMatchTheCards
  <1>1. WarningsMatchTheCards
    <2>. DEFINE calc == calcShown
                maxima == [FireResist |-> 78]
                card == buildCard(calc, DEFENCE_SPEC)
                warned == {w.statId : w \in buildWarningModel(calc, maxima)}
                low == {i \in DOMAIN card : \E v \in card[i].value : v < MaxResist(maxima, card[i].statId)}
    <2>0. buildOverviewModel(calc).defence = card
      BY DEF buildOverviewModel
    <2>1. warned = {r \in RESIST_STATS \cap DOMAIN calc : calc[r] < MaxResist(maxima, r)}
      <3>. DEFINE short == {s \in RESIST_STATS \cap DOMAIN calc : calc[s] < MaxResist(maxima, s)}
      <3>1. buildWarningModel(calc, maxima) =
              {[code |-> <<"resist-below-cap", r>>, statId |-> r] : r \in short}
        BY DEF buildWarningModel
      <3>. HIDE DEF short
      <3>. DEFINE warning(r) == [code |-> <<"resist-below-cap", r>>, statId |-> r]
      <3>3. \A r : warning(r).statId = r
        OBVIOUS
      <3>4. buildWarningModel(calc, maxima) = {warning(r) : r \in short}
        BY <3>1
      <3>. HIDE DEF warning
      <3>2. warned = short
        BY <3>3, <3>4
      <3>. QED BY <3>2 DEF short
    <2>2. DOMAIN card = DOMAIN DEFENCE_SPEC
          /\ \A i \in DOMAIN DEFENCE_SPEC : /\ card[i].statId = DEFENCE_SPEC[i]
                                           /\ card[i].value = {calc[s] : s \in {DEFENCE_SPEC[i]} \cap DOMAIN calc}
      BY DEF buildCard, toField
    <2>3. \A r \in RESIST_STATS : \E i \in DOMAIN DEFENCE_SPEC : DEFENCE_SPEC[i] = r
      <3>1. /\ DOMAIN DEFENCE_SPEC = 1 .. 10
            /\ DEFENCE_SPEC[6] = "FireResist" /\ DEFENCE_SPEC[7] = "ColdResist"
            /\ DEFENCE_SPEC[8] = "LightningResist"
        BY DEF DEFENCE_SPEC
      <3>. QED BY <3>1 DEF RESIST_STATS
    <2>. HIDE DEF card, warned
    <2>4. \A i \in DOMAIN card :
            i \in low <=> /\ DEFENCE_SPEC[i] \in DOMAIN calc
                         /\ calc[DEFENCE_SPEC[i]] < MaxResist(maxima, DEFENCE_SPEC[i])
      BY <2>2
    <2>5. warned = {card[i].statId : i \in low} \cap RESIST_STATS
      <3>1. ASSUME NEW r \in warned PROVE r \in {card[i].statId : i \in low} \cap RESIST_STATS
        <4>1. PICK i \in DOMAIN DEFENCE_SPEC : DEFENCE_SPEC[i] = r
          BY <2>1, <2>3, <3>1
        <4>2. i \in low /\ card[i].statId = r
          BY <2>1, <2>2, <2>4, <3>1, <4>1
        <4>. QED BY <2>1, <3>1, <4>2
      <3>2. ASSUME NEW r \in {card[i].statId : i \in low} \cap RESIST_STATS PROVE r \in warned
        <4>1. PICK i \in low : card[i].statId = r
          BY <3>2
        <4>2. i \in DOMAIN card
          OBVIOUS
        <4>. QED BY <2>1, <2>2, <2>4, <3>2, <4>1, <4>2
      <3>. QED BY <3>1, <3>2
    <2>. QED BY <2>0, <2>5 DEF WarningsMatchTheCards, warned
  <1>. QED BY <1>1, PTL

-----------------------------------------------------------------------------
(* Command palette.  The highlight is an index that only ever grows too large,  *)
(* when the list shrinks; activeIndex brings it back.                           *)
PaletteInv ==
  /\ palHighlight \in Nat
  /\ palCommands \in CommandLists
  /\ palLastRun.marked = {palLastRun.ran} /\ palLastRun.ran \in palLastRun.list

LEMMA ResultsAreAList ==
  ASSUME palCommands \in CommandLists
  PROVE  /\ Len(results) \in Nat /\ DOMAIN results = 1 .. Len(results)
         /\ results = <<>> <=> Len(results) = 0
  <1>. DEFINE S == {palCommands[i] : i \in DOMAIN palCommands}
  <1>1. palCommands \in Seq(S)
    BY CommandListsAreLists
  <1>. HIDE DEF S
  <1>2. PICK keep : results = Kept(palCommands, keep)
    BY DEF results, filterCommands, Filter
  <1>3. results \in Seq(S)
    BY <1>1, <1>2, KeptIsASubsequence
  <1>. QED BY <1>3, LenProperties, EmptySeq

(* One option is marked, whatever the highlight and the list. *)
LEMMA OneMarked ==
  ASSUME PaletteInv, results # <<>>
  PROVE  /\ activeIndex + 1 \in DOMAIN results
         /\ Marked = {results[activeIndex + 1].id}
  <1>1. Len(results) \in Nat /\ Len(results) # 0 /\ DOMAIN results = 1 .. Len(results)
    BY ResultsAreAList DEF PaletteInv
  <1>2. activeIndex \in 0 .. Len(results) - 1
    BY <1>1 DEF activeIndex, PaletteInv
  <1>3. activeIndex + 1 \in DOMAIN results
    BY <1>1, <1>2
  <1>4. {j \in DOMAIN results : j - 1 = activeIndex} = {activeIndex + 1}
    BY <1>1, <1>2, <1>3
  <1>. QED BY <1>3, <1>4 DEF Marked

LEMMA PaletteNextInv == PaletteInv /\ [PaletteNext]_palVars => PaletteInv'
  <1>. SUFFICES ASSUME PaletteInv, [PaletteNext]_palVars PROVE PaletteInv'
    OBVIOUS
  <1>1. CASE openPalette
    BY <1>1 DEF openPalette, PaletteInv
  <1>2. CASE onChange
    BY <1>2 DEF onChange, PaletteInv
  <1>3. CASE Enter
    <2>1. CASE activeIndex + 1 \in DOMAIN results
      <3>1. results # <<>>
        BY <2>1
      <3>. DEFINE id == results[activeIndex + 1].id
                  shown == {results[i].id : i \in DOMAIN results}
      <3>2. Marked = {id} /\ id \in shown
        BY <2>1, <3>1, OneMarked
      <3>3. palLastRun' = [ran |-> id, marked |-> Marked, list |-> shown]
        BY <1>3, <2>1 DEF Enter, RunCommand
      <3>. HIDE DEF id, shown
      <3>4. palLastRun'.marked = {palLastRun'.ran} /\ palLastRun'.ran \in palLastRun'.list
        BY <3>2, <3>3
      <3>. QED BY <1>3, <3>4 DEF Enter, PaletteInv
    <2>2. CASE activeIndex + 1 \notin DOMAIN results
      BY <1>3, <2>2 DEF Enter, PaletteInv
    <2>. QED BY <2>1, <2>2
  <1>4. CASE Arrow
    <2>1. PICK d \in {1, -1} :
            palHighlight' = IF results = <<>> THEN 0 ELSE (palHighlight + d + Len(results)) % Len(results)
      BY <1>4 DEF Arrow
    <2>2. palHighlight' \in Nat
      <3>1. CASE results = <<>>
        BY <2>1, <3>1
      <3>2. CASE results # <<>>
        <4>. DEFINE n == Len(results)
                    h == palHighlight + d + n
        <4>1. n \in Nat \ {0} /\ h \in Int
          BY <3>2, ResultsAreAList DEF PaletteInv
        <4>2. palHighlight' = h % n
          BY <2>1, <3>2
        <4>. HIDE DEF n, h
        <4>. QED BY <4>1, <4>2
      <3>. QED BY <3>1, <3>2
    <2>. QED BY <1>4, <2>2 DEF Arrow, PaletteInv
  <1>5. CASE Escape
    BY <1>5 DEF Escape, PaletteInv
  <1>6. CASE ClickOption
    <2>1. PICK i \in DOMAIN results : RunCommand(results[i].id, {results[i].id})
      BY <1>6 DEF ClickOption
    <2>. DEFINE id == results[i].id
                shown == {results[k].id : k \in DOMAIN results}
    <2>2. palLastRun' = [ran |-> id, marked |-> {id}, list |-> shown] /\ id \in shown
      BY <2>1 DEF RunCommand
    <2>. HIDE DEF id, shown
    <2>3. palLastRun'.marked = {palLastRun'.ran} /\ palLastRun'.ran \in palLastRun'.list
      BY <2>2
    <2>. QED BY <1>6, <2>3 DEF ClickOption, PaletteInv
  <1>7. CASE CommandsChange
    BY <1>7 DEF CommandsChange, PaletteInv
  <1>8. CASE UNCHANGED palVars
    BY <1>8 DEF palVars, PaletteInv
  <1>. QED BY <1>1, <1>2, <1>3, <1>4, <1>5, <1>6, <1>7, <1>8 DEF PaletteNext

(* Enter runs what is marked, and something is, for any lists of commands and    *)
(* whenever the App replaces them (CommandPalette.tsx, activeIndex).             *)
THEOREM EnterRunsMarked == PaletteSpec => []EnterRunsTheMarkedOption
  <1>1. PaletteInit => PaletteInv
    BY DEF PaletteInit, PaletteInv
  <1>2. PaletteInv => EnterRunsTheMarkedOption
    <2>. SUFFICES ASSUME PaletteInv, palOpen, results # <<>> PROVE Cardinality(Marked) = 1
      BY DEF PaletteInv, EnterRunsTheMarkedOption
    <2>. QED BY OneMarked, FS_Singleton
  <1>. QED BY <1>1, <1>2, PaletteNextInv, PTL DEF PaletteSpec

-----------------------------------------------------------------------------
(* The viewport's arithmetic.  At each of the scales the offset is a whole       *)
(* number of world units, and then the two conversions undo each other.         *)
Aligned(vp) ==
  /\ vp \in [scale : {1, 2, 4}, offsetX : Int]
  /\ vp.offsetX % vp.scale = 0

Whole(x) == x \in Int /\ x % 4 = 0

LEMMA PointHeld ==
  ASSUME NEW vp, Aligned(vp), NEW x, Whole(x)
  PROVE  /\ screenToWorld(vp, x) \in Int
         /\ worldToScreen(vp, screenToWorld(vp, x)) = x
  <1>. DEFINE b == vp.offsetX
  <1>0. b \in Int /\ x \in Int /\ x % 4 = 0
    BY DEF Aligned, Whole
  <1>. HIDE DEF b
  <1>1. CASE vp.scale = 1
    <2>1. (x - b) \div 1 \in Int /\ ((x - b) \div 1) * 1 + b = x
      BY <1>0
    <2>. QED BY <1>1, <2>1 DEF screenToWorld, worldToScreen, b
  <1>2. CASE vp.scale = 2
    <2>0. b % 2 = 0
      BY <1>2 DEF Aligned, b
    <2>1. (x - b) \div 2 \in Int /\ ((x - b) \div 2) * 2 + b = x
      BY <1>0, <2>0
    <2>. QED BY <1>2, <2>1 DEF screenToWorld, worldToScreen, b
  <1>3. CASE vp.scale = 4
    <2>0. b % 4 = 0
      BY <1>3 DEF Aligned, b
    <2>1. (x - b) \div 4 \in Int /\ ((x - b) \div 4) * 4 + b = x
      BY <1>0, <2>0
    <2>. QED BY <1>3, <2>1 DEF screenToWorld, worldToScreen, b
  <1>. QED BY <1>1, <1>2, <1>3 DEF Aligned

LEMMA PanMoves ==
  ASSUME NEW vp, Aligned(vp), NEW dx, Whole(dx)
  PROVE  /\ Aligned(panBy(vp, dx))
         /\ \A w \in Int : worldToScreen(panBy(vp, dx), w) = worldToScreen(vp, w) + dx
  <1>. DEFINE b == vp.offsetX
              a == vp.scale
  <1>0. b \in Int /\ a \in {1, 2, 4} /\ b % a = 0 /\ dx \in Int /\ dx % 4 = 0
    BY DEF Aligned, Whole
  <1>1. panBy(vp, dx) \in [scale : {1, 2, 4}, offsetX : Int]
        /\ panBy(vp, dx).scale = a /\ panBy(vp, dx).offsetX = b + dx
    BY DEF Aligned, Whole, panBy
  <1>. HIDE DEF a, b
  <1>2. (b + dx) % a = 0
    <2>1. CASE a = 1
      BY <1>0, <2>1
    <2>2. CASE a = 2
      <3>1. b % 2 = 0
        BY <1>0, <2>2
      <3>2. (b + dx) % 2 = 0
        BY <1>0, <3>1
      <3>. QED BY <2>2, <3>2
    <2>3. CASE a = 4
      <3>1. b % 4 = 0
        BY <1>0, <2>3
      <3>2. (b + dx) % 4 = 0
        BY <1>0, <3>1
      <3>. QED BY <2>3, <3>2
    <2>. QED BY <1>0, <2>1, <2>2, <2>3
  <1>3. ASSUME NEW w \in Int PROVE w * a + (b + dx) = (w * a + b) + dx
    <2>1. w * a \in Int
      BY <1>0
    <2>. QED BY <1>0, <2>1
  <1>. QED BY <1>1, <1>2, <1>3 DEF Aligned, worldToScreen, a, b

LEMMA ScaleClamped ==
  ASSUME NEW a \in {1, 2, 4}
  PROVE  Clamp(a * 2) \in {1, 2, 4} /\ Clamp(a \div 2) \in {1, 2, 4}
  BY DEF Clamp, MinScale, MaxScale

LEMMA ZoomHolds ==
  ASSUME NEW vp, Aligned(vp), NEW cx, Whole(cx), NEW scale, Clamp(scale) \in {1, 2, 4}
  PROVE  /\ Aligned(zoomAt(vp, cx, scale))
         /\ \A w \in Int : worldToScreen(vp, w) = cx => worldToScreen(zoomAt(vp, cx, scale), w) = cx
  <1>. DEFINE s == Clamp(scale)
              h == screenToWorld(vp, cx)
              z == zoomAt(vp, cx, scale)
              b == vp.offsetX
              a == vp.scale
  <1>1. h \in Int /\ h * a + b = cx /\ b \in Int /\ a \in {1, 2, 4} /\ cx \in Int /\ cx % 4 = 0
    BY PointHeld DEF Aligned, Whole, worldToScreen
  <1>2. z.scale = s /\ z.offsetX = cx - h * s /\ DOMAIN z = {"scale", "offsetX"}
        /\ z = [scale |-> s, offsetX |-> cx - h * s]
    BY DEF zoomAt
  <1>3. s \in {1, 2, 4}
    OBVIOUS
  <1>. HIDE DEF s, h, z, a, b
  <1>4. h * s \in Int /\ (cx - h * s) % s = 0
    <2>1. CASE s = 1
      BY <1>1, <2>1
    <2>2. CASE s = 2
      <3>1. h * 2 \in Int /\ (cx - h * 2) % 2 = 0
        BY <1>1
      <3>. QED BY <2>2, <3>1
    <2>3. CASE s = 4
      <3>1. h * 4 \in Int /\ (cx - h * 4) % 4 = 0
        BY <1>1
      <3>. QED BY <2>3, <3>1
    <2>. QED BY <1>3, <2>1, <2>2, <2>3
  <1>5. Aligned(z)
    BY <1>1, <1>2, <1>3, <1>4 DEF Aligned
  <1>6. ASSUME NEW w \in Int, w * a + b = cx PROVE w * s + (cx - h * s) = cx
    <2>1. w = h
      <3>1. CASE a = 1
        BY <1>1, <1>6, <3>1
      <3>2. CASE a = 2
        BY <1>1, <1>6, <3>2
      <3>3. CASE a = 4
        BY <1>1, <1>6, <3>3
      <3>. QED BY <1>1, <3>1, <3>2, <3>3
    <2>. QED BY <1>1, <1>4, <2>1
  <1>. QED BY <1>2, <1>5, <1>6 DEF worldToScreen, z, a, b

-----------------------------------------------------------------------------
(* The canvas.  What the mouse, its press and the two viewports have to do with  *)
(* each other.                                                                  *)
CanvasTypeInv ==
  /\ Aligned(viewport) /\ Aligned(rendered)
  /\ grab \in Int
  /\ lost \in BOOLEAN /\ panned \in BOOLEAN
  /\ dragRef \in [startX : Int, lastX : Int, moved : BOOLEAN, down : BOOLEAN]
  /\ cursor = Off \/ Whole(cursor)

(* A press lasts while the mouse is on the canvas, follows it, and until it has  *)
(* gone beyond the threshold pans nothing.                                      *)
PressInv ==
  /\ dragRef.moved => dragRef.down
  /\ cursor = Off => ~dragRef.down
  /\ dragRef.down => dragRef.lastX = cursor
  /\ dragRef.down /\ ~dragRef.moved =>
       ~panned /\ Abs(cursor - dragRef.startX) <= ClickDragThreshold

CanvasInv == CanvasTypeInv /\ PressInv /\ PanKeepsWhatItHolds /\ ClicksAreNotPans

LEMMA OffIsNowhere == \A x \in Cursors : x # Off /\ Whole(x)
  BY CanvasAssumption DEF Off, Whole

LEMMA CanvasInitInv == CanvasInit => CanvasInv
  <1>. SUFFICES ASSUME CanvasInit PROVE CanvasInv
    OBVIOUS
  <1>1. Aligned(viewport) /\ rendered = viewport
    BY DEF CanvasInit, Aligned
  <1>2. CanvasTypeInv
    <2>1. dragRef = NoDrag /\ cursor = Off /\ grab = 0 /\ lost = FALSE /\ panned = FALSE
      BY DEF CanvasInit
    <2>2. Aligned(rendered)
      BY <1>1
    <2>3. NoDrag \in [startX : Int, lastX : Int, moved : BOOLEAN, down : BOOLEAN]
      BY DEF NoDrag
    <2>4. lost \in BOOLEAN /\ panned \in BOOLEAN
      BY <2>1, Zenon
    <2>. QED BY <1>1, <2>1, <2>2, <2>3, <2>4 DEF CanvasTypeInv
  <1>3. PressInv /\ PanKeepsWhatItHolds
    BY DEF CanvasInit, PressInv, PanKeepsWhatItHolds, NoDrag
  <1>4. ClicksAreNotPans
    BY DEF CanvasInit, ClicksAreNotPans, Abs, Off, ClickDragThreshold
  <1>. QED BY <1>2, <1>3, <1>4 DEF CanvasInv

(* Steps that leave the viewport, the press and the click as they are.           *)
LEMMA HoverSteps ==
  ASSUME CanvasInv, UNCHANGED <<viewport, dragRef, cursor, grab, lost, panned, clicked>>,
         rendered' = rendered \/ rendered' = viewport
  PROVE  CanvasInv'
  BY DEF CanvasInv, CanvasTypeInv, PressInv, PanKeepsWhatItHolds, ClicksAreNotPans

LEMMA PressStep ==
  ASSUME CanvasInv, handleMouseDown
  PROVE  CanvasInv'
  <1>1. /\ dragRef' = [startX |-> cursor, lastX |-> cursor, moved |-> FALSE, down |-> TRUE]
        /\ lost' = FALSE /\ panned' = FALSE /\ cursor # Off
        /\ UNCHANGED <<viewport, rendered, cursor, grab, clicked>>
    BY DEF handleMouseDown
  <1>2. cursor \in Int
    BY <1>1 DEF CanvasInv, CanvasTypeInv, Whole
  <1>3. CanvasTypeInv'
    BY <1>1, <1>2 DEF CanvasInv, CanvasTypeInv
  <1>4. PressInv' /\ PanKeepsWhatItHolds' /\ ClicksAreNotPans'
    BY <1>1, <1>2 DEF CanvasInv, PressInv, PanKeepsWhatItHolds, ClicksAreNotPans, Abs, ClickDragThreshold
  <1>. QED BY <1>3, <1>4 DEF CanvasInv

LEMMA MoveStep ==
  ASSUME CanvasInv, NEW x \in Cursors, handleMouseMove(x)
  PROVE  CanvasInv'
  <1>0. Whole(x) /\ x \in Int /\ x # Off
    BY OffIsNowhere DEF Whole
  <1>1. cursor' = x /\ UNCHANGED <<rendered, clicked>>
    BY DEF handleMouseMove
  <1>2. CASE ~dragRef.down
    <2>1. UNCHANGED <<viewport, dragRef, grab, lost, panned>>
      BY <1>2 DEF handleMouseMove
    <2>. QED BY <1>0, <1>1, <1>2, <2>1 DEF CanvasInv, CanvasTypeInv, PressInv, PanKeepsWhatItHolds,
                                          ClicksAreNotPans
  <1>3. CASE dragRef.down
    <2>0. /\ dragRef' = Track(x)
          /\ dragRef \in [startX : Int, lastX : Int, moved : BOOLEAN, down : BOOLEAN]
      BY <1>3 DEF handleMouseMove, CanvasInv, CanvasTypeInv
    <2>1. /\ dragRef' \in [startX : Int, lastX : Int, moved : BOOLEAN, down : BOOLEAN]
          /\ dragRef'.lastX = x /\ dragRef'.down /\ dragRef'.startX = dragRef.startX
          /\ dragRef'.moved <=> Moved(x)
      BY <1>0, <1>3, <2>0 DEF Track, Moved
    <2>2. Whole(cursor) /\ dragRef.lastX = cursor
      BY <1>3 DEF CanvasInv, CanvasTypeInv, PressInv
    <2>3. Whole(x - cursor)
      BY <1>0, <2>2 DEF Whole
    <2>4. CASE ~Moved(x)
      <3>1. UNCHANGED <<viewport, lost, panned, grab>>
        BY <1>3, <2>4 DEF handleMouseMove
      <3>2. ~panned /\ Abs(x - dragRef.startX) <= ClickDragThreshold
        BY <1>0, <1>3, <2>0, <2>4 DEF Moved, CanvasInv, PressInv, Abs, ClickDragThreshold
      <3>. QED BY <1>0, <1>1, <2>1, <2>4, <3>1, <3>2 DEF CanvasInv, CanvasTypeInv, PressInv,
                                                       PanKeepsWhatItHolds, ClicksAreNotPans
    <2>5. CASE Moved(x)
      <3>1. /\ viewport' = panBy(rendered, x - cursor)
            /\ lost' = (lost \/ rendered # viewport)
            /\ panned' = TRUE
            /\ grab' = IF dragRef.moved THEN grab ELSE screenToWorld(rendered, cursor)
        BY <1>3, <2>2, <2>5 DEF handleMouseMove, Update
      <3>2. Aligned(viewport') /\ Aligned(rendered)
            /\ \A w \in Int : worldToScreen(viewport', w) = worldToScreen(rendered, w) + (x - cursor)
        BY <2>3, <3>1, PanMoves DEF CanvasInv, CanvasTypeInv
      <3>3. screenToWorld(rendered, cursor) \in Int
            /\ worldToScreen(rendered, screenToWorld(rendered, cursor)) = cursor
        BY <2>2, <3>2, PointHeld
      <3>4. grab' \in Int /\ grab \in Int
        BY <3>1, <3>3 DEF CanvasInv, CanvasTypeInv
      <3>5. ~lost' => worldToScreen(rendered, grab') = cursor
        <4>1. CASE dragRef.moved
          BY <3>1, <4>1 DEF CanvasInv, PanKeepsWhatItHolds
        <4>2. CASE ~dragRef.moved
          BY <3>1, <3>3, <4>2
        <4>. QED BY <4>1, <4>2
      <3>6. ~lost' => worldToScreen(viewport', grab') = x
        <4>1. worldToScreen(viewport', grab') = worldToScreen(rendered, grab') + (x - cursor)
          BY <3>2, <3>4
        <4>2. cursor \in Int
          BY <2>2 DEF Whole
        <4>. QED BY <1>0, <3>5, <4>1, <4>2
      <3>7. CanvasTypeInv'
        BY <1>0, <1>1, <2>1, <3>1, <3>2, <3>4 DEF CanvasInv, CanvasTypeInv
      <3>8. PressInv' /\ PanKeepsWhatItHolds' /\ ClicksAreNotPans'
        BY <1>0, <1>1, <2>1, <2>5, <3>1, <3>6 DEF CanvasInv, PressInv, PanKeepsWhatItHolds, ClicksAreNotPans
      <3>. QED BY <3>7, <3>8 DEF CanvasInv
    <2>. QED BY <2>4, <2>5
  <1>. QED BY <1>2, <1>3

LEMMA ReleaseStep ==
  ASSUME CanvasInv, handleMouseUp
  PROVE  CanvasInv'
  <1>1. /\ dragRef' = NoDrag
        /\ \/ UNCHANGED clicked
           \/ /\ clicked' = [at |-> cursor, from |-> dragRef.startX, panned |-> panned]
              /\ dragRef.down /\ ~dragRef.moved
        /\ UNCHANGED <<viewport, rendered, cursor, grab, lost, panned>>
    BY DEF handleMouseUp
  <1>2. ClicksAreNotPans'
    BY <1>1 DEF CanvasInv, PressInv, ClicksAreNotPans
  <1>. QED BY <1>1, <1>2 DEF CanvasInv, CanvasTypeInv, PressInv, PanKeepsWhatItHolds, NoDrag

LEMMA LeaveStep ==
  ASSUME CanvasInv, handleMouseLeave
  PROVE  CanvasInv'
  BY DEF handleMouseLeave, CanvasInv, CanvasTypeInv, PressInv, PanKeepsWhatItHolds,
         ClicksAreNotPans, NoDrag

LEMMA WheelStep ==
  ASSUME CanvasInv, NEW up \in BOOLEAN, handleWheel(up)
  PROVE  CanvasInv'
  <1>. DEFINE scale == IF up THEN rendered.scale * 2 ELSE rendered.scale \div 2
  <1>1. /\ viewport' = zoomAt(rendered, cursor, scale)
        /\ lost' = (lost \/ rendered # viewport) /\ cursor # Off
        /\ UNCHANGED <<rendered, dragRef, cursor, grab, panned, clicked>>
    BY DEF handleWheel, Update
  <1>2. Aligned(rendered) /\ Whole(cursor) /\ grab \in Int
    BY <1>1 DEF CanvasInv, CanvasTypeInv
  <1>3. Clamp(scale) \in {1, 2, 4}
    <2>1. rendered.scale \in {1, 2, 4}
      BY <1>2 DEF Aligned
    <2>. QED BY <2>1, ScaleClamped
  <1>. HIDE DEF scale
  <1>4. Aligned(viewport')
        /\ (worldToScreen(rendered, grab) = cursor => worldToScreen(viewport', grab) = cursor)
    BY <1>1, <1>2, <1>3, ZoomHolds
  <1>5. CanvasTypeInv'
    BY <1>1, <1>4 DEF CanvasInv, CanvasTypeInv
  <1>. QED BY <1>1, <1>4, <1>5 DEF CanvasInv, PressInv, PanKeepsWhatItHolds, ClicksAreNotPans

LEMMA SelectStep ==
  ASSUME CanvasInv, NEW n \in DOMAIN NodeAt, handleSelectResult(n)
  PROVE  CanvasInv'
  <1>1. /\ viewport' = centreOn(rendered, NodeAt[n])
        /\ lost' = (lost \/ rendered # viewport) /\ cursor = Off
        /\ UNCHANGED <<rendered, dragRef, cursor, grab, panned, clicked>>
    BY DEF handleSelectResult, Update
  <1>2. Aligned(viewport')
    <2>. DEFINE a == rendered.scale
                w == NodeAt[n]
    <2>1. a \in {1, 2, 4} /\ w \in Int
      BY CanvasAssumption DEF CanvasInv, CanvasTypeInv, Aligned
    <2>2. viewport' = [rendered EXCEPT !.offsetX = 400 - w * a]
      BY <1>1 DEF centreOn, Width
    <2>. HIDE DEF a, w
    <2>3. w * a \in Int /\ (400 - w * a) % a = 0
      <3>1. w * 1 \in Int /\ (400 - w * 1) % 1 = 0
        BY <2>1
      <3>2. w * 2 \in Int /\ (400 - w * 2) % 2 = 0
        BY <2>1
      <3>3. w * 4 \in Int /\ (400 - w * 4) % 4 = 0
        BY <2>1
      <3>. QED BY <2>1, <3>1, <3>2, <3>3
    <2>. DEFINE b == 400 - w * a
    <2>4. b \in Int /\ b % a = 0
      BY <2>3
    <2>. HIDE DEF b
    <2>5. viewport' = [rendered EXCEPT !.offsetX = b] /\ rendered \in [scale : {1, 2, 4}, offsetX : Int]
      BY <2>2 DEF b, CanvasInv, CanvasTypeInv, Aligned
    <2>6. viewport'.scale = a /\ viewport'.offsetX = b /\ viewport' \in [scale : {1, 2, 4}, offsetX : Int]
      BY <2>4, <2>5 DEF a
    <2>. QED BY <2>4, <2>6 DEF Aligned
  <1>3. ~dragRef.moved
    BY <1>1 DEF CanvasInv, PressInv
  <1>. QED BY <1>1, <1>2, <1>3 DEF CanvasInv, CanvasTypeInv, PressInv, PanKeepsWhatItHolds,
                                   ClicksAreNotPans

LEMMA CanvasNextInv == CanvasInv /\ [CanvasNext]_canvasVars => CanvasInv'
  <1>. SUFFICES ASSUME CanvasInv, [CanvasNext]_canvasVars PROVE CanvasInv'
    OBVIOUS
  <1>1. CASE handleMouseDown
    BY <1>1, PressStep
  <1>2. ASSUME NEW x \in Cursors, handleMouseMove(x) PROVE CanvasInv'
    BY <1>2, MoveStep
  <1>3. CASE handleMouseUp
    BY <1>3, ReleaseStep
  <1>4. CASE handleMouseLeave
    BY <1>4, LeaveStep
  <1>5. ASSUME NEW up \in BOOLEAN, handleWheel(up) PROVE CanvasInv'
    BY <1>5, WheelStep
  <1>6. ASSUME NEW q \in Queries, TypeQuery(q) PROVE CanvasInv'
    BY <1>6, HoverSteps DEF TypeQuery
  <1>7. ASSUME NEW n \in DOMAIN NodeAt, handleSelectResult(n) PROVE CanvasInv'
    BY <1>7, SelectStep
  <1>8. CASE Render
    BY <1>8, HoverSteps DEF Render
  <1>9. CASE UNCHANGED canvasVars
    BY <1>9, HoverSteps DEF canvasVars
  <1>. QED BY <1>1, <1>2, <1>3, <1>4, <1>5, <1>6, <1>7, <1>8, <1>9 DEF CanvasNext

LEMMA CanvasCorrect == CanvasSpec => []CanvasInv
  BY CanvasInitInv, CanvasNextInv, PTL DEF CanvasSpec

(* What the mouse grabbed stays under it, for any nodes, positions and sequence  *)
(* of events that are rendered one by one (TreeCanvas.tsx, handleMouseMove and    *)
(* handleWheel).                                                                 *)
THEOREM PanHolds == CanvasSpec => []PanKeepsWhatItHolds
  <1>1. CanvasInv => PanKeepsWhatItHolds
    BY DEF CanvasInv
  <1>. QED BY <1>1, CanvasCorrect, PTL

(* No press that panned the view allocates a node when it is released.           *)
THEOREM ClicksAllocate == CanvasSpec => []ClicksAreNotPans
  <1>1. CanvasInv => ClicksAreNotPans
    BY DEF CanvasInv
  <1>. QED BY <1>1, CanvasCorrect, PTL

-----------------------------------------------------------------------------
(* The graph.  The two transforms.                                              *)
LEMMA MinMaxOfTwo ==
  ASSUME NEW a \in Nat, NEW b \in Nat
  PROVE  Min({a, b}) \in {a, b} /\ Max({a, b}) \in {a, b}
  <1>1. CASE a <= b
    <2>1. Min({a, b}) \in {a, b} /\ \A y \in {a, b} : Min({a, b}) <= y
      BY <1>1 DEF Min
    <2>2. Max({a, b}) \in {a, b} /\ \A y \in {a, b} : Max({a, b}) >= y
      BY <1>1 DEF Max
    <2>. QED BY <2>1, <2>2
  <1>2. CASE b <= a
    <2>1. Min({a, b}) \in {a, b} /\ \A y \in {a, b} : Min({a, b}) <= y
      BY <1>2 DEF Min
    <2>2. Max({a, b}) \in {a, b} /\ \A y \in {a, b} : Max({a, b}) >= y
      BY <1>2 DEF Max
    <2>. QED BY <2>1, <2>2
  <1>. QED BY <1>1, <1>2

(* What LoadTree makes of its inputs. *)
RawTree(wiring, allocated, group) ==
  [nodes |-> [n \in NodeIds |-> RawNode(n, wiring[n], IF n = Min(NodeIds) THEN group ELSE 1)],
   allocated |-> allocated]

LEMMA KindsAgree ==
  /\ classify({"notable", "keystone"}) = kindOf("Keystone")
  /\ classify({}) = kindOf("Normal")
  <1>. DEFINE Kinds == {Priority[i] : i \in DOMAIN Priority}
              of(flags) == {x \in Kinds : x \in flags}
  <1>1. /\ Priority \in Seq(Kinds) /\ Len(Priority) = 4 /\ DOMAIN Priority = 1 .. 4
        /\ Priority[1] = "jewel-socket" /\ Priority[2] = "keystone"
        /\ Priority[3] = "notable" /\ Priority[4] = "mastery"
    <2>1. /\ Len(Priority) = 4 /\ DOMAIN Priority = 1 .. 4
          /\ Priority[1] = "jewel-socket" /\ Priority[2] = "keystone"
          /\ Priority[3] = "notable" /\ Priority[4] = "mastery"
      BY DEF Priority
    <2>2. \A i \in 1 .. 4 : Priority[i] \in Kinds
      BY <2>1
    <2>. HIDE DEF Kinds
    <2>3. Priority \in Seq(Kinds)
      BY <2>1, <2>2 DEF Priority
    <2>. QED BY <2>1, <2>3
  <1>2. \A flags : classify(flags) =
          IF Kept(Priority, of(flags)) = <<>> THEN "small" ELSE Head(Kept(Priority, of(flags)))
    BY DEF classify, Filter
  <1>3. classify({}) = "small"
    <2>1. of({}) = {}
      OBVIOUS
    <2>. HIDE DEF of
    <2>2. PICK at : Places(Priority, of({}), Len(Priority), Kept(Priority, of({})), at)
      BY <1>1, KeptIsASubsequence
    <2>3. Kept(Priority, of({})) \in Seq(Kinds)
      BY <1>1, KeptIsASubsequence
    <2>4. Len(Kept(Priority, of({}))) = 0
      <3>1. 1 \notin 1 .. Len(Kept(Priority, of({})))
        BY <2>1, <2>2 DEF Places
      <3>2. Len(Kept(Priority, of({}))) \in Nat
        BY <2>3, LenProperties
      <3>. QED BY <3>1, <3>2
    <2>5. Kept(Priority, of({})) = <<>>
      BY <2>3, <2>4, EmptySeq
    <2>. QED BY <1>2, <2>5
  <1>4. classify({"notable", "keystone"}) = "keystone"
    <2>. DEFINE set == of({"notable", "keystone"})
                K == Kept(Priority, set)
    <2>1. set = {"notable", "keystone"}
      BY <1>1
    <2>2. classify({"notable", "keystone"}) = IF K = <<>> THEN "small" ELSE Head(K)
      BY <1>2
    <2>. HIDE DEF set, of
    <2>3. PICK at : Places(Priority, set, Len(Priority), K, at)
      BY <1>1, KeptIsASubsequence
    <2>4. K \in Seq(Kinds) /\ Len(K) \in Nat
      BY <1>1, KeptIsASubsequence, LenProperties
    <2>. HIDE DEF K
    <2>5. PICK i \in 1 .. Len(K) : at[i] = 2
      BY <1>1, <2>1, <2>3 DEF Places
    <2>6. 1 \in 1 .. Len(K) /\ at[1] \in 1 .. 4 /\ K[1] = Priority[at[1]] /\ K[1] \in set
      <3>1. 1 \in 1 .. Len(K)
        BY <2>4, <2>5
      <3>2. at[1] \in 1 .. Len(Priority)
        BY <2>3, <3>1 DEF Places
      <3>3. K[1] = Priority[at[1]] /\ Priority[at[1]] \in set
        BY <2>3, <3>1 DEF Places
      <3>. QED BY <1>1, <3>1, <3>2, <3>3
    <2>7. i = 1
      <3>. SUFFICES ASSUME i # 1 PROVE FALSE
        OBVIOUS
      <3>1. 1 < i
        BY <2>4, <2>5
      <3>2. at[1] < 2
        BY <2>3, <2>5, <2>6, <3>1 DEF Places
      <3>3. at[1] = 1
        BY <2>6, <3>2
      <3>. QED BY <1>1, <2>1, <2>6, <3>3
    <2>8. K # <<>> /\ Head(K) = "keystone"
      BY <1>1, <2>4, <2>5, <2>6, <2>7
    <2>. QED BY <2>2, <2>8
  <1>. QED BY <1>3, <1>4 DEF kindOf

(* The two ways to write down the edges. *)
LEMMA EdgesAgree ==
  ASSUME NEW response, DOMAIN response = NodeIds, NEW connections,
         \A n \in NodeIds : response[n].connections = connections[n]
  PROVE  Edges(connections) = treeResponseToGraph(response).edges
  <1>. DEFINE known(a) == {b \in response[a].connections : b # a /\ b \in DOMAIN response}
              edge(a, b) == <<Min({a, b}), Max({a, b})>>
              from(a) == {edge(a, b) : b \in known(a)}
  <1>1. treeResponseToGraph(response).edges = UNION {from(a) : a \in DOMAIN response}
    BY DEF treeResponseToGraph
  <1>2. Edges(connections) =
          {edge(p[1], p[2]) : p \in {q \in NodeIds \X NodeIds : q[2] \in connections[q[1]] /\ q[1] # q[2]}}
    BY DEF Edges
  <1>3. \A a, b : (a \in NodeIds /\ b \in known(a)) <=>
                  (<<a, b>> \in {q \in NodeIds \X NodeIds : q[2] \in connections[q[1]] /\ q[1] # q[2]})
    OBVIOUS
  <1>. HIDE DEF known, edge
  <1>4. ASSUME NEW e \in Edges(connections) PROVE e \in UNION {from(a) : a \in DOMAIN response}
    <2>1. PICK p \in {q \in NodeIds \X NodeIds : q[2] \in connections[q[1]] /\ q[1] # q[2]} :
            e = edge(p[1], p[2])
      BY <1>2, <1>4
    <2>2. p = <<p[1], p[2]>> /\ p[1] \in NodeIds
      OBVIOUS
    <2>3. p[2] \in known(p[1])
      BY <1>3, <2>1, <2>2
    <2>4. e \in from(p[1])
      BY <2>1, <2>3
    <2>. HIDE DEF from
    <2>. QED BY <2>2, <2>4
  <1>5. ASSUME NEW e \in UNION {from(a) : a \in DOMAIN response} PROVE e \in Edges(connections)
    <2>1. PICK a \in NodeIds : e \in from(a)
      <3>. HIDE DEF from
      <3>. QED BY <1>5
    <2>2. PICK b \in known(a) : e = edge(a, b)
      BY <2>1
    <2>. DEFINE p == <<a, b>>
    <2>3. p \in {q \in NodeIds \X NodeIds : q[2] \in connections[q[1]] /\ q[1] # q[2]}
      BY <1>3, <2>2
    <2>4. e = edge(p[1], p[2])
      BY <2>2
    <2>. HIDE DEF p
    <2>. QED BY <1>2, <2>3, <2>4
  <1>. QED BY <1>1, <1>4, <1>5

LEMMA LoadedAgree ==
  ASSUME NEW wiring, NEW allocated, NEW group,
         buildTreeGraph(RawTree(wiring, allocated, group)) # Misplaced
  PROVE  buildTreeGraph(RawTree(wiring, allocated, group)) =
           treeResponseToGraph(Served(RawTree(wiring, allocated, group)))
  <1>. DEFINE raw == RawTree(wiring, allocated, group)
              response == Served(raw)
              coord == [n \in NodeIds |-> nodeCoord(raw.nodes[n])]
              conns == [n \in NodeIds |-> raw.nodes[n].connections]
              drawn == [n \in NodeIds |-> [x |-> coord[n].x, y |-> coord[n].y,
                                           kind |-> classify(raw.nodes[n].flags)]]
              shown == [n \in DOMAIN response |->
                         [x |-> response[n].x, y |-> response[n].y, kind |-> kindOf(response[n].type)]]
  <1>1. \A n \in NodeIds : /\ raw.nodes[n].flags = IF n % 2 = 0 THEN {"notable", "keystone"} ELSE {}
    BY DEF RawTree, RawNode
  <1>2. DOMAIN response = NodeIds
        /\ \A n \in NodeIds : /\ response[n].x = nodeCoord(raw.nodes[n]).x
                              /\ response[n].y = nodeCoord(raw.nodes[n]).y
                              /\ response[n].type = IF n % 2 = 0 THEN "Keystone" ELSE "Normal"
                              /\ response[n].connections = raw.nodes[n].connections
    BY DEF Served
  <1>. HIDE DEF raw, response
  <1>3. /\ \A n \in NodeIds : coord[n] # Misplaced
        /\ buildTreeGraph(raw) = [nodeIndex |-> drawn, edges |-> Edges(conns),
                                  bounds |-> Bounds({coord[n] : n \in NodeIds})]
    BY DEF buildTreeGraph, raw
  <1>4. \A n \in NodeIds : coord[n].x = response[n].x /\ coord[n].y = response[n].y
    BY <1>2
  <1>5. drawn = shown
    <2>1. \A n \in NodeIds : classify(raw.nodes[n].flags) = kindOf(response[n].type)
      BY <1>1, <1>2, KindsAgree
    <2>. HIDE DEF coord
    <2>. QED BY <1>2, <1>4, <2>1
  <1>6. Edges(conns) = treeResponseToGraph(response).edges
    <2>1. \A n \in NodeIds : response[n].connections = conns[n]
      BY <1>2
    <2>. HIDE DEF conns
    <2>. QED BY <1>2, <2>1, EdgesAgree
  <1>7. Bounds({coord[n] : n \in NodeIds}) = Bounds({response[n] : n \in NodeIds})
    <2>. DEFINE C == {coord[n] : n \in NodeIds}
                R == {response[n] : n \in NodeIds}
    <2>1. {p.x : p \in C} = {p.x : p \in R}
      <3>. HIDE DEF coord
      <3>. QED BY <1>4
    <2>2. {p.y : p \in C} = {p.y : p \in R}
      <3>. HIDE DEF coord
      <3>. QED BY <1>4
    <2>. HIDE DEF C, R
    <2>3. Bounds(C) = Bounds(R)
      BY <2>1, <2>2 DEF Bounds
    <2>. QED BY <2>3 DEF C, R
  <1>8. response # <<>>
    BY <1>2, TreeAssumption
  <1>9. treeResponseToGraph(response) =
          [nodeIndex |-> shown, edges |-> treeResponseToGraph(response).edges,
           bounds |-> Bounds({response[n] : n \in DOMAIN response})]
    BY <1>8 DEF treeResponseToGraph
  <1>. HIDE DEF drawn, shown, conns, coord
  <1>. QED BY <1>2, <1>3, <1>5, <1>6, <1>7, <1>9 DEF raw, response

(* Every edge joins two nodes of the tree. *)
LEMMA EdgesJoinNodes ==
  ASSUME NEW connections
  PROVE  Edges(connections) \subseteq NodeIds \X NodeIds
  <1>1. ASSUME NEW e \in Edges(connections) PROVE e \in NodeIds \X NodeIds
    <2>1. PICK p \in {q \in NodeIds \X NodeIds : q[2] \in connections[q[1]] /\ q[1] # q[2]} :
            e = <<Min({p[1], p[2]}), Max({p[1], p[2]})>>
      BY <1>1 DEF Edges
    <2>2. p[1] \in NodeIds /\ p[2] \in NodeIds /\ p[1] \in Nat /\ p[2] \in Nat
      BY TreeAssumption
    <2>3. Min({p[1], p[2]}) \in NodeIds /\ Max({p[1], p[2]}) \in NodeIds
      BY <2>2, MinMaxOfTwo
    <2>. QED BY <2>1, <2>3
  <1>. QED BY <1>1

-----------------------------------------------------------------------------
(* The walk.  The recursive functions behind it exist, so their equations hold. *)
WalkStep(edges, before) == before \cup UNION {Neighbours(edges, n) : n \in before}

IsVisited(edges, allocated, last, seen) ==
  seen = [k \in 0 .. last |->
            IF k = 0 THEN allocated
            ELSE seen[k - 1] \cup UNION {Neighbours(edges, n) : n \in seen[k - 1]}]

LEMMA VisitedExists ==
  ASSUME NEW edges, NEW allocated, NEW last \in Nat
  PROVE  \E seen : IsVisited(edges, allocated, last, seen)
  <1>. DEFINE S == {k \in Nat : \E g : IsVisited(edges, allocated, k, g)}
  <1>1. 0 \in S
    <2>1. IsVisited(edges, allocated, 0, [k \in 0 .. 0 |-> allocated])
      BY DEF IsVisited
    <2>. QED BY <2>1
  <1>2. ASSUME NEW k \in Nat, k \in S PROVE k + 1 \in S
    <2>1. PICK g : IsVisited(edges, allocated, k, g)
      BY <1>2
    <2>. DEFINE h == [i \in 0 .. k + 1 |-> IF i = k + 1 THEN WalkStep(edges, g[k]) ELSE g[i]]
    <2>2. \A i \in 0 .. k : h[i] = g[i]
      OBVIOUS
    <2>3. ASSUME NEW i \in 0 .. k + 1
          PROVE  h[i] = IF i = 0 THEN allocated ELSE WalkStep(edges, h[i - 1])
      <3>1. CASE i = k + 1
        <4>1. h[i] = WalkStep(edges, g[k]) /\ h[i - 1] = g[k] /\ i # 0
          BY <2>2, <3>1
        <4>. QED BY <4>1
      <3>2. CASE i \in 0 .. k
        <4>1. h[i] = g[i] /\ (i # 0 => h[i - 1] = g[i - 1])
          BY <2>2, <3>2
        <4>2. g[i] = IF i = 0 THEN allocated ELSE WalkStep(edges, g[i - 1])
          BY <2>1, <3>2 DEF IsVisited, WalkStep
        <4>. HIDE DEF h
        <4>. QED BY <4>1, <4>2
      <3>. QED BY <3>1, <3>2
    <2>4. h = [i \in 0 .. k + 1 |-> h[i]]
      OBVIOUS
    <2>. HIDE DEF h
    <2>5. IsVisited(edges, allocated, k + 1, h)
      BY <2>3, <2>4, Zenon DEF IsVisited, WalkStep
    <2>. QED BY <2>5
  <1>. HIDE DEF S
  <1>3. last \in S
    BY <1>1, <1>2, InductionOverNat
  <1>. QED BY <1>3 DEF S

LEMMA NodesAreCounted == Cardinality(NodeIds) \in Nat
  BY TreeAssumption, FS_CardinalityType

LEMMA VisitedEquation ==
  ASSUME NEW edges, NEW allocated
  PROVE  /\ Visited(edges, allocated)[0] = allocated
         /\ \A k \in 1 .. Cardinality(NodeIds) :
              Visited(edges, allocated)[k] = WalkStep(edges, Visited(edges, allocated)[k - 1])
  <1>. DEFINE last == Cardinality(NodeIds)
              seen == Visited(edges, allocated)
  <1>0. last \in Nat
    BY NodesAreCounted
  <1>. HIDE DEF last
  <1>1. \E g : IsVisited(edges, allocated, last, g)
    BY <1>0, VisitedExists
  <1>2. seen = CHOOSE g : IsVisited(edges, allocated, last, g)
    BY DEF Visited, IsVisited, last
  <1>3. IsVisited(edges, allocated, last, seen)
    BY <1>1, <1>2, Zenon
  <1>. HIDE DEF seen
  <1>4. \A k \in 0 .. last : seen[k] = IF k = 0 THEN allocated ELSE WalkStep(edges, seen[k - 1])
    BY <1>3 DEF IsVisited, WalkStep
  <1>5. 0 \in 0 .. last /\ \A k \in 1 .. last : k \in 0 .. last /\ k # 0
    BY <1>0
  <1>. QED BY <1>4, <1>5 DEF seen, last

PathStep(edges, seen, before, k) ==
  [n \in seen[k] |->
     IF k = 0 THEN <<>>
     ELSE IF n \in seen[k - 1] THEN before[n]
     ELSE Append(before[CHOOSE m \in seen[k - 1] : m \in Neighbours(edges, n)], n)]

IsPaths(edges, seen, last, path) ==
  path = [k \in 0 .. last |->
            [n \in seen[k] |->
               IF k = 0 THEN <<>>
               ELSE IF n \in seen[k - 1] THEN path[k - 1][n]
               ELSE Append(path[k - 1][CHOOSE m \in seen[k - 1] : m \in Neighbours(edges, n)], n)]]

LEMMA PathsExist ==
  ASSUME NEW edges, NEW seen, NEW last \in Nat
  PROVE  \E path : IsPaths(edges, seen, last, path)
  <1>. DEFINE S == {k \in Nat : \E g : IsPaths(edges, seen, k, g)}
  <1>1. 0 \in S
    <2>. DEFINE g == [k \in 0 .. 0 |-> [n \in seen[k] |-> <<>>]]
    <2>1. IsPaths(edges, seen, 0, g)
      BY DEF IsPaths
    <2>. HIDE DEF g
    <2>. QED BY <2>1
  <1>2. ASSUME NEW k \in Nat, k \in S PROVE k + 1 \in S
    <2>1. PICK g : IsPaths(edges, seen, k, g)
      BY <1>2
    <2>. DEFINE h == [i \in 0 .. k + 1 |-> IF i = k + 1 THEN PathStep(edges, seen, g[k], k + 1) ELSE g[i]]
    <2>2. \A i \in 0 .. k : h[i] = g[i]
      OBVIOUS
    <2>3. ASSUME NEW i \in 0 .. k + 1
          PROVE  h[i] = PathStep(edges, seen, h[i - 1], i)
      <3>1. CASE i = k + 1
        <4>1. h[i] = PathStep(edges, seen, g[k], k + 1) /\ h[i - 1] = g[k]
          BY <2>2, <3>1
        <4>. QED BY <3>1, <4>1
      <3>2. CASE i \in 0 .. k
        <4>1. h[i] = g[i] /\ (i # 0 => h[i - 1] = g[i - 1])
          BY <2>2, <3>2
        <4>2. g[i] = PathStep(edges, seen, g[i - 1], i)
          BY <2>1, <3>2 DEF IsPaths, PathStep
        <4>3. PathStep(edges, seen, g[i - 1], i) = PathStep(edges, seen, h[i - 1], i)
          <5>. HIDE DEF h
          <5>1. CASE i = 0
            BY <5>1 DEF PathStep
          <5>2. CASE i # 0
            BY <4>1, <5>2
          <5>. QED BY <5>1, <5>2
        <4>. HIDE DEF h
        <4>. QED BY <4>1, <4>2, <4>3
      <3>. QED BY <3>1, <3>2
    <2>4. h = [i \in 0 .. k + 1 |-> h[i]]
      OBVIOUS
    <2>. HIDE DEF h
    <2>5. h = [i \in 0 .. k + 1 |-> PathStep(edges, seen, h[i - 1], i)]
      BY <2>3, <2>4, Zenon
    <2>6. IsPaths(edges, seen, k + 1, h)
      BY <2>5, Zenon DEF IsPaths, PathStep
    <2>. QED BY <2>6
  <1>. HIDE DEF S
  <1>3. last \in S
    BY <1>1, <1>2, InductionOverNat
  <1>. QED BY <1>3 DEF S

LEMMA PathsEquation ==
  ASSUME NEW edges, NEW allocated
  PROVE  \A k \in 0 .. Cardinality(NodeIds) :
           PathsTo(edges, allocated)[k] =
             PathStep(edges, Visited(edges, allocated), PathsTo(edges, allocated)[k - 1], k)
  <1>. DEFINE last == Cardinality(NodeIds)
              seen == Visited(edges, allocated)
              path == PathsTo(edges, allocated)
  <1>0. last \in Nat
    BY NodesAreCounted
  <1>. HIDE DEF last, seen
  <1>1. \E g : IsPaths(edges, seen, last, g)
    BY <1>0, PathsExist
  <1>2. path = CHOOSE g : IsPaths(edges, seen, last, g)
    BY DEF PathsTo, IsPaths, last, seen
  <1>3. IsPaths(edges, seen, last, path)
    BY <1>1, <1>2, Zenon
  <1>. HIDE DEF path
  <1>4. \A k \in 0 .. last : path[k] = PathStep(edges, seen, path[k - 1], k)
    BY <1>3 DEF IsPaths, PathStep
  <1>. QED BY <1>4 DEF seen, last, path

-----------------------------------------------------------------------------
(* Ways.  IsWay(w, l, n): w takes l new nodes, beside an allocated one first,   *)
(* and ends at n.                                                               *)
IsWay(edges, allocated, w, l, n) ==
  /\ w \in Seq(NodeIds) /\ Len(w) = l /\ l \in Nat /\ l >= 1
  /\ w[l] = n
  /\ \A i \in 1 .. l : w[i] \notin allocated
  /\ \E a \in allocated : w[1] \in Neighbours(edges, a)
  /\ \A i \in 1 .. l - 1 : w[i + 1] \in Neighbours(edges, w[i])

LEMMA NodesAreNeighboursBothWays ==
  ASSUME NEW edges, edges \subseteq NodeIds \X NodeIds, NEW m, NEW n, m \in Neighbours(edges, n)
  PROVE  m \in NodeIds /\ n \in NodeIds /\ n \in Neighbours(edges, m)
  BY DEF Neighbours

LEMMA SeenGrows ==
  ASSUME NEW edges, NEW allocated, NEW k \in 0 .. Cardinality(NodeIds)
  PROVE  \A j \in 0 .. k : Visited(edges, allocated)[j] \subseteq Visited(edges, allocated)[k]
  <1>. DEFINE last == Cardinality(NodeIds)
              seen == Visited(edges, allocated)
              S == {i \in Nat : i <= last => \A j \in 0 .. i : seen[j] \subseteq seen[i]}
  <1>0. last \in Nat
    BY NodesAreCounted
  <1>1. \A i \in 1 .. last : seen[i - 1] \subseteq seen[i]
    BY VisitedEquation DEF WalkStep
  <1>. HIDE DEF seen, last
  <1>2. 0 \in S
    OBVIOUS
  <1>3. ASSUME NEW i \in Nat, i \in S PROVE i + 1 \in S
    <2>. SUFFICES ASSUME i + 1 <= last, NEW j \in 0 .. i + 1 PROVE seen[j] \subseteq seen[i + 1]
      OBVIOUS
    <2>1. i + 1 \in 1 .. last /\ (i + 1) - 1 = i /\ i <= last
      BY <1>0
    <2>2. seen[i] \subseteq seen[i + 1]
      BY <1>1, <2>1
    <2>3. j \in 0 .. i => seen[j] \subseteq seen[i]
      BY <1>3, <2>1
    <2>. QED BY <2>2, <2>3
  <1>. HIDE DEF S
  <1>4. k \in S
    BY <1>0, <1>2, <1>3, InductionOverNat DEF last
  <1>. QED BY <1>0, <1>4 DEF S, seen, last

(* Whatever way one takes, the walk has been at its i-th node after i layers. *)
LEMMA WaysAreSeen ==
  ASSUME NEW edges, edges \subseteq NodeIds \X NodeIds, NEW allocated, NEW w, NEW l, NEW n,
         IsWay(edges, allocated, w, l, n), l <= Cardinality(NodeIds)
  PROVE  n \in Visited(edges, allocated)[l]
  <1>. DEFINE last == Cardinality(NodeIds)
              seen == Visited(edges, allocated)
              S == {i \in Nat : i \in 1 .. l => w[i] \in seen[i]}
  <1>0. last \in Nat /\ l \in 1 .. last
    BY NodesAreCounted DEF IsWay
  <1>1. \A i \in 1 .. last : \A m \in seen[i - 1] : Neighbours(edges, m) \subseteq seen[i]
    BY VisitedEquation DEF WalkStep
  <1>2. seen[0] = allocated
    BY VisitedEquation
  <1>. HIDE DEF seen, last
  <1>3. 0 \in S
    OBVIOUS
  <1>4. ASSUME NEW i \in Nat, i \in S PROVE i + 1 \in S
    <2>. SUFFICES ASSUME i + 1 \in 1 .. l PROVE w[i + 1] \in seen[i + 1]
      OBVIOUS
    <2>1. i + 1 \in 1 .. last /\ (i + 1) - 1 = i
      BY <1>0
    <2>2. CASE i = 0
      <3>1. PICK a \in allocated : w[1] \in Neighbours(edges, a)
        BY DEF IsWay
      <3>2. 1 \in 1 .. last /\ 1 - 1 = 0
        BY <2>1, <2>2
      <3>3. Neighbours(edges, a) \subseteq seen[1]
        BY <1>1, <1>2, <3>1, <3>2
      <3>. QED BY <2>2, <3>1, <3>3
    <2>3. CASE i # 0
      <3>1. i \in 1 .. l /\ i \in 1 .. l - 1
        BY <1>0, <2>3
      <3>2. w[i] \in seen[i]
        BY <1>4, <3>1
      <3>3. w[i + 1] \in Neighbours(edges, w[i])
        BY <3>1 DEF IsWay
      <3>. QED BY <1>1, <2>1, <3>2, <3>3
    <2>. QED BY <2>2, <2>3
  <1>. HIDE DEF S
  <1>5. l \in S
    BY <1>0, <1>3, <1>4, InductionOverNat
  <1>6. w[l] \in seen[l]
    BY <1>0, <1>5 DEF S
  <1>. QED BY <1>6 DEF IsWay, seen

(* What the walk has for each node seen after k layers: for a new one, a way of *)
(* as many nodes as the layer it was first seen in.                             *)
Reaches(edges, allocated, seen, path, k) ==
  \A n \in seen[k] :
    IF n \in allocated THEN path[k][n] = <<>>
    ELSE \E l \in 1 .. k : IsWay(edges, allocated, path[k][n], l, n) /\ n \notin seen[l - 1]

LEMMA WalkReachesNext ==
  ASSUME NEW edges, edges \subseteq NodeIds \X NodeIds, NEW allocated,
         NEW k \in Nat, k + 1 <= Cardinality(NodeIds),
         Reaches(edges, allocated, Visited(edges, allocated), PathsTo(edges, allocated), k)
  PROVE  Reaches(edges, allocated, Visited(edges, allocated), PathsTo(edges, allocated), k + 1)
  <1>. DEFINE last == Cardinality(NodeIds)
              seen == Visited(edges, allocated)
              path == PathsTo(edges, allocated)
              from(n) == CHOOSE m \in seen[k] : m \in Neighbours(edges, n)
  <1>0. last \in Nat /\ k + 1 \in 1 .. last /\ k + 1 \in 0 .. last /\ k \in 0 .. last /\ (k + 1) - 1 = k
        /\ k + 1 # 0
    BY NodesAreCounted
  <1>1. path[k + 1] = PathStep(edges, seen, path[k], k + 1)
    BY <1>0, PathsEquation
  <1>2. seen[k + 1] = seen[k] \cup UNION {Neighbours(edges, n) : n \in seen[k]}
    BY <1>0, VisitedEquation DEF WalkStep
  <1>3. /\ seen[0] = allocated /\ allocated \subseteq seen[k]
        /\ \A j \in 0 .. k : seen[j] \subseteq seen[k]
    BY <1>0, SeenGrows, VisitedEquation
  <1>. HIDE DEF seen, path, last
  <1>4. \A n \in seen[k + 1] :
          path[k + 1][n] = IF n \in seen[k] THEN path[k][n] ELSE Append(path[k][from(n)], n)
    BY <1>0, <1>1 DEF PathStep
  <1>. HIDE DEF from
  <1>5. ASSUME NEW n \in seen[k + 1]
        PROVE  IF n \in allocated THEN path[k + 1][n] = <<>>
               ELSE \E l \in 1 .. k + 1 : IsWay(edges, allocated, path[k + 1][n], l, n) /\ n \notin seen[l - 1]
    <2>1. CASE n \in seen[k]
      <3>1. path[k + 1][n] = path[k][n]
        BY <1>4, <2>1
      <3>2. \A l \in 1 .. k : l \in 1 .. k + 1
        OBVIOUS
      <3>3. IF n \in allocated THEN path[k][n] = <<>>
            ELSE \E l \in 1 .. k : IsWay(edges, allocated, path[k][n], l, n) /\ n \notin seen[l - 1]
        BY <2>1 DEF Reaches, seen, path
      <3>. QED BY <3>1, <3>2, <3>3, Zenon
    <2>2. CASE n \notin seen[k]
      <3>. DEFINE m == from(n)
      <3>0. n \notin allocated
        BY <1>3, <2>2
      <3>1. PICK m0 \in seen[k] : n \in Neighbours(edges, m0)
        BY <1>2, <2>2
      <3>2. m0 \in Neighbours(edges, n)
        BY <3>1, NodesAreNeighboursBothWays
      <3>3. m \in seen[k] /\ m \in Neighbours(edges, n)
        BY <3>2, Zenon DEF from
      <3>4. n \in Neighbours(edges, m) /\ n \in NodeIds
        BY <3>3, NodesAreNeighboursBothWays
      <3>5. path[k + 1][n] = Append(path[k][m], n)
        BY <1>4, <2>2
      <3>. HIDE DEF m
      <3>6. CASE m \in allocated
        <4>1. path[k][m] = <<>>
          BY <3>3, <3>6 DEF Reaches, seen, path
        <4>2. path[k + 1][n] = <<n>>
          BY <3>5, <4>1
        <4>3. /\ <<n>> \in Seq(NodeIds) /\ Len(<<n>>) = 1 /\ <<n>>[1] = n
          BY <3>4
        <4>4. IsWay(edges, allocated, path[k + 1][n], 1, n)
          <5>1. \A i \in 1 .. 1 : i = 1
            OBVIOUS
          <5>2. 1 .. (1 - 1) = {}
            OBVIOUS
          <5>. QED BY <3>0, <3>4, <3>6, <4>2, <4>3, <5>1, <5>2 DEF IsWay
        <4>5. 1 \in 1 .. k + 1 /\ n \notin seen[1 - 1]
          BY <1>3, <3>0
        <4>. QED BY <3>0, <4>4, <4>5
      <3>7. CASE m \notin allocated
        <4>. DEFINE v == path[k][m]
                    w == path[k + 1][n]
        <4>1. PICK l \in 1 .. k : IsWay(edges, allocated, v, l, m)
          BY <3>3, <3>7 DEF Reaches, seen, path
        <4>2. v \in Seq(NodeIds) /\ Len(v) = l /\ w = Append(v, n)
          BY <3>5, <4>1 DEF IsWay
        <4>. HIDE DEF v, w
        <4>3. /\ w \in Seq(NodeIds) /\ Len(w) = l + 1 /\ w[l + 1] = n
              /\ \A i \in 1 .. l : w[i] = v[i]
          BY <3>4, <4>2, AppendProperties
        <4>4. v[l] = m /\ (\A i \in 1 .. l : v[i] \notin allocated)
              /\ (\E a \in allocated : v[1] \in Neighbours(edges, a))
              /\ \A i \in 1 .. l - 1 : v[i + 1] \in Neighbours(edges, v[i])
          BY <4>1 DEF IsWay
        <4>5. \A i \in 1 .. l + 1 : w[i] \notin allocated
          <5>1. \A i \in 1 .. l + 1 : i \in 1 .. l \/ i = l + 1
            OBVIOUS
          <5>. QED BY <3>0, <4>3, <4>4, <5>1
        <4>6. \E a \in allocated : w[1] \in Neighbours(edges, a)
          <5>1. 1 \in 1 .. l
            OBVIOUS
          <5>. QED BY <4>3, <4>4, <5>1
        <4>7. \A i \in 1 .. l : w[i + 1] \in Neighbours(edges, w[i])
          <5>1. \A i \in 1 .. l : i = l \/ (i \in 1 .. l - 1 /\ i + 1 \in 1 .. l)
            OBVIOUS
          <5>2. w[l + 1] \in Neighbours(edges, w[l])
            BY <3>4, <4>3, <4>4
          <5>3. \A i \in 1 .. l - 1 : i \in 1 .. l
            OBVIOUS
          <5>. QED BY <4>3, <4>4, <5>1, <5>2, <5>3
        <4>8. IsWay(edges, allocated, w, l + 1, n)
          <5>1. l + 1 \in Nat /\ l + 1 >= 1 /\ (l + 1) - 1 = l
            OBVIOUS
          <5>. QED BY <4>3, <4>5, <4>6, <4>7, <5>1 DEF IsWay
        <4>9. l + 1 \in 1 .. k + 1 /\ n \notin seen[(l + 1) - 1]
          <5>1. l + 1 \in 1 .. k + 1 /\ (l + 1) - 1 = l /\ l \in 0 .. k
            OBVIOUS
          <5>. QED BY <1>3, <2>2, <5>1
        <4>. QED BY <3>0, <4>8, <4>9 DEF w
      <3>. QED BY <3>6, <3>7
    <2>. QED BY <2>1, <2>2
  <1>. QED BY <1>5 DEF Reaches, seen, path

LEMMA WalkReaches ==
  ASSUME NEW edges, edges \subseteq NodeIds \X NodeIds, NEW allocated
  PROVE  Reaches(edges, allocated, Visited(edges, allocated), PathsTo(edges, allocated), Cardinality(NodeIds))
  <1>. DEFINE last == Cardinality(NodeIds)
              seen == Visited(edges, allocated)
              path == PathsTo(edges, allocated)
              S == {k \in Nat : k <= last => Reaches(edges, allocated, seen, path, k)}
  <1>0. last \in Nat
    BY NodesAreCounted
  <1>1. Reaches(edges, allocated, seen, path, 0)
    <2>1. path[0] = PathStep(edges, seen, path[0 - 1], 0)
      BY <1>0, PathsEquation
    <2>2. seen[0] = allocated
      BY VisitedEquation
    <2>. HIDE DEF seen, path
    <2>3. \A n \in seen[0] : path[0][n] = <<>>
      BY <2>1 DEF PathStep
    <2>. QED BY <2>2, <2>3 DEF Reaches
  <1>2. 0 \in S
    BY <1>1
  <1>3. ASSUME NEW k \in Nat, k \in S PROVE k + 1 \in S
    <2>1. k + 1 <= last => k <= last
      BY <1>0
    <2>. HIDE DEF last
    <2>2. k + 1 <= last => Reaches(edges, allocated, seen, path, k + 1)
      BY <1>3, <2>1, WalkReachesNext DEF last
    <2>. QED BY <2>2
  <1>. HIDE DEF S
  <1>4. last \in S
    BY <1>0, <1>2, <1>3, InductionOverNat
  <1>. QED BY <1>4 DEF S

(* The ways the property compares with are these. *)
LEMMA WaysAreWays ==
  ASSUME NEW edges, NEW allocated, NEW n, NEW w
  PROVE  w \in Ways(edges, allocated, n) <=>
           \E l \in 1 .. Cardinality(NodeIds) : IsWay(edges, allocated, w, l, n)
  <1>. DEFINE last == Cardinality(NodeIds)
              step(i) == w[i + 1] \in Neighbours(edges, w[i])
              beside == \E a \in allocated : w[1] \in Neighbours(edges, a)
  <1>0. last \in Nat
    BY NodesAreCounted
  <1>1. w \in Ways(edges, allocated, n) <=>
          /\ \E l \in 1 .. last : w \in [1 .. l -> NodeIds]
          /\ w[Len(w)] = n /\ ToSet(w) \cap allocated = {} /\ beside
          /\ \A i \in 1 .. Len(w) - 1 : step(i)
    <2>. HIDE DEF beside, step
    <2>1. w \in UNION {[1 .. k -> NodeIds] : k \in 1 .. last} <=> \E l \in 1 .. last : w \in [1 .. l -> NodeIds]
      OBVIOUS
    <2>. QED BY <2>1 DEF Ways, beside, step
  <1>. HIDE DEF beside, step
  <1>2. \A l \in 1 .. last : w \in [1 .. l -> NodeIds] <=> (w \in Seq(NodeIds) /\ Len(w) = l)
    <2>1. ASSUME NEW l \in 1 .. last, w \in [1 .. l -> NodeIds] PROVE w \in Seq(NodeIds) /\ Len(w) = l
      <3>1. w \in Seq(NodeIds)
        BY <2>1, SeqDef
      <3>2. DOMAIN w = 1 .. l /\ DOMAIN w = 1 .. Len(w) /\ Len(w) \in Nat
        BY <2>1, <3>1, LenProperties
      <3>3. Len(w) = l
        BY <3>2
      <3>. QED BY <3>1, <3>3
    <2>2. ASSUME NEW l \in 1 .. last, w \in Seq(NodeIds), Len(w) = l PROVE w \in [1 .. l -> NodeIds]
      BY <2>2, LenProperties
    <2>. QED BY <2>1, <2>2
  <1>3. \A l \in 1 .. last : w \in [1 .. l -> NodeIds] =>
           (ToSet(w) \cap allocated = {} <=> \A i \in 1 .. l : w[i] \notin allocated)
    BY DEF ToSet
  <1>4. \A l \in 1 .. last : l \in Nat /\ l >= 1
    BY <1>0
  <1>5. \A l : IsWay(edges, allocated, w, l, n) <=>
          /\ w \in Seq(NodeIds) /\ Len(w) = l /\ l \in Nat /\ l >= 1 /\ w[l] = n
          /\ (\A i \in 1 .. l : w[i] \notin allocated) /\ beside
          /\ \A i \in 1 .. l - 1 : step(i)
    BY DEF IsWay, beside, step
  <1>6. ASSUME w \in Ways(edges, allocated, n)
        PROVE  \E l \in 1 .. last : IsWay(edges, allocated, w, l, n)
    <2>1. PICK l \in 1 .. last : w \in [1 .. l -> NodeIds]
      BY <1>1, <1>6
    <2>2. w \in Seq(NodeIds) /\ Len(w) = l
      BY <1>2, <2>1
    <2>3. IsWay(edges, allocated, w, l, n)
      BY <1>1, <1>3, <1>4, <1>5, <1>6, <2>1, <2>2
    <2>. QED BY <2>3
  <1>7. ASSUME NEW l \in 1 .. last, IsWay(edges, allocated, w, l, n)
        PROVE  w \in Ways(edges, allocated, n)
    <2>1. w \in Seq(NodeIds) /\ Len(w) = l
      BY <1>5, <1>7
    <2>2. w \in [1 .. l -> NodeIds]
      BY <1>2, <2>1
    <2>. QED BY <1>1, <1>3, <1>5, <1>7, <2>1, <2>2
  <1>. QED BY <1>6, <1>7

(* previewPath answers with a shortest way, or with none because there is none. *)
LEMMA PreviewPathIsShortest ==
  ASSUME NEW graph, graph.edges \subseteq NodeIds \X NodeIds, DOMAIN graph.nodeIndex = NodeIds,
         NEW allocated, NEW target
  PROVE  LET path == previewPath(graph, allocated, target)
             ways == Ways(graph.edges, allocated, target)
         IN IF path = NoPath THEN ways = {} \/ target \notin NodeIds
            ELSE path \in ways /\ \A w \in ways : Len(path) <= Len(w)
  <1>. DEFINE last == Cardinality(NodeIds)
              seen == Visited(graph.edges, allocated)
              paths == PathsTo(graph.edges, allocated)
              path == previewPath(graph, allocated, target)
              ways == Ways(graph.edges, allocated, target)
              way(w, l) == IsWay(graph.edges, allocated, w, l, target)
              none == \/ target \notin DOMAIN graph.nodeIndex \/ target \in allocated \/ allocated = {}
                      \/ target \notin seen[last]
  <1>0. last \in Nat
    BY NodesAreCounted
  <1>1. path = IF none THEN NoPath ELSE paths[last][target]
    BY DEF previewPath
  <1>2. \A w : w \in ways <=> \E l \in 1 .. last : way(w, l)
    BY WaysAreWays
  <1>3. \A w : \A l \in 1 .. last : way(w, l) => target \in seen[l]
    <2>1. \A l \in 1 .. last : l <= last
      BY <1>0
    <2>. QED BY <2>1, WaysAreSeen
  <1>4. \A l \in 0 .. last : \A j \in 0 .. l : seen[j] \subseteq seen[l]
    BY SeenGrows
  <1>. HIDE DEF path, ways, way
  <1>5. CASE none
    <2>1. ASSUME NEW w \in ways PROVE target \notin NodeIds
      <3>1. PICK l \in 1 .. last : way(w, l)
        BY <1>2
      <3>2. target \notin allocated /\ allocated # {}
        <4>1. w[l] = target /\ l \in 1 .. l /\ (\A i \in 1 .. l : w[i] \notin allocated)
              /\ (\E a \in allocated : w[1] \in Neighbours(graph.edges, a))
          BY <1>0, <3>1 DEF IsWay, way
        <4>. QED BY <4>1
      <3>3. target \in seen[last]
        <4>1. last \in 0 .. last /\ l \in 0 .. last
          BY <1>0
        <4>. QED BY <1>3, <1>4, <3>1, <4>1
      <3>. QED BY <1>5, <3>2, <3>3
    <2>2. path = NoPath
      BY <1>1, <1>5
    <2>. QED BY <2>1, <2>2 DEF path, ways
  <1>6. CASE ~none
    <2>1. path = paths[last][target]
      BY <1>1, <1>6
    <2>2. Reaches(graph.edges, allocated, seen, paths, last)
      BY WalkReaches
    <2>3. PICK l \in 1 .. last : way(path, l) /\ target \notin seen[l - 1]
      BY <1>6, <2>1, <2>2 DEF Reaches, way
    <2>4. Len(path) = l /\ path # NoPath
      BY <1>0, <2>3 DEF IsWay, NoPath, way
    <2>5. path \in ways
      BY <1>2, <2>3
    <2>6. ASSUME NEW w \in ways PROVE Len(path) <= Len(w)
      <3>1. PICK j \in 1 .. last : way(w, j)
        BY <1>2
      <3>2. target \in seen[j] /\ Len(w) = j
        BY <1>3, <3>1 DEF IsWay, way
      <3>3. ~(j <= l - 1)
        <4>1. SUFFICES ASSUME j <= l - 1 PROVE FALSE
          OBVIOUS
        <4>2. l - 1 \in 0 .. last /\ j \in 0 .. l - 1
          BY <1>0, <4>1
        <4>. QED BY <1>4, <2>3, <3>2, <4>2
      <3>. QED BY <1>0, <2>4, <3>2, <3>3
    <2>. QED BY <2>4, <2>5, <2>6 DEF path, ways
  <1>. QED BY <1>5, <1>6

-----------------------------------------------------------------------------
(* The loaded trees are one graph over the tree's nodes, and the preview is the *)
(* answer of previewPath for them.                                              *)
Loaded == treeView \notin {NoTree, Misplaced}

GraphInv ==
  /\ Loaded => /\ treeView = treeGraph
               /\ DOMAIN treeView.nodeIndex = NodeIds
               /\ treeView.edges \subseteq NodeIds \X NodeIds
  /\ treeRaw = NoTree => treeView = NoTree /\ treePreview = NoTree
  /\ treePreview # NoTree =>
       /\ Loaded
       /\ \E target : treePreview = [target |-> target,
                                     path |-> previewPath(treeView, treeRaw.allocated, target)]

LEMMA GraphInvInit == TreeInit => GraphInv
  BY DEF TreeInit, GraphInv, Loaded

LEMMA LoadTreeGraph ==
  ASSUME GraphInv, NEW wiring, NEW allocated, NEW group, LoadTree(wiring, allocated, group)
  PROVE  GraphInv'
  <1>. DEFINE raw == RawTree(wiring, allocated, group)
  <1>1. /\ treeRaw = NoTree /\ treeRaw' = raw /\ treeGraph' = buildTreeGraph(raw)
        /\ treeView' = IF buildTreeGraph(raw) = Misplaced THEN Misplaced ELSE treeResponseToGraph(Served(raw))
        /\ treePreview' = treePreview
    BY DEF LoadTree, RawTree
  <1>2. treePreview' = NoTree
    BY <1>1 DEF GraphInv
  <1>3. treeRaw' # NoTree
    BY <1>1 DEF RawTree, NoTree
  <1>4. ASSUME Loaded'
        PROVE  /\ treeView' = treeGraph' /\ DOMAIN treeView'.nodeIndex = NodeIds
               /\ treeView'.edges \subseteq NodeIds \X NodeIds
    <2>1. buildTreeGraph(raw) # Misplaced
      BY <1>1, <1>4 DEF Loaded
    <2>2. treeView' = treeGraph'
      BY <1>1, <2>1, LoadedAgree
    <2>3. treeGraph'.edges = Edges([n \in NodeIds |-> raw.nodes[n].connections])
          /\ DOMAIN treeGraph'.nodeIndex = NodeIds
      BY <1>1, <2>1 DEF buildTreeGraph
    <2>4. Edges([n \in NodeIds |-> raw.nodes[n].connections]) \subseteq NodeIds \X NodeIds
      BY EdgesJoinNodes
    <2>. QED BY <2>2, <2>3, <2>4
  <1>. QED BY <1>2, <1>3, <1>4 DEF GraphInv

LEMMA PreviewGraph ==
  ASSUME GraphInv, NEW target, Preview(target)
  PROVE  GraphInv'
  <1>1. /\ treeRaw' = treeRaw /\ treeView' = treeView /\ treeGraph' = treeGraph /\ Loaded
        /\ treePreview' = [target |-> target, path |-> previewPath(treeView, treeRaw.allocated, target)]
    BY DEF Preview, Loaded
  <1>2. treeRaw # NoTree
    BY <1>1 DEF GraphInv, Loaded
  <1>3. Loaded' = Loaded
    BY <1>1 DEF Loaded
  <1>. QED BY <1>1, <1>2, <1>3 DEF GraphInv

LEMMA GraphInvStep == GraphInv /\ [TreeNext]_treeVars => GraphInv'
  <1>. SUFFICES ASSUME GraphInv, [TreeNext]_treeVars PROVE GraphInv'
    OBVIOUS
  <1>1. ASSUME NEW wiring \in Wirings, NEW allocated \in Starts, NEW group \in {1, 2, 9},
               LoadTree(wiring, allocated, group)
        PROVE  GraphInv'
    BY <1>1, LoadTreeGraph
  <1>2. ASSUME NEW target \in NodeIds \cup {StrayId}, Preview(target) PROVE GraphInv'
    BY <1>2, PreviewGraph
  <1>3. CASE UNCHANGED treeVars
    BY <1>3 DEF GraphInv, Loaded, treeVars
  <1>. QED BY <1>1, <1>2, <1>3 DEF TreeNext

LEMMA GraphInvHolds == TreeSpec => []GraphInv
  BY GraphInvInit, GraphInvStep, PTL DEF TreeSpec

(* tree-transform.ts and build-session.ts follow one rule in two files: whatever *)
(* tree is loaded, they draw the same nodes, edges and bounds.                   *)
THEOREM TransformsDrawOneTree == TreeSpec => []TransformsAgree
  <1>1. GraphInv => TransformsAgree
    BY DEF GraphInv, Loaded, TransformsAgree
  <1>. QED BY <1>1, GraphInvHolds, PTL

(* previewPath (tree-model.ts) shows a shortest way to the hovered node in any  *)
(* tree of any size, and none exactly when no way leads there.                  *)
THEOREM PreviewsAreShortest == TreeSpec => []PreviewIsAShortestWay
  <1>1. ASSUME GraphInv PROVE PreviewIsAShortestWay
    <2>. SUFFICES ASSUME treePreview # NoTree
                  PROVE  LET edges == treeView.edges
                             ways  == Ways(edges, treeRaw.allocated, treePreview.target)
                         IN IF treePreview.path = NoPath THEN ways = {} \/ treePreview.target \notin NodeIds
                            ELSE treePreview.path \in ways
                                 /\ \A w \in ways : Len(treePreview.path) <= Len(w)
      BY DEF PreviewIsAShortestWay
    <2>1. PICK target : treePreview = [target |-> target,
                                       path |-> previewPath(treeView, treeRaw.allocated, target)]
      BY <1>1 DEF GraphInv
    <2>2. treePreview.target = target
          /\ treePreview.path = previewPath(treeView, treeRaw.allocated, target)
      BY <2>1
    <2>3. treeView.edges \subseteq NodeIds \X NodeIds /\ DOMAIN treeView.nodeIndex = NodeIds
      BY <1>1 DEF GraphInv
    <2>4. LET path == previewPath(treeView, treeRaw.allocated, target)
              ways == Ways(treeView.edges, treeRaw.allocated, target)
          IN IF path = NoPath THEN ways = {} \/ target \notin NodeIds
             ELSE path \in ways /\ \A w \in ways : Len(path) <= Len(w)
      BY <2>3, PreviewPathIsShortest
    <2>. QED BY <2>2, <2>4
  <1>. QED BY <1>1, GraphInvHolds, PTL
=============================================================================

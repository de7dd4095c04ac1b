------------------------ MODULE LocalizationPipeline ------------------------
(***************************************************************************)
(* Building the dictionary over and over while its four inputs change, and *)
(* the manual review panel whose proposals become overrides.               *)
(***************************************************************************)
EXTENDS LocalTerms

CONSTANTS
  LocFixtures,    \* the fixture pages that may be checked in
  LocSnapshots,   \* the identifiers of the upstream versions
  LocCollections, \* what a live collection may have written
  LocOverrides,   \* overrides written by hand
  LocLines,       \* the clipboard lines the parser could not recognise, per import
  LocTyped,       \* the ids a reviewer may type; the empty text among them
  MaxLocSteps     \* bound on the steps of a behaviour

Texts == STRING \X {"plain", "underscored"}
Fields == Texts \cup {NoText}
PageEntries == [slug : Fields, name : Fields, stat : Fields, icon : BOOLEAN]
UpstreamEntries == [id : STRING \X STRING, name : Texts, slug : Fields]

LiveTerms ==
  [id : STRING \X Texts, domain : LOCALIZATION_DOMAINS, canonicalEn : Texts, ko : Texts,
   aliasesEn : SUBSET Texts, aliasesKo : SUBSET Texts, slug : Texts, upstreamIds : {{}},
   confidence : {"slug"}, source : {"poe2db"}]

(* The pages that are checked in import; a live term is as the collection       *)
(* writes it (collect-live.mjs:154-168); an override names its id.              *)
ASSUME LocAssumption ==
  /\ Blank \in LocTyped
  /\ LocFixtures \subseteq [{"us", "kr"} -> [ToSet(PAGES) -> Seq(PageEntries)]]
  /\ \E pages \in LocFixtures : ~importThrows(pages)
  /\ LocSnapshots \subseteq [DOMAIN_BUCKET -> Seq(UpstreamEntries)]
  /\ LocCollections \subseteq Seq(LiveTerms)
  /\ \A ov \in LocOverrides : "id" \in DOMAIN ov
  /\ \A lines \in LocLines : lines \in Seq(Texts)

VARIABLES
  locFixtures, locSnapshot, locCollected,
  locOverrides,   \* manual_ko_overrides.json
  locDict,        \* generated/dictionary.json
  locBuilt,       \* history: the inputs the dictionary was built from
  revLines,       \* the unsupported clipboard lines the panel is given
  revRows,        \* the state of the rows mounted, by row key
  revProposals,   \* proposals emitted
  locSteps

locInputs == <<locFixtures, locSnapshot, locCollected, locOverrides>>
locVars == <<locFixtures, locSnapshot, locCollected, locOverrides, locDict, locBuilt,
             revLines, revRows, revProposals, locSteps>>

-----------------------------------------------------------------------------
(* The review queue: terms with their candidates, then lines without any. *)
QueuedTerms(fixtures, snapshot) ==
  IF importThrows(fixtures) THEN <<>>
  ELSE matchTerms(importFromFixtures(fixtures), snapshot).reviewQueue

CandidatesOf(snapshot, term) ==
  LET hits == NameHits(Bucket(snapshot, term.domain), term)
  IN {hits[i].id : i \in DOMAIN hits}

buildReviewQueueModel(fixtures, snapshot, lines) ==
  LET terms == QueuedTerms(fixtures, snapshot)
  IN [i \in DOMAIN terms |->
        [id |-> terms[i].id, kind |-> "fuzzy-term", domain |-> terms[i].domain,
         ko |-> terms[i].ko, candidates |-> CandidatesOf(snapshot, terms[i])]]
     \o [n \in DOMAIN lines |->
        [id |-> <<"clipboard", n - 1>>, kind |-> "clipboard-line",
         domain |-> "mod", ko |-> lines[n], candidates |-> {}]]

Entries == ToSet(buildReviewQueueModel(locFixtures, locSnapshot, revLines))

(* Bug: one state for all the rows of a kind. *)
RowKeyByKind(entry) == <<entry.kind, entry.kind>>

(* React keeps a row's state under its key. *)
RowKey(entry) == entry.id

(* A fresh row.  History: the texts it showed when it was given input, and      *)
(* whether one of them has since left the row.                                  *)
FreshRow == [picked |-> NoText, typed |-> Blank, for |-> {}, moved |-> FALSE]

(* Rows gone from the panel lose their state; new ones start fresh. *)
Remounted(rows, entries) ==
  [key \in {RowKey(entry) : entry \in entries} |->
     IF key \notin DOMAIN rows THEN FreshRow
     ELSE LET shown == {entry.ko : entry \in {e \in entries : RowKey(e) = key}}
          IN [rows[key] EXCEPT !.moved = @ \/ ~(rows[key].for \subseteq shown)]]

(* An empty mapping throws, and the panel emits nothing. *)
chosenIds(row) ==
  IF row.typed # Blank THEN {row.typed} ELSE {row.picked} \ {NoText}

proposeOverrideFromEntry(entry, ids) ==
  [id |-> entry.id, domain |-> entry.domain, ko |-> entry.ko, upstreamIds |-> ids]

-----------------------------------------------------------------------------
LocInit ==
  /\ locFixtures = CHOOSE pages \in LocFixtures : ~importThrows(pages)
  /\ locSnapshot \in LocSnapshots
  /\ locCollected = <<>> /\ locOverrides = <<>>
  /\ locDict = <<>> /\ locBuilt = <<>>
  /\ revLines = <<>>
  /\ revRows = Remounted(<<>>, ToSet(buildReviewQueueModel(locFixtures, locSnapshot, <<>>)))
  /\ revProposals = {}
  /\ locSteps = 0

LocStep == locSteps < MaxLocSteps /\ locSteps' = locSteps + 1

(* The inputs change: pages recorded, data upgraded, a collection run, an       *)
(* override written by hand or taken from a proposal.                           *)
InputsChange ==
  /\ LocStep
  /\ \/ \E pages \in LocFixtures :
          locFixtures' = pages /\ UNCHANGED <<locSnapshot, locCollected, locOverrides>>
     \/ \E data \in LocSnapshots :
          locSnapshot' = data /\ UNCHANGED <<locFixtures, locCollected, locOverrides>>
     \/ \E terms \in LocCollections :
          locCollected' = terms /\ UNCHANGED <<locFixtures, locSnapshot, locOverrides>>
     \/ \E ov \in LocOverrides \cup {p.override : p \in revProposals} :
          /\ ov \notin ToSet(locOverrides)
          /\ locOverrides' = Append(locOverrides, ov)
          /\ UNCHANGED <<locFixtures, locSnapshot, locCollected>>
  /\ revRows' = Remounted(revRows, ToSet(buildReviewQueueModel(locFixtures', locSnapshot', revLines)))
  /\ UNCHANGED <<locDict, locBuilt, revLines, revProposals>>

(* The build script; an error ends it before it writes. *)
Build ==
  /\ LocStep
  /\ IF buildThrows(locFixtures, locSnapshot, locOverrides) THEN UNCHANGED <<locDict, locBuilt>>
     ELSE /\ locDict' = mergeCollected(buildDictionary(locFixtures, locSnapshot, locOverrides),
                                       locCollected)
          /\ locBuilt' = locInputs
  /\ UNCHANGED <<locInputs, revLines, revRows, revProposals>>

(* The panel is given other lines. *)
ShowLines ==
  /\ LocStep
  /\ revLines' \in LocLines
  /\ revRows' = Remounted(revRows, ToSet(buildReviewQueueModel(locFixtures, locSnapshot, revLines')))
  /\ UNCHANGED <<locInputs, locDict, locBuilt, revProposals>>

GiveInput(entry, row) ==
  revRows' = [revRows EXCEPT ![RowKey(entry)] = [row EXCEPT !.for = @ \cup {entry.ko}]]

Pick(entry) ==
  /\ LocStep
  /\ \E id \in entry.candidates : GiveInput(entry, [revRows[RowKey(entry)] EXCEPT !.picked = id])
  /\ UNCHANGED <<locInputs, locDict, locBuilt, revLines, revProposals>>

TypeId(entry) ==
  /\ LocStep
  /\ \E text \in LocTyped : GiveInput(entry, [revRows[RowKey(entry)] EXCEPT !.typed = text])
  /\ UNCHANGED <<locInputs, locDict, locBuilt, revLines, revProposals>>

(* Submitting keeps the row as it is. *)
submit(entry) ==
  /\ LocStep
  /\ LET row == revRows[RowKey(entry)]
     IN /\ chosenIds(row) # {}
        /\ revProposals' = revProposals \cup
             {[override |-> proposeOverrideFromEntry(entry, chosenIds(row)), for |-> row.for,
               moved |-> row.moved]}
  /\ UNCHANGED <<locInputs, locDict, locBuilt, revLines, revRows>>

LocNext ==
  \/ InputsChange \/ Build \/ ShowLines
  \/ \E entry \in Entries : Pick(entry) \/ TypeId(entry) \/ submit(entry)

LocSpec == LocInit /\ [][LocNext]_locVars

-----------------------------------------------------------------------------
LocTypeOK ==
  /\ \A id \in DOMAIN locDict : locDict[id].id = id /\ isValidTerm(locDict[id])
  /\ DOMAIN revRows = {RowKey(entry) : entry \in Entries}
  /\ \A p \in revProposals : p.override.upstreamIds # {}

Built == locBuilt # <<>>
BuiltOverridesOf(id) == {i \in DOMAIN locBuilt[4] : locBuilt[4][i].id = id}
SetByHand(id, field) == {i \in BuiltOverridesOf(id) : field \in DOMAIN locBuilt[4][i]}

(* What a person decided stands: for every id with overrides, each field of the *)
(* dictionary is the one the last override to name it gives, whatever the pages *)
(* say and whatever a live collection brought since (build-dictionary.mjs:28).  *)
ReviewedMappingsWin ==
  Built => \A id \in {locBuilt[4][i].id : i \in DOMAIN locBuilt[4]} :
             /\ id \in DOMAIN locDict /\ locDict[id].source = "manual"
             /\ \A field \in {"ko", "canonicalEn", "upstreamIds", "domain"} :
                  \A i \in SetByHand(id, field) :
                    (\A j \in SetByHand(id, field) : j <= i) => locDict[id][field] = locBuilt[4][i][field]

(* No guess is applied: an upstream id in the dictionary was given by a person, *)
(* or it is the only one of that name in the data the dictionary was built      *)
(* from, or the one of that slug where no name fits (match.ts:111).             *)
NoGuessIsApplied ==
  Built => \A id \in DOMAIN locDict : \A up \in locDict[id].upstreamIds :
    \/ \E i \in SetByHand(id, "upstreamIds") : up \in locBuilt[4][i].upstreamIds
    \/ \E t \in ToSet(importFromFixtures(locBuilt[1])) :
         LET bucket == Bucket(locBuilt[2], t.domain)
             hits == NameHits(bucket, t)
         IN /\ t.id = id
            /\ \/ Len(hits) = 1 /\ hits[1].id = up
               \/ hits = <<>> /\ up \in {e.id : e \in ToSet(SlugHits(bucket, t))}

(* A term of the pages can be found by its English and by its Korean name in    *)
(* every dictionary, unless another term took its id or a person replaced the   *)
(* names: patching one field never loses the others (dictionary.ts:95).         *)
NamesAreNeverLost ==
  Built =>
    LET imported == importFromFixtures(locBuilt[1])
        index == buildSearchIndex(locDict)
        Found(id, text) == text = Blank \/ id \in {doc.id : doc \in searchTerms(index, text)}
    IN \A i \in DOMAIN imported :
         LET term == imported[i] IN
         \/ \E j \in DOMAIN imported \ {i} : imported[j].id = term.id
         \/ term.id \in {locBuilt[3][j].id : j \in DOMAIN locBuilt[3]}
         \/ /\ \/ SetByHand(term.id, "canonicalEn") # {} /\ SetByHand(term.id, "aliasesEn") # {}
               \/ Found(term.id, term.canonicalEn)
            /\ SetByHand(term.id, "ko") # {} \/ Found(term.id, term.ko)

(* Two tables of bars are kept by hand: the dashboard calls a domain met exactly *)
(* when the gate passes it, for every domain counted from the dictionary, and    *)
(* the gate needs the key parity of the strings besides (coverage.ts:55,         *)
(* coverage-dashboard.ts:68).                                                    *)
DashboardAgreesWithGate ==
  LET rows == buildCoverageDashboardModel(computeCoverage(locDict))
      Met(domain) == rows[domain].status = "met"
  IN /\ \A domain \in DATA_DOMAINS : Met(domain) = checkCoverage(locDict, TRUE)[domain].ok
     /\ \A enKeys, koKeys \in SUBSET {"title", "empty"} :
          coverageCheck(locDict, uiKeyParity(enKeys, koKeys)) =
            (enKeys = koKeys /\ enKeys # {} /\ \A domain \in DATA_DOMAINS : Met(domain))

(* A mapping is proposed for the line it was given for: a proposal's text is one *)
(* its row showed while the reviewer picked or typed.  Rows are keyed by the     *)
(* position of the line, so only an input that put another text under the same   *)
(* key can break this (ManualReviewPanel.tsx:120, review-queue.ts:125).          *)
ProposalsKeepTheirLine ==
  \A p \in revProposals : p.override.ko \in p.for \/ p.moved
=============================================================================

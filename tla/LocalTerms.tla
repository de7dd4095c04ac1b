----------------------------- MODULE LocalTerms -----------------------------
(***************************************************************************)
(* The localization library: PoE2DB pages are imported, matched to the     *)
(* upstream ids, layered with human overrides and live-collected terms,    *)
(* graded for coverage and indexed for search.  A text is a word and the   *)
(* way it is spelt; aliases and ids are sets.                              *)
(***************************************************************************)
EXTENDS Collections, SequencesExt, FiniteSets

LOCALIZATION_DOMAINS == {"ui", "keyword", "item", "unique", "base", "skill", "support_gem",
                         "passive", "ascendancy", "mod", "stat", "area", "boss"}
TERM_CONFIDENCES == {"exact", "slug", "fuzzy", "manual"}
TERM_SOURCES == {"upstream", "poe2db", "manual", "generated"}

NoText == <<>>            \* a field that is missing
Blank == <<"", "plain">>  \* an empty string

(* normKey folds case, spaces and underscores; normToken folds no underscore. *)
normKey(text) == text[1]
normToken(text) == IF text[2] = "underscored" THEN text ELSE <<text[1], "plain">>

isValidTerm(term) ==
  /\ term.domain \in LOCALIZATION_DOMAINS
  /\ term.confidence \in TERM_CONFIDENCES
  /\ term.source \in TERM_SOURCES

-----------------------------------------------------------------------------
(* Import: a us page and a kr page per domain, entries paired by slug. *)
PAGES == <<"keyword", "base", "skill">>

parseDomainPageThrows(page) ==
  \/ page = <<>>
  \/ \E entry \in ToSet(page) : \/ NoText \in {entry.slug, entry.name, entry.stat}
                                \/ ~entry.icon

EntriesOf(page, slug) == Filter(page, LAMBDA entry : entry.slug = slug)

importThrows(fixtures) ==
  \E domain \in ToSet(PAGES) :
    \/ parseDomainPageThrows(fixtures.us[domain])
    \/ parseDomainPageThrows(fixtures.kr[domain])
    \/ \E us \in ToSet(fixtures.us[domain]) : EntriesOf(fixtures.kr[domain], us.slug) = <<>>

ImportedTerm(domain, us, kr) ==
  [id |-> <<domain, us.slug>>, domain |-> domain, canonicalEn |-> us.name, ko |-> kr.name,
   aliasesEn |-> {us.name} \cup ({us.stat} \ {Blank}),
   aliasesKo |-> {kr.stat} \ {Blank, kr.name},
   slug |-> us.slug, upstreamIds |-> {}, confidence |-> "slug", source |-> "poe2db"]

(* The kr entry of a slug is the page's last one. *)
importFromFixtures(fixtures) ==
  FlattenSeq([p \in DOMAIN PAGES |->
    [i \in DOMAIN fixtures.us[PAGES[p]] |->
       LET us == fixtures.us[PAGES[p]][i]
       IN ImportedTerm(PAGES[p], us, Last(EntriesOf(fixtures.kr[PAGES[p]], us.slug)))]])

-----------------------------------------------------------------------------
(* Matching against the identifiers of the vendored data: per domain, the ids  *)
(* with their names, and for some a slug.                                      *)
DOMAIN_BUCKET == {"keyword", "skill", "support_gem", "base", "unique", "mod", "stat"}

NameHits(entries, term) ==
  Filter(entries, LAMBDA e : normKey(e.name) = normKey(term.canonicalEn))
SlugHits(entries, term) ==
  Filter(entries, LAMBDA e : NoText \notin {e.slug, term.slug}
                             /\ normKey(e.slug) = normKey(term.slug))

Bucket(snapshot, domain) == IF domain \in DOMAIN_BUCKET THEN snapshot[domain] ELSE <<>>

(* Bug: an ambiguous name takes the first of its ids. *)
resolveFirst(term, entries) ==
  LET names == NameHits(entries, term)
      slugs == SlugHits(entries, term)
  IN IF names # <<>> THEN [upstreamIds |-> {names[1].id}, confidence |-> "exact"]
     ELSE IF slugs # <<>> THEN [upstreamIds |-> {Last(slugs).id}, confidence |-> "slug"]
     ELSE [upstreamIds |-> {}, confidence |-> term.confidence]

(* A single name hit, else the slug if the name has no hit, else no id. *)
resolve(term, entries) ==
  LET names == NameHits(entries, term)
      slugs == SlugHits(entries, term)
  IN IF Len(names) = 1 THEN [upstreamIds |-> {names[1].id}, confidence |-> "exact"]
     ELSE IF names = <<>> /\ slugs # <<>>
       THEN [upstreamIds |-> {Last(slugs).id}, confidence |-> "slug"]
     ELSE IF Len(names) > 1 THEN [upstreamIds |-> {}, confidence |-> "fuzzy"]
     ELSE [upstreamIds |-> {}, confidence |-> term.confidence]

IsMatched(term) == term.confidence \in {"exact", "slug"} /\ Cardinality(term.upstreamIds) = 1

matchTerms(terms, snapshot) ==
  LET resolved == [i \in DOMAIN terms |->
                     Spread(terms[i], resolve(terms[i], Bucket(snapshot, terms[i].domain)))]
  IN [matched |-> Filter(resolved, IsMatched),
      reviewQueue |-> Filter(resolved, LAMBDA term : ~IsMatched(term))]

-----------------------------------------------------------------------------
(* The dictionary: generated terms, overridden by hand, then the live ones. *)
withEnglishAlias(term) == [term EXCEPT !.aliasesEn = @ \cup {term.canonicalEn}]

FreshTerm == [domain |-> "ui", canonicalEn |-> Blank, ko |-> Blank, aliasesEn |-> {},
              aliasesKo |-> {}, slug |-> NoText, upstreamIds |-> {}]
ManualTag == [confidence |-> "manual", source |-> "manual"]

(* Bug: an override starts from nothing. *)
applyOverrideFresh(base, ov) == withEnglishAlias(Spread(Spread(FreshTerm, ov), ManualTag))

(* base is the empty record for a new id; an override has the fields it names. *)
applyOverride(base, ov) ==
  withEnglishAlias(Spread(Spread(Spread(FreshTerm, base), ov), ManualTag))

BaseOf(dict, id) == IF id \in DOMAIN dict THEN dict[id] ELSE <<>>

SeedTerm(dict, term) == Put(dict, term.id, withEnglishAlias(term))
OverrideTerm(dict, ov) == Put(dict, ov.id, applyOverride(BaseOf(dict, ov.id), ov))

(* The dictionary after the first i generated terms, and then overrides, for    *)
(* every i.                                                                     *)
SeedUpTo(generated) ==
  LET seeded[i \in 0 .. Len(generated)] ==
        IF i = 0 THEN <<>> ELSE SeedTerm(seeded[i - 1], generated[i])
  IN seeded

Seed(generated) == SeedUpTo(generated)[Len(generated)]

OverrideUpTo(seed, overrides) ==
  LET patched[i \in 0 .. Len(overrides)] ==
        IF i = 0 THEN seed ELSE OverrideTerm(patched[i - 1], overrides[i])
  IN patched

assembleDictionary(generated, overrides) ==
  OverrideUpTo(Seed(generated), overrides)[Len(overrides)]

(* An override whose merge is not a term fails the whole assembly. *)
assembleThrows(generated, overrides) ==
  \E i \in DOMAIN overrides :
    ~isValidTerm(OverrideUpTo(Seed(generated), overrides)[i][overrides[i].id])

(* The queued terms come after the matched ones: the later of an id stays. *)
generatedTerms(fixtures, snapshot) ==
  LET match == matchTerms(importFromFixtures(fixtures), snapshot)
      terms == match.matched \o match.reviewQueue
  IN [i \in DOMAIN terms |-> [terms[i] EXCEPT !.source = "generated"]]

buildThrows(fixtures, snapshot, overrides) ==
  importThrows(fixtures) \/ assembleThrows(generatedTerms(fixtures, snapshot), overrides)

buildDictionary(fixtures, snapshot, overrides) ==
  assembleDictionary(generatedTerms(fixtures, snapshot), overrides)

(* Bug: the live terms also replace what a person wrote. *)
mergeTermOverAll(dict, term) == Put(dict, term.id, term)

mergeTerm(dict, term) ==
  IF term.id \in DOMAIN dict /\ dict[term.id].source = "manual" THEN dict
  ELSE Put(dict, term.id, term)

(* The dictionary after the first i collected terms, for every i. *)
MergeUpTo(dict, collected) ==
  LET merged[i \in 0 .. Len(collected)] ==
        IF i = 0 THEN dict ELSE mergeTerm(merged[i - 1], collected[i])
  IN merged

mergeCollected(dict, collected) == MergeUpTo(dict, collected)[Len(collected)]

-----------------------------------------------------------------------------
(* Coverage, and the dashboard that grades it a second time. *)
MVP_THRESHOLDS == [ui |-> 100, keyword |-> 95, skill |-> 95, support_gem |-> 95, base |-> 90,
                   unique |-> 90, passive |-> 85, mod |-> 70, stat |-> 70]

DATA_DOMAINS == DOMAIN MVP_THRESHOLDS \ {"ui"}

isTranslated(term) == term.ko[1] # ""
Anchors(term) == IF term.upstreamIds # {} THEN term.upstreamIds ELSE {term.id}

(* Math.round of a percentage; nothing out of nothing is 0%. *)
toPercent(translated, total) ==
  IF total = 0 THEN 0 ELSE (200 * translated + total) \div (2 * total)

computeCoverage(dict) ==
  [domain \in DOMAIN MVP_THRESHOLDS |->
     LET terms == {dict[id] : id \in {i \in DOMAIN dict : dict[i].domain = domain}} 
         universe == UNION {Anchors(t) : t \in terms}
         done == UNION {Anchors(t) : t \in {u \in terms : isTranslated(u)}}
     IN IF domain \notin DATA_DOMAINS THEN [total |-> 0, translated |-> 0, percent |-> 0]
        ELSE [total |-> Cardinality(universe), translated |-> Cardinality(done),
              percent |-> toPercent(Cardinality(done), Cardinality(universe))]]

uiKeyParity(enKeys, koKeys) == enKeys # {} /\ koKeys # {} /\ enKeys = koKeys

checkCoverage(dict, parity) ==
  [domain \in DOMAIN MVP_THRESHOLDS |->
     LET percent == IF domain = "ui" THEN (IF parity THEN 100 ELSE 0)
                    ELSE computeCoverage(dict)[domain].percent
     IN [percent |-> percent, threshold |-> MVP_THRESHOLDS[domain],
         ok |-> percent >= MVP_THRESHOLDS[domain]]]

(* The gate: every domain at its bar. *)
coverageCheck(dict, parity) == \A domain \in DOMAIN MVP_THRESHOLDS : checkCoverage(dict, parity)[domain].ok

COVERAGE_MVP_THRESHOLDS ==
  [ui |-> 100, keyword |-> 95, skill |-> 95, support_gem |-> 95, base |-> 90, unique |-> 90,
   passive |-> 85, mod |-> 70, stat |-> 70]
COVERAGE_STABLE_THRESHOLDS ==
  [ui |-> 100, keyword |-> 99, skill |-> 99, support_gem |-> 99, base |-> 98, unique |-> 98,
   passive |-> 95, mod |-> 90, stat |-> 90]

(* Bug: a domain without a single term is met. *)
gradeRowVacuous(domain, dc) ==
  [mvpTarget |-> COVERAGE_MVP_THRESHOLDS[domain], percent |-> dc.percent,
   stableTarget |-> COVERAGE_STABLE_THRESHOLDS[domain],
   status |-> IF dc.total = 0 \/ dc.percent >= COVERAGE_MVP_THRESHOLDS[domain]
              THEN "met" ELSE "under-target"]

gradeRow(domain, dc) ==
  [mvpTarget |-> COVERAGE_MVP_THRESHOLDS[domain], percent |-> dc.percent,
   stableTarget |-> COVERAGE_STABLE_THRESHOLDS[domain],
   status |-> IF dc.percent >= COVERAGE_MVP_THRESHOLDS[domain] THEN "met" ELSE "under-target"]

buildCoverageDashboardModel(coverage) ==
  [domain \in DOMAIN COVERAGE_MVP_THRESHOLDS |-> gradeRow(domain, coverage[domain])]

-----------------------------------------------------------------------------
(* Search: a document per term, found by any of its titles and aliases. *)
toDocument(term) ==
  [id |-> term.id, titleKo |-> term.ko, titleEn |-> term.canonicalEn,
   aliasesKo |-> term.aliasesKo, aliasesEn |-> term.aliasesEn]

DocumentTokens(doc) ==
  {normToken(text) : text \in {doc.titleKo, doc.titleEn} \cup doc.aliasesKo \cup doc.aliasesEn} \ {Blank}

buildSearchIndex(dict) == {toDocument(dict[id]) : id \in DOMAIN dict}

searchTerms(index, query) == {doc \in index : normToken(query) \in DocumentTokens(doc)}
=============================================================================

------------------------- MODULE LocalizationProofs -------------------------
(***************************************************************************)
(* Theorems about the localization library, for any pages, data, live      *)
(* terms, overrides and clipboard lines.                                   *)
(*                                                                         *)
(* A dictionary is the result of three loops (seed, override, merge), so   *)
(* what is said of it is proved by induction over their steps first; the   *)
(* invariant DataInv then says that the dictionary on disk is what the     *)
(* build makes of some inputs, and RowInv what the rows of the review      *)
(* panel remember.                                                         *)
(***************************************************************************)
EXTENDS LocalizationPipeline, CollectionsProofs, FiniteSetTheorems

-----------------------------------------------------------------------------
(* The three loops that make the dictionary have a result. *)
DictStep(loop, dict, x) ==
  IF loop = "seed" THEN SeedTerm(dict, x)
  ELSE IF loop = "override" THEN OverrideTerm(dict, x) ELSE mergeTerm(dict, x)

IsDict(loop, base, list, n, g) ==
  g = [i \in 0 .. n |-> IF i = 0 THEN base ELSE DictStep(loop, g[i - 1], list[i])]

LEMMA DictExists ==
  ASSUME NEW loop, NEW base, NEW list, NEW n \in Nat
  PROVE  \E g : IsDict(loop, base, list, n, g)
  <1>. DEFINE S == {k \in Nat : \E g : IsDict(loop, base, list, k, g)}
  <1>1. 0 \in S
    <2>1. IsDict(loop, base, list, 0, [i \in 0 .. 0 |-> base])
      BY DEF IsDict
    <2>. QED BY <2>1
  <1>2. ASSUME NEW k \in Nat, k \in S PROVE k + 1 \in S
    <2>1. PICK g : IsDict(loop, base, list, k, g)
      BY <1>2
    <2>. DEFINE last == DictStep(loop, g[k], list[k + 1])
                h == [i \in 0 .. k + 1 |-> IF i = k + 1 THEN last ELSE g[i]]
    <2>2. (\A i \in 0 .. k : h[i] = g[i]) /\ h[k + 1] = last
      <3>. HIDE DEF last
      <3>. QED OBVIOUS
    <2>3. h = [i \in 0 .. k + 1 |-> h[i]]
      OBVIOUS
    <2>. HIDE DEF h
    <2>4. ASSUME NEW i \in 0 .. k + 1
          PROVE  h[i] = IF i = 0 THEN base ELSE DictStep(loop, h[i - 1], list[i])
      <3>1. CASE i = k + 1
        <4>1. h[k] = g[k] /\ i - 1 = k /\ i # 0
          BY <2>2, <3>1
        <4>. QED BY <2>2, <3>1, <4>1, Zenon
      <3>2. CASE i \in 0 .. k
        <4>1. h[i] = g[i] /\ (i # 0 => h[i - 1] = g[i - 1])
          BY <2>2, <3>2
        <4>2. g[i] = IF i = 0 THEN base ELSE DictStep(loop, g[i - 1], list[i])
          BY <2>1, <3>2 DEF IsDict
        <4>. QED BY <4>1, <4>2
      <3>. QED BY <3>1, <3>2
    <2>5. IsDict(loop, base, list, k + 1, h)
      BY <2>3, <2>4, Zenon DEF IsDict
    <2>. QED BY <2>5
  <1>. HIDE DEF S
  <1>3. n \in S
    BY <1>1, <1>2, InductionOverNat
  <1>. QED BY <1>3 DEF S

LEMMA SeedEquation ==
  ASSUME NEW list, Len(list) \in Nat
  PROVE  /\ SeedUpTo(list)[0] = <<>>
         /\ \A i \in 1 .. Len(list) : SeedUpTo(list)[i] = SeedTerm(SeedUpTo(list)[i - 1], list[i])
  <1>. DEFINE n == Len(list)
              body(f, i) == IF i = 0 THEN <<>> ELSE SeedTerm(f[i - 1], list[i])
              Is(f) == f = [i \in 0 .. n |-> body(f, i)]
              U == SeedUpTo(list)
  <1>1. PICK g : IsDict("seed", <<>>, list, n, g)
    BY DictExists
  <1>2. \A d, x : DictStep("seed", d, x) = SeedTerm(d, x)
    BY DEF DictStep
  <1>3. \A i \in 0 .. n : g[i] = body(g, i)
    BY <1>1, <1>2 DEF IsDict
  <1>4. g = [i \in 0 .. n |-> g[i]]
    BY <1>1 DEF IsDict
  <1>5. Is(g)
    BY <1>3, <1>4, Zenon
  <1>6. U = CHOOSE f : Is(f)
    BY DEF SeedUpTo
  <1>. HIDE DEF Is, U
  <1>7. Is(U)
    BY <1>5, <1>6, Zenon
  <1>8. U[0] = <<>> /\ \A i \in 1 .. n : U[i] = SeedTerm(U[i - 1], list[i])
    BY <1>7 DEF Is
  <1>. QED BY <1>8 DEF U

LEMMA OverrideEquation ==
  ASSUME NEW seed, NEW list, Len(list) \in Nat
  PROVE  /\ OverrideUpTo(seed, list)[0] = seed
         /\ \A i \in 1 .. Len(list) :
              OverrideUpTo(seed, list)[i] = OverrideTerm(OverrideUpTo(seed, list)[i - 1], list[i])
  <1>. DEFINE n == Len(list)
              body(f, i) == IF i = 0 THEN seed ELSE OverrideTerm(f[i - 1], list[i])
              Is(f) == f = [i \in 0 .. n |-> body(f, i)]
              U == OverrideUpTo(seed, list)
  <1>1. PICK g : IsDict("override", seed, list, n, g)
    BY DictExists
  <1>2. \A d, x : DictStep("override", d, x) = OverrideTerm(d, x)
    BY DEF DictStep
  <1>3. \A i \in 0 .. n : g[i] = body(g, i)
    BY <1>1, <1>2 DEF IsDict
  <1>4. g = [i \in 0 .. n |-> g[i]]
    BY <1>1 DEF IsDict
  <1>5. Is(g)
    BY <1>3, <1>4, Zenon
  <1>6. U = CHOOSE f : Is(f)
    BY DEF OverrideUpTo
  <1>. HIDE DEF Is, U
  <1>7. Is(U)
    BY <1>5, <1>6, Zenon
  <1>8. U[0] = seed /\ \A i \in 1 .. n : U[i] = OverrideTerm(U[i - 1], list[i])
    BY <1>7 DEF Is
  <1>. QED BY <1>8 DEF U

LEMMA MergeEquation ==
  ASSUME NEW dict, NEW list, Len(list) \in Nat
  PROVE  /\ MergeUpTo(dict, list)[0] = dict
         /\ \A i \in 1 .. Len(list) :
              MergeUpTo(dict, list)[i] = mergeTerm(MergeUpTo(dict, list)[i - 1], list[i])
  <1>. DEFINE n == Len(list)
              body(f, i) == IF i = 0 THEN dict ELSE mergeTerm(f[i - 1], list[i])
              Is(f) == f = [i \in 0 .. n |-> body(f, i)]
              U == MergeUpTo(dict, list)
  <1>1. PICK g : IsDict("merge", dict, list, n, g)
    BY DictExists
  <1>2. \A d, x : DictStep("merge", d, x) = mergeTerm(d, x)
    BY DEF DictStep
  <1>3. \A i \in 0 .. n : g[i] = body(g, i)
    BY <1>1, <1>2 DEF IsDict
  <1>4. g = [i \in 0 .. n |-> g[i]]
    BY <1>1 DEF IsDict
  <1>5. Is(g)
    BY <1>3, <1>4, Zenon
  <1>6. U = CHOOSE f : Is(f)
    BY DEF MergeUpTo
  <1>. HIDE DEF Is, U
  <1>7. Is(U)
    BY <1>5, <1>6, Zenon
  <1>8. U[0] = dict /\ \A i \in 1 .. n : U[i] = mergeTerm(U[i - 1], list[i])
    BY <1>7 DEF Is
  <1>. QED BY <1>8 DEF U

(* A set of places has a last one. *)
LEMMA GreatestPlace ==
  ASSUME NEW n \in Nat, NEW S \in SUBSET (1 .. n), S # {}
  PROVE  \E i \in S : \A j \in S : j <= i
  <1>. DEFINE N == {k \in Nat : (\E j \in S : n - j <= k) => \E i \in S : \A j \in S : j <= i}
  <1>1. 0 \in N
    BY SMT
  <1>2. ASSUME NEW k \in Nat, k \in N PROVE k + 1 \in N
    <2>1. SUFFICES ASSUME NEW j \in S, n - j <= k + 1
                   PROVE \E i \in S : \A l \in S : l <= i
      OBVIOUS
    <2>2. CASE \A l \in S : l <= j
      BY <2>2
    <2>3. CASE \E l \in S : ~(l <= j)
      <3>1. PICK l \in S : ~(l <= j)
        BY <2>3
      <3>2. n - l <= k
        BY <2>1, <3>1
      <3>. QED BY <1>2, <3>2
    <2>. QED BY <2>2, <2>3
  <1>. HIDE DEF N
  <1>3. n \in N
    BY <1>1, <1>2, InductionOverNat
  <1>4. PICK j \in S : TRUE
    OBVIOUS
  <1>5. n - j <= n
    OBVIOUS
  <1>. QED BY <1>3, <1>5 DEF N

-----------------------------------------------------------------------------
(* Import: every term comes from an entry of a us page and the last kr entry of *)
(* its slug, and has its texts.                                                 *)
PagesType == [{"us", "kr"} -> [ToSet(PAGES) -> Seq(PageEntries)]]

Paired(fixtures, domain, us) ==
  ImportedTerm(domain, us, Last(EntriesOf(fixtures.kr[domain], us.slug)))

PageTerms(fixtures, domain) == {Paired(fixtures, domain, us) : us \in ToSet(fixtures.us[domain])}

(* The terms a domain's page pair may give. *)
TermOf(t, domain, kr) ==
  /\ t.domain = domain /\ domain \in LOCALIZATION_DOMAINS /\ t.id = <<domain, kr.slug>>
  /\ t.canonicalEn \in Texts /\ t.canonicalEn \in t.aliasesEn
  /\ t.ko = kr.name /\ kr.name \in Texts /\ t.confidence = "slug"
  /\ DOMAIN t = {"id", "domain", "canonicalEn", "ko", "aliasesEn", "aliasesKo", "slug",
                 "upstreamIds", "confidence", "source"}

LEMMA KeptSet ==
  ASSUME NEW S, NEW list \in Seq(S), NEW keep
  PROVE  /\ Kept(list, keep) \in Seq(S) /\ Len(Kept(list, keep)) \in Nat
         /\ DOMAIN Kept(list, keep) = 1 .. Len(Kept(list, keep))
         /\ ToSet(Kept(list, keep)) = ToSet(list) \cap keep
  BY KeptIsASubsequence, KeptElements, LenProperties DEF ToSet

LEMMA LastIsInside ==
  ASSUME NEW S, NEW list \in Seq(S), list # <<>>
  PROVE  Last(list) \in ToSet(list)
  <1>1. Len(list) \in Nat /\ DOMAIN list = 1 .. Len(list) /\ Len(list) # 0
    BY LenProperties, EmptySeq
  <1>2. Len(list) \in DOMAIN list
    BY <1>1
  <1>. QED BY <1>2 DEF Last, ToSet

LEMMA PairedTerms ==
  ASSUME NEW f \in PagesType, ~importThrows(f), NEW d \in ToSet(PAGES), NEW us \in ToSet(f.us[d])
  PROVE  LET kr == Last(EntriesOf(f.kr[d], us.slug))
         IN kr \in ToSet(f.kr[d]) /\ kr.slug = us.slug /\ TermOf(Paired(f, d, us), d, kr)
  <1>. DEFINE kr == Last(EntriesOf(f.kr[d], us.slug))
              these == {e \in ToSet(f.kr[d]) : e.slug = us.slug}
  <1>1. f.us[d] \in Seq(PageEntries) /\ f.kr[d] \in Seq(PageEntries)
    BY DEF PagesType
  <1>2. EntriesOf(f.kr[d], us.slug) = Kept(f.kr[d], these)
    BY DEF EntriesOf, Filter, ToSet
  <1>3. EntriesOf(f.kr[d], us.slug) # <<>>
    BY DEF importThrows
  <1>4. kr \in these
    BY <1>1, <1>2, <1>3, KeptSet, LastIsInside
  <1>. HIDE DEF kr
  <1>5. \A page \in Seq(PageEntries) : ToSet(page) \subseteq PageEntries
    BY LenProperties, ElementOfSeq DEF ToSet
  <1>6. us \in PageEntries /\ kr \in PageEntries
    BY <1>1, <1>4, <1>5
  <1>7. /\ NoText \notin {us.slug, us.name, us.stat}
        /\ NoText \notin {kr.slug, kr.name, kr.stat}
    BY <1>4 DEF importThrows, parseDomainPageThrows
  <1>8. us.name \in Texts /\ kr.name \in Texts
    BY <1>6, <1>7 DEF PageEntries, Fields
  <1>9. d \in LOCALIZATION_DOMAINS
    BY DEF PAGES, ToSet, LOCALIZATION_DOMAINS
  <1>10. TermOf(ImportedTerm(d, us, kr), d, kr)
    BY <1>4, <1>8, <1>9 DEF ImportedTerm, TermOf
  <1>. QED BY <1>4, <1>10 DEF Paired, kr

LEMMA ImportedTerms ==
  ASSUME NEW f \in PagesType
  PROVE  LET I == importFromFixtures(f) IN
         /\ I \in Seq(UNION {PageTerms(f, d) : d \in ToSet(PAGES)})
         /\ Len(I) \in Nat /\ DOMAIN I = 1 .. Len(I)
         /\ \A t \in ToSet(I) : \E d \in ToSet(PAGES) : \E us \in ToSet(f.us[d]) : t = Paired(f, d, us)
  <1>. DEFINE S == UNION {PageTerms(f, d) : d \in ToSet(PAGES)}
              rows == [p \in DOMAIN PAGES |->
                         [i \in DOMAIN f.us[PAGES[p]] |-> Paired(f, PAGES[p], f.us[PAGES[p]][i])]]
              I == importFromFixtures(f)
  <1>1. I = FlattenSeq(rows)
    BY DEF importFromFixtures, Paired
  <1>. HIDE DEF I
  <1>2. DOMAIN PAGES = 1 .. 3 /\ \A p \in 1 .. 3 : PAGES[p] \in ToSet(PAGES)
    BY DEF PAGES, ToSet
  <1>3. ASSUME NEW p \in 1 .. 3 PROVE rows[p] \in Seq(S)
    <2>. DEFINE d == PAGES[p]
                n == Len(f.us[d])
    <2>1. d \in ToSet(PAGES) /\ f.us[d] \in Seq(PageEntries)
      BY <1>2 DEF PagesType
    <2>2. n \in Nat /\ DOMAIN f.us[d] = 1 .. n
      BY <2>1, LenProperties
    <2>3. rows[p] = [i \in 1 .. n |-> Paired(f, d, f.us[d][i])]
      BY <1>2, <2>2
    <2>4. ASSUME NEW i \in 1 .. n PROVE Paired(f, d, f.us[d][i]) \in S
      <3>1. f.us[d][i] \in ToSet(f.us[d])
        BY <2>2 DEF ToSet
      <3>2. Paired(f, d, f.us[d][i]) \in PageTerms(f, d)
        BY <3>1 DEF PageTerms
      <3>. QED BY <2>1, <3>2
    <2>. HIDE DEF d, n, S, rows
    <2>. QED BY <2>2, <2>3, <2>4, IsASeq
  <1>4. rows \in Seq(Seq(S))
    <2>1. rows = [p \in 1 .. 3 |-> rows[p]]
      BY <1>2
    <2>. HIDE DEF rows, S
    <2>. QED BY <1>3, <2>1, IsASeq
  <1>. HIDE DEF rows, S
  <1>5. I \in Seq(S)
    BY <1>1, <1>4, FlattenPlaces
  <1>6. Len(I) \in Nat /\ DOMAIN I = 1 .. Len(I)
    BY <1>5, LenProperties
  <1>7. ToSet(I) \subseteq S
    BY <1>5, <1>6, ElementOfSeq DEF ToSet
  <1>8. \A t \in S : \E d \in ToSet(PAGES) : \E us \in ToSet(f.us[d]) : t = Paired(f, d, us)
    BY DEF S, PageTerms
  <1>. QED BY <1>5, <1>6, <1>7, <1>8 DEF I, S

-----------------------------------------------------------------------------
(* Matching keeps a term's texts and gives it ids the data justifies; every     *)
(* term is either matched or queued.                                            *)
DataType == [DOMAIN_BUCKET -> Seq(UpstreamEntries)]

Resolved(snapshot, t) == Spread(t, resolve(t, Bucket(snapshot, t.domain)))

(* The ids a term may get from the data. *)
Justified(up, snapshot, t) ==
  LET bucket == Bucket(snapshot, t.domain)
      hits == NameHits(bucket, t)
  IN \/ Len(hits) = 1 /\ hits[1].id = up
     \/ hits = <<>> /\ up \in {e.id : e \in ToSet(SlugHits(bucket, t))}

LEMMA ResolvedIds ==
  ASSUME NEW snapshot \in DataType, NEW t, t.confidence \in TERM_CONFIDENCES
  PROVE  LET r == resolve(t, Bucket(snapshot, t.domain)) IN
         /\ DOMAIN r = {"upstreamIds", "confidence"} /\ r.confidence \in TERM_CONFIDENCES
         /\ \A up \in r.upstreamIds : Justified(up, snapshot, t)
  <1>. DEFINE b == Bucket(snapshot, t.domain)
              names == NameHits(b, t)
              slugs == SlugHits(b, t)
              r == resolve(t, b)
  <1>1. b \in Seq(UpstreamEntries)
    BY DEF Bucket, DataType
  <1>2. slugs \in Seq(UpstreamEntries)
    BY <1>1, KeptSet DEF SlugHits, Filter
  <1>3. slugs # <<>> => Last(slugs) \in ToSet(slugs)
    BY <1>2, LastIsInside
  <1>4. r = IF Len(names) = 1 THEN [upstreamIds |-> {names[1].id}, confidence |-> "exact"]
            ELSE IF names = <<>> /\ slugs # <<>>
              THEN [upstreamIds |-> {Last(slugs).id}, confidence |-> "slug"]
            ELSE IF Len(names) > 1 THEN [upstreamIds |-> {}, confidence |-> "fuzzy"]
            ELSE [upstreamIds |-> {}, confidence |-> t.confidence]
    BY DEF resolve
  <1>. HIDE DEF r, names, slugs, b
  <1>5. /\ DOMAIN r = {"upstreamIds", "confidence"} /\ r.confidence \in TERM_CONFIDENCES
    BY <1>4 DEF TERM_CONFIDENCES
  <1>6. ASSUME NEW up \in r.upstreamIds
        PROVE  \/ Len(names) = 1 /\ names[1].id = up
               \/ names = <<>> /\ up \in {e.id : e \in ToSet(slugs)}
    BY <1>3, <1>4
  <1>. QED BY <1>5, <1>6 DEF Justified, r, names, slugs, b

(* A term of the dictionary before people and collections: what it has of the   *)
(* imported one.                                                                *)
GeneratedFrom(g, snapshot, t) ==
  /\ g.id = t.id /\ g.domain = t.domain /\ g.canonicalEn = t.canonicalEn /\ g.ko = t.ko
  /\ g.aliasesEn = t.aliasesEn /\ g.source = "generated" /\ g.confidence \in TERM_CONFIDENCES
  /\ \A up \in g.upstreamIds : Justified(up, snapshot, t)
  /\ DOMAIN g = DOMAIN t

LEMMA MatchedTerms ==
  ASSUME NEW snapshot, NEW S, NEW terms \in Seq(S)
  PROVE  LET match == matchTerms(terms, snapshot)
             all == match.matched \o match.reviewQueue
         IN /\ match.reviewQueue \in Seq({Resolved(snapshot, t) : t \in ToSet(terms)})
            /\ all \in Seq({Resolved(snapshot, t) : t \in ToSet(terms)})
            /\ Len(all) \in Nat /\ DOMAIN all = 1 .. Len(all)
            /\ \A t \in ToSet(terms) : Resolved(snapshot, t) \in ToSet(all)
  <1>. DEFINE n == Len(terms)
              R == {Resolved(snapshot, t) : t \in ToSet(terms)}
              resolved == [i \in DOMAIN terms |-> Resolved(snapshot, terms[i])]
              range == {resolved[i] : i \in DOMAIN resolved}
              yes == {x \in range : IsMatched(x)}
              no == {x \in range : ~IsMatched(x)}
              m == Kept(resolved, yes)
              q == Kept(resolved, no)
              match == matchTerms(terms, snapshot)
              all == m \o q
  <1>1. n \in Nat /\ DOMAIN terms = 1 .. n
    BY LenProperties
  <1>2. match.matched = m /\ match.reviewQueue = q
    BY DEF matchTerms, Filter, Resolved
  <1>3. resolved \in Seq(R) /\ range = R
    <2>1. resolved = [i \in 1 .. n |-> resolved[i]] /\ \A i \in 1 .. n : resolved[i] \in R
      BY <1>1 DEF ToSet
    <2>2. range = R
      BY DEF ToSet
    <2>. HIDE DEF n, R, resolved
    <2>3. resolved \in Seq(R)
      BY <1>1, <2>1, IsASeq
    <2>. QED BY <2>2, <2>3
  <1>4. ToSet(resolved) = R
    BY <1>3 DEF ToSet
  <1>. HIDE DEF match, resolved, range
  <1>5. /\ m \in Seq(R) /\ Len(m) \in Nat /\ DOMAIN m = 1 .. Len(m) /\ ToSet(m) = R \cap yes
        /\ q \in Seq(R) /\ Len(q) \in Nat /\ DOMAIN q = 1 .. Len(q) /\ ToSet(q) = R \cap no
    <2>. HIDE DEF R, yes, no
    <2>. QED BY <1>3, <1>4, KeptSet
  <1>6. R = (R \cap yes) \cup (R \cap no)
    <2>. HIDE DEF R
    <2>. QED BY <1>3
  <1>. HIDE DEF m, q, R, yes, no
  <1>7. /\ all \in Seq(R) /\ Len(all) = Len(m) + Len(q)
        /\ \A i \in 1 .. Len(m) : all[i] = m[i]
        /\ \A i \in 1 .. Len(q) : all[Len(m) + i] = q[i]
    BY <1>5, ConcatProperties
  <1>. HIDE DEF all
  <1>8. Len(all) \in Nat /\ DOMAIN all = 1 .. Len(all)
    BY <1>5, <1>7, LenProperties
  <1>9. ASSUME NEW x \in R PROVE x \in ToSet(all)
    <2>1. CASE x \in ToSet(m)
      <3>1. PICK i \in 1 .. Len(m) : m[i] = x
        BY <1>5, <2>1 DEF ToSet
      <3>2. all[i] = x /\ i \in DOMAIN all
        BY <1>5, <1>7, <1>8, <3>1
      <3>. QED BY <3>2 DEF ToSet
    <2>2. CASE x \in ToSet(q)
      <3>1. PICK i \in 1 .. Len(q) : q[i] = x
        BY <1>5, <2>2 DEF ToSet
      <3>2. all[Len(m) + i] = x /\ Len(m) + i \in DOMAIN all
        BY <1>5, <1>7, <1>8, <3>1
      <3>. QED BY <3>2 DEF ToSet
    <2>. QED BY <1>5, <1>6, <2>1, <2>2
  <1>10. \A t \in ToSet(terms) : Resolved(snapshot, t) \in R
    BY DEF R
  <1>11. all = match.matched \o match.reviewQueue
    BY <1>2 DEF all
  <1>. QED BY <1>2, <1>5, <1>7, <1>8, <1>9, <1>10, <1>11 DEF R, match

LEMMA GeneratedTerms ==
  ASSUME NEW f \in PagesType, ~importThrows(f), NEW snapshot \in DataType
  PROVE  LET I == importFromFixtures(f)
             G == generatedTerms(f, snapshot)
         IN /\ Len(G) \in Nat /\ DOMAIN G = 1 .. Len(G)
            /\ \A i \in 1 .. Len(G) : \E t \in ToSet(I) : GeneratedFrom(G[i], snapshot, t)
            /\ \A t \in ToSet(I) : \E i \in 1 .. Len(G) : GeneratedFrom(G[i], snapshot, t)
  <1>. DEFINE I == importFromFixtures(f)
              G == generatedTerms(f, snapshot)
              match == matchTerms(I, snapshot)
              all == match.matched \o match.reviewQueue
              mark(r) == [r EXCEPT !.source = "generated"]
  <1>1. /\ I \in Seq(UNION {PageTerms(f, d) : d \in ToSet(PAGES)})
        /\ \A t \in ToSet(I) : \E d \in ToSet(PAGES) : \E us \in ToSet(f.us[d]) : t = Paired(f, d, us)
    BY ImportedTerms
  <1>2. G = [i \in DOMAIN all |-> mark(all[i])]
    BY DEF generatedTerms
  <1>. HIDE DEF I, G
  <1>3. /\ all \in Seq({Resolved(snapshot, t) : t \in ToSet(I)})
        /\ Len(all) \in Nat /\ DOMAIN all = 1 .. Len(all)
        /\ \A t \in ToSet(I) : Resolved(snapshot, t) \in ToSet(all)
    BY <1>1, MatchedTerms
  <1>. HIDE DEF match, all
  <1>4. ASSUME NEW t \in ToSet(I) PROVE GeneratedFrom(mark(Resolved(snapshot, t)), snapshot, t)
    <2>1. PICK d \in ToSet(PAGES) : \E us \in ToSet(f.us[d]) : t = Paired(f, d, us)
      BY <1>1
    <2>2. PICK us \in ToSet(f.us[d]) : t = Paired(f, d, us)
      BY <2>1
    <2>3. TermOf(t, d, Last(EntriesOf(f.kr[d], us.slug)))
      BY <2>2, PairedTerms
    <2>4. t.confidence \in TERM_CONFIDENCES
      BY <2>3 DEF TermOf, TERM_CONFIDENCES
    <2>. DEFINE r == resolve(t, Bucket(snapshot, t.domain))
    <2>5. /\ DOMAIN r = {"upstreamIds", "confidence"} /\ r.confidence \in TERM_CONFIDENCES
          /\ \A up \in r.upstreamIds : Justified(up, snapshot, t)
      BY <2>4, ResolvedIds
    <2>. HIDE DEF r
    <2>6. DOMAIN t = {"id", "domain", "canonicalEn", "ko", "aliasesEn", "aliasesKo", "slug",
                      "upstreamIds", "confidence", "source"}
      BY <2>3 DEF TermOf
    <2>. DEFINE s == Spread(t, r)
    <2>7. /\ s = [k \in DOMAIN t |-> IF k \in DOMAIN r THEN r[k] ELSE t[k]]
          /\ DOMAIN s = DOMAIN t
      <3>1. DOMAIN t \cup DOMAIN r = DOMAIN t
        BY <2>5, <2>6
      <3>. QED BY <3>1 DEF Spread
    <2>. HIDE DEF s
    <2>8. /\ s.id = t.id /\ s.domain = t.domain /\ s.canonicalEn = t.canonicalEn /\ s.ko = t.ko
          /\ s.aliasesEn = t.aliasesEn /\ s.confidence = r.confidence /\ s.upstreamIds = r.upstreamIds
      BY <2>5, <2>6, <2>7
    <2>. DEFINE g == mark(s)
    <2>9. /\ g.id = s.id /\ g.domain = s.domain /\ g.canonicalEn = s.canonicalEn /\ g.ko = s.ko
          /\ g.aliasesEn = s.aliasesEn /\ g.confidence = s.confidence /\ g.upstreamIds = s.upstreamIds
          /\ g.source = "generated" /\ DOMAIN g = DOMAIN t
      BY <2>6, <2>7
    <2>. HIDE DEF g
    <2>10. GeneratedFrom(g, snapshot, t)
      BY <2>5, <2>8, <2>9 DEF GeneratedFrom
    <2>. QED BY <2>10 DEF g, s, r, Resolved
  <1>. HIDE DEF mark
  <1>5. Len(G) = Len(all) /\ DOMAIN G = 1 .. Len(all) /\ \A i \in 1 .. Len(all) : G[i] = mark(all[i])
    BY <1>2, <1>3
  <1>6. ASSUME NEW i \in 1 .. Len(all) PROVE \E t \in ToSet(I) : GeneratedFrom(G[i], snapshot, t)
    <2>1. all[i] \in {Resolved(snapshot, t) : t \in ToSet(I)}
      BY <1>3, ElementOfSeq
    <2>2. PICK t \in ToSet(I) : all[i] = Resolved(snapshot, t)
      BY <2>1
    <2>. QED BY <1>4, <1>5, <2>2
  <1>7. ASSUME NEW t \in ToSet(I) PROVE \E i \in 1 .. Len(all) : GeneratedFrom(G[i], snapshot, t)
    <2>1. PICK i \in DOMAIN all : all[i] = Resolved(snapshot, t)
      BY <1>3 DEF ToSet
    <2>. QED BY <1>3, <1>4, <1>5, <2>1
  <1>. QED BY <1>3, <1>5, <1>6, <1>7 DEF I, G

-----------------------------------------------------------------------------
(* The dictionary after each of its loops. *)
LEMMA SeedHolds ==
  ASSUME NEW G, Len(G) \in Nat
  PROVE  LET D == Seed(G) IN
         /\ \A i \in 1 .. Len(G) : G[i].id \in DOMAIN D
         /\ \A id \in DOMAIN D : \E i \in 1 .. Len(G) : G[i].id = id /\ D[id] = withEnglishAlias(G[i])
  <1>. DEFINE n == Len(G)
              U == SeedUpTo(G)
              Good(k, d) == /\ \A i \in 1 .. k : G[i].id \in DOMAIN d
                            /\ \A id \in DOMAIN d : \E i \in 1 .. k :
                                 G[i].id = id /\ d[id] = withEnglishAlias(G[i])
              N == {k \in Nat : k <= n => Good(k, U[k])}
  <1>1. n \in Nat /\ U[0] = <<>> /\ \A i \in 1 .. n : U[i] = SeedTerm(U[i - 1], G[i])
    BY SeedEquation
  <1>. HIDE DEF U, n
  <1>2. 0 \in N
    <2>1. DOMAIN <<>> = {}
      OBVIOUS
    <2>. QED BY <1>1, <2>1
  <1>3. ASSUME NEW k \in Nat, k \in N PROVE k + 1 \in N
    <2>1. SUFFICES ASSUME k + 1 <= n PROVE Good(k + 1, U[k + 1])
      OBVIOUS
    <2>. DEFINE d == U[k]
                more == U[k + 1]
                g == G[k + 1]
                v == withEnglishAlias(g)
    <2>2. Good(k, d)
      BY <1>1, <1>3, <2>1
    <2>3. more = Put(d, g.id, v)
      BY <1>1, <2>1 DEF SeedTerm
    <2>. HIDE DEF d, more
    <2>4. /\ DOMAIN more = DOMAIN d \cup {g.id}
          /\ \A id \in DOMAIN more : more[id] = IF id = g.id THEN v ELSE d[id]
      BY <2>3 DEF Put
    <2>5. \A i \in 1 .. k + 1 : i = k + 1 \/ i \in 1 .. k
      OBVIOUS
    <2>6. \A i \in 1 .. k + 1 : G[i].id \in DOMAIN more
      BY <2>2, <2>4, <2>5
    <2>7. ASSUME NEW id \in DOMAIN more
          PROVE  \E i \in 1 .. k + 1 : G[i].id = id /\ more[id] = withEnglishAlias(G[i])
      <3>1. CASE id = g.id
        <4>1. k + 1 \in 1 .. k + 1 /\ more[id] = v
          BY <2>4, <3>1
        <4>. QED BY <3>1, <4>1
      <3>2. CASE id # g.id
        <4>1. id \in DOMAIN d /\ more[id] = d[id]
          BY <2>4, <3>2
        <4>2. PICK i \in 1 .. k : G[i].id = id /\ d[id] = withEnglishAlias(G[i])
          BY <2>2, <4>1
        <4>3. i \in 1 .. k + 1
          OBVIOUS
        <4>. QED BY <4>1, <4>2, <4>3
      <3>. QED BY <3>1, <3>2
    <2>. QED BY <2>6, <2>7 DEF more
  <1>. HIDE DEF N
  <1>4. Good(n, U[n])
    <2>1. n \in N
      BY <1>1, <1>2, <1>3, InductionOverNat
    <2>. QED BY <1>1, <2>1 DEF N
  <1>. QED BY <1>4 DEF Seed, U, n

HandFields == {"ko", "canonicalEn", "upstreamIds", "domain"}

LEMMA Overridden ==
  ASSUME NEW base, NEW ov, "id" \in DOMAIN ov
  PROVE  LET x == applyOverride(base, ov) IN
         /\ x.source = "manual" /\ x.confidence = "manual" /\ x.id = ov.id
         /\ HandFields \cup {"aliasesEn"} \subseteq DOMAIN x
         /\ \A field \in HandFields :
              x[field] = IF field \in DOMAIN ov THEN ov[field]
                         ELSE IF field \in DOMAIN base THEN base[field] ELSE FreshTerm[field]
         /\ "aliasesEn" \notin DOMAIN ov /\ "aliasesEn" \in DOMAIN base =>
              base.aliasesEn \subseteq x.aliasesEn
  <1>. DEFINE a == Spread(FreshTerm, base)
              b == Spread(a, ov)
              c == Spread(b, ManualTag)
              x == withEnglishAlias(c)
              all == HandFields \cup {"aliasesEn", "source", "confidence", "id"}
  <1>1. /\ DOMAIN a = DOMAIN FreshTerm \cup DOMAIN base
        /\ \A k \in DOMAIN a : a[k] = IF k \in DOMAIN base THEN base[k] ELSE FreshTerm[k]
    BY DEF Spread
  <1>2. /\ DOMAIN b = DOMAIN a \cup DOMAIN ov
        /\ \A k \in DOMAIN b : b[k] = IF k \in DOMAIN ov THEN ov[k] ELSE a[k]
    <2>. HIDE DEF a
    <2>. QED BY DEF Spread
  <1>3. /\ DOMAIN c = DOMAIN b \cup DOMAIN ManualTag /\ c = [k \in DOMAIN c |-> c[k]]
        /\ \A k \in DOMAIN c : c[k] = IF k \in DOMAIN ManualTag THEN ManualTag[k] ELSE b[k]
    <2>. HIDE DEF b
    <2>. QED BY DEF Spread
  <1>4. /\ DOMAIN ManualTag = {"confidence", "source"}
        /\ ManualTag.source = "manual" /\ ManualTag.confidence = "manual"
        /\ HandFields \cup {"aliasesEn"} \subseteq DOMAIN FreshTerm
    BY DEF ManualTag, FreshTerm, HandFields
  <1>. HIDE DEF a, b, c
  <1>5. x = [c EXCEPT !.aliasesEn = c.aliasesEn \cup {c.canonicalEn}]
    BY DEF withEnglishAlias
  <1>6. HandFields \cup {"aliasesEn", "id"} \subseteq DOMAIN c
    BY <1>1, <1>2, <1>3, <1>4
  <1>7. /\ DOMAIN x = DOMAIN c /\ x.aliasesEn = c.aliasesEn \cup {c.canonicalEn}
        /\ \A k \in DOMAIN c : k # "aliasesEn" => x[k] = c[k]
    <2>1. "aliasesEn" \in DOMAIN c
      BY <1>6
    <2>. QED BY <1>3, <1>5, <2>1
  <1>. HIDE DEF x
  <1>8. x.source = "manual" /\ x.confidence = "manual"
    BY <1>3, <1>4, <1>7
  <1>9. x.id = ov.id
    BY <1>2, <1>3, <1>4, <1>6, <1>7
  <1>10. ASSUME NEW field \in HandFields
         PROVE  x[field] = IF field \in DOMAIN ov THEN ov[field]
                           ELSE IF field \in DOMAIN base THEN base[field] ELSE FreshTerm[field]
    <2>1. field \notin DOMAIN ManualTag /\ field # "aliasesEn" /\ field \in DOMAIN FreshTerm
      BY <1>4 DEF HandFields
    <2>2. x[field] = b[field] /\ field \in DOMAIN a
      BY <1>1, <1>3, <1>6, <1>7, <2>1
    <2>. QED BY <1>1, <1>2, <2>2
  <1>11. ASSUME "aliasesEn" \notin DOMAIN ov, "aliasesEn" \in DOMAIN base
         PROVE  base.aliasesEn \subseteq x.aliasesEn
    <2>1. c.aliasesEn = base.aliasesEn
      BY <1>1, <1>2, <1>3, <1>4, <1>11
    <2>. QED BY <1>7, <2>1
  <1>12. applyOverride(base, ov) = x
    BY DEF applyOverride, x, c, b, a
  <1>. QED BY <1>6, <1>7, <1>8, <1>9, <1>10, <1>11, <1>12

(* The first k overrides that name an id, and those that set one of its fields. *)
NamedIn(ovs, k, id) == {i \in 1 .. k : ovs[i].id = id}
SetIn(ovs, k, id, field) == {i \in NamedIn(ovs, k, id) : field \in DOMAIN ovs[i]}

(* An entry after the first k overrides of a seeded dictionary. *)
PatchedEntry(D, ovs, k, id, x) ==
  /\ HandFields \cup {"aliasesEn"} \subseteq DOMAIN x
  /\ IF NamedIn(ovs, k, id) # {}
       THEN x.source = "manual" /\ x.confidence = "manual" /\ x.id = id
       ELSE id \in DOMAIN D /\ x = D[id]
  /\ \A field \in HandFields :
       /\ \A i \in SetIn(ovs, k, id, field) :
            (\A j \in SetIn(ovs, k, id, field) : j <= i) => x[field] = ovs[i][field]
       /\ SetIn(ovs, k, id, field) = {} =>
            x[field] = IF id \in DOMAIN D THEN D[id][field] ELSE FreshTerm[field]
  /\ SetIn(ovs, k, id, "aliasesEn") = {} /\ id \in DOMAIN D => D[id].aliasesEn \subseteq x.aliasesEn

Patched(D, ovs, k, P) ==
  /\ DOMAIN P = DOMAIN D \cup {ovs[i].id : i \in 1 .. k}
  /\ \A id \in DOMAIN P : PatchedEntry(D, ovs, k, id, P[id])

LEMMA PatchedMore ==
  ASSUME NEW D, NEW ovs, NEW k \in Nat, NEW P, Patched(D, ovs, k, P), "id" \in DOMAIN ovs[k + 1]
  PROVE  Patched(D, ovs, k + 1, OverrideTerm(P, ovs[k + 1]))
  <1>. DEFINE ov == ovs[k + 1]
              base == BaseOf(P, ov.id)
              y == applyOverride(base, ov)
              Q == OverrideTerm(P, ov)
  <1>1. /\ y.source = "manual" /\ y.confidence = "manual" /\ y.id = ov.id
        /\ HandFields \cup {"aliasesEn"} \subseteq DOMAIN y
        /\ \A field \in HandFields :
             y[field] = IF field \in DOMAIN ov THEN ov[field]
                        ELSE IF field \in DOMAIN base THEN base[field] ELSE FreshTerm[field]
        /\ "aliasesEn" \notin DOMAIN ov /\ "aliasesEn" \in DOMAIN base =>
             base.aliasesEn \subseteq y.aliasesEn
    BY Overridden
  <1>2. Q = Put(P, ov.id, y)
    BY DEF OverrideTerm
  <1>. HIDE DEF Q, y
  <1>3. /\ DOMAIN Q = DOMAIN P \cup {ov.id} /\ Q[ov.id] = y
        /\ \A id \in DOMAIN P : id # ov.id => Q[id] = P[id]
    BY <1>2 DEF Put
  <1>4. DOMAIN Q = DOMAIN D \cup {ovs[i].id : i \in 1 .. k + 1}
    <2>1. {ovs[i].id : i \in 1 .. k + 1} = {ovs[i].id : i \in 1 .. k} \cup {ov.id}
      <3>1. \A i \in 1 .. k + 1 : i \in 1 .. k \/ i = k + 1
        OBVIOUS
      <3>2. \A i \in 1 .. k : i \in 1 .. k + 1
        OBVIOUS
      <3>3. k + 1 \in 1 .. k + 1
        OBVIOUS
      <3>. QED BY <3>1, <3>2, <3>3
    <2>. QED BY <1>3, <2>1 DEF Patched
  <1>5. ASSUME NEW id \in DOMAIN Q, id # ov.id
        PROVE  PatchedEntry(D, ovs, k + 1, id, Q[id])
    <2>1. Q[id] = P[id] /\ id \in DOMAIN P
      BY <1>3, <1>5
    <2>2. NamedIn(ovs, k + 1, id) = NamedIn(ovs, k, id)
      BY <1>5 DEF NamedIn
    <2>3. \A field : SetIn(ovs, k + 1, id, field) = SetIn(ovs, k, id, field)
      BY <2>2 DEF SetIn
    <2>4. PatchedEntry(D, ovs, k, id, Q[id])
      BY <2>1 DEF Patched
    <2>. QED BY <2>2, <2>3, <2>4, Zenon DEF PatchedEntry
  <1>6. PatchedEntry(D, ovs, k + 1, ov.id, y)
    <2>. DEFINE id == ov.id
    <2>1. NamedIn(ovs, k + 1, id) = NamedIn(ovs, k, id) \cup {k + 1}
      BY DEF NamedIn
    <2>2. NamedIn(ovs, k, id) \subseteq 1 .. k
      BY DEF NamedIn
    <2>3. ASSUME NEW field
          PROVE  /\ SetIn(ovs, k, id, field) \subseteq 1 .. k
                 /\ SetIn(ovs, k + 1, id, field) =
                      IF field \in DOMAIN ov THEN SetIn(ovs, k, id, field) \cup {k + 1}
                      ELSE SetIn(ovs, k, id, field)
      <3>1. k + 1 \notin NamedIn(ovs, k, id)
        BY <2>2
      <3>. QED BY <2>1, <2>2, <3>1 DEF SetIn
    <2>4. CASE id \in DOMAIN P
      <3>1. base = P[id] /\ PatchedEntry(D, ovs, k, id, base)
        BY <2>4 DEF BaseOf, Patched
      <3>. HIDE DEF base
      <3>2. HandFields \cup {"aliasesEn"} \subseteq DOMAIN base
        BY <3>1 DEF PatchedEntry
      <3>3. ASSUME NEW field \in HandFields
            PROVE  /\ \A i \in SetIn(ovs, k + 1, id, field) :
                        (\A j \in SetIn(ovs, k + 1, id, field) : j <= i) => y[field] = ovs[i][field]
                   /\ SetIn(ovs, k + 1, id, field) = {} =>
                        y[field] = IF id \in DOMAIN D THEN D[id][field] ELSE FreshTerm[field]
        <4>1. CASE field \in DOMAIN ov
          <5>1. y[field] = ov[field]
            BY <1>1, <4>1
          <5>2. ASSUME NEW i \in SetIn(ovs, k + 1, id, field),
                       \A j \in SetIn(ovs, k + 1, id, field) : j <= i
                PROVE  i = k + 1
            <6>1. k + 1 \in SetIn(ovs, k + 1, id, field) /\ (i \in 1 .. k \/ i = k + 1)
              BY <2>3, <4>1
            <6>2. k + 1 <= i
              BY <5>2, <6>1
            <6>. QED BY <6>1, <6>2
          <5>3. SetIn(ovs, k + 1, id, field) # {}
            BY <2>3, <4>1
          <5>. QED BY <5>1, <5>2, <5>3
        <4>2. CASE field \notin DOMAIN ov
          <5>1. y[field] = base[field]
            BY <1>1, <3>2, <4>2
          <5>2. SetIn(ovs, k + 1, id, field) = SetIn(ovs, k, id, field)
            BY <2>3, <4>2
          <5>. QED BY <3>1, <5>1, <5>2 DEF PatchedEntry
        <4>. QED BY <4>1, <4>2
      <3>4. ASSUME SetIn(ovs, k + 1, id, "aliasesEn") = {}, id \in DOMAIN D
            PROVE  D[id].aliasesEn \subseteq y.aliasesEn
        <4>1. "aliasesEn" \notin DOMAIN ov /\ SetIn(ovs, k, id, "aliasesEn") = {}
          BY <2>3, <3>4
        <4>2. D[id].aliasesEn \subseteq base.aliasesEn
          BY <3>1, <3>4, <4>1 DEF PatchedEntry
        <4>. QED BY <1>1, <3>2, <4>1, <4>2
      <3>. QED BY <1>1, <2>1, <3>3, <3>4 DEF PatchedEntry
    <2>5. CASE id \notin DOMAIN P
      <3>1. base = <<>> /\ DOMAIN base = {}
        BY <2>5 DEF BaseOf
      <3>. HIDE DEF base
      <3>2. id \notin DOMAIN D /\ NamedIn(ovs, k, id) = {}
        BY <2>5 DEF Patched, NamedIn
      <3>3. ASSUME NEW field \in HandFields
            PROVE  /\ \A i \in SetIn(ovs, k + 1, id, field) : y[field] = ovs[i][field]
                   /\ SetIn(ovs, k + 1, id, field) = {} => y[field] = FreshTerm[field]
        <4>1. SetIn(ovs, k, id, field) = {}
          BY <3>2 DEF SetIn
        <4>. QED BY <1>1, <2>3, <3>1, <4>1
      <3>. QED BY <1>1, <2>1, <3>2, <3>3 DEF PatchedEntry
    <2>. QED BY <2>4, <2>5
  <1>7. \A id \in DOMAIN Q : PatchedEntry(D, ovs, k + 1, id, Q[id])
    BY <1>3, <1>5, <1>6
  <1>. QED BY <1>4, <1>7 DEF Patched, Q

LEMMA OverridesHold ==
  ASSUME NEW D, NEW ovs, Len(ovs) \in Nat,
         \A i \in 1 .. Len(ovs) : "id" \in DOMAIN ovs[i],
         \A id \in DOMAIN D : HandFields \cup {"aliasesEn"} \subseteq DOMAIN D[id]
  PROVE  \A k \in 0 .. Len(ovs) : Patched(D, ovs, k, OverrideUpTo(D, ovs)[k])
  <1>. DEFINE n == Len(ovs)
              U == OverrideUpTo(D, ovs)
              N == {k \in Nat : k <= n => Patched(D, ovs, k, U[k])}
  <1>1. U[0] = D /\ \A i \in 1 .. n : U[i] = OverrideTerm(U[i - 1], ovs[i])
    BY OverrideEquation
  <1>. HIDE DEF U, n
  <1>2. 0 \in N
    <2>1. \A id, field : NamedIn(ovs, 0, id) = {} /\ SetIn(ovs, 0, id, field) = {}
      BY DEF NamedIn, SetIn
    <2>2. \A id \in DOMAIN D : PatchedEntry(D, ovs, 0, id, D[id])
      BY <2>1 DEF PatchedEntry
    <2>3. {ovs[i].id : i \in 1 .. 0} = {}
      OBVIOUS
    <2>4. Patched(D, ovs, 0, D)
      BY <2>2, <2>3 DEF Patched
    <2>. QED BY <1>1, <2>4
  <1>3. ASSUME NEW k \in Nat, k \in N PROVE k + 1 \in N
    <2>1. SUFFICES ASSUME k + 1 <= n PROVE Patched(D, ovs, k + 1, U[k + 1])
      OBVIOUS
    <2>2. Patched(D, ovs, k, U[k]) /\ "id" \in DOMAIN ovs[k + 1]
      BY <1>3, <2>1 DEF n
    <2>3. U[k + 1] = OverrideTerm(U[k], ovs[k + 1])
      BY <1>1, <2>1 DEF n
    <2>. QED BY <2>2, <2>3, PatchedMore
  <1>. HIDE DEF N
  <1>4. ASSUME NEW k \in 0 .. n PROVE Patched(D, ovs, k, U[k])
    <2>1. Nat \subseteq N
      BY <1>2, <1>3, InductionOverNat
    <2>2. k \in N
      BY <2>1 DEF n
    <2>. QED BY <2>2 DEF N, n
  <1>. QED BY <1>4 DEF U, n

LEMMA MergeHolds ==
  ASSUME NEW P, NEW c, Len(c) \in Nat
  PROVE  LET M == mergeCollected(P, c) IN
         /\ \A id \in DOMAIN P : id \in DOMAIN M /\ (P[id].source = "manual" => M[id] = P[id])
         /\ \A id \in DOMAIN M : \/ id \in DOMAIN P /\ M[id] = P[id]
                                 \/ \E i \in 1 .. Len(c) : c[i].id = id /\ M[id] = c[i]
  <1>. DEFINE n == Len(c)
              U == MergeUpTo(P, c)
              Good(k, m) ==
                /\ \A id \in DOMAIN P : id \in DOMAIN m /\ (P[id].source = "manual" => m[id] = P[id])
                /\ \A id \in DOMAIN m : \/ id \in DOMAIN P /\ m[id] = P[id]
                                        \/ \E i \in 1 .. k : c[i].id = id /\ m[id] = c[i]
              N == {k \in Nat : k <= n => Good(k, U[k])}
  <1>1. n \in Nat /\ U[0] = P /\ \A i \in 1 .. n : U[i] = mergeTerm(U[i - 1], c[i])
    BY MergeEquation
  <1>. HIDE DEF U, n
  <1>2. 0 \in N
    BY <1>1
  <1>3. ASSUME NEW k \in Nat, k \in N PROVE k + 1 \in N
    <2>1. SUFFICES ASSUME k + 1 <= n PROVE Good(k + 1, U[k + 1])
      OBVIOUS
    <2>. DEFINE m == U[k]
                more == U[k + 1]
                t == c[k + 1]
    <2>2. Good(k, m)
      BY <1>1, <1>3, <2>1
    <2>3. more = mergeTerm(m, t)
      BY <1>1, <2>1
    <2>. HIDE DEF m, more
    <2>4. \A i \in 1 .. k : i \in 1 .. k + 1
      OBVIOUS
    <2>5. CASE more = m
      <3>1. Good(k + 1, m)
        BY <2>2, <2>4
      <3>. QED BY <2>5, <3>1 DEF more
    <2>6. CASE more # m
      <3>1. more = Put(m, t.id, t) /\ ~(t.id \in DOMAIN m /\ m[t.id].source = "manual")
        BY <2>3, <2>6 DEF mergeTerm
      <3>2. /\ DOMAIN more = DOMAIN m \cup {t.id}
            /\ \A id \in DOMAIN more : more[id] = IF id = t.id THEN t ELSE m[id]
        BY <3>1 DEF Put
      <3>3. ASSUME NEW id \in DOMAIN P
            PROVE  id \in DOMAIN more /\ (P[id].source = "manual" => more[id] = P[id])
        <4>1. id \in DOMAIN m /\ (P[id].source = "manual" => m[id] = P[id])
          BY <2>2
        <4>. QED BY <3>1, <3>2, <4>1
      <3>4. ASSUME NEW id \in DOMAIN more
            PROVE  \/ id \in DOMAIN P /\ more[id] = P[id]
                   \/ \E i \in 1 .. k + 1 : c[i].id = id /\ more[id] = c[i]
        <4>1. CASE id = t.id
          <5>1. k + 1 \in 1 .. k + 1 /\ more[id] = t
            BY <3>2, <4>1
          <5>. QED BY <4>1, <5>1
        <4>2. CASE id # t.id
          <5>1. id \in DOMAIN m /\ more[id] = m[id]
            BY <3>2, <4>2
          <5>. QED BY <2>2, <2>4, <5>1
        <4>. QED BY <4>1, <4>2
      <3>. QED BY <3>3, <3>4 DEF more
    <2>. QED BY <2>5, <2>6
  <1>. HIDE DEF N
  <1>4. Good(n, U[n])
    <2>1. n \in N
      BY <1>1, <1>2, <1>3, InductionOverNat
    <2>. QED BY <1>1, <2>1 DEF N
  <1>. QED BY <1>4 DEF mergeCollected, U, n

-----------------------------------------------------------------------------
(* What a build makes of its four inputs, layer by layer. *)
Overridable(ovs) ==
  /\ Len(ovs) \in Nat /\ DOMAIN ovs = 1 .. Len(ovs)
  /\ \A i \in 1 .. Len(ovs) : "id" \in DOMAIN ovs[i]

(* An entry of the seeded dictionary and the imported term it comes from. *)
SeededFrom(x, snapshot, t) ==
  /\ x.id = t.id /\ x.domain = t.domain /\ x.canonicalEn = t.canonicalEn /\ x.ko = t.ko
  /\ t.aliasesEn \subseteq x.aliasesEn /\ x.source = "generated" /\ x.confidence \in TERM_CONFIDENCES
  /\ \A up \in x.upstreamIds : Justified(up, snapshot, t)
  /\ HandFields \cup {"aliasesEn"} \subseteq DOMAIN x

LEMMA SeededDictionary ==
  ASSUME NEW f \in PagesType, ~importThrows(f), NEW snapshot \in DataType
  PROVE  LET I == importFromFixtures(f)
             D == Seed(generatedTerms(f, snapshot))
         IN /\ \A id \in DOMAIN D : \E t \in ToSet(I) : t.id = id /\ SeededFrom(D[id], snapshot, t)
            /\ \A t \in ToSet(I) : t.id \in DOMAIN D
  <1>. DEFINE I == importFromFixtures(f)
              G == generatedTerms(f, snapshot)
              D == Seed(G)
  <1>1. /\ Len(G) \in Nat /\ DOMAIN G = 1 .. Len(G)
        /\ \A i \in 1 .. Len(G) : \E t \in ToSet(I) : GeneratedFrom(G[i], snapshot, t)
        /\ \A t \in ToSet(I) : \E i \in 1 .. Len(G) : GeneratedFrom(G[i], snapshot, t)
    BY GeneratedTerms
  <1>2. \A t \in ToSet(I) : \E d \in ToSet(PAGES) : \E us \in ToSet(f.us[d]) : t = Paired(f, d, us)
    BY ImportedTerms
  <1>. HIDE DEF G, I
  <1>3. /\ \A i \in 1 .. Len(G) : G[i].id \in DOMAIN D
        /\ \A id \in DOMAIN D : \E i \in 1 .. Len(G) : G[i].id = id /\ D[id] = withEnglishAlias(G[i])
    BY <1>1, SeedHolds
  <1>. HIDE DEF D
  <1>4. ASSUME NEW id \in DOMAIN D
        PROVE  \E t \in ToSet(I) : t.id = id /\ SeededFrom(D[id], snapshot, t)
    <2>1. PICK i \in 1 .. Len(G) : G[i].id = id /\ D[id] = withEnglishAlias(G[i])
      BY <1>3
    <2>2. PICK t \in ToSet(I) : GeneratedFrom(G[i], snapshot, t)
      BY <1>1
    <2>3. PICK d \in ToSet(PAGES) : \E us \in ToSet(f.us[d]) : t = Paired(f, d, us)
      BY <1>2
    <2>4. PICK us \in ToSet(f.us[d]) : t = Paired(f, d, us)
      BY <2>3
    <2>5. DOMAIN t = {"id", "domain", "canonicalEn", "ko", "aliasesEn", "aliasesKo", "slug",
                      "upstreamIds", "confidence", "source"}
      BY <2>4, PairedTerms DEF TermOf
    <2>. DEFINE g == G[i]
                x == D[id]
    <2>6. x = [g EXCEPT !.aliasesEn = g.aliasesEn \cup {g.canonicalEn}]
      BY <2>1 DEF withEnglishAlias
    <2>. HIDE DEF g, x
    <2>7. DOMAIN g = DOMAIN t /\ GeneratedFrom(g, snapshot, t)
      BY <2>2 DEF GeneratedFrom, g
    <2>8. /\ DOMAIN x = DOMAIN g /\ x.aliasesEn = g.aliasesEn \cup {g.canonicalEn}
          /\ x.id = g.id /\ x.domain = g.domain /\ x.canonicalEn = g.canonicalEn /\ x.ko = g.ko
          /\ x.source = g.source /\ x.confidence = g.confidence /\ x.upstreamIds = g.upstreamIds
      BY <2>5, <2>6, <2>7
    <2>9. HandFields \cup {"aliasesEn"} \subseteq DOMAIN x
      BY <2>5, <2>7, <2>8 DEF HandFields
    <2>10. SeededFrom(x, snapshot, t)
      BY <2>7, <2>8, <2>9 DEF GeneratedFrom, SeededFrom
    <2>11. t.id = id
      BY <2>1, <2>7 DEF GeneratedFrom, g
    <2>. QED BY <2>10, <2>11 DEF x
  <1>5. ASSUME NEW t \in ToSet(I) PROVE t.id \in DOMAIN D
    BY <1>1, <1>3 DEF GeneratedFrom
  <1>. QED BY <1>4, <1>5 DEF D, G, I

(* The seeds D, the dictionary P with the overrides, and M with the live terms. *)
Layers(f, snapshot, c, ovs, D, P, M) ==
  LET I == importFromFixtures(f) IN
  /\ \A id \in DOMAIN D : \E t \in ToSet(I) : t.id = id /\ SeededFrom(D[id], snapshot, t)
  /\ \A t \in ToSet(I) : t.id \in DOMAIN D
  /\ Patched(D, ovs, Len(ovs), P)
  /\ \A id \in DOMAIN P : id \in DOMAIN M /\ (P[id].source = "manual" => M[id] = P[id])
  /\ \A id \in DOMAIN M : \/ id \in DOMAIN P /\ M[id] = P[id]
                          \/ \E i \in 1 .. Len(c) : c[i].id = id /\ M[id] = c[i]

LEMMA BuiltLayers ==
  ASSUME NEW f \in PagesType, NEW snapshot \in DataType, NEW c, Len(c) \in Nat,
         NEW ovs, Overridable(ovs), ~buildThrows(f, snapshot, ovs)
  PROVE  LET D == Seed(generatedTerms(f, snapshot))
             P == buildDictionary(f, snapshot, ovs)
         IN Layers(f, snapshot, c, ovs, D, P, mergeCollected(P, c))
  <1>. DEFINE D == Seed(generatedTerms(f, snapshot))
              P == buildDictionary(f, snapshot, ovs)
              I == importFromFixtures(f)
  <1>1. ~importThrows(f)
    BY DEF buildThrows
  <1>2. /\ \A id \in DOMAIN D : \E t \in ToSet(I) : t.id = id /\ SeededFrom(D[id], snapshot, t)
        /\ \A t \in ToSet(I) : t.id \in DOMAIN D
    BY <1>1, SeededDictionary
  <1>3. P = OverrideUpTo(D, ovs)[Len(ovs)]
    BY DEF buildDictionary, assembleDictionary
  <1>. HIDE DEF D, P, I
  <1>4. \A id \in DOMAIN D : HandFields \cup {"aliasesEn"} \subseteq DOMAIN D[id]
    BY <1>2 DEF SeededFrom
  <1>5. Patched(D, ovs, Len(ovs), P)
    <2>1. Len(ovs) \in 0 .. Len(ovs)
      BY DEF Overridable
    <2>. QED BY <1>3, <1>4, <2>1, OverridesHold DEF Overridable
  <1>6. Layers(f, snapshot, c, ovs, D, P, mergeCollected(P, c))
    BY <1>2, <1>5, MergeHolds DEF Layers, I
  <1>. QED BY <1>6 DEF D, P

-----------------------------------------------------------------------------
(* The dictionary on disk is what the last build made of the inputs it had. *)
BuiltFrom(f, snapshot, c, ovs, dict) ==
  /\ f \in PagesType /\ snapshot \in DataType /\ c \in Seq(LiveTerms) /\ Overridable(ovs)
  /\ ~buildThrows(f, snapshot, ovs)
  /\ dict = mergeCollected(buildDictionary(f, snapshot, ovs), c)

DataInv ==
  /\ locFixtures \in PagesType /\ locSnapshot \in DataType
  /\ locCollected \in Seq(LiveTerms) /\ Overridable(locOverrides)
  /\ \A p \in revProposals : "id" \in DOMAIN p.override /\ p.override.upstreamIds # {}
  /\ ~Built => locDict = <<>>
  /\ Built => BuiltFrom(locBuilt[1], locBuilt[2], locBuilt[3], locBuilt[4], locDict)

LEMMA InputsAreTyped ==
  /\ LocFixtures \subseteq PagesType /\ LocSnapshots \subseteq DataType
  /\ LocCollections \subseteq Seq(LiveTerms) /\ \A ov \in LocOverrides : "id" \in DOMAIN ov
  /\ (CHOOSE pages \in LocFixtures : ~importThrows(pages)) \in LocFixtures
  BY LocAssumption DEF PagesType, DataType

LEMMA DataInitially == LocInit => DataInv
  <1>. SUFFICES ASSUME LocInit PROVE DataInv
    OBVIOUS
  <1>1. locFixtures \in PagesType /\ locSnapshot \in DataType
    BY InputsAreTyped DEF LocInit
  <1>2. locCollected = <<>> /\ locOverrides = <<>> /\ locDict = <<>> /\ locBuilt = <<>>
        /\ revProposals = {}
    BY DEF LocInit
  <1>3. locCollected \in Seq(LiveTerms)
    BY <1>2
  <1>4. Len(<<>>) \in Nat /\ DOMAIN <<>> = 1 .. Len(<<>>) /\ \A i \in 1 .. Len(<<>>) : FALSE
    OBVIOUS
  <1>5. Overridable(locOverrides)
    BY <1>2, <1>4 DEF Overridable
  <1>. QED BY <1>1, <1>2, <1>3, <1>5 DEF DataInv, Built

LEMMA DataSteps == DataInv /\ [LocNext]_locVars => DataInv'
  <1>. SUFFICES ASSUME DataInv, [LocNext]_locVars PROVE DataInv'
    OBVIOUS
  <1>. DEFINE inputs == /\ locFixtures \in PagesType /\ locSnapshot \in DataType
                        /\ locCollected \in Seq(LiveTerms) /\ Overridable(locOverrides)
              proposals == \A p \in revProposals : "id" \in DOMAIN p.override
                                                   /\ p.override.upstreamIds # {}
              built == /\ ~Built => locDict = <<>>
                       /\ Built => BuiltFrom(locBuilt[1], locBuilt[2], locBuilt[3], locBuilt[4], locDict)
  <1>0. inputs /\ proposals /\ built
    BY DEF DataInv
  <1>1. CASE InputsChange
    <2>1. UNCHANGED <<locDict, locBuilt, revProposals>>
      BY <1>1 DEF InputsChange
    <2>2. proposals' /\ built'
      BY <1>0, <2>1 DEF Built
    <2>3. inputs'
      <3>1. CASE \E pages \in LocFixtures :
                   locFixtures' = pages /\ UNCHANGED <<locSnapshot, locCollected, locOverrides>>
        BY <1>0, <3>1, InputsAreTyped
      <3>2. CASE \E data \in LocSnapshots :
                   locSnapshot' = data /\ UNCHANGED <<locFixtures, locCollected, locOverrides>>
        BY <1>0, <3>2, InputsAreTyped
      <3>3. CASE \E terms \in LocCollections :
                   locCollected' = terms /\ UNCHANGED <<locFixtures, locSnapshot, locOverrides>>
        BY <1>0, <3>3, InputsAreTyped
      <3>4. CASE \E ov \in LocOverrides \cup {p.override : p \in revProposals} :
                   /\ locOverrides' = Append(locOverrides, ov)
                   /\ UNCHANGED <<locFixtures, locSnapshot, locCollected>>
        <4>1. PICK ov \in LocOverrides \cup {p.override : p \in revProposals} :
                locOverrides' = Append(locOverrides, ov)
          BY <3>4
        <4>2. "id" \in DOMAIN ov
          BY <1>0, InputsAreTyped
        <4>. DEFINE n == Len(locOverrides)
        <4>3. n \in Nat /\ DOMAIN locOverrides = 1 .. n
              /\ \A i \in 1 .. n : "id" \in DOMAIN locOverrides[i]
          BY <1>0 DEF Overridable
        <4>4. /\ Len(locOverrides') = n + 1 /\ DOMAIN locOverrides' = 1 .. n + 1
              /\ \A i \in 1 .. n : locOverrides'[i] = locOverrides[i]
              /\ locOverrides'[n + 1] = ov
          BY <4>1, <4>3
        <4>. HIDE DEF n
        <4>5. \A i \in 1 .. n + 1 : "id" \in DOMAIN locOverrides'[i]
          <5>1. \A i \in 1 .. n + 1 : i \in 1 .. n \/ i = n + 1
            BY <4>3
          <5>. QED BY <4>2, <4>3, <4>4, <5>1
        <4>6. Overridable(locOverrides)'
          BY <4>3, <4>4, <4>5 DEF Overridable
        <4>. QED BY <1>0, <3>4, <4>6
      <3>. QED BY <1>1, <3>1, <3>2, <3>3, <3>4 DEF InputsChange
    <2>. QED BY <2>2, <2>3 DEF DataInv
  <1>2. CASE Build
    <2>1. UNCHANGED <<locInputs, revProposals>>
      BY <1>2 DEF Build
    <2>2. inputs' /\ proposals'
      BY <1>0, <2>1 DEF locInputs
    <2>3. built'
      <3>1. CASE buildThrows(locFixtures, locSnapshot, locOverrides)
        <4>1. UNCHANGED <<locDict, locBuilt>>
          BY <1>2, <3>1 DEF Build
        <4>. QED BY <1>0, <4>1 DEF Built
      <3>2. CASE ~buildThrows(locFixtures, locSnapshot, locOverrides)
        <4>1. /\ locDict' = mergeCollected(buildDictionary(locFixtures, locSnapshot, locOverrides),
                                           locCollected)
              /\ locBuilt' = <<locFixtures, locSnapshot, locCollected, locOverrides>>
          BY <1>2, <3>2 DEF Build, locInputs
        <4>2. /\ locBuilt'[1] = locFixtures /\ locBuilt'[2] = locSnapshot
              /\ locBuilt'[3] = locCollected /\ locBuilt'[4] = locOverrides /\ locBuilt' # <<>>
          BY <4>1
        <4>3. BuiltFrom(locFixtures, locSnapshot, locCollected, locOverrides, locDict')
          BY <1>0, <3>2, <4>1 DEF BuiltFrom
        <4>. QED BY <4>2, <4>3 DEF Built
      <3>. QED BY <3>1, <3>2
    <2>. QED BY <2>2, <2>3 DEF DataInv
  <1>3. CASE ShowLines \/ \E entry \in Entries : Pick(entry) \/ TypeId(entry)
    <2>1. UNCHANGED <<locInputs, locDict, locBuilt, revProposals>>
      BY <1>3 DEF ShowLines, Pick, TypeId
    <2>. QED BY <1>0, <2>1 DEF DataInv, Built, locInputs
  <1>4. CASE \E entry \in Entries : submit(entry)
    <2>1. PICK entry \in Entries : submit(entry)
      BY <1>4
    <2>. DEFINE row == revRows[RowKey(entry)]
                ov == proposeOverrideFromEntry(entry, chosenIds(row))
    <2>2. /\ UNCHANGED <<locInputs, locDict, locBuilt>> /\ chosenIds(row) # {}
          /\ revProposals' = revProposals \cup {[override |-> ov, for |-> row.for, moved |-> row.moved]}
      BY <2>1 DEF submit
    <2>3. "id" \in DOMAIN ov /\ ov.upstreamIds = chosenIds(row)
      BY DEF proposeOverrideFromEntry
    <2>. HIDE DEF ov, row
    <2>4. proposals'
      BY <1>0, <2>2, <2>3
    <2>5. inputs' /\ built'
      BY <1>0, <2>2 DEF locInputs, Built
    <2>. QED BY <2>4, <2>5 DEF DataInv
  <1>5. CASE UNCHANGED locVars
    BY <1>0, <1>5 DEF DataInv, Built, locVars
  <1>. QED BY <1>1, <1>2, <1>3, <1>4, <1>5 DEF LocNext

LEMMA DataHolds == LocSpec => []DataInv
  BY DataInitially, DataSteps, PTL DEF LocSpec

LEMMA BuiltInLayers ==
  ASSUME DataInv, Built
  PROVE  \E D, P : Layers(locBuilt[1], locBuilt[2], locBuilt[3], locBuilt[4], D, P, locDict)
  <1>1. BuiltFrom(locBuilt[1], locBuilt[2], locBuilt[3], locBuilt[4], locDict)
    BY DEF DataInv
  <1>2. Len(locBuilt[3]) \in Nat
    BY <1>1, LenProperties DEF BuiltFrom
  <1>. QED BY <1>1, <1>2, BuiltLayers DEF BuiltFrom

LEMMA HandPlaces ==
  ASSUME DataInv, Built
  PROVE  /\ DOMAIN locBuilt[4] = 1 .. Len(locBuilt[4]) /\ Len(locBuilt[4]) \in Nat
         /\ \A id, field : SetByHand(id, field) = SetIn(locBuilt[4], Len(locBuilt[4]), id, field)
  BY DEF DataInv, BuiltFrom, Overridable, SetByHand, BuiltOverridesOf, SetIn, NamedIn

(* What a person decided stands in every dictionary that was built, whatever    *)
(* the number of overrides, terms and live terms (dictionary.ts:121-149,        *)
(* build-dictionary.mjs:28-41).                                                 *)
THEOREM OverridesWin == LocSpec => []ReviewedMappingsWin
  <1>1. DataInv => ReviewedMappingsWin
    <2>. SUFFICES ASSUME DataInv, Built,
                         NEW id \in {locBuilt[4][i].id : i \in DOMAIN locBuilt[4]}
                  PROVE  /\ id \in DOMAIN locDict /\ locDict[id].source = "manual"
                         /\ \A field \in HandFields : \A i \in SetByHand(id, field) :
                              (\A j \in SetByHand(id, field) : j <= i) =>
                                locDict[id][field] = locBuilt[4][i][field]
      BY DEF ReviewedMappingsWin, HandFields
    <2>. DEFINE ovs == locBuilt[4]
                n == Len(ovs)
    <2>1. PICK D, P : Layers(locBuilt[1], locBuilt[2], locBuilt[3], ovs, D, P, locDict)
      BY BuiltInLayers
    <2>2. DOMAIN ovs = 1 .. n /\ \A field : SetByHand(id, field) = SetIn(ovs, n, id, field)
      BY HandPlaces
    <2>. HIDE DEF ovs, n
    <2>3. Patched(D, ovs, n, P)
      BY <2>1 DEF Layers, n
    <2>4. PICK i \in 1 .. n : ovs[i].id = id
      BY <2>2 DEF ovs
    <2>5. id \in DOMAIN P /\ NamedIn(ovs, n, id) # {}
      BY <2>3, <2>4 DEF Patched, NamedIn
    <2>6. PatchedEntry(D, ovs, n, id, P[id])
      BY <2>3, <2>5 DEF Patched
    <2>7. P[id].source = "manual"
      BY <2>5, <2>6 DEF PatchedEntry
    <2>8. id \in DOMAIN locDict /\ locDict[id] = P[id]
      BY <2>1, <2>5, <2>7 DEF Layers
    <2>. QED BY <2>2, <2>6, <2>7, <2>8 DEF PatchedEntry, ovs
  <1>. QED BY <1>1, DataHolds, PTL

(* No dictionary holds an upstream id that nothing justifies (match.ts:104-146, *)
(* dictionary.ts:95-119).                                                       *)
THEOREM NoGuesses == LocSpec => []NoGuessIsApplied
  <1>1. DataInv => NoGuessIsApplied
    <2>. SUFFICES ASSUME DataInv, Built, NEW id \in DOMAIN locDict, NEW up \in locDict[id].upstreamIds
                  PROVE  \/ \E i \in SetByHand(id, "upstreamIds") : up \in locBuilt[4][i].upstreamIds
                         \/ \E t \in ToSet(importFromFixtures(locBuilt[1])) :
                              t.id = id /\ Justified(up, locBuilt[2], t)
      BY DEF NoGuessIsApplied, Justified
    <2>. DEFINE ovs == locBuilt[4]
                n == Len(ovs)
                I == importFromFixtures(locBuilt[1])
    <2>1. PICK D, P : Layers(locBuilt[1], locBuilt[2], locBuilt[3], ovs, D, P, locDict)
      BY BuiltInLayers
    <2>2. /\ DOMAIN ovs = 1 .. n /\ n \in Nat
          /\ SetByHand(id, "upstreamIds") = SetIn(ovs, n, id, "upstreamIds")
      BY HandPlaces
    <2>3. locBuilt[3] \in Seq(LiveTerms)
      BY DEF DataInv, BuiltFrom
    <2>. HIDE DEF ovs, n, I
    <2>4. ASSUME NEW i \in 1 .. Len(locBuilt[3]) PROVE locBuilt[3][i].upstreamIds = {}
      <3>1. locBuilt[3][i] \in LiveTerms
        BY <2>3, ElementOfSeq
      <3>. QED BY <3>1 DEF LiveTerms
    <2>5. id \in DOMAIN P /\ locDict[id] = P[id]
      BY <2>1, <2>4 DEF Layers
    <2>6. PatchedEntry(D, ovs, n, id, P[id])
      BY <2>1, <2>5 DEF Layers, Patched, n
    <2>. DEFINE byHand == SetIn(ovs, n, id, "upstreamIds")
    <2>7. CASE byHand # {}
      <3>1. \A i \in byHand : i \in 1 .. n
        BY DEF SetIn, NamedIn
      <3>. HIDE DEF byHand
      <3>2. PICK i \in byHand : \A j \in byHand : j <= i
        <4>1. byHand \in SUBSET (1 .. n)
          BY <3>1
        <4>. QED BY <2>2, <2>7, <4>1, GreatestPlace
      <3>3. P[id].upstreamIds = ovs[i].upstreamIds
        BY <2>6, <3>2 DEF PatchedEntry, HandFields, byHand
      <3>. QED BY <2>2, <2>5, <3>2, <3>3 DEF ovs, byHand
    <2>8. CASE byHand = {}
      <3>1. P[id].upstreamIds = IF id \in DOMAIN D THEN D[id].upstreamIds ELSE FreshTerm.upstreamIds
        BY <2>6, <2>8 DEF PatchedEntry, HandFields
      <3>2. id \in DOMAIN D /\ up \in D[id].upstreamIds
        BY <2>5, <3>1 DEF FreshTerm
      <3>3. PICK t \in ToSet(I) : t.id = id /\ SeededFrom(D[id], locBuilt[2], t)
        BY <2>1, <3>2 DEF Layers, I
      <3>. QED BY <3>2, <3>3 DEF SeededFrom, I
    <2>. QED BY <2>7, <2>8
  <1>. QED BY <1>1, DataHolds, PTL

(* Whatever the table of counts, both tables of bars call it the same: every    *)
(* domain counted from any dictionary is graded met by the dashboard exactly    *)
(* when the gate passes it (coverage.ts:55-64, coverage-dashboard.ts:68-78).    *)
THEOREM DashboardIsTheGate == LocSpec => []DashboardAgreesWithGate
  <1>. DEFINE rows == buildCoverageDashboardModel(computeCoverage(locDict))
              Met(domain) == rows[domain].status = "met"
              gate(parity) == checkCoverage(locDict, parity)
  <1>1. DashboardAgreesWithGate
    <2>1. ASSUME NEW domain \in DATA_DOMAINS, NEW parity \in BOOLEAN
          PROVE  Met(domain) = gate(parity)[domain].ok
      <3>. DEFINE percent == computeCoverage(locDict)[domain].percent
      <3>1. domain \in DOMAIN MVP_THRESHOLDS /\ domain # "ui"
            /\ COVERAGE_MVP_THRESHOLDS[domain] = MVP_THRESHOLDS[domain]
            /\ domain \in DOMAIN COVERAGE_MVP_THRESHOLDS
        BY DEF DATA_DOMAINS, MVP_THRESHOLDS, COVERAGE_MVP_THRESHOLDS
      <3>2. gate(parity)[domain].ok = (percent >= MVP_THRESHOLDS[domain])
        <4>. HIDE DEF percent
        <4>. QED BY <3>1 DEF checkCoverage, percent
      <3>3. rows[domain].status = IF percent >= COVERAGE_MVP_THRESHOLDS[domain] THEN "met" ELSE "under-target"
        BY <3>1 DEF buildCoverageDashboardModel, gradeRow
      <3>. HIDE DEF percent, rows, gate
      <3>. QED BY <3>1, <3>2, <3>3
    <2>2. ASSUME NEW parity \in BOOLEAN
          PROVE  coverageCheck(locDict, parity) = (parity /\ \A domain \in DATA_DOMAINS : Met(domain))
      <3>1. DOMAIN MVP_THRESHOLDS = DATA_DOMAINS \cup {"ui"}
        BY DEF MVP_THRESHOLDS, DATA_DOMAINS
      <3>2. gate(parity)["ui"].ok = parity
        <4>1. MVP_THRESHOLDS["ui"] = 100 /\ "ui" \in DOMAIN MVP_THRESHOLDS
          BY DEF MVP_THRESHOLDS
        <4>2. gate(parity)["ui"].ok = ((IF parity THEN 100 ELSE 0) >= 100)
          BY <4>1 DEF checkCoverage
        <4>. QED BY <4>2
      <3>3. coverageCheck(locDict, parity) = \A domain \in DOMAIN MVP_THRESHOLDS : gate(parity)[domain].ok
        BY DEF coverageCheck
      <3>4. \A domain \in DATA_DOMAINS : Met(domain) = gate(parity)[domain].ok
        BY <2>1
      <3>. DEFINE ok(domain) == gate(parity)[domain].ok
      <3>. HIDE DEF gate, rows
      <3>5. /\ \A domain \in DATA_DOMAINS : Met(domain) = ok(domain)
            /\ ok("ui") = parity
            /\ coverageCheck(locDict, parity) = \A domain \in DATA_DOMAINS \cup {"ui"} : ok(domain)
        BY <3>1, <3>2, <3>3, <3>4
      <3>. HIDE DEF ok, Met
      <3>6. (\A domain \in DATA_DOMAINS : Met(domain)) = (\A domain \in DATA_DOMAINS : ok(domain))
        BY <3>5, Zenon
      <3>7. (\A domain \in DATA_DOMAINS \cup {"ui"} : ok(domain))
              = (ok("ui") /\ \A domain \in DATA_DOMAINS : ok(domain))
        BY <3>5, Zenon
      <3>. QED BY <3>5, <3>6, <3>7, Zenon
    <2>3. \A enKeys, koKeys \in SUBSET {"title", "empty"} :
            uiKeyParity(enKeys, koKeys) = (enKeys = koKeys /\ enKeys # {})
      BY DEF uiKeyParity
    <2>. HIDE DEF rows, gate
    <2>4. ASSUME NEW enKeys \in SUBSET {"title", "empty"}, NEW koKeys \in SUBSET {"title", "empty"}
          PROVE  coverageCheck(locDict, uiKeyParity(enKeys, koKeys)) =
                   (enKeys = koKeys /\ enKeys # {} /\ \A domain \in DATA_DOMAINS : Met(domain))
      <3>1. uiKeyParity(enKeys, koKeys) = (enKeys = koKeys /\ enKeys # {})
            /\ uiKeyParity(enKeys, koKeys) \in BOOLEAN
        BY <2>3 DEF uiKeyParity
      <3>2. coverageCheck(locDict, uiKeyParity(enKeys, koKeys)) =
              (uiKeyParity(enKeys, koKeys) /\ \A domain \in DATA_DOMAINS : Met(domain))
        BY <2>2, <3>1
      <3>. HIDE DEF Met
      <3>. QED BY <3>1, <3>2
    <2>. QED BY <2>1, <2>4 DEF DashboardAgreesWithGate, rows, gate
  <1>. QED BY <1>1, PTL

LEMMA TextsAreTokens ==
  ASSUME NEW text \in Texts
  PROVE  normToken(text) = text
  BY DEF normToken, Texts

LEMMA FoundByTitle ==
  ASSUME NEW dict, NEW id \in DOMAIN dict, dict[id].id = id, NEW text \in Texts, text # Blank,
         text \in {dict[id].ko, dict[id].canonicalEn} \cup dict[id].aliasesEn
  PROVE  id \in {doc.id : doc \in searchTerms(buildSearchIndex(dict), text)}
  <1>. DEFINE doc == toDocument(dict[id])
  <1>1. /\ doc.id = id /\ doc.titleKo = dict[id].ko /\ doc.titleEn = dict[id].canonicalEn
        /\ doc.aliasesEn = dict[id].aliasesEn
    BY DEF toDocument
  <1>2. doc \in buildSearchIndex(dict)
    BY DEF buildSearchIndex
  <1>. HIDE DEF doc
  <1>3. text \in {doc.titleKo, doc.titleEn} \cup doc.aliasesKo \cup doc.aliasesEn
    BY <1>1
  <1>4. normToken(text) = text
    BY TextsAreTokens
  <1>5. normToken(text) \in DocumentTokens(doc)
    BY <1>3, <1>4 DEF DocumentTokens
  <1>. QED BY <1>1, <1>2, <1>5 DEF searchTerms

(* However many builds, overrides and collections there were, a term of the     *)
(* pages stays findable by its names (dictionary.ts:89-119, search.ts:97-117).  *)
THEOREM NamesStay == LocSpec => []NamesAreNeverLost
  <1>1. DataInv => NamesAreNeverLost
    <2>. DEFINE f == locBuilt[1]
                c == locBuilt[3]
                ovs == locBuilt[4]
                n == Len(ovs)
                I == importFromFixtures(f)
                Found(id, text) ==
                  text = Blank \/ id \in {doc.id : doc \in searchTerms(buildSearchIndex(locDict), text)}
    <2>0. SUFFICES ASSUME DataInv, Built, NEW i \in DOMAIN I,
                          \A j \in DOMAIN I \ {i} : I[j].id # I[i].id,
                          I[i].id \notin {c[j].id : j \in DOMAIN c}
                   PROVE  /\ \/ SetByHand(I[i].id, "canonicalEn") # {} /\ SetByHand(I[i].id, "aliasesEn") # {}
                             \/ Found(I[i].id, I[i].canonicalEn)
                          /\ SetByHand(I[i].id, "ko") # {} \/ Found(I[i].id, I[i].ko)
      BY Zenon DEF NamesAreNeverLost
    <2>. DEFINE term == I[i]
                id == term.id
                x == locDict[id]
    <2>1. PICK D, P : Layers(f, locBuilt[2], c, ovs, D, P, locDict)
      BY <2>0, BuiltInLayers
    <2>2. \A field : SetByHand(id, field) = SetIn(ovs, n, id, field)
      BY <2>0, HandPlaces
    <2>3. f \in PagesType /\ c \in Seq(LiveTerms) /\ ~importThrows(f)
      BY <2>0 DEF DataInv, BuiltFrom, buildThrows
    <2>4. term \in ToSet(I)
      BY <2>0 DEF ToSet
    <2>5. DOMAIN c = 1 .. Len(c)
      BY <2>3, LenProperties
    <2>6. term.canonicalEn \in Texts /\ term.canonicalEn \in term.aliasesEn /\ term.ko \in Texts
      <3>1. PICK d \in ToSet(PAGES) : \E us \in ToSet(f.us[d]) : term = Paired(f, d, us)
        BY <2>3, <2>4, ImportedTerms
      <3>2. PICK us \in ToSet(f.us[d]) : term = Paired(f, d, us)
        BY <3>1
      <3>3. TermOf(term, d, Last(EntriesOf(f.kr[d], us.slug)))
        BY <2>3, <3>2, PairedTerms
      <3>. HIDE DEF term
      <3>. QED BY <3>3 DEF TermOf
    <2>7. id \in DOMAIN D /\ SeededFrom(D[id], locBuilt[2], term)
      <3>1. id \in DOMAIN D
        BY <2>1, <2>4 DEF Layers
      <3>2. PICK t \in ToSet(I) : t.id = id /\ SeededFrom(D[id], locBuilt[2], t)
        BY <2>1, <3>1 DEF Layers
      <3>3. t = term
        BY <2>0, <3>2 DEF ToSet
      <3>. QED BY <3>1, <3>2, <3>3
    <2>. HIDE DEF n
    <2>8. id \in DOMAIN P /\ PatchedEntry(D, ovs, n, id, P[id])
      BY <2>1, <2>7 DEF Layers, Patched, n
    <2>9. id \in DOMAIN locDict /\ x = P[id]
      BY <2>0, <2>1, <2>5, <2>8 DEF Layers
    <2>. HIDE DEF term, x, ovs, c, I, f
    <2>10. x.id = id
      BY <2>7, <2>8, <2>9 DEF PatchedEntry, SeededFrom
    <2>11. SetIn(ovs, n, id, "canonicalEn") = {} => x.canonicalEn = term.canonicalEn
      BY <2>7, <2>8, <2>9 DEF PatchedEntry, SeededFrom, HandFields
    <2>12. SetIn(ovs, n, id, "aliasesEn") = {} => term.canonicalEn \in x.aliasesEn
      BY <2>6, <2>7, <2>8, <2>9 DEF PatchedEntry, SeededFrom
    <2>13. SetIn(ovs, n, id, "ko") = {} => x.ko = term.ko
      BY <2>7, <2>8, <2>9 DEF PatchedEntry, SeededFrom, HandFields
    <2>. HIDE DEF id
    <2>14. ASSUME NEW text \in Texts, text \in {x.ko, x.canonicalEn} \cup x.aliasesEn
           PROVE  Found(id, text)
      BY <2>9, <2>10, <2>14, FoundByTitle DEF x
    <2>. HIDE DEF Found
    <2>15. SetByHand(id, "ko") # {} \/ Found(id, term.ko)
      BY <2>2, <2>6, <2>13, <2>14
    <2>16. \/ SetByHand(id, "canonicalEn") # {} /\ SetByHand(id, "aliasesEn") # {}
           \/ Found(id, term.canonicalEn)
      BY <2>2, <2>6, <2>11, <2>12, <2>14
    <2>. QED BY <2>15, <2>16 DEF id, term
  <1>. QED BY <1>1, DataHolds, PTL

-----------------------------------------------------------------------------
(* The review panel.  A row's key stands for one text at a time: that of the kr *)
(* entry of its slug, or that of the line at its place.                         *)
FromPages(e, f) ==
  \E d \in ToSet(PAGES) : \E us \in ToSet(f.us[d]) :
    e.id = <<d, us.slug>> /\ e.ko = Last(EntriesOf(f.kr[d], us.slug)).name

FromLines(e, lines) == \E n \in 1 .. Len(lines) : e.id = <<"clipboard", n - 1>> /\ e.ko = lines[n]

LEMMA QueueEntries ==
  ASSUME NEW f \in PagesType, NEW snapshot \in DataType, NEW lines \in Seq(Texts),
         NEW e \in ToSet(buildReviewQueueModel(f, snapshot, lines))
  PROVE  FromPages(e, f) \/ FromLines(e, lines)
  <1>. DEFINE I == importFromFixtures(f)
              terms == QueuedTerms(f, snapshot)
              Entry(t) == [id |-> t.id, kind |-> "fuzzy-term", domain |-> t.domain, ko |-> t.ko,
                           candidates |-> CandidatesOf(snapshot, t)]
              Line(n) == [id |-> <<"clipboard", n - 1>>, kind |-> "clipboard-line",
                          domain |-> "mod", ko |-> lines[n], candidates |-> {}]
              a == [i \in DOMAIN terms |-> Entry(terms[i])]
              b == [n \in DOMAIN lines |-> Line(n)]
              S == {a[i] : i \in DOMAIN terms} \cup {b[n] : n \in DOMAIN lines}
  <1>1. buildReviewQueueModel(f, snapshot, lines) = a \o b
    BY DEF buildReviewQueueModel
  <1>2. /\ Len(terms) \in Nat /\ DOMAIN terms = 1 .. Len(terms)
        /\ \A i \in 1 .. Len(terms) : ~importThrows(f) /\ \E t \in ToSet(I) : terms[i] = Resolved(snapshot, t)
    <2>1. CASE importThrows(f)
      <3>1. terms = <<>> /\ Len(<<>>) = 0 /\ DOMAIN <<>> = 1 .. 0
        BY <2>1 DEF QueuedTerms
      <3>. QED BY <3>1
    <2>2. CASE ~importThrows(f)
      <3>1. terms = matchTerms(I, snapshot).reviewQueue
        BY <2>2 DEF QueuedTerms
      <3>2. I \in Seq(UNION {PageTerms(f, d) : d \in ToSet(PAGES)})
        BY ImportedTerms
      <3>. HIDE DEF I, terms
      <3>3. terms \in Seq({Resolved(snapshot, t) : t \in ToSet(I)})
        BY <3>1, <3>2, MatchedTerms
      <3>. QED BY <2>2, <3>3, LenProperties, ElementOfSeq
    <2>. QED BY <2>1, <2>2
  <1>. HIDE DEF terms, Entry, Line
  <1>3. Len(lines) \in Nat /\ DOMAIN lines = 1 .. Len(lines)
    BY LenProperties
  <1>4. a \in Seq(S) /\ Len(a) = Len(terms) /\ b \in Seq(S) /\ Len(b) = Len(lines)
    <2>1. /\ a = [i \in 1 .. Len(terms) |-> a[i]] /\ \A i \in 1 .. Len(terms) : a[i] \in S
          /\ b = [n \in 1 .. Len(lines) |-> b[n]] /\ \A n \in 1 .. Len(lines) : b[n] \in S
      BY <1>2, <1>3
    <2>. HIDE DEF a, b, S
    <2>. QED BY <1>2, <1>3, <2>1, IsASeq
  <1>5. \A i \in 1 .. Len(terms) : a[i] = Entry(terms[i])
    BY <1>2
  <1>6. \A n \in 1 .. Len(lines) : b[n] = Line(n)
    BY <1>3
  <1>. HIDE DEF a, b, S
  <1>7. PICK p \in 1 .. Len(terms) + Len(lines) :
          e = IF p <= Len(terms) THEN a[p] ELSE b[p - Len(terms)]
    <2>1. /\ a \o b \in Seq(S) /\ Len(a \o b) = Len(terms) + Len(lines)
          /\ \A p \in 1 .. Len(terms) + Len(lines) :
               (a \o b)[p] = IF p <= Len(terms) THEN a[p] ELSE b[p - Len(terms)]
      <3>1. /\ a \o b \in Seq(S) /\ Len(a \o b) = Len(a) + Len(b)
            /\ \A p \in 1 .. Len(a) + Len(b) :
                 (a \o b)[p] = IF p <= Len(a) THEN a[p] ELSE b[p - Len(a)]
        BY <1>4, ConcatProperties
      <3>. QED BY <1>4, <3>1
    <2>2. DOMAIN (a \o b) = 1 .. Len(terms) + Len(lines)
      BY <2>1, LenProperties
    <2>3. PICK p \in DOMAIN (a \o b) : e = (a \o b)[p]
      BY <1>1 DEF ToSet
    <2>. QED BY <2>1, <2>2, <2>3
  <1>8. CASE p <= Len(terms)
    <2>1. p \in 1 .. Len(terms) /\ e = Entry(terms[p])
      BY <1>2, <1>3, <1>5, <1>7, <1>8
    <2>2. ~importThrows(f) /\ \E t \in ToSet(I) : terms[p] = Resolved(snapshot, t)
      BY <1>2, <2>1
    <2>3. PICK t \in ToSet(I) : terms[p] = Resolved(snapshot, t)
      BY <2>2
    <2>4. PICK d \in ToSet(PAGES) : \E us \in ToSet(f.us[d]) : t = Paired(f, d, us)
      BY ImportedTerms
    <2>5. PICK us \in ToSet(f.us[d]) : t = Paired(f, d, us)
      BY <2>4
    <2>. DEFINE kr == Last(EntriesOf(f.kr[d], us.slug))
    <2>6. kr.slug = us.slug /\ TermOf(t, d, kr)
      BY <2>2, <2>5, PairedTerms
    <2>. HIDE DEF kr
    <2>7. t.confidence \in TERM_CONFIDENCES
      BY <2>6 DEF TermOf, TERM_CONFIDENCES
    <2>8. DOMAIN resolve(t, Bucket(snapshot, t.domain)) = {"upstreamIds", "confidence"}
      BY <2>7, ResolvedIds
    <2>9. Resolved(snapshot, t).id = t.id /\ Resolved(snapshot, t).ko = t.ko
      <3>1. "id" \in DOMAIN t /\ "ko" \in DOMAIN t
        BY <2>6 DEF TermOf
      <3>. QED BY <2>8, <3>1 DEF Resolved, Spread
    <2>10. e.id = <<d, us.slug>> /\ e.ko = kr.name
      <3>1. e.id = t.id /\ e.ko = t.ko
        BY <2>1, <2>3, <2>9 DEF Entry
      <3>. QED BY <2>6, <3>1 DEF TermOf
    <2>. QED BY <2>10 DEF FromPages, kr
  <1>9. CASE ~(p <= Len(terms))
    <2>1. p - Len(terms) \in 1 .. Len(lines) /\ e = Line(p - Len(terms))
      BY <1>2, <1>3, <1>6, <1>7, <1>9
    <2>2. e.id = <<"clipboard", (p - Len(terms)) - 1>> /\ e.ko = lines[p - Len(terms)]
      BY <2>1 DEF Line
    <2>. QED BY <2>1, <2>2 DEF FromLines
  <1>. QED BY <1>8, <1>9

LEMMA KeysShowOneText ==
  ASSUME NEW f \in PagesType, NEW snapshot \in DataType, NEW lines \in Seq(Texts),
         NEW e1 \in ToSet(buildReviewQueueModel(f, snapshot, lines)),
         NEW e2 \in ToSet(buildReviewQueueModel(f, snapshot, lines)), RowKey(e1) = RowKey(e2)
  PROVE  e1.ko = e2.ko
  <1>0. \A x, y, u, v : <<x, y>> = <<u, v>> => x = u /\ y = v
    OBVIOUS
  <1>1. e1.id = e2.id
    BY DEF RowKey
  <1>2. "clipboard" \notin ToSet(PAGES)
    BY DEF PAGES, ToSet
  <1>3. /\ FromPages(e1, f) \/ FromLines(e1, lines)
        /\ FromPages(e2, f) \/ FromLines(e2, lines)
    BY QueueEntries
  <1>4. ASSUME FromPages(e1, f), FromPages(e2, f) PROVE e1.ko = e2.ko
    <2>1. PICK d1 \in ToSet(PAGES) : \E us \in ToSet(f.us[d1]) :
            e1.id = <<d1, us.slug>> /\ e1.ko = Last(EntriesOf(f.kr[d1], us.slug)).name
      BY <1>4 DEF FromPages
    <2>2. PICK d2 \in ToSet(PAGES) : \E us \in ToSet(f.us[d2]) :
            e2.id = <<d2, us.slug>> /\ e2.ko = Last(EntriesOf(f.kr[d2], us.slug)).name
      BY <1>4 DEF FromPages
    <2>3. PICK us1 \in ToSet(f.us[d1]) :
            e1.id = <<d1, us1.slug>> /\ e1.ko = Last(EntriesOf(f.kr[d1], us1.slug)).name
      BY <2>1
    <2>4. PICK us2 \in ToSet(f.us[d2]) :
            e2.id = <<d2, us2.slug>> /\ e2.ko = Last(EntriesOf(f.kr[d2], us2.slug)).name
      BY <2>2
    <2>5. <<d1, us1.slug>> = <<d2, us2.slug>>
      BY <1>1, <2>3, <2>4
    <2>6. d1 = d2 /\ us1.slug = us2.slug
      BY <1>0, <2>5, Zenon
    <2>. QED BY <2>3, <2>4, <2>6
  <1>5. ASSUME FromLines(e1, lines), FromLines(e2, lines) PROVE e1.ko = e2.ko
    <2>1. PICK n \in 1 .. Len(lines) : e1.id = <<"clipboard", n - 1>> /\ e1.ko = lines[n]
      BY <1>5 DEF FromLines
    <2>2. PICK m \in 1 .. Len(lines) : e2.id = <<"clipboard", m - 1>> /\ e2.ko = lines[m]
      BY <1>5 DEF FromLines
    <2>3. <<"clipboard", n - 1>> = <<"clipboard", m - 1>>
      BY <1>1, <2>1, <2>2
    <2>4. n - 1 = m - 1
      BY <1>0, <2>3, Zenon
    <2>5. n = m
      BY <2>4
    <2>. QED BY <2>1, <2>2, <2>5
  <1>6. ASSUME NEW x, NEW y, FromPages(x, f), FromLines(y, lines) PROVE x.id # y.id
    <2>1. PICK d \in ToSet(PAGES) : \E us \in ToSet(f.us[d]) : x.id = <<d, us.slug>>
      BY <1>6 DEF FromPages
    <2>2. PICK us \in ToSet(f.us[d]) : x.id = <<d, us.slug>>
      BY <2>1
    <2>3. PICK n \in 1 .. Len(lines) : y.id = <<"clipboard", n - 1>>
      BY <1>6 DEF FromLines
    <2>4. SUFFICES ASSUME <<d, us.slug>> = <<"clipboard", n - 1>> PROVE FALSE
      BY <2>2, <2>3
    <2>5. d = "clipboard"
      BY <1>0, <2>4, Zenon
    <2>. QED BY <1>2, <2>5
  <1>. QED BY <1>1, <1>3, <1>4, <1>5, <1>6

Shown(entries, key) == {entry.ko : entry \in {e \in entries : RowKey(e) = key}}

(* What the state of a row says: it was given something for the texts in "for", *)
(* and until one of them left the row they are what it shows.                   *)
RowOK(row, shown) ==
  /\ DOMAIN row = {"picked", "typed", "for", "moved"} /\ row.moved \in BOOLEAN
  /\ row.for = {} => row.picked = NoText /\ row.typed = Blank
  /\ row.moved \/ row.for \subseteq shown

RowsOf(rows, entries) ==
  /\ DOMAIN rows = {RowKey(entry) : entry \in entries}
  /\ \A key \in DOMAIN rows : RowOK(rows[key], Shown(entries, key))

RowInv ==
  /\ revLines \in Seq(Texts)
  /\ RowsOf(revRows, Entries)
  /\ ProposalsKeepTheirLine

(* A row outlives a change of the entries as one that knows its texts left it.  *)
LEMMA RowsRemounted ==
  ASSUME NEW rows, NEW entries,
         \A key \in DOMAIN rows : \E shown : RowOK(rows[key], shown)
  PROVE  RowsOf(Remounted(rows, entries), entries)
  <1>. DEFINE keys == {RowKey(entry) : entry \in entries}
              new == Remounted(rows, entries)
              Aged(key) == [rows[key] EXCEPT
                              !.moved = @ \/ ~(rows[key].for \subseteq Shown(entries, key))]
  <1>1. DOMAIN new = keys
        /\ \A key \in keys : new[key] = IF key \notin DOMAIN rows THEN FreshRow ELSE Aged(key)
    BY DEF Remounted, Shown
  <1>2. ASSUME NEW shown PROVE RowOK(FreshRow, shown)
    BY DEF RowOK, FreshRow
  <1>3. ASSUME NEW key \in DOMAIN rows PROVE RowOK(Aged(key), Shown(entries, key))
    <2>1. /\ DOMAIN rows[key] = {"picked", "typed", "for", "moved"} /\ rows[key].moved \in BOOLEAN
          /\ rows[key].for = {} => rows[key].picked = NoText /\ rows[key].typed = Blank
      BY DEF RowOK
    <2>. DEFINE left == rows[key].moved \/ ~(rows[key].for \subseteq Shown(entries, key))
    <2>2. left \in BOOLEAN /\ Aged(key) = [rows[key] EXCEPT !.moved = left]
      OBVIOUS
    <2>3. left \/ rows[key].for \subseteq Shown(entries, key)
      OBVIOUS
    <2>. HIDE DEF left, Aged
    <2>4. /\ DOMAIN Aged(key) = DOMAIN rows[key] /\ Aged(key).moved = left
          /\ Aged(key).for = rows[key].for /\ Aged(key).picked = rows[key].picked
          /\ Aged(key).typed = rows[key].typed
      BY <2>1, <2>2
    <2>. QED BY <2>1, <2>2, <2>3, <2>4 DEF RowOK
  <1>. HIDE DEF new, Aged
  <1>4. ASSUME NEW key \in DOMAIN new PROVE RowOK(new[key], Shown(entries, key))
    BY <1>1, <1>2, <1>3
  <1>5. RowsOf(new, entries)
    BY <1>1, <1>4 DEF RowsOf
  <1>. QED BY <1>5 DEF new

(* Input given to a row is given for the text it shows.                         *)
LEMMA InputIsFor ==
  ASSUME NEW rows, NEW entries, RowsOf(rows, entries), NEW entry \in entries, NEW row,
         DOMAIN row = DOMAIN rows[RowKey(entry)],
         row.for = rows[RowKey(entry)].for, row.moved = rows[RowKey(entry)].moved
  PROVE  RowsOf([rows EXCEPT ![RowKey(entry)] = [row EXCEPT !.for = @ \cup {entry.ko}]], entries)
  <1>. DEFINE key == RowKey(entry)
              new == [row EXCEPT !.for = @ \cup {entry.ko}]
  <1>1. key \in DOMAIN rows /\ RowOK(rows[key], Shown(entries, key))
    BY DEF RowsOf
  <1>2. entry.ko \in Shown(entries, key)
    BY DEF Shown
  <1>3. DOMAIN row = {"picked", "typed", "for", "moved"} /\ row.moved \in BOOLEAN
        /\ (row.moved \/ row.for \subseteq Shown(entries, key))
    BY <1>1 DEF RowOK
  <1>4. /\ DOMAIN new = DOMAIN row /\ new.moved = row.moved /\ new.for = row.for \cup {entry.ko}
    BY <1>3
  <1>. HIDE DEF new, key
  <1>5. RowOK(new, Shown(entries, key))
    BY <1>2, <1>3, <1>4 DEF RowOK
  <1>6. RowsOf([rows EXCEPT ![key] = new], entries)
    BY <1>1, <1>5 DEF RowsOf
  <1>. QED BY <1>6 DEF new, key

LEMMA RowsInitially == LocInit => RowInv
  <1>. SUFFICES ASSUME LocInit PROVE RowInv
    OBVIOUS
  <1>1. revLines \in Seq(Texts) /\ revProposals = {} /\ revRows = Remounted(<<>>, Entries)
    BY DEF LocInit, Entries
  <1>2. RowsOf(revRows, Entries)
    BY <1>1, RowsRemounted
  <1>. QED BY <1>1, <1>2 DEF RowInv, ProposalsKeepTheirLine

LEMMA RowSteps == DataInv /\ RowInv /\ [LocNext]_locVars => RowInv'
  <1>. SUFFICES ASSUME DataInv, RowInv, [LocNext]_locVars PROVE RowInv'
    OBVIOUS
  <1>0. /\ revLines \in Seq(Texts) /\ RowsOf(revRows, Entries) /\ ProposalsKeepTheirLine
    BY DEF RowInv
  <1>1. \A key \in DOMAIN revRows : RowOK(revRows[key], Shown(Entries, key))
    BY <1>0 DEF RowsOf
  <1>2. CASE InputsChange \/ ShowLines
    <2>1. UNCHANGED revProposals /\ revRows' = Remounted(revRows, Entries')
      BY <1>2 DEF InputsChange, ShowLines, Entries, locInputs
    <2>2. revLines' \in Seq(Texts)
      BY <1>0, <1>2, LocAssumption DEF InputsChange, ShowLines
    <2>3. RowsOf(revRows', Entries')
      BY <1>1, <2>1, RowsRemounted
    <2>. QED BY <1>0, <2>1, <2>2, <2>3 DEF RowInv, RowsOf, ProposalsKeepTheirLine
  <1>3. CASE Build
    <2>1. UNCHANGED <<revLines, revRows, revProposals, locFixtures, locSnapshot>>
      BY <1>3 DEF Build, locInputs
    <2>. QED BY <1>0, <2>1 DEF RowInv, RowsOf, Entries, ProposalsKeepTheirLine
  <1>4. CASE \E entry \in Entries : Pick(entry) \/ TypeId(entry)
    <2>1. PICK entry \in Entries : Pick(entry) \/ TypeId(entry)
      BY <1>4
    <2>2. UNCHANGED <<revLines, revProposals, locFixtures, locSnapshot>>
      BY <2>1 DEF Pick, TypeId, locInputs
    <2>3. DOMAIN revRows[RowKey(entry)] = {"picked", "typed", "for", "moved"}
      BY <1>0 DEF RowsOf, RowOK
    <2>4. PICK row : /\ GiveInput(entry, row) /\ DOMAIN row = DOMAIN revRows[RowKey(entry)]
                     /\ row.for = revRows[RowKey(entry)].for /\ row.moved = revRows[RowKey(entry)].moved
      <3>. DEFINE old == revRows[RowKey(entry)]
      <3>1. CASE Pick(entry)
        <4>1. PICK id \in entry.candidates : GiveInput(entry, [old EXCEPT !.picked = id])
          BY <3>1 DEF Pick
        <4>. HIDE DEF old
        <4>2. LET row == [old EXCEPT !.picked = id]
              IN DOMAIN row = DOMAIN old /\ row.for = old.for /\ row.moved = old.moved
          BY <2>3 DEF old
        <4>. QED BY <4>1, <4>2 DEF old
      <3>2. CASE TypeId(entry)
        <4>1. PICK text \in LocTyped : GiveInput(entry, [old EXCEPT !.typed = text])
          BY <3>2 DEF TypeId
        <4>. HIDE DEF old
        <4>2. LET row == [old EXCEPT !.typed = text]
              IN DOMAIN row = DOMAIN old /\ row.for = old.for /\ row.moved = old.moved
          BY <2>3 DEF old
        <4>. QED BY <4>1, <4>2 DEF old
      <3>. QED BY <2>1, <3>1, <3>2
    <2>5. revRows' = [revRows EXCEPT ![RowKey(entry)] = [row EXCEPT !.for = @ \cup {entry.ko}]]
      BY <2>4 DEF GiveInput
    <2>6. RowsOf(revRows', Entries)
      BY <1>0, <2>4, <2>5, InputIsFor
    <2>. QED BY <1>0, <2>2, <2>6 DEF RowInv, RowsOf, Entries, ProposalsKeepTheirLine
  <1>5. CASE \E entry \in Entries : submit(entry)
    <2>1. PICK entry \in Entries : submit(entry)
      BY <1>5
    <2>. DEFINE key == RowKey(entry)
                row == revRows[key]
                p == [override |-> proposeOverrideFromEntry(entry, chosenIds(row)),
                      for |-> row.for, moved |-> row.moved]
    <2>2. /\ UNCHANGED <<revLines, revRows, locFixtures, locSnapshot>> /\ chosenIds(row) # {}
          /\ revProposals' = revProposals \cup {p}
      BY <2>1 DEF submit, locInputs
    <2>3. key \in DOMAIN revRows /\ RowOK(row, Shown(Entries, key))
      BY <1>0, <1>1 DEF RowsOf
    <2>4. p.override.ko = entry.ko /\ p.for = row.for /\ p.moved = row.moved
      BY DEF proposeOverrideFromEntry
    <2>. HIDE DEF p, row
    <2>5. row.for # {}
      BY <2>2, <2>3 DEF RowOK, chosenIds
    <2>6. \A ko \in Shown(Entries, key) : ko = entry.ko
      <3>1. locFixtures \in PagesType /\ locSnapshot \in DataType
        BY DEF DataInv
      <3>. QED BY <1>0, <3>1, KeysShowOneText DEF Shown, Entries
    <2>7. entry.ko \in row.for \/ row.moved
      BY <2>3, <2>5, <2>6 DEF RowOK
    <2>8. ProposalsKeepTheirLine'
      BY <1>0, <2>2, <2>4, <2>7 DEF ProposalsKeepTheirLine
    <2>. QED BY <1>0, <2>2, <2>8 DEF RowInv, RowsOf, Entries
  <1>6. CASE UNCHANGED locVars
    BY <1>0, <1>6 DEF RowInv, RowsOf, Entries, ProposalsKeepTheirLine, locVars
  <1>. QED BY <1>2, <1>3, <1>4, <1>5, <1>6 DEF LocNext

LEMMA RowsHold == LocSpec => []RowInv
  BY DataHolds, RowsInitially, RowSteps, PTL DEF LocSpec

(* A proposed mapping carries a text its row showed while the reviewer gave the *)
(* ids, unless the row's key was given to another text in between: rows are     *)
(* keyed by place, and one key shows one text at a time.                        *)
THEOREM ProposalsHold == LocSpec => []ProposalsKeepTheirLine
  BY RowsHold, PTL DEF RowInv

-----------------------------------------------------------------------------
(* Every entry of a dictionary that was built is a term under its own id: an    *)
(* override that is no term stops the build, and the last one to name a domain  *)
(* is the one that decides it.                                                  *)
LEMMA BuiltTermsAreValid ==
  ASSUME NEW f \in PagesType, NEW snapshot \in DataType, NEW c \in Seq(LiveTerms),
         NEW ovs, Overridable(ovs), ~buildThrows(f, snapshot, ovs)
  PROVE  LET M == mergeCollected(buildDictionary(f, snapshot, ovs), c)
         IN \A id \in DOMAIN M : M[id].id = id /\ isValidTerm(M[id])
  <1>. DEFINE G == generatedTerms(f, snapshot)
              D == Seed(G)
              U == OverrideUpTo(D, ovs)
              n == Len(ovs)
              P == buildDictionary(f, snapshot, ovs)
              M == mergeCollected(P, c)
              I == importFromFixtures(f)
  <1>1. ~importThrows(f) /\ ~assembleThrows(G, ovs)
    BY DEF buildThrows
  <1>2. \A id \in DOMAIN D : \E t \in ToSet(I) : t.id = id /\ SeededFrom(D[id], snapshot, t)
    BY <1>1, SeededDictionary
  <1>3. P = U[n]
    BY DEF buildDictionary, assembleDictionary
  <1>4. \A i \in 1 .. n : isValidTerm(U[i][ovs[i].id])
    BY <1>1 DEF assembleThrows, Overridable
  <1>5. ASSUME NEW id \in DOMAIN D
        PROVE  /\ D[id].id = id /\ isValidTerm(D[id])
               /\ HandFields \cup {"aliasesEn"} \subseteq DOMAIN D[id]
    <2>1. PICK t \in ToSet(I) : t.id = id /\ SeededFrom(D[id], snapshot, t)
      BY <1>2
    <2>2. PICK d \in ToSet(PAGES) : \E us \in ToSet(f.us[d]) : t = Paired(f, d, us)
      BY ImportedTerms
    <2>3. t.domain \in LOCALIZATION_DOMAINS
      BY <1>1, <2>2, PairedTerms DEF TermOf
    <2>. HIDE DEF D, I
    <2>. QED BY <2>1, <2>3 DEF SeededFrom, isValidTerm, TERM_SOURCES
  <1>. HIDE DEF P, M, D, U, I, G
  <1>6. n \in Nat /\ \A k \in 0 .. n : Patched(D, ovs, k, U[k])
    BY <1>5, OverridesHold DEF Overridable, U
  <1>. HIDE DEF n
  <1>7. ASSUME NEW id \in DOMAIN P PROVE P[id].id = id /\ isValidTerm(P[id])
    <2>1. PatchedEntry(D, ovs, n, id, P[id])
      BY <1>3, <1>6 DEF Patched
    <2>2. CASE NamedIn(ovs, n, id) = {}
      BY <1>5, <2>1, <2>2 DEF PatchedEntry
    <2>3. CASE NamedIn(ovs, n, id) # {}
      <3>1. P[id].id = id /\ P[id].source = "manual" /\ P[id].confidence = "manual"
        BY <2>1, <2>3 DEF PatchedEntry
      <3>. DEFINE S == SetIn(ovs, n, id, "domain")
      <3>2. "domain" \in HandFields
        BY DEF HandFields
      <3>3. CASE S = {}
        <4>1. P[id].domain = IF id \in DOMAIN D THEN D[id].domain ELSE FreshTerm.domain
          BY <2>1, <3>2, <3>3 DEF PatchedEntry
        <4>2. P[id].domain \in LOCALIZATION_DOMAINS
          BY <1>5, <4>1 DEF isValidTerm, FreshTerm, LOCALIZATION_DOMAINS
        <4>. QED BY <3>1, <4>2 DEF isValidTerm, TERM_CONFIDENCES, TERM_SOURCES
      <3>4. CASE S # {}
        <4>1. S \in SUBSET (1 .. n)
          BY DEF SetIn, NamedIn
        <4>2. PICK i \in S : \A j \in S : j <= i
          BY <1>6, <3>4, <4>1, GreatestPlace
        <4>3. i \in 1 .. n /\ ovs[i].id = id /\ "domain" \in DOMAIN ovs[i]
          BY DEF SetIn, NamedIn
        <4>4. P[id].domain = ovs[i].domain
          BY <2>1, <3>2, <4>2 DEF PatchedEntry
        <4>5. /\ i \in SetIn(ovs, i, id, "domain")
              /\ \A j \in SetIn(ovs, i, id, "domain") : j <= i
          <5>1. i \in 1 .. i
            BY <1>6, <4>3
          <5>. QED BY <1>6, <4>3, <5>1 DEF SetIn, NamedIn
        <4>6. Patched(D, ovs, i, U[i])
          BY <1>6, <4>3
        <4>7. id \in DOMAIN U[i]
          <5>1. i \in 1 .. i
            BY <1>6, <4>3
          <5>. QED BY <4>3, <4>6, <5>1 DEF Patched
        <4>8. U[i][id].domain = ovs[i].domain
          BY <3>2, <4>5, <4>6, <4>7 DEF Patched, PatchedEntry
        <4>9. isValidTerm(U[i][id])
          BY <1>4, <4>3 DEF n
        <4>10. P[id].domain \in LOCALIZATION_DOMAINS
          BY <4>4, <4>8, <4>9 DEF isValidTerm
        <4>. QED BY <3>1, <4>10 DEF isValidTerm, TERM_CONFIDENCES, TERM_SOURCES
      <3>. QED BY <3>3, <3>4
    <2>. QED BY <2>2, <2>3
  <1>8. \A i \in 1 .. Len(c) : isValidTerm(c[i])
    <2>1. \A i \in 1 .. Len(c) : c[i] \in LiveTerms
      BY ElementOfSeq
    <2>2. \A t \in LiveTerms : isValidTerm(t)
      BY DEF LiveTerms, isValidTerm, TERM_CONFIDENCES, TERM_SOURCES
    <2>. QED BY <2>1, <2>2
  <1>9. \A id \in DOMAIN M : \/ id \in DOMAIN P /\ M[id] = P[id]
                             \/ \E i \in 1 .. Len(c) : c[i].id = id /\ M[id] = c[i]
    BY LenProperties, MergeHolds DEF M
  <1>10. \A id \in DOMAIN M : M[id].id = id /\ isValidTerm(M[id])
    BY <1>7, <1>8, <1>9
  <1>. QED BY <1>10 DEF M, P

(* Types of the localization library: the dictionary on disk holds valid terms  *)
(* under their ids, the panel has one row per entry, and no proposal is empty.  *)
THEOREM LocTypes == LocSpec => []LocTypeOK
  <1>1. DataInv /\ RowInv => LocTypeOK
    <2>. SUFFICES ASSUME DataInv, RowInv PROVE LocTypeOK
      OBVIOUS
    <2>1. ASSUME NEW id \in DOMAIN locDict
          PROVE  locDict[id].id = id /\ isValidTerm(locDict[id])
      <3>1. Built
        <4>1. DOMAIN <<>> = {}
          OBVIOUS
        <4>. QED BY <4>1 DEF DataInv
      <3>2. BuiltFrom(locBuilt[1], locBuilt[2], locBuilt[3], locBuilt[4], locDict)
        BY <3>1 DEF DataInv
      <3>. QED BY <3>2, BuiltTermsAreValid DEF BuiltFrom
    <2>. QED BY <2>1 DEF LocTypeOK, DataInv, RowInv, RowsOf
  <1>. QED BY <1>1, DataHolds, RowsHold, PTL
=============================================================================

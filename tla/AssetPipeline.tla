--------------------------- MODULE AssetPipeline ----------------------------
(***************************************************************************)
(* Icons on their way into a release: pages are collected through a cache, *)
(* the icons they name are downloaded by a pool into another cache, a      *)
(* manifest records a digest per icon, and staging verifies and copies     *)
(* what the manifest names.  Each script may die between two of its writes *)
(* and be run again.  A file is its bytes: whole, or a part of the url's.  *)
(***************************************************************************)
EXTENDS Collections, SequencesExt, FiniteSets

CONSTANTS
  SitePages,     \* the site over time: a sequence of cards per locale and path
  AssetPaths,    \* the keys of DOMAINS, in order: [path, domain]
  KeyLists,      \* what a run may be asked to collect: the places of its keys
  IdOrder,       \* the ids of the site, in the order of localeCompare
  IconWorkers,   \* the pool's size
  MaxAssetSteps  \* bound on the scripts started and the deaths in a behaviour

Paths == {AssetPaths[i].path : i \in DOMAIN AssetPaths}
Urls == [host : STRING, base : STRING]
Cards == [slug : STRING, icon : Urls]

Distinct(list) == \A i, j \in DOMAIN list : list[i] = list[j] => i = j

ASSUME AssetAssumption ==
  /\ IconWorkers \in Nat \ {0}
  /\ AssetPaths \in Seq([path : STRING, domain : STRING])
  /\ SitePages \in Seq([{"kr", "us"} \X Paths -> Seq(Cards)]) /\ SitePages # <<>>
  /\ \A keys \in KeyLists : keys \in Seq(DOMAIN AssetPaths) /\ Distinct(keys)
  /\ IdOrder \in Seq(STRING \X STRING) /\ Distinct(IdOrder)

SlugsOf(pages, i) ==
  LET page == pages[<<"kr", AssetPaths[i].path>>] IN {page[k].slug : k \in DOMAIN page}

(* Two paths may feed one domain, as Skill_Gems and Spirit_Gems do; the slugs   *)
(* they list never meet, then and now.                                          *)
ASSUME SlugsAreApart ==
  \A i, j \in DOMAIN AssetPaths : \A s, t \in DOMAIN SitePages :
    i # j /\ AssetPaths[i].domain = AssetPaths[j].domain
      => SlugsOf(SitePages[s], i) \cap SlugsOf(SitePages[t], j) = {}

ASSUME OrderIsTotal ==
  \A i \in DOMAIN AssetPaths : \A t \in DOMAIN SitePages : \A slug \in SlugsOf(SitePages[t], i) :
    <<AssetPaths[i].domain, slug>> \in ToSet(IdOrder)

VARIABLES
  site,        \* what poe2db serves now
  pageCache,   \* .cache/poe2db
  iconTerms,   \* generated/collected-poe2db.json: terms in order of their ids
  iconCache,   \* .cache/icons
  download,    \* the run of download-icons, if one is going on
  manifest,    \* asset-manifest.json
  staging,     \* the run of stage-assets, if one got past the gate
  staged,      \* the resource directory: its files, and its index if one was written
  stagedFrom,  \* history: the manifest of the last staging that ended, none if one
               \* died since
  iconUrls,    \* history: the urls downloaded, with the domain they were filed under
  assetSteps

stagingVars == <<staging, staged, stagedFrom>>

assetVars == <<site, pageCache, iconTerms, iconCache, download, manifest, stagingVars,
               iconUrls, assetSteps>>

NoUrl == [host |-> "", base |-> ""]
Idle == [going |-> FALSE]
Bytes(url) == [of |-> url, whole |-> TRUE]
Part(url) == [of |-> url, whole |-> FALSE]

(* sha256 tells bytes apart, and nothing else. *)
sha256(bytes) == bytes

-----------------------------------------------------------------------------
(* Collecting.  Every page parser keeps the first card of a slug. *)
parseCards(page) ==
  Picked(page, {i \in DOMAIN page : \A j \in 1 .. i - 1 : page[j].slug # page[i].slug})

(* A term per kr card that has a us card; the kr icon first. *)
pairCards(krCards, usCards, domain) ==
  LET us(card) == {j \in DOMAIN usCards : usCards[j].slug = card.slug}
      paired == Picked(krCards, {i \in DOMAIN krCards : us(krCards[i]) # {}})
  IN [i \in DOMAIN paired |->
        [id |-> <<domain, paired[i].slug>>, domain |-> domain,
         url |-> IF paired[i].icon # NoUrl THEN paired[i].icon
                 ELSE usCards[CHOOSE j \in us(paired[i]) : TRUE].icon]]

(* The pages of a run, kr before us, key by key. *)
PageList(keys) == FlattenSeq([k \in DOMAIN keys |->
  <<<<"kr", AssetPaths[keys[k]].path>>, <<"us", AssetPaths[keys[k]].path>>>>])

fetchCached(cache, page) == IF page \in DOMAIN cache THEN cache[page] ELSE site[page]

Fetched(cache, pages, n) ==
  [page \in DOMAIN cache \cup {pages[i] : i \in 1 .. n} |-> fetchCached(cache, page)]

CardsOf(cache, locale, i) == parseCards(cache[<<locale, AssetPaths[i].path>>])

NoCards(cache, i) == <<>> \in {CardsOf(cache, "kr", i), CardsOf(cache, "us", i)}

collectedTerms(cache, keys) ==
  FlattenSeq([k \in DOMAIN keys |->
    LET i == keys[k]
    IN pairCards(CardsOf(cache, "kr", i), CardsOf(cache, "us", i), AssetPaths[i].domain)])

(* terms.sort by id: which domain a url of two is filed under depends on it. *)
SortedById(terms) ==
  FlattenSeq([i \in DOMAIN IdOrder |->
    Picked(terms, {k \in DOMAIN terms : terms[k].id = IdOrder[i]})])

-----------------------------------------------------------------------------
(* Downloading. *)

(* Bug: the file is named after the url alone. *)
localNameBare(domain, url) == <<"icons", url.base>>

localName(domain, url) == <<domain, url.base>>

(* The urls, in the order their first terms have, each with that term's domain. *)
IconJobs(terms) ==
  LET firsts == Picked(terms, {i \in DOMAIN terms :
        terms[i].url # NoUrl /\ \A j \in 1 .. i - 1 : terms[j].url # terms[i].url})
  IN [k \in DOMAIN firsts |-> [url |-> firsts[k].url, domain |-> firsts[k].domain,
                               name |-> localName(firsts[k].domain, firsts[k].url)]]

Asset(term, file) ==
  [id |-> term.id, localPath |-> file.localPath, sha |-> file.sha, licenseStatus |-> "allowed",
   url |-> term.url]

(* An asset per term whose icon was resolved. *)
ManifestOf(terms, fileFor) ==
  {Asset(terms[i], fileFor[terms[i].url]) :
     i \in {k \in DOMAIN terms : terms[k].url \in DOMAIN fileFor}}

-----------------------------------------------------------------------------
(* Bug: the digest is not compared with the cached bytes. *)
validateManifestUnhashed(assets, cache) ==
  \A a \in assets : a.licenseStatus = "allowed" /\ a.localPath \in DOMAIN cache

(* The gate with its integrity check. *)
validateManifest(assets, cache) ==
  \A a \in assets :
    /\ a.licenseStatus = "allowed"
    /\ a.localPath \in DOMAIN cache
    /\ sha256(cache[a.localPath]) = a.sha

IndexOf(assets) ==
  [id \in {a.id : a \in assets} |-> (CHOOSE a \in assets : a.id = id).localPath]

-----------------------------------------------------------------------------
AssetInit ==
  /\ site = SitePages[1]
  /\ pageCache = <<>> /\ iconTerms = <<>> /\ iconCache = <<>>
  /\ download = Idle /\ staging = Idle
  /\ manifest = {}
  /\ staged = [files |-> <<>>, index |-> <<>>]
  /\ stagedFrom = {} /\ iconUrls = {}
  /\ assetSteps = 0

AssetStep == assetSteps < MaxAssetSteps /\ assetSteps' = assetSteps + 1

SiteChanges ==
  /\ AssetStep
  /\ \E i \in DOMAIN SitePages : site # SitePages[i] /\ site' = SitePages[i]
  /\ UNCHANGED <<pageCache, iconTerms, iconCache, download, manifest, stagingVars, iconUrls>>

(* A run of collect-live gets through the first n pages of its keys.  It stops  *)
(* early when a key has no cards or a fetch fails, and may die while it writes a *)
(* page.  What it collects replaces what an earlier run did, of other keys too. *)
Collect ==
  /\ AssetStep
  /\ \E keys \in KeyLists : \E n \in 0 .. Len(PageList(keys)) :
       LET pages == PageList(keys)
           got == Fetched(pageCache, pages, n)
           stopped == \E k \in DOMAIN keys : 2 * k <= n /\ NoCards(got, keys[k])
       IN /\ \A k \in DOMAIN keys : 2 * k < n => ~NoCards(got, keys[k])
          /\ IF stopped THEN pageCache' = got /\ UNCHANGED iconTerms
             ELSE IF n = Len(pages)
               THEN pageCache' = got /\ iconTerms' = SortedById(collectedTerms(got, keys))
             ELSE /\ pages[n + 1] \notin DOMAIN pageCache
                  /\ pageCache' \in {got, Put(got, pages[n + 1],
                                     SubSeq(site[pages[n + 1]], 1, Len(site[pages[n + 1]]) - 1))}
                  /\ UNCHANGED iconTerms
  /\ UNCHANGED <<site, iconCache, download, manifest, stagingVars, iconUrls>>

StartDownload ==
  /\ AssetStep /\ ~download.going
  /\ \E noFetch \in BOOLEAN :
       download' = [going |-> TRUE, noFetch |-> noFetch, terms |-> iconTerms,
                    todo |-> IconJobs(iconTerms), fetching |-> {}, fileFor |-> <<>>]
  /\ UNCHANGED <<site, pageCache, iconTerms, iconCache, manifest, stagingVars, iconUrls>>

IconResolved(job, bytes) ==
  Put(download.fileFor, job.url, [localPath |-> job.name, sha |-> sha256(bytes)])

(* A worker of the pool takes the next url: a cached file is read at once. *)
TakeJob ==
  /\ download.going /\ download.todo # <<>>
  /\ Cardinality(download.fetching) < IconWorkers
  /\ LET job == Head(download.todo)
         rest == [download EXCEPT !.todo = Tail(@)]
     IN /\ download' = IF job.name \in DOMAIN iconCache
                         THEN [rest EXCEPT !.fileFor = IconResolved(job, iconCache[job.name])]
                       ELSE IF download.noFetch THEN rest
                       ELSE [rest EXCEPT !.fetching = @ \cup {job}]
        /\ iconUrls' = iconUrls \cup {job}
  /\ UNCHANGED <<site, pageCache, iconTerms, iconCache, manifest, stagingVars, assetSteps>>

(* An answer comes, in any order: the file is written, or the icon given up. *)
IconAnswered ==
  /\ download.going
  /\ \E job \in download.fetching :
       \/ /\ iconCache' = Put(iconCache, job.name, Bytes(job.url))
          /\ download' = [download EXCEPT !.fetching = @ \ {job}, !.fileFor = IconResolved(job, Bytes(job.url))]
       \/ download' = [download EXCEPT !.fetching = @ \ {job}] /\ UNCHANGED iconCache
  /\ UNCHANGED <<site, pageCache, iconTerms, manifest, stagingVars, iconUrls, assetSteps>>

FinishDownload ==
  /\ download.going /\ download.todo = <<>> /\ download.fetching = {}
  /\ manifest' = ManifestOf(download.terms, download.fileFor)
  /\ download' = Idle
  /\ UNCHANGED <<site, pageCache, iconTerms, iconCache, stagingVars, iconUrls, assetSteps>>

(* The run dies, perhaps in the middle of a file. *)
DownloadDies ==
  /\ AssetStep /\ download.going
  /\ download' = Idle
  /\ \/ UNCHANGED iconCache
     \/ \E job \in download.fetching : iconCache' = Put(iconCache, job.name, Part(job.url))
  /\ UNCHANGED <<site, pageCache, iconTerms, manifest, stagingVars, iconUrls>>

(* The legal review takes an asset back in the checked-in manifest. *)
Relicense ==
  /\ AssetStep
  /\ \E a \in manifest :
       manifest' = (manifest \ {a}) \cup {[a EXCEPT !.licenseStatus = "do_not_bundle"]}
  /\ UNCHANGED <<site, pageCache, iconTerms, iconCache, download, stagingVars, iconUrls>>

(* The gate lets the manifest it read through as a whole, or the run ends.  A    *)
(* dry run would change nothing.                                                *)
StartStaging ==
  /\ AssetStep /\ ~staging.going
  /\ validateManifest(manifest, iconCache)
  /\ staging' = [going |-> TRUE, assets |-> manifest, todo |-> manifest]
  /\ UNCHANGED <<site, pageCache, iconTerms, iconCache, download, manifest, staged, stagedFrom, iconUrls>>

(* The bytes are the cache's when they are copied, not when they were verified. *)
CopyAsset ==
  /\ staging.going
  /\ \E a \in staging.todo :
       /\ staged' = [staged EXCEPT !.files = Put(@, a.localPath, iconCache[a.localPath])]
       /\ staging' = [staging EXCEPT !.todo = @ \ {a}]
  /\ UNCHANGED <<site, pageCache, iconTerms, iconCache, download, manifest, stagedFrom, iconUrls,
                 assetSteps>>

FinishStaging ==
  /\ staging.going /\ staging.todo = {}
  /\ staged' = [staged EXCEPT !.index = IndexOf(staging.assets)]
  /\ stagedFrom' = staging.assets
  /\ staging' = Idle
  /\ UNCHANGED <<site, pageCache, iconTerms, iconCache, download, manifest, iconUrls, assetSteps>>

(* The run dies before it wrote the index, perhaps in the middle of a copy. *)
StagingDies ==
  /\ AssetStep /\ staging.going
  /\ staging' = Idle /\ stagedFrom' = {}
  /\ \/ UNCHANGED staged
     \/ \E a \in staging.todo :
          staged' = [staged EXCEPT !.files = Put(@, a.localPath, Part(iconCache[a.localPath].of))]
  /\ UNCHANGED <<site, pageCache, iconTerms, iconCache, download, manifest, iconUrls>>

AssetNext ==
  \/ SiteChanges \/ Collect
  \/ StartDownload \/ TakeJob \/ IconAnswered \/ FinishDownload \/ DownloadDies
  \/ Relicense
  \/ StartStaging \/ CopyAsset \/ FinishStaging \/ StagingDies

AssetSpec == AssetInit /\ [][AssetNext]_assetVars

-----------------------------------------------------------------------------
AssetTypeOK ==
  /\ DOMAIN pageCache \subseteq {"kr", "us"} \X Paths
  /\ download.going => Cardinality(download.fetching) <= IconWorkers
  /\ {staged.index[id] : id \in DOMAIN staged.index} \subseteq DOMAIN staged.files

(* What a staging that ended left in the resource directory is what the manifest *)
(* it read recorded: each indexed file has the digest of its asset, and every    *)
(* asset was allowed, whatever a download writes to the cache between the        *)
(* verification and the copies, and while a next staging copies over the files   *)
(* (asset-gate.mjs:45, stage-assets.mjs:40, :60, download-icons.mjs:75).         *)
StagedAsRecorded ==
  \A a \in stagedFrom :
    /\ a.licenseStatus = "allowed"
    /\ staged.index[a.id] = a.localPath
    /\ sha256(staged.files[a.localPath]) = a.sha

(* An asset has the icon of its own url, or what a run that died left of it,    *)
(* unless another url of its domain has the same file name: the cache is trusted *)
(* by name alone, and the digest is taken from it (download-icons.mjs:30, :64).  *)
IconsAreTheirOwn ==
  \A a \in manifest :
    \/ a.sha.of = a.url
    \/ \E one, other \in iconUrls :
         /\ one.url = a.url /\ other.url = a.sha.of /\ one # other
         /\ one.domain = other.domain /\ one.url.base = other.url.base
=============================================================================

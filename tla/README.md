# A verification model of pob2-remastered

This directory holds TLA+ modules that model the program in `src/`, TLC
configurations that check them on small instances, and theorems about them
checked by TLAPS. Paths below are relative to `src/`.

## The system

A desktop client of Path of Building 2. A React front end runs in a Tauri
WebView; the Rust host owns one LuaJIT child process, the *runner*; the runner
hosts the vendored calculation core (a git submodule, empty here) behind a small
API. Front end, host and runner speak JSON-RPC 2.0, one frame per line over the
runner's stdin and stdout. Node tools drive the same runner through a client of
their own.

    React state  --invoke-->  core_request  --stdin-->   runner.lua dispatch
    (App.tsx)                 (mutex, CoreBridge)        modern_api.lua
         <--promise--               <--stdout--          vendored core

    Node tests and tools --> RunnerClient --stdin/stdout--> the same runner

### Inventory

| Component | State it keeps | Operations | Interacts with | Hard behaviour | What makes it correct |
|---|---|---|---|---|---|
| Core API and runner, `overlays/lua` | booted, id counter, active id, one live build, the computed output | fifteen methods, boot, dispatch | host or Node client, one line at a time | a load replaces the live build before it is known to succeed; setters write before they recalculate; calc.run recomputes nothing | a handle never serves another document; a saved file holds what was acknowledged |
| Desktop host bridge, `src-tauri` | the mutex, the slot with the runner process, the next id | core_request, start, exchange, teardown | WebView callers, three pipes | the runner exits at any moment; ids are not compared; stderr is not drained; no timeout | answers match requests; no orphan process; a loss is reported once; every request is answered |
| Node runner client, `runner-client.ts` | child, pending map and order, dead, disposed | start, call, sendRaw, dispose; six callbacks | the runner | pipelining, replies without an id, timeouts racing replies and exits | each call settles once, with its own reply or an error |
| Build session and App, `build-session.ts`, `App.tsx` | the build id; some ten pieces of React state; the hover timer | open, config, preset, toggle, allocate, explain, hover, paste, save | core_request | handlers overlap at every await; a failed handler leaves what it has set | panels agree with the core; the baseline is the state before the edit |
| Core client facade, `core-client/src/index.ts`; desktop client, `core-ipc-client.ts` | none: one call, one answer | fifteen typed methods: what is sent, how the answer is assembled, what is refused | the runner through `RunnerClient`, or through core_request | the same assembly written twice, by hand, against loose JSON | both give the caller the same answer, of the promised type |
| Schema package, `packages/schema` | none | the TypeScript types and the JSON schemas of the Core API | both clients | two tables of the same contract | the schemas accept what the types promise |
| Calcs panel, `CalcsPanel.tsx`, `calcs-model.ts` | open rows, folded sections, one debounce timer | open, fold, leave, request a trace | the explain handler of the App | one timer for all rows; an edit clears the traces | an open row gets its trace |
| Passive tree, `tree-model.ts`, `tree-transform.ts`, `TreeCanvas.tsx` | viewport, drag, hover, query | two transforms, path preview, pan, zoom, click, search | tree panel, core answers | graph search; handlers that read the viewport of the last render | one graph whichever file drew it; a shortest way; what was grabbed stays under the cursor |
| Items tab | grid, library of two scopes, selection, slot filter, calls in flight | import, create, select, filter | core | answers in any order | created items are kept; an import shows one answer |
| Config, skills and overview tabs | option cards, preset being applied, gem rows | apply preset, change option, edit gems | core | overlapping loops of awaited writes | the last choice is applied |
| Command palette | open, query, highlight, commands | type, arrows, Enter, click | App | commands replaced while it is open | Enter runs the marked command |
| Updater, `updater.ts`; channels, `release-channels.ts` | the host's UpdaterState; what is staged and active on disk; one run's locals | resolve a feed; download, verify, stage, smoke-test, activate; rollback | injected environment | any call may reject, before or after its effect | one tested version is switched to, in one step |
| Localization, `packages/localization`; review queue | dictionary, overrides, rows, proposals | import, match, override, merge, grade; pick, type, submit | UI labels, scripts | layers that change independently, precedence | reviews survive rebuilds, nothing is guessed, no name is lost |
| Asset pipeline, scripts of `packages/localization` and `asset-gate.mjs` | page cache, icon cache, manifest, staged files | collect, download (a pool), stage | two web sites, the release | a script dies between two writes; names collide | staged files are as recorded; an icon is its own |
| Development workflow, `phase-pipeline.mjs`, `run-gate.mjs` | plan, results, gate | order tasks, implement, gate, review | agents, shell | cycles, doubled ids, timeouts | a phase passes only when whole |
| Upstream sync, share codes, crash report, diagnostics, file bridge, golden tests, visual verification, packaging | none of their own | formatting, I/O, tables of patterns | the above | | |

`PROJECT.json` lists every component with its status, and under `hazards` the
places that are hard to test, each at its line.

## The modules

| Module | Models | Its state | Its actions |
|---|---|---|---|
| `CoreApi` | `modern_api.lua` behind `runner.lua` dispatch | a record: booted, counter, active id, live document, inputs, inputs the output was computed from | none: `Outcomes(c, method, id, arg)` is the set of (state after, reply) a request line can produce, one operator per method |
| `CoreHost` | `lib.rs` core_request, `core_bridge.rs`, the process and its pipes; extends `CoreApi` | mutex, program counter of its holder, slot, runner, pipes, core | Invoke and Acquire per caller; Spawn, Started, Send, Receive and their failures for the holder; Handle and Crash for the runner |
| `MCCoreHost` | symmetry for TLC | | |
| `CoreService` | what a caller of core_request may take the core for: one that serves a request in one step, whoever else asks | what each caller asks, the core, the last answer of each | Ask, Forget, ServeOne, Lose, TurnDown |
| `HostService` | `CoreHost` as its callers see it; implements `CoreService` | history: the core as the answers read so far left it, as the last line handled left it, and each caller's last answer | those of `CoreHost`, grouped by what a caller learns: Asks, Moves, RunnerHandles, Refuses, Hears, Loses |
| `CoreHostProofs` | theorems about `CoreHost` and `HostService` | | |
| `CallContract` | what a client of the runner promises about a call | status per call, closed | Open, Refuse, Answer, Fail, Close |
| `RunnerClient` | class RunnerClient and the runner it spawns; implements `CallContract` | the client's fields, a fate per call, processes, two pipes | Start, Call, Dispose; OnFrame, OnGarbage, Timeout, WriteFails, ChildGone; RunnerReads, RunnerPrints, Exits |
| `RunnerClientProofs` | theorems about `RunnerClient` | | |
| `AppSession` | `App.tsx` and `build-session.ts` over `CoreApi`; a client of `CoreService` | core, build id, React state, hover timer, the handler in each slot | one action per handler start, one per awaited method's continuation, Respond, RunnerLost, Reject |
| `MCAppSession` | gem lists, payloads, symmetry for TLC | | |
| `AppSessionProofs` | theorems about `AppSession` | | |
| `Updater` | `runUpdate`, `rollback`, the channel table; implements `AtomicUpdate` | the host's record, the disk, the run (its `pc` is the call awaited), what rejected calls left | Check, Downloaded, Staged, SmokeTested, Activated, Discarded, Throws |
| `AtomicUpdate` | what an update is promised to be | active version, vetted version | Vet, Drop, Adopt |
| `Collections`, `CollectionsProofs` | what JavaScript's `Map`, object spread and `filter` do, in definitions the prover can open; lemmas about them | | none |
| `CoreShapes` | JSON values; the types of `core-api.ts` and the schemas of `schemas/index.ts`, each a predicate on them | | none: `CoreRequestMap` and `CoreResponseMap`, `validRequest` and `validResponse` |
| `CoreClient`, `CoreIpcClient` | the two clients: parameters sent, answers assembled, refusals | | none: `Sent`, `Answer` and a helper per assembler |
| `CoreClients` | both clients on one reply that `modern_api.lua` can serialize (`Serialized`); constants: the arguments tried and the replies | the last exchange | Exchange |
| `MCCoreClients` | sample replies of every method for TLC | | |
| `CoreClientsProofs` | theorems about `CoreClients` | | |
| `TreeGraph` | `toRenderGraph`, `treeResponseToGraph`, `previewPath` | input, both graphs, a preview | LoadTree, Preview |
| `TreeCanvas` | `TreePanel` and `TreeCanvas` mouse handling | viewport, the one rendered, refs, cursor | one per handler; Render |
| `CalcsTab` | `CalcsPanel.tsx`, `calcs-model.ts` | traces, open rows, folded sections, the timer | handleToggle, ToggleSection, LeaveCalcs, ExplainTimerFires, Explained, EditEnds |
| `ItemsTab` | `ItemsPanel.tsx`, `useItemsTab.ts`, library and grid models | grid, selection, scope, created items, calls in flight | one per handler; Parsed, Created, CallRejected |
| `BuildTabs` | config, skills and overview models and panels | the core's options, cards, loops of writes, gem rows, warnings | handleApplyPreset, onChangeOption, WriteAnswered, HandlerRejects, OptionsServed, OptionsAnswered, EditGems |
| `CommandPalette` | `CommandPalette.tsx`, `search.ts` | open, query, highlight, commands | one per key or click; CommandsChange |
| `LocalTerms` | import, match, override, merge, search, coverage | | none: pure operators |
| `LocalizationPipeline` | `build-dictionary.mjs` run again and again, and the review panel | inputs, dictionary, rows, proposals | InputsChange, Build, ShowLines, Pick, TypeId, submit |
| `AssetPipeline` | `collect-live`, `download-icons`, `stage-assets`, `asset-gate` | site, caches, download pool, manifest, staging | SiteChanges, Collect, StartDownload, TakeJob, IconAnswered, FinishDownload, DownloadDies, Relicense, StartStaging, CopyAsset, FinishStaging, StagingDies |
| `PhasePipeline` | `phase-pipeline.mjs`, `run-gate.mjs` | plan, results, gate | Implement, Gate, Review |
| `PanelProofs` | theorems about `ItemsTab`, `CalcsTab`, `BuildTabs`, `CommandPalette`, `TreeCanvas`, `TreeGraph` | | |
| `LocalizationProofs` | theorems about `LocalTerms` and `LocalizationPipeline` | | |
| `RecordKeepers` | the updater, localization, the assets and the build tabs side by side, for the types of their records | | |
| `PipelineProofs` | theorems about `Updater`, `AssetPipeline`, `PhasePipeline`, `RecordKeepers` | | |
| `MCComponents` | instances of the modules from `Updater` down, for TLC | `focus` | one per component |

`CoreApi` is written as operators and not as a machine because the runner
handles one line to the end before it reads the next; both `CoreHost` and
`AppSession` put it where the code does, behind the host. The two meet in
`CoreService`: `HostService` shows that `CoreHost` implements it, and `AppSession`
that its handlers run on it. So the mutex, the pipes and the respawns need not be
part of the state space in which handlers interleave. That `AppSession` leaves
out none of the service's answers is read off its two actions: `Respond` ranges
over every outcome that does not cost the core, `RunnerLost` stands for both
codes that do, and its handlers send no method or frame that is turned down. In
the same way `CoreClients` takes the transport of
`RunnerClient` and of the host as delivering the reply it asked for, and models
what each client makes of it.

The eleven components of `MCComponents` share no state in the program. Checking
their product would multiply their state spaces without adding a behaviour, so
`focus` names, from the initial state on, the one component that takes steps;
the others stay in one initial state. Every property of a component is thus
checked over all of that component's behaviours.

Abstractions. A document is a model value. The editable inputs of a build are
one gem group's list, one configuration value and the set of nodes allocated
since load; a reply carries the build and the inputs it reflects. What the
vendored core decides is a choice. Build ids are numbers (`n` for `build-n`).
Some methods have more error paths than the model tells apart: the codes are
the ones the handler can answer with, the condition is a choice. Allocating a
node allocates the path to it; the path is part of the node here.

In the modules about data a text is a word with the way it is spelt, an icon a
host and a file name, a JSON value a tagged record; in `TreeCanvas` only the
horizontal axis is kept, a wheel notch doubles or halves the scale, and lengths
are fifths of a pixel. A loop over a list is a recursive function of the number
of elements done (`SeedUpTo`, `SweepsUpTo` and their like). An object's
fields are a function from their names; a field that is not there reads as
`Undefined`, as it does in JavaScript.

In `CoreHost` three variables are history: `granted` (handles returned by
loads), `believed` (per handle, the inputs the answers so far leave possible)
and `reports` (answers that reported the loss of a runner); `last` is the latest
answer. In `RunnerClient`, `by` is the call whose line produced the settling
reply. In `AppSession`, `clean` and `before` say when the agreement below is
claimed and what the baseline should be. In `Updater`, `updDirty` is history:
what a rejected call may have left behind. The history variables of the other
components are marked so where they are declared.

## The runs

All runs set `CHECK_DEADLOCK FALSE`: the requests, calls and handlers of a
behaviour are bounded, and it ends when they are used up.

| Run | Instance | Checks |
|---|---|---|
| `core_host` | 2 callers, 4 requests, 2 runners, 2 documents and 3 that are refused, 2 nodes, stderr of one chunk; 11 methods, one of each shape, one not allowlisted | `TypeOK`, `AnswersMatchRequests`, `NoOrphanRunner`, `ExactlyOneLossReport`, `RepliesServeOwnBuild`, `SavedFileFollowsTheAnswers` |
| `core_host_live` | 2 callers, 3 requests, no symmetry, over `HostService` | `AnsweredUnlessWedged`, `ServesAtomically` (refinement) |
| `runner_client` | 4 calls, handshakes included, over 2 starts; five kinds of line, all but blank ones and ones with another call's id | `TypeOK`, `QueueIsThePendingMap`, `KeepsContract` (refinement), `EveryCallSettles` |
| `app_session` | 3 handlers, 2 at a time, two gems with one `gemId`, one node, an option edit and a preset of two | `TypeOK`, `SettledViewMatchesCore`, `BaselineIsTheStateBefore` |
| `components` | see the next table | twenty-four invariants and the refinement of `AtomicUpdate` |

| Component in `components` | Instance | Properties: what they say |
|---|---|---|
| updater | 2 versions, 3 updates, every call may reject | `OnlyAThrowLeavesSomethingBehind`, `ActivatesWhatWasTested`, `SwitchesAtomically` |
| clients | every method, every reply with each optional field there or not, error replies | `ClientsAgree`: when Node resolves, so does the desktop, equally; `ResolvesToItsType`: what a client resolves to fits the TypeScript type; `CompleteAnswersAreAccepted`: a complete answer is refused by no schema |
| tree | 4 nodes, 24 wirings with a stray id, 4 allocations | `TransformsAgree`: the two files draw one graph; `PreviewIsAShortestWay` |
| canvas | 3 nodes, 4 cursor positions, 5 events | `ClicksAreNotPans`, `PanKeepsWhatItHolds` |
| calcs | 3 stats, 2 of them open and shut, 4 steps | `OpenRowsAreServed`: an open row has its trace, or one is on its way |
| items | 2 locales, 3 calls | `CreatedItemsAreKept`, `ImportShowsOneAnswer` |
| localization | 3 fixtures, 2 snapshots, 2 live collections, 3 overrides, 4 steps | `ReviewedMappingsWin`, `NoGuessIsApplied`, `NamesAreNeverLost`, `DashboardAgreesWithGate`, `ProposalsKeepTheirLine` |
| assets | 3 states of the site, names that collide within and across domains, an icon two domains share, one domain asked for or both, 2 workers, 6 steps | `StagedAsRecorded`, `IconsAreTheirOwn` |
| tabs | 3 presets, 6 options of 4 types, one text typed, 2 gems, 3 steps | `LastChoiceIsApplied`, `OneChipPerGem` |
| phase | a chain written backwards, a cycle, an id given twice; a required gate and another | `PassedPhasesAreWhole` |
| palette | 2 lists of commands, 3 queries, 5 keys | `EnterRunsTheMarkedOption` |

Why these bounds are enough to be of use. In `core_host`, four requests let one
caller load, edit, load another document and save, with the second caller in
between; two runners let a loss and a respawn happen with handles of both
around; one stderr chunk makes both the blocked and the unblocked runner happen.
For `CoreHost`'s safety properties the bounds do not matter in the end: they are
proved for all values. In `runner_client`, four calls are a handshake and three
pipelined ones, enough for a reply without an id to meet a queue whose head was
removed by a timeout, an error or an earlier reply. In `app_session`, three
handlers are an open and two edits, or an edit that overlaps an open and an open
that must repair it.

In `components` each bound lets its hazard happen: three updates are one that
rejects after its effect, one that meets what was left, one that cleans up; four
localization steps change two inputs and rebuild after each; six asset steps
let a download die, the site change, both caches be trusted again, and a staging
meet the next download; two
handlers of the config tab overlap in any order of their writes, and a third
follows. A wiring of four nodes is the least with two ways of different length
beside a dead end.

Several of these properties name the case they excuse (an update of the viewport
that an event overtook, an option asked for twice at once, or written while another
handler's refresh was being answered, or by a handler that failed; a row whose
line was replaced). The excuse is narrow and is computed by a history variable; each is a
behaviour the code does have, and is listed below.

What `SettledViewMatchesCore` claims, and what it does not. Handlers may overlap
in any way and fail anywhere; while they do, the panels may disagree with each
other and with the core, and after an edit that failed they may stay so: no text
promises more. What is shown is that an open which runs alone to its end repairs
all of it, whatever came before, and that from then on every edit, one after the
other, leaves every panel equal to what the core holds, until an edit overlaps
or fails or the runner is lost.

Every property of a passing run has a mutant in `PROJECT.json`: a plausible bug
in a definition that makes the property fail under the same configuration.

### Where the code and its text disagree

Seven runs check what a comment of the repository says, and find it violated.

- `core_host_phantom`: after a rejected `build.load` the previous id is still
  accepted and is answered from the half-built default build.
- `core_host_alias`: a respawned runner counts ids from 1 again, so a handle of
  the lost runner's build is accepted for the new one.
- `core_host_app_error`: a request about a build the runner has loaded is answered
  with an application error of code `CORE_INIT_FAILED` or `UPSTREAM_INCOMPATIBLE`
  (a tree that is not loaded, an unallocatable node), and the host kills the
  runner and loses the build. A boot that fails has no build to lose and does not
  count.
- `runner_timeout`: a timeout of the Node client does not tear the runner down.
- `app_hover`: a preview fetch in flight stages its chips for another node.
- `app_toggle`: a toggle sent from cards an earlier one has not refreshed undoes
  it, whether the earlier one is still in flight or wrote and then failed.
- `ipc_clipboard`: the desktop client passes the runner's parse of a pasted item
  on as it is, in which recognised lines have no status and the name is one
  level down, so the pasted item loses its lines.

Seen while modelling, without a run of their own: `sendRaw`'s comment has an
oversized line rejected through the pending queue, it is thrown back directly
(`runner-client.ts` 336-338); a JSON scalar on a line raises outside dispatch's
pcall and ends the runner, though dispatch "never raises" (`runner.lua`
214-217); a blank raw line stays in the client's queue and takes the next reply
without an id; a raw line that carries another pending call's id settles that
call with its own answer; a failed handshake leaves the child in place; `start` after
`dispose` spawns a process nobody ends; an explain answer requested before an
edit is added after the edit has cleared the traces.

Of the clients: `core-client/src/index.ts` 624-626 says an assembled value always
satisfies the schema, but an option the core has no value for makes the Node
client refuse all options where the desktop client returns them, and one nameless
equipped item makes it refuse the whole grid; so does a figure that is not
finite, which the runner's JSON writes as null and the desktop client passes on;
the desktop client has no limit on the size of a share code (Node: 548) and
strips the `=` padding Node keeps; Node drops `localeHint` on the wire; both drop
the choices of a `list` option.

Of the tabs: a preset that is still writing may overwrite a later edit
(`App.tsx` 264); a cleared count field sends 0; a controlled field loses what is
typed before its round trip ends; a click in the library is said to take
precedence (`ItemsPanel.tsx` 41-43) and falls back to the host's item; the grid
drops items in slots outside `EQUIP_SLOT_ORDER`; `groupToGemInputs` puts active
gems first while the App's toggle keeps their order; a second stat opened within
the debounce window takes the first one's request away (`CalcsPanel.tsx` 89),
though 20-22 say
expanding a row without a trace fetches it.

Of localization and assets: `match.ts` 116 has manual entries honoured by
matchTerms, which does not look at them; review proposals name
`manual_ko_mod_overrides.json` (`review-queue.ts` 30), which nothing reads; an
id typed for a line is proposed for another after the input changed
(`ManualReviewPanel.tsx` 122); the dashboard shows `ui` under its target while
the gate passes it by key parity; `importer.ts` says a slug that does not match
throws, Korean-only slugs are dropped (192-193); rounding lifts 94.5% to the 95%
bar; a live term replaces a fixture term with its resolved upstream ids; the
collision rule of `download-icons.mjs` 29 does not cover two paths of one domain
with the same file name; a cached icon cut short keeps a valid digest.

Of the rest: a call that rejects leaves the updater's staging as it is; a gate
killed by its timeout is classified env-missing and does not fail the run
(`run-gate.mjs` 15); a task whose id was already done is dropped.

## Fairness

`CoreHost!Fairness`, in `Spec` and in the `ServiceSpec` of `core_host_live`, is
weak fairness of the lock holder (`HostStep`), of the runner's handling of a
line, and of each caller's `Acquire`. A thread inside a command and a process
that is not blocked do run; with a bounded number of requests no caller is
overtaken for ever, so weak fairness of the mutex is enough. Nothing is assumed
of crashes. The property excepts a runner that is blocked writing to its stderr
pipe: the host reads that pipe only after it has killed the runner
(`core_bridge.rs` 216, 400-419), so there the request does wait for ever.

`RunnerClient!Spec`: weak fairness of each call's timer, and of the exit of a
process dispose has signalled (SIGTERM, then SIGKILL). Nothing is assumed of the
runner, which may hang.

`AppSession` and the components of `MCComponents` are checked for safety only:
the code gives no bound on when a handler's answer, a render or a timer comes
before another event.

## The proofs

`CoreHostProofs` proves, for any callers, documents, inputs, numbers of requests
and runners and any stderr capacity:

| Theorem | Property |
|---|---|
| `TypeCorrect` | `TypeOK` |
| `OneExchange` | `AnswersMatchRequests` |
| `NoRunnerLeaks` | `NoOrphanRunner` |
| `LossReportedOnce` | `ExactlyOneLossReport` |
| `OwnBuildServed` | `RepliesServeOwnBuild` |
| `SavedFileFaithful` | `SavedFileFollowsTheAnswers` |
| `ImplementsTheService` | `ServesAtomically`, the refinement of `CoreService` |

The assumptions are those on the constants: `DocAssumption` and
`InputAssumption` (documents, sentinels and inputs are distinct) and
`HostAssumption` (bounds are naturals, `NoCaller` is no caller, no method is called `none`).

None of the properties but the first is inductive. `AnswersMatchRequests` holds
because of what the pipes can contain, so `IInv` adds:

- `ControlInv`: where the lock holder stands decides whether the bridge holds a
  process, and which one;
- `ReportInv`: exactly the runners that are gone have been reported;
- `PipeInv`: between requests both pipes are empty; during one, at most one of
  them holds a line, and it has the id sent;
- `HandleInv`: handles come from this runner or earlier ones, one per id;
- `BuildInv`: the active id belongs to the live document, or to one a rejected
  load has displaced;
- `BeliefInv`: the live inputs are among those the answers allow once the reply
  on its way is counted (`Foreseen`).

The lemmas about `CoreApi`'s operators (`LoadFacts` and those beside it) say what each
method does to ids, build and inputs; each action then has one lemma per part of
`IInv` it can disturb. The proof needs no bound: the guards on `MaxRequests` and
`MaxRunners` are only used for types.

`ServesAtomically` is the strongest of these: to its callers core_request is one
core that serves each request whole, in some order, and whose loss one of them is
told. The core of the service is not the one in the process. A line the runner
has handled does not count until its reply is read, since the runner may exit in
between, and then the caller is told of a loss; a runner that has exited still
counts as the core its callers know until one of them is told. `heard` and `left`
record both, and `HeardInv` ties them to the process: with both pipes empty a
runner that lives holds the core `heard`; a reply in the pipe is one that `heard`
gives to the request in flight, and leaves `left`. Receive is then ServeOne, a
failed write or read and a fatal code are Lose, the allowlist and the frame limit
are TurnDown, and all the runner does is a stutter. The mutant that replaces a
dead runner without an answer breaks it: the next request is served by a core
nobody was told of.

About the updater, `PipelineProofs` proves, for any versions and any number of
updates:

| Theorem | Property |
|---|---|
| `UpdaterTypes` | `UpdaterTypeOK` (part of `ComponentTypesOK`) |
| `LeftoversHaveACause` | `OnlyAThrowLeavesSomethingBehind` |
| `TestedBeforeActivation` | `ActivatesWhatWasTested` |
| `ImplementsAtomicUpdate` | `SwitchesAtomically`, the refinement of `AtomicUpdate` |

The assumption is `UpdaterAssumption`: the installed version is a version,
`NoVersion` is not. The invariant `UInv` adds to the types, per point of
`runUpdate`, what is staged and which version it is (`StageInv`), the exact trace
so far (`TraceInv`), and that while no update has reached the staging directory
it holds only what a rejected call left there (`DirtyInv`). The refinement maps
`active` to the version on disk and `vetted` to the candidate while its
activation is awaited: Activated, and a call that rejects after it switched, are
Adopt; a passed smoke test is Vet; any other rejection is Drop or a stutter.

`RunnerClientProofs` proves, for any number of calls in flight and of starts:

| Theorem | Property |
|---|---|
| `ClientTypes` | `TypeOK` |
| `QueueMatchesMap` | `QueueIsThePendingMap` |
| `ImplementsCallContract` | `KeepsContract`, the refinement of `CallContract`, if no blank line and none with another call's id is sent |

The assumptions are `ClientAssumption` (the bounds are naturals) and, for the
refinement only, that `Kinds` has neither of the two `Misleading` lines, the
blank one and the one with another call's id, as in the run that passes; with
either the client does break its contract, which is listed as a hazard. `ClientInv`
suffices for the first two: besides them it says that ids not given out are
untouched (`FreshInv`), that a closed client has nothing pending (`ClosedInv`)
and when there is no process (`IdleInv`). The refinement needs `PipeInv`, an
order the client relies on and never checks: the lines in stdin and the replies
in stdout name calls in ascending order, replies before lines (`LinesInv`,
`FramesInv`); on an open client all of them are pending (`OpenInv`); and before
any reply stand the replies of all older pending calls (`BehindInv`), so a reply
without an id, which settles the oldest, settles its own. That lemma is
`TargetIsItsCall`. The refinement maps Start and Call to Open or Refuse, OnFrame
to Answer, WriteFails to Fail, and whatever marks the client dead or disposed to
Close.

`AppSessionProofs` proves, for any documents, gems, presets, nodes and stat rows,
and any number of handlers and of slots for those in flight:

| Theorem | Property |
|---|---|
| `AppTypes` | `TypeOK` |
| `ScreenMatchesCore` | `SettledViewMatchesCore` |
| `BaselineIsRight` | `BaselineIsTheStateBefore` |
| `RunsOnTheService` | `UsesTheService`: the handlers run on `CoreService` (not in a run, see below) |

The assumptions are `DocAssumption` and `AppAssumption`: gem lists are the sets of
gems, every gem has a `gemId`, presets are not empty, and `Undefined` is not a build on screen. `TypeInv`
adds to the types what is left of each handler's script (`Script`: with so many
requests to go it is at this one). Neither of the other two is inductive, since
both speak only of states without a handler. `LoneInv` fills the gap: a handler
that runs alone is the only one busy, the answer it holds is still true of the
core (`AnswerAt`), an open has shown what it has read so far (`OpenAt`), and an
edit on a clean screen has shown all but what the rest of its script will refresh
(`EditAt`). A handler that another one overlaps, or whose runner is lost, stops
being alone and claims nothing; a hover touches none of it (`QuietStep`). TLC
found no state of `app_session`'s instance that breaks these invariants.

`RunsOnTheService` maps a handler that waits to the caller that asks (`Wire`), its
answer to what the service gave (`Settled`), and its first request and every
continuation to Ask, or Forget where a handler ends. The service gives the same
answers because a failure is known by its code alone (`FailuresAreRefusals`). TLC
agrees on `app_session`'s instance, in five minutes, too long for a run beside
the others.

`PanelProofs` proves, for any items, stats, options, presets, gems, commands,
trees and node positions, and any number of calls, events and edits in flight:

| Theorem | Property |
|---|---|
| `LibraryKeepsCreations`, `ImportIsOneAnswer` | `CreatedItemsAreKept`, `ImportShowsOneAnswer` |
| `RowsAreServed` | `OpenRowsAreServed` |
| `OptionsKeepTheirType` | `TabTypeOK` (part of `ComponentTypesOK`) |
| `LastChoices`, `OneChip` | `LastChoiceIsApplied`, `OneChipPerGem` |
| `WarningsMatch` | `WarningsMatchTheCards`, for any figures of the core (no run checks it) |
| `EnterRunsMarked` | `EnterRunsTheMarkedOption` |
| `PanHolds`, `ClicksAllocate` | `PanKeepsWhatItHolds`, `ClicksAreNotPans` |
| `TransformsDrawOneTree`, `PreviewsAreShortest` | `TransformsAgree`, `PreviewIsAShortestWay` |

`ItemsInv` adds that a call in flight has a number no answer has (`NumberInv`):
without it an answer could be added twice. `WritesInv` says what the end state
hides: each uncontested option has one loop that still has to write it, that
loop writes what was wanted, what no loop has to write is in the core already,
an answer on its way to the cards holds what the core holds of these options
(`AnswersAreCurrent`), and the cards are read after the last write. An option
becomes contested where this would break: asked for again, written while another
answer is on its way, or left unwritten by a handler that rejects. `CanvasInv` adds where a press
began (`PressInv`); the rest of that proof is arithmetic: at each of the three
scales the offset is a whole number of world units (`Aligned`), so
`screenToWorld` and `worldToScreen` undo each other and a zoom neither gains nor
loses a fraction. `PreviewsAreShortest` is an induction on the layers of the
search: layer k holds exactly the nodes that some way of at most k new nodes
reaches, and the path kept for a node is such a way of the least length.

`LocalizationProofs` proves, for any pages, upstream data, live terms, overrides,
clipboard lines and number of steps:

| Theorem | Property |
|---|---|
| `OverridesWin` | `ReviewedMappingsWin` |
| `NoGuesses` | `NoGuessIsApplied` |
| `NamesStay` | `NamesAreNeverLost` |
| `DashboardIsTheGate` | `DashboardAgreesWithGate` |
| `ProposalsHold` | `ProposalsKeepTheirLine` |
| `LocTypes` | `LocTypeOK` (part of `ComponentTypesOK`) |

The invariant `DataInv` is short: the dictionary is what the build makes of some
inputs that do not make it throw. What follows from it is in the three loops of
the build. `SeedHolds`, `OverridesHold` and `MergeHolds` are inductions over
their iterations: an entry is an imported term with ids the data justifies
(`SeededFrom`), changed field by field by the last override that names the field
(`PatchedEntry`), or replaced by a live term where no person wrote. `RowInv`
says that a row that was given input for texts still shows them or is marked as
moved; it holds across a change of the input because one key shows one text at a
time (`KeysShowOneText`), which rests on pages being paired by slug.

`PipelineProofs` proves, for any site, paths, pool size, plan and gates:

| Theorem | Property |
|---|---|
| `AssetTypes` | `AssetTypeOK` (part of `ComponentTypesOK`) |
| `StagingIsExact`, `IconsKeepTheirUrls` | `StagedAsRecorded`, `IconsAreTheirOwn` |
| `PhasesAreWhole` | `PassedPhasesAreWhole` |
| `RecordsKeepTheirTypes` | `ComponentTypesOK`, with `UpdaterTypes`, `LocTypes`, `AssetTypes` and `OptionsKeepTheirType` |

`AssetInv` has a part per stage: cached pages are cards the site had at some time
and the terms collected have ids of their own (`CollectInv`); every cached file
is of a url that was to have its name (`DownloadInv`); so is every asset of the
manifest, and no two share an id (`ManifestInv`); the index names what was copied
(`StagedInv`). A staging checks all assets first and copies them after, one by
one, with downloads running beside it. What it checked stays true until it is
copied (`StagingInv`) because a name that has landed, in the cache with no
download on its way to it, is not written again (`Landed`, `LandedStay`). A
staging that dies leaves a file half copied and claims nothing. `PhaseInv` says the results are those of a first part of `topo`'s
order; that this is an order of the whole plan, with dependencies first for all
that reach no cycle, is `TopoIsAnOrder`, an induction over sweeps in which a
sweep that adds nothing has nothing left to add.

`CoreClientsProofs` proves, for any arguments and any replies that
`modern_api.lua` may serialize, with lists of any length and objects of any
values:

| Theorem | Property |
|---|---|
| `TheClientsAgree` | `ClientsAgree` |
| `CallsResolveToTheirType` | `ResolvesToItsType` |
| `WholeAnswersAreAccepted` | `CompleteAnswersAreAccepted` |
| `DesktopCastsHold` | on a complete answer the desktop's casts are right (of the three above) |

The invariant of the machine is short: the last exchange is of one method, one of
its arguments and one of its replies, and what both clients made of it is what
their operators say (`ExchangeInv`, proved as `ExchangesAreCalls`). The weight is
in the operators, field by field. `SameShapes` and its like say that a helper of
one file and its namesake of the other, written differently, make the same of a
row that fits the schema; `SameResults` and `SameRequests` add the methods.
`ResponsesHaveTheirType` says that the schema of a response is at least as strict
as its type, `RequestsAreValid` that the schema of a request is no stricter;
`WholeAnswersFit` follows a complete answer through each assembler into its
schema. The assumption is `RunnerAssumption`: the replies tried are ones the
runner serializes (`Serialized`), which is what the model says of
`modern_api.lua`.

Induction over the naturals is stated once in `CollectionsProofs`, for a set and
not for an operator (`InductionOverNat`: a least number outside the set would
have a predecessor in it), and so is the existence of a recursively defined
function of a list where a proof needs it.

The assumptions on the constants, each what the code takes for granted:

| Assumption | Says | Why |
|---|---|---|
| `CalcsAssumption` | the value that stands for no stat (`NoStat`) is not a watched stat | the model's sentinel for a timer that is not set |
| `PresetsFit`, `GemsAreRecords` | an option a preset sets is an option of that type; a gem has its four fields | `CONFIG_PRESETS` against the options of the core; `GemInput` |
| `CommandListsAreLists` | the command lists are sequences | `commands` is an array |
| `CanvasAssumption` | nodes stand at integers, the mouse at multiples of 4 | the model's unit of length, chosen so that positions are whole at every scale |
| `TreeAssumption` | nodes are finitely many numbers, at least one; the stray id is a number that is no node's; connections and allocations are of these ids | a tree.json's nodes have numeric ids, and may name one it does not have |
| `AssetAssumption`, `SlugsAreApart`, `OrderIsTotal` | at least one worker; pages are lists of cards, paths have a domain; no path is asked for twice in one run; two paths of one domain never list the same slug; `localeCompare` has a place for every id | `DOMAINS` and `--domains` of `collect-live.mjs`; external: what poe2db lists |
| `PhaseAssumption` | a plan is a list of tasks with ids and sets of deps, a gate is required or not | `TASKS_SCHEMA`, `GATES` |
| `LocAssumption` | clearing a text is one of the edits; some pages import; entries, live terms and lines have their fields; an override names its id | the pages are tested in the repository; `collect-live.mjs` 154-168; `ManualOverride` |

Only model-checked:

- The liveness properties `AnsweredUnlessWedged` and `EveryCallSettles`: liveness
  under fairness is beyond the prover.
- The violation runs, which are counterexamples.

Preparing the proofs changed the models in these places, each time towards the
code. A card a page lists twice is parsed once, the first (`parseCards`). An
override that does not make a valid term throws at its own step, not only if it
is the last of its id (`assembleThrows`). `NoGuessIsApplied` looks a term up in
the bucket of the domain it was imported with, because an override may move it
to another domain after its ids were resolved.

## What is not modelled, and why

- The vendored core: not in the repository. It is modelled as its callers in
  `overlays/lua` use it.
- Clipboard translation in `modern_api.lua` (the restore map, sanitised echoes),
  the patterns of `classifyDiff`, the share-code codec, crash reports and
  diagnostics: string work without state. Golden comparison: floating point.
- File dialogs and clipboard, screenshots, packaging: plain I/O.
- Rendering: what a card, a row or the canvas draws from a model, beyond the
  controls and what they send.
- In the asset scripts, a domain named twice in `--domains`, and a death in the
  middle of writing a JSON file (manifest, index).
- In the clients, the limit on the size of a share code and its decoding: the call
  modelled is the load of the XML it holds.
- In the host, a window that closes while a request runs. In the Node client, a
  handshake without a version, which `runner.lua` never sends, and the `error`
  event of the child's stdin, which depends on the Node runtime.
- In the app, save, locale and tab routing: they change none of the state the
  properties relate.

## Plan

Done: `CoreApi` and `CoreHost` with proofs, down to the service the App runs
on; the two clients of the runner, their transport (`RunnerClient`, with its
refinement proved) and their data (`CoreClients`, proved); the application
state, proved; the updater with its refinement proved; the tabs, the tree,
localization, the asset pipeline and the phase pipeline, every invariant of
theirs proved.

Left, in this order:

1. The restore map of `parseClipboard`, with a line as a word and its echo.
2. Composition of `BuildTabs` and `CalcsTab` with `AppSession`, which is now
   told of them only through the handlers they call.

## Running the checks

    tlc -config core_host.cfg MCCoreHost
    tlc -config core_host_live.cfg HostService
    tlc -config runner_client.cfg RunnerClient
    tlc -config app_session.cfg MCAppSession
    tlc -config components.cfg MCComponents
    tlapm CoreHostProofs.tla
    tlapm RunnerClientProofs.tla
    tlapm AppSessionProofs.tla
    tlapm CollectionsProofs.tla
    tlapm PanelProofs.tla
    tlapm LocalizationProofs.tla
    tlapm PipelineProofs.tla
    tlapm CoreClientsProofs.tla

`PROJECT.json` names the module and the configuration of every run.

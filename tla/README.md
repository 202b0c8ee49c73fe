# Specifications of Codebase Architect

TLA+ models of the parts of Codebase Architect (this repository) in which order,
concurrency, failure or a non-trivial algorithm decide whether the program is
right, the TLC runs that check them on small instances, and TLAPS proofs of the
results that matter most for every size.

    tlc -workers 2 -config ScanService.cfg MCScanService.tla      # one run
    tlapm ScanServiceProofs.tla                                    # one set of proofs

`PROJECT.json` lists the runs, the mutants of each property, the theorems, the
hazards and, per definition, the lines of source it stands for. Paths below are
relative to `src/src/codebase_architect/`.

## The system

Codebase Architect imports a codebase, parses it, derives a module graph and an
architecture, optionally asks a language model for a narrative, and renders
documentation. A FastAPI server and a single-page dashboard run scans in
background threads and keep them on disk; functional specs are edited in the
dashboard and reconciled with scans; a command line runs one scan per process.

| Component | State it keeps | Operations | What is hard | What makes it correct |
|---|---|---|---|---|
| Scan service `application/services/scan_service.py` | `_jobs`, `_lock` | submit, execute, get, list, set_meta, `_restore` | execute writes job fields without the lock while set_meta persists them and routes read them | status is truthful; scans settle; what comes back after a restart stays |
| Scan store `infrastructure/persistence/file_scan_store.py` | `<id>.json`, `<id>.json.tmp` | save, list, get | two savers of one scan share the temporary file; crashes between truncation, write and rename | readers find whole records |
| Spec service and store `application/services/spec_service.py`, `infrastructure/persistence/file_spec_store.py` | spec files, `_lock` | create, update, link_scan, unlink_scan, get, list, delete | delete and readers take no lock; reconcile reads first and links later | no lost updates; deletes last; requests are answered |
| HTTP API `api/routes.py` | uploaded archives in the temp directory | routes, background tasks | a task uses the archive after the response | the archive outlives the pipeline and no longer |
| Dashboard `api/dashboard.py` | `current`, `timer`, `allScans`, the detail pane | selectScan, renderDetail, loadPage, refreshScans, polling, wizSave | async handlers of several clicks share two variables | a click that meets no other one leaves one interval and one scan in the pane; a polled outcome is shown |
| Pipeline `application/pipeline/scan_pipeline.py`, source providers, workspace | a workspace per run; the list of files, stacks, dependencies, findings | import, three walks, documentation, export | a directory is edited while it is copied and may hold the workspace itself; any step may fail, and some failures escape the handlers | the walk visits what the rules select; the copy is of the source; only what must not be ignored fails a run |
| Parsing, detection, secret scanning `infrastructure/parsing/`, `infrastructure/detection/`, `infrastructure/security/` | none | parse_file, detect, scan | recursion over trees, annotations on nested classes, a list that fills up | routes carry the paths of all classes around them; the findings are the first ones |
| Documentation, flows, diagrams `domain/services/documentation_builder.py`, `flow_builder.py`, `diagram_builder.py` | none | build | capped searches; pages built from different sets of facts | pages agree with each other and with the code |
| Narrative and cache `application/use_cases/generate_narrative.py`, `infrastructure/cache/file_narrative_cache.py` | cache files | execute, get, put | processes write the same file in place | what is cached is genuine; narratives are grounded |
| Module graph `domain/services/module_graph.py` | none | build_module_graph | ambiguous imports, iteration order of a set | imports resolve to modules that exist |
| Architecture rules `domain/services/architecture_rules.py` | none | check_dependency_rules, find_cycles | an iterative Tarjan with an explicit stack | the cycles are the strongly connected components |
| AI providers `infrastructure/ai_providers/`, CLI runner `tools/cli_runner/main.py` | a subprocess per call | complete, run | client and runner have the same timeout: an answer may come when nobody waits, and an agent may go on unasked | no late answer is taken for another; agents stay few |
| Flow enrichment, spec matching, spec document `application/use_cases/enrich_flows.py`, `domain/services/reconcile.py`, `api_match.py`, `sequence_diagram.py`, `spec_document.py` | the narratives so far | enrich_spec_flows, reconcile_spec, match_api_flows, build_spec_document | scans end while they are gathered; features of the same name | scans that were done before are seen; narratives contradict no diagram |
| Renderer, registries, command line, shared | none | I/O and tables | | |

They interact as follows: a route calls `submit` and adds `execute` as a
background task; `execute` builds a pipeline and runs it in a thread of the
pool; the pipeline calls the provider through the cache; `_persist` hands a
record to the store. The routes read job fields without the lock. `reconcile`
reads a spec, looks at a scan and then calls `link_scan`. The route of a spec's
document reads the spec, then each linked scan, and posts one prompt per feature
to the runner, an HTTP service that starts an agent for each. The dashboard only
uses the routes.

## Modules

| Module | Models | Shape |
|---|---|---|
| `ScanLifecycle` | what the scan service promises | the phases of a scan and how they follow each other, restarts included |
| `ScanService` | scan service, scan store, upload routes | one action per assignment of `execute` that others can see, per step of a save, per route; implements `ScanLifecycle` |
| `ScanServiceProofs` | | theorems about `ScanService` |
| `SpecRegistry` | what the spec service promises | a request begins, and takes effect in one step on what is stored then, or not at all |
| `SpecService` | spec service, spec store, spec routes, the wizard's save | one action per request, per step of a save or a delete; implements `SpecRegistry` |
| `SpecServiceProofs` | | theorems about `SpecService` |
| `Dashboard` | selection, rendering and polling in the dashboard's script | one action per stretch of a handler between two awaits |
| `ModuleGraph` | module ids and import resolution | operators |
| `NarratedScans` | narrative generation and the cache, in runs of the pipeline; uses `ModuleGraph` | one action per step of a run that touches the cache or can fail |
| `NarratedScansProofs` | | theorems about `NarratedScans` |
| `ArchitectureRules` | layer rules, `find_cycles` | one step per pass of the `while work` loop |
| `SourceTree` | ignore rules, globs, the walk over a tree of files, checksums, choice of a provider | operators |
| `Syntax` | what the parsers read from a syntax tree: symbols, imports, packages, calls, routes, HTTP calls | operators |
| `CodeFacts` | what is read from one file, manifest or content, and from all of them: languages, stacks, secrets, layers, entrypoints; uses `SourceTree`, `Syntax`, `ModuleGraph` | operators |
| `DocPages` | the facts on each page of the documentation, the flows and diagrams with their caps; uses `CodeFacts` | operators |
| `ScanPipeline` | one run of the pipeline over a directory, repository or archive; composes the four above | one action per step of a copy, per entry of a walk, per page written; the steps of whoever edits the directory |
| `CliRunner` | client and server of the CLI runner, the network between them, time | one action per message, timeout, end of an agent, and tick |
| `SpecMatching` | matching of calls with routes, of features with artifacts, endpoints found in code, the sections of the document | operators |
| `SpecDocument` | the route of a spec's document, with the scans and the runner; composes `CliRunner` and `SpecMatching` | one action per read and per prompt |
| `ScanDurabilityProofs`, `DashboardProofs`, `ArchitectureRulesProofs`, `ScanPipelineProofs`, `SpecDocumentProofs` | | more theorems about `ScanService`, and those about `Dashboard`, `ArchitectureRules`, `ScanPipeline` and `SpecDocument` |
| `MC...` | | the small instances |

How state corresponds to code:

* `ScanService`: `job` is `_jobs` reduced to status, (title, tags), and whether
  result, docs_dir, error and finished_at are set; `pc` is where the scan's
  thread is; `lock` is held across steps only by a `set_meta` that saves, since
  every other critical section is one step. `tmp` and `final` name inodes,
  because a saver goes on writing to the inode it opened after another saver
  renamed it; `save` holds the two possible saves of a scan (of `execute` and of
  the `set_meta` that has the lock). A store is configured, as `create_app` does.
  A file with the bytes of two records is one `_load` cannot parse. The record
  of a `set_meta` is read from the job in one step, although it reads field by
  field. An exception of `save` is an OSError, the only kind its calls raise.
* `SpecService`: `call` is the request a pool thread serves and where it is;
  `last` is history, the content that was renamed into place last.
* `Dashboard`: a suspended handler is the fetch it awaits (`task`); an answer is
  the set of scans that were over when the server gave it. An answer takes less
  than the 1.2 s between two ticks. A task of kind select is `selectScan`, with
  the `renderDetail` and the `refreshScans` it awaits; render and page are those
  nobody awaits. A click may come at any time. The list that `refreshScans`
  draws is read by no handler and left out.
* `NarratedScans`: the facts that a run can have of a codebase are computed by
  `ModuleGraph` for every iteration order of the module ids, and numbered
  (`Graphs`); a cache key is such a number and a language, a provider's answer
  is the set of things it refers to. Hashes do not collide. Edge weights, which
  are not in the prompt, are left out.
* `SourceTree`, `Syntax`: a file is a path (a sequence of names) and a content,
  a member of a small set; a content has a syntax tree, a sequence of nodes with
  the place of their parent, in the order of a pre-order walk. What the grammars
  and regular expressions recognise (`Ast`, `Manifest`, `Secrets`) are constants;
  what the code makes of it is modelled. A recursion over a tree deeper than
  `MaxDepth` raises RecursionError, as the parser's walks do.
* `ScanPipeline`: `open` is what `copytree` has listed and not copied, `todo`
  what the walk has listed and not visited; the rest are the local variables of
  `run`. Three walks make three passes (`pc`), since each lists anew. What is
  rendered is computed from them (`Docs`), page by page, when it is written.
  `failure` tells a CodebaseArchitectError from any other exception.
* `CliRunner`: `calls` are the calls a client has made, each in one of the
  phases request, running, response and over; `client` is what it waits for.
  The two timeouts are counted in ticks of one clock.
* `SpecDocument`: `pc` and `next` are where the handler is; `gathered` and
  `narratives` are what it has collected. Tokens and canonical paths are
  constants (`TokensOf`, `Canonical`). The scans it reads change by actions of
  their own, in the ways `ScanService` allows.
* `ArchitectureRules`: modules are numbered in their sorted order; a frame of
  `work` has the last child looked at, where the code has the place of the next
  one. `on_stack` is the set of `stack`.

## Runs

All finish within about a minute on two cores. Mutants named in PROJECT.json
show that each property can fail: they are defined beside the definition they
change and are used by nothing else.

| Run | Instance | Shows |
|---|---|---|
| `ScanService.cfg` | an uploaded and another scan, two titles, a rename of each, two restarts | `TypeOK`, `FinishedIsTruthful`, `UndisturbedIsDurable`, `UploadOutlivesPipeline`, `RestoredStays`, `ImplementsLifecycle`, `ScansSettle` |
| `SpecService.cfg` | two threads, one spec, two scans, four requests, a restart | `TypeOK`, `ReadersSeeWholeSpecs`, `ImplementsRegistry`, `GoneForGood`, `CallsAnswered` |
| `Dashboard.cfg` | two scans, one of which fails, clicks at any time and failing fetches, three of them together | `TypeOK`, `IntervalsOfTheSelected`, `PaneOfTheSelected`, `PolledOutcomeIsShown` |
| `NarratedScans.cfg` | two runs, two versions of a codebase, two languages, an I/O error, a kill | `TypeOK`, `CacheIsGenuine`, `NarrativeIsGrounded`, `CachedIsKept`, `RunsEnd` |
| `ArchitectureRules.cfg` | all 4096 graphs of four modules | `TypeOK`, `CyclesAreComponents`, `StackIsConnected`, `RetiredIsClosed`, `CrossLayerCycleIsFlagged`, `Terminates` |
| `ScanPipeline.cfg` | nine sources of up to eight files (directories with and without git, one holding the workspace, a repository, archives good and bad, a missing path), three sets of options, two edits of files and one failure of the file system | `TypeOK`, `WalkIsSelection`, `CopyIsOfSource`, `FindingsAreFirst`, `FlowsAreReached`, `RoutesAreMapped`, `PagesAgree`, `FailsForACause` |
| `SpecDocument.cfg` | three linked scans, three features (two of the same name), three states to start from, six requests, a timeout of three ticks, messages up to one tick late, a broken connection | `TypeOK`, `NothingIsOverlooked`, `NarrativesAreGrounded`, `AgentsBounded`, `DocumentAnswered` |

Why the bounds are enough: the two savers of a scan are all it can have at once
(`execute` runs once, `set_meta` is serialised by the lock), and two restarts are
what it takes to read back a record, damage it and read it again. Scans do not
share files, only the lock, for which two of them do; several renames of one
scan follow each other, and the proofs cover any number of them. Of specs, too,
only the lock is shared; four requests allow a create, a change under way, and
two more that meet it. Three clicks are a scan, another one and the first again,
each at any point of the handlers of those before, and a click may be given up
for a fetch that fails. Two runs are enough to write one cache file at the same time, and a
narrative that is cached by one is looked up by the other. Four modules are the
fewest in which a component hangs below another one and a child has left the
stack already. `CrossLayerCycleIsFlagged` is evaluated for every assignment of
four layers, two of which have the same rank and one none.

In `ScanPipeline.cfg` the caps are as small as the codebase (two findings, two
flows of two steps and three modules, three nodes in a graph), so that each is
reached in the middle and exactly at its end; an edit changes, removes or adds a
file before, while or after its directory is listed, and two of them meet two
directories, or one of them twice. Ignore rules and excludes include one that
takes an earlier one back; a class has two mappings, a nested class and an
anonymous one with a route of its own. In
`SpecDocument.cfg` a timeout of three ticks with messages of one lets an answer
arrive before, at and after the client's timeout; a third prompt is what it
takes for two agents whose answers nobody waits for to run beside a third; a
scan that is being gathered can be done, saved, or fail after all. Two features
have one name, and a call has method ANY.

Runs that check a statement of the repository and find that the code does
otherwise:

| Run | Statement | What happens |
|---|---|---|
| `ScanFinalIsWhole.cfg` | the rename is "atomic" (`file_scan_store.py:36`), scans "persist across restarts" (`dashboard.py:868`) | A rename while the scan is saved: one saver truncates `<id>.json.tmp`, the other renames it. The damaged record is skipped at the next start, and the scan is gone |
| `ScanPersistedIsCompleted.cfg` | a record is a "snapshot of a completed scan" (`scan_record.py:1`) | A rename between `job.result = result` and `job.status = DONE` persists a running scan; if the final save then fails or the process dies, it is running for ever |
| `SpecDeletedStaysGone.cfg` | delete is to "Remove a stored spec" (`spec_store.py:27`), 404 after 204 (`tests/unit/test_api.py:239`) | An update under way stores the spec again |
| `DashboardOutcomeIsShown.cfg` | "launch a scan, watch its status" (`README.md:23`) | A scan that ends between the two fetches of `selectScan` is drawn as running and not polled |
| `NarratedRescanReuses.cfg` | re-scanning an unchanged codebase "reuses the previous result instead of calling the model again" (`README.md:50`) | `max(matches, key=len)` over a set of strings takes the first of equally long directories, in an order that differs from process to process; the edges are in the prompt, the prompt is in the key |

Some properties have a condition, and what happens without it is not hidden by
it. Quick clicks in the dashboard, of which no document promises anything, do
harm: `timer` names one interval, so of two calls of `selectScan` that overlap
both may start one, and the first is cleared by nothing: it ticks on, and asks
for a scan nobody looks at, and once that is over it clears the interval that
`timer` names by then and renders the current scan, on every tick from then on.
And `renderDetail` reads `current` again after an await, so that the head of one
scan gets the pages of another. TLC finds both at once when the conditions
(`hasty`, `calm`) are dropped. `IntervalsOfTheSelected` says that no interval
but those of overlapping selections is left behind, and `PaneOfTheSelected` that
the next click at rest puts the pane right in spite of them.
`FailsForACause` lists what may end a run with an exception that is no
CodebaseArchitectError: a copy that lost an entry, an archive that could not be
unpacked, a page that could not be written, a tree too deep to be walked, and a
manifest of another shape (of which a docstring says otherwise, see below); an
unreadable or malformed file must not, and a run that gets to the documentation
has met none of them. `NothingIsOverlooked` compares the answer with what the
surfaces of single scans hold, and says nothing where the code joins them in
ways of its own: a call of ANY with a route of one method, and features whose
name a later one has.

`UndisturbedIsDurable` and `GoneForGood` say what does hold where the first and
the third of these do not: a scan none of whose saves failed or met another one
is on disk as it is in memory; a spec that is deleted while no change of it is
under way stays deleted.

## Fairness and deadlock

Weak fairness is assumed of what the platform schedules: the background thread
and a `set_meta` that has begun (`ScanService`), a request that is being served
(`SpecService`), the answers of the server and the event loop (`Dashboard`), a
pipeline run that has begun (`NarratedScans`, where every provider call has a
timeout), a function call (`ArchitectureRules`), and the thread
of a document, the client's timeout, the runner's own steps and the clock
(`SpecDocument`). Clients, crashes, failures, lost messages, broken connections,
edits of a directory, the end of a scan in `Dashboard` and `SpecDocument`, the
end of an agent and the start of a run are not fair: `DocumentAnswered` holds
though no agent ever ends of itself. Deadlock checking is off where
the system may have nothing left to do: requests, clicks and runs are bounded
and a function call returns.

In `ScansSettle` weak fairness is enough for a thread that waits for the lock:
`set_meta` calls are bounded in the instance, so the lock is not taken for ever.

Nothing is assumed of the user of the dashboard, who may click at any time.
`PolledOutcomeIsShown` needs that a fetch fails only so often: a tick that fails
is followed by another, but an exception ends a rendering (`dropped`).

## Proofs

Assumed are only the named assumptions on the constants, and TLC evaluates them
on each instance. Bounds are naturals, and the marker values are not among the
values they stand apart from (`ConstantsAssumption`, `BoundsAssumption`,
`CapsAssumption`, `RunnerAssumption`). A spec's document finds each linked scan
under its own id (`DocumentAssumption`). Of what is scanned: names are ordered
(`SourceTreeAssumption`), a location is a tree of files in which a new directory
for the workspace lies apart from the files (`RequestsAssumption`), module ids
are ordered as strings are (`IdsAssumption`), and a syntax tree comes of its
grammar: parents before children, methods in the body of their class
(`FactsAssumption`, `IsSyntaxTree`). Nothing is assumed of the number of scans,
clients, calls, renames, restarts, files, edits, failures, modules or messages.

`ScanServiceProofs`: `TypeCorrect`, `Truthful` (`FinishedIsTruthful`),
`RestoredIsKept` (`RestoredStays`) and `Refinement` (`ImplementsLifecycle`) rest
on one inductive invariant, `IInv`, proved by one lemma per action.
`FinishedIsTruthful` is not inductive: after a restart a job is what a record
says, so records must be known to be sound wherever they are, in a pending save
(`RecInv`), in any inode, in a file that is only the temporary one now.
`JobInv` ties the job to its thread's position. `DiskInv` is what
`RestoredStays` needs: once a scan was read back no `execute` runs for it, so
the two names never share an inode, the one remaining saver owns the temporary
file, and what it will rename is a whole record of the same status. The
refinement is then a case split over the actions: each changes the phase of at
most one scan, as `ScanLifecycle` allows, but for a crash, which changes all.

`SpecServiceProofs`: `TypeCorrect`, `WholeSpecs` (`ReadersSeeWholeSpecs`),
`Deleted` (`GoneForGood`) and `Refinement` (`ImplementsRegistry`). `IInv` says
what the lock buys: a request between its read and its rename holds the lock,
so what it is about to store is a change of what is stored *now* although
readers and deletes interleave (`CallInv`), and the temporary file is its own.
`CreatesDiffer` keeps two creates from having one id.

`ScanDurabilityProofs` adds what `IInv` does not say of saves. `LockHeld`: the
lock is held by a `set_meta` from its record to the end of its save, so that of
all scans together at most one saves by a rename. `Durable`
(`UndisturbedIsDurable`) is about scans no save of which failed or met another;
its invariant `QInv` says where the last change is: in memory with a save still
to come, in the record that is being written, in the temporary file of an inode
that is nobody else's, or in the final one. `ArchiveOutlives`
(`UploadOutlivesPipeline`) needs only that clean-up comes after the outcome.

`NarratedScansProofs`: `TypeCorrect`, `GenuineCache` (`CacheIsGenuine`),
`Grounded` (`NarrativeIsGrounded`) and `CacheKept` (`CachedIsKept`), for any
codebases, iteration orders, languages and answers of the provider. What is in
a cache file was put there by a run that is past its provider call
(`FileInv`), so neither the graph its key was computed from nor its narrative
changes any more, and a narrative is cut down to what its own graph allows
before it is written (`RunInv`). Equal keys have equal graphs, which is why a
narrative found in the cache is grounded in the finder's graph too.

`DashboardProofs`: `TypeCorrect`, `Polls` (`IntervalsOfTheSelected`) and
`PaneShown` (`PaneOfTheSelected`), for any scans, clicks at any time and failing
fetches. `TaskInv` is the script's belief that a scan is over: an answer was
true when it was given, and scans do not come back from being over. `HasteInv`
says that a call of `selectScan` that no other one met is the last, and alone,
so that `timer` names its interval. `RenderInv` says what the handlers rely on
after a click at rest: whatever is fetched for the pane is of `current`, and a
handler past the head has drawn `current`, since a tick of an old interval
renders what is current, too.

`ArchitectureRulesProofs`: every safety property of the run, for graphs of any
number of modules: `TypeCorrect`, `RetiredStaysClosed`, `StackStaysConnected`,
`FindsTheComponents` (`CyclesAreComponents`) and `CrossLayerIsFlagged`. The
argument is Tarjan's: `Core` says that a module on the path reaches all above it
on the stack, that everything on the stack reaches a module of the path not
above it, that a low link is the index of a module on the stack that is really
reached (`LowIsReached`) and is no greater than any index on the stack that the
children looked at so far have (`LowIsLeast`). So when the low link is the
module's own index, nothing above it on the stack has a dependency that leaves
that part of the stack, but for components already complete, and it is popped
whole. `Core` is kept by each half of a pass and each way it ends, which is
proved of sets and functions alone (`EnterCore`, `LookCore`, `ReturnCore`,
`PopCore`); `PathLaid` and `Sorted` say how they lie in the sequences. That the
loop ends is `Terminates`, left to TLC.

`SpecDocumentProofs`: `Types`, `AgentsAreBounded` (`AgentsBounded`),
`NothingOverlooked` (`NothingIsOverlooked`) and `NarrativesGrounded`
(`NarrativesAreGrounded`), for any spec, any scans, and any timeout longer than
a message takes (`RunnerAssumption`). `RunnerOK` says where a call can be and
that the client waits for the last one or has got what it ended with;
`AgentsOK` how the agents are spread over time: but for the calls whose
connection broke, an older call that the client gave up has had all of its
patience, so that its agent, if it still runs, is older than the client's wait
by a timeout less a message, and no two such agents fit into the runner's own
timeout. `GatheredOK`: a scan that was done when the spec was read, and still is, is
not passed over, and only linked scans that have ended are gathered; that these
are seen in what is answered is a lemma for each part of the document
(`ArtifactsHave`, `ServingHas`, `EdgeFacts`, `MarkFound`). `NarrativesOK`: the call is about the feature
whose turn it is, which is why no late answer gets into another section.

`ScanPipelineProofs`: every safety property of the run, for any location, edits,
failures, ignore rules and caps. `Types`, `WalkSelects` (`WalkIsSelection`),
`CopyFaithful` (`CopyIsOfSource`) and `FindingsFirst` (`FindingsAreFirst`) rest
on one invariant, `IInv`, kept by each action:

* `CopyOK`: what `copytree` has still to copy lies apart, from each other, from
  what is copied and from the workspace, which is why nothing is copied twice
  and the workspace not into itself; `CopyWhole`: as long as nobody edits, each
  file of a clean path is copied, or below what is left, or something is lost.
* `WalkOK`: the entries left of the walk are nodes none of which is above
  another one, no directory above one of them is passed over, and what is counted
  is what is selected and not below them (`WalkIn`, `LeftIn`); each file is
  counted once.
* `FindingsOK`: the findings are the first of the files the walk came to
  (`AreFirst`), and those come before all that is left (`InOrderUpTo`), since
  the entries of a directory take the place of the directory in the order.
* `RefOK`: a checksum is of the workspace, which no longer changes.

`Selected`, in the properties, is stated without the code's own walk and rules:
a path is ignored if a rule says so that no other one for the path follows.
`SelectedIs` shows that it is what the walk is compared with in `IInv`
(`LastDecides`: the greatest of the rules that hit is that one).
`FailuresHaveCauses` (`FailsForACause`) adds `CauseOK`: of the files that a pass
has come to (`Come`), none raised one of the exceptions that nobody catches.

`PagesConsistent` (`PagesAgree`) adds `FactsOK`, on where dependencies and
findings come from, and lemmas on each function that makes a page: a file is
parsed once, so it has one module, and every module id on a page is the module
of a parsed file, since an import resolves to an id of the index only
(`ResolveFacts`). `FlowsFound` (`FlowsAreReached`) is about the breadth-first
search of a flow with its two caps. `Searched` is what each round keeps: the
modules reached so far are listed once, within the cap on nodes, each within so
many steps over edges among them, and all that are within so many steps are
there unless the list is full; the modules seen before the last round have all
of their targets in it. `TargetsFacts` and `RoundFacts` say so of a node and of
a round, and `ByIdFacts` that sorting loses and doubles nothing. `KnownOK` says
which files there can be, so that their modules have an order. `RoutesMapped`
(`RoutesAreMapped`) is an induction down the syntax tree: the base path at a
node in the body of each class around it is that of these classes, the
outermost first (`BaseIsAround`); a class that is nested in them comes after
them in the tree, and so last in their order (`OrderGrows`).

The recursive functions of the model are reasoned about by induction on their
bound, with a lemma each that the function exists (`RoundExists`, `ReachExists`,
`SearchExists`, `FoundExists`, `AboveExists`, `BaseExists`, `PathExists`) and
`Upwards`, which says that a set of numbers that holds 0 and with a number the
next one holds all up to the bound.

Only model-checked: liveness (`ScansSettle`, `CallsAnswered`,
`PolledOutcomeIsShown`, `RunsEnd`, `Terminates`, `DocumentAnswered`),
which is out of the prover's reach. Every invariant and action property of the
passing runs is a theorem.

## Where code and words differ

Beside the violation runs, reading the code against its words showed what no
run is about:

* `api_match.py`: a TypeScript `fetch` is a call of method ANY, and a call of
  ANY matches only routes of ANY; so it is among the "Calls to endpoints no
  linked project serves" (`spec_document.py:87`) though a linked project serves
  a GET of its path.
* `sequence_diagram.py`: an endpoint is found in code by its path alone, whatever
  its method; with no route in any scan nothing is marked, while the prompt of
  `enrich_flows.py` says that the endpoint was not found.
* `manifest_detector.py:3`: "a malformed manifest yields no results for that file
  rather than failing the scan". One that is valid JSON or TOML of another shape
  (a list, or a list of dependencies) raises an AttributeError or a TypeError,
  which line 59 does not catch, and fails the scan: `ReadManifest` models it, and
  it is the last of the causes in `FailsForACause`. Frameworks of a Python
  manifest are looked for in the dependencies of all manifests read so far.
* `main.py:190` reports a CodebaseArchitectError and nothing else: a failed copy
  or a tree that is too deep ends the command with a traceback.
* Features of the same name share the status, the diagram and the narrative of
  the last one (`spec_document.py:26`), whatever the scans have of the others.
* `base_ref` of a repository is HEAD although uncommitted changes are copied.

## Not modelled

* `zip_archive.py` and the download routes: two downloads write the same zip in
  place; what each response streams is up to the file system.
* The command line (`cli/main.py`): arguments and output around one run.
  `FileScanStore.delete`, which has no caller.
* Wording and layout: Markdown, HTML and its plugin, strings, the arrows of the
  diagrams, the prompts. The narrated pages are `NarratedScans`' subject.
* The panels, forms, tour and themes of the dashboard.
* The other AI providers: that a call answers or raises is all the narrative
  step sees. Authentication of the runner is a comparison of two secrets.
* Grammars, regular expressions, git, archive formats, symbolic links,
  configuration and logging.
* The six best matches that are listed for a feature, and the weights of edges.

## Plan

In the order in which they matter; all but the last are done.

1. `ScanLifecycle`, `ScanService` and their proofs.
2. `SpecRegistry`, `SpecService` and their proofs.
3. `Dashboard`.
4. `ModuleGraph`, `NarratedScans`.
5. `ArchitectureRules`.
6. `CliRunner`, composed with the document of a spec (`SpecMatching`,
   `SpecDocument`).
7. `SourceTree`, `Syntax`, `CodeFacts`, `DocPages`, composed in `ScanPipeline`.
8. Proofs about `ScanService`'s durability and `NarratedScans`.
9. Proofs about `Dashboard`.
10. Proofs about `ArchitectureRules`.
11. Proofs about `SpecDocument`.
12. Proofs about `ScanPipeline`.
13. `Downloads`: concurrent `zip_directory` of one bundle, and the export of a
    scan that is run again into the same folder.

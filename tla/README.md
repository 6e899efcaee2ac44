# A verification development for arah-harness

TLA+ models of the arah-harness core, the TLC configurations that check them on
small instances, and TLAPS proofs that the most important results hold for every
value of the constants. The reference is the code: each definition is
translated from the lines that `PROJECT.json` ("map") gives for it, and the
documents are used only to say what the code is expected to do. Three parts are
covered: the Go and PowerShell core, the VS Code extension, and the website.

`PROJECT.json` also lists the components, the runs, one mutant of the code per
checked property (the property fails under it), the findings, the hazards of
the code with the properties aimed at each, and the theorems.

    tlasany M.tla                          parse
    tlc -workers 2 -config X.cfg M         check a run (module and cfg in PROJECT.json)
    tlapm M.tla                            check the proofs of a *Proofs module

## 1. The system

arah-harness governs coding agents in a repository. Its core keeps one
*execution contract* per task: who may execute, whom they may consult and how
often, and what evidence or reason ends the task. The contract is kept by a Go
core (CLI and MCP server) and by an older PowerShell runtime that shares its
files. Around that core are a kernel package that installs the harness into other
repositories, file based event logs, a VS Code extension that shows what the
harness is doing for the chat in focus, and a website, built from design
prototypes, with a live console that talks to a local service.

### Inventory

| Component | State it keeps | Operations | Interacts with | Hard behaviour | What makes it correct |
|---|---|---|---|---|---|
| Execution contract (`internal/core/domain.go`, `mutate.go`) | one contract: state, evidence, reason, counter, history | Transition, Complete, Block, evidence and consultant checks | used by every writer | none (pure), but it is applied to copies that may be stale | a verdict needs evidence or a reason, and is final |
| Task service (`internal/core/service.go`, `consultation.go`) | none of its own between calls | Create, Complete, Block, SubmitConsultation, Get, List, Timeline, Context, ExplainRoute | store, resolver | load, decide and persist are separate steps; retries; compensation of failed consultations and creations | what a caller was told is what is stored; compensations undo exactly their own work |
| SQLite store (`internal/adapters/sqlitestore/store.go`) | `tasks` rows, `task_events` | Save, Get, Peek, List, Delete, ApplyTerminal, Reserve/ReleaseConsultationSlot, AppendEvent, EnsureLayout and import | every process opens the same file; writes the mirror after each commit | two copies of every contract; the fresher is written back by readers | verdict and event together; slots counted once; a finished task stays finished |
| Migrations (`migrate.go`) | `schema_meta`, tables, columns, indexes | migrate, RollbackTo | run by every process on open | a version read once, several migrations after it; older binaries; deaths in between | the recorded version is backed by the schema |
| Filesystem mirror (`internal/adapters/fsstore`) | `.arah/local/execution/{active,completed,blocked}/*.yaml`, consultations, briefings | Save (rename, then remove other copies), Get (scan), List, Delete, Write/RemoveConsultation | Go store and PowerShell both write it | Save is two halves; two copies may exist | never ahead of the database; opinions that were announced stay |
| PowerShell execution control (`scripts/agents/execution-lib.ps1`, `task-control.ps1`, `execute-task.ps1`, `validate-execution-contract.ps1`) | the same YAML files | execute, complete, block, consult, status | the mirror only; no lock, no database, no event | whole-file read-modify-write; removes before it writes | its verdicts reach the row; it does not bring finished tasks back |
| Choreography resolver (`choreography/resolver.go`) | none | Resolve from area, paths, workflow | read by Create and ExplainRoute | glob rules, precedence | one primary, no agent twice |
| Context, briefing (`core/context_budget.go`, `briefing.go`) | none | render within a budget | Create, Context | priorities under the budget | fits, keeps what must stay |
| Evidence graph (`internal/evidence/graph.go`) | none | build nodes and edges | Timeline, CLI | several kinds of links | every edge ends in a node |
| CLI (`cmd/arah`) | none | one request per process | task service, kernel | many processes at once | see task service |
| MCP server (`internal/mcp`, `internal/envelope`) | none between requests | a sequential JSON-RPC loop | task service | long-lived process among short ones | see task service |
| Kernel package (`internal/kernel`) | `kernel/`, `manifest.json`, `kernel.zip`; files of a consumer repository | Sync, Verify, Install | the release job embeds the zip, without running Verify | three reads of each source; partial writes; restoring and rollback that may fail | what is installed is what was released; failures undone |
| Event and state files (`arah-event-io.ps1`, `compact-state.ps1`, `migrate-state.ps1`, `record-agent-event.ps1`, `signal-bus.ps1`) | `.arah/local/{bus,audit}/pending` and `archive`, legacy JSONL, `summary.yaml` | write, read, compact, retain, migrate | many hooks and scripts at once; live service | append then remove; readers between two listings | no event lost, none counted twice |
| Session telemetry (`session-telemetry.ps1`) | `.cursor/arah-live`: `active.json`, `sessions/<chat>.json`, `state.json` | hook updates, conversation-focus, context-resolve | VS Code extension, hooks | unlocked read-modify-write; a file half written reads as absent | each chat that is shown has its own session |
| Live service (`live/`) | an index of events in SQLite | ScanAll, watch, debounce, ingest, API, websocket | event files, live console | scan before watch; keys by path | every event is shown once, eventually |
| Extension: chat focus (`composerFocusWatcher.ts`, `composerReader.ts`, `contextResolver.ts`, `read-composer-focus.mjs`) | last signature and focus per folder, poll in flight, last keys | poll, read, resolve, dispose | Cursor's databases, telemetry scripts, panel | state kept before an await; scripts of 10 and 15 s; failures that are only logged | every change of focus is announced, and the chat has a session by then |
| Extension: panel (`liveViewProvider.ts`, `extension.ts`, `media/live.js`) | refresh timer and flags, fingerprints at both ends, watchers; the page's lists and track | refresh, throttle, build, post, draw | session files, focus, editor, webview | 500 ms gathering, 1 s throttle, lost messages, two caches that skip what they think is shown | what is shown is what is in the files |
| Website content (`extract-design-content.mjs`, `lib/content.ts`) | `content/**/*.json` | main's fifteen writes; build | prototypes, deployment | stops half way, keeps the older files | copy and lists without prototype versions; index and pages agree |
| Website pages (`Nav`, docs, explorers, `i18n.ts`) | query, hash, local selections | links, redirects, selection, arrows | router | stale query of the last render; late commits | a link leads where it says; what is selected is shown |
| Website live console (`LiveConsoleApp.tsx`, `LiveConsole.tsx`, `live-api.ts`) | mode, repository, socket or interval | connect, refetch, clean up, select | live service | awaits that return after unmounting; overlapping fetches | nothing left open; not behind what the service has announced |
| Harness generation and update (`assess-repo`, `discover-repo`, `evolve-harness`, `check-harness-update`, `cut-release`, `cli/*.ps1`, `harness/`) | generated files | sequential scripts | git, GitHub | - | - |
| Static pages, prototypes' runtime (`support.js`, `doc-page.js`), schemas, templates, docs | - | - | - | - | - |

`kernel/scripts/**` and the like are a generated duplicate of the sources and are
not components of their own.

### How the core's parts interact

A request enters through the CLI (one process each) or the MCP server (one
process, many requests, one at a time), loads the contract from the row and
the mirror (`Get` writes a fresher mirror back into the row), decides on its own
copy, commits row and event in one transaction, and then copies the contract into
the mirror. PowerShell reads and writes the mirror only. Between any two of those
accesses another process may run, and a process may die.

### How the extension's parts interact

A poll asks, folder by folder, which chat is focused. When the answer's signature
is new, the watcher remembers the focus, runs conversation-focus, which points
`active.json` at the chat and creates its session, and then calls `onFocus`. The
panel gathers this and every other request (file watchers, editor, commands, the
page's `ready`, becoming visible) for half a second, reads the files of the
primary folder, and posts a payload to its page unless both look alike.

### How the website's parts interact

The script turns prototypes into JSON files, which the repository keeps; a build
reads them all and exports pages. A page's explorers keep their selection in the
URL through the router. The console's page, in the visitor's browser, tries
arah-live on the visitor's machine and falls back to the mock of the content.

## 2. Modules

| Module | Models | Built on |
|---|---|---|
| `ExecutionContract` | the contract record, transitions, verdicts, slots, `PreferMirror` (preferFresher) | - |
| `TaskService` | Complete, Block, SubmitConsultation, Get, List over store and mirror, for one task | `ExecutionContract` |
| `TaskLedger` | the abstract promise: one verdict, recorded with its event; slots taken and given back; an append-only log | - |
| `MixedRuntime` | `TaskService` next to PowerShell processes on the same mirror | `TaskService` |
| `TaskCreation` | Create with its compensation, and Delete, next to processes that already work on the task | `TaskService` |
| `StoreOpen` | EnsureLayout, migrations, import, RollbackTo, openers of different versions | - |
| `KernelPackage` | Sync, Verify, the build of the release, Install and its rollback | - |
| `EventLog` | the event files of one kind: recorders, readers, compaction and retention, migration of the legacy file | - |
| `LiveView` | what the panel draws for a payload: pure operators | - |
| `LiveWorkspace` | session, manifest and graph files, how they are read, and who writes them | `LiveView` |
| `FocusFeed` | the abstract promise of the focus watcher: focus per folder, and a call owed for each change | `LiveWorkspace` |
| `ComposerFocus` | poll, reader, conversation-focus and context-resolve; implements `FocusFeed` | `LiveWorkspace` |
| `LivePanel` | provider and page with the messages between them | `FocusFeed` |
| `LiveExtension` | the extension: panel, files, focus and user | `LivePanel` |
| `SiteContent` | the content script, and what a build reads | - |
| `SitePages` | a visitor's links and selections | `SiteContent` |
| `ConsoleView` | the mapping of answers to what the console shows | - |
| `LiveConsole` | connection, socket, fetches and cleanup, with the service as environment | `ConsoleView` |
| `Website` | content, deployment, pages and console together | `SitePages`, `LiveConsole` |
| `TaskServiceProofs` | theorems about the service, alone, next to PowerShell, and next to a creation | `MixedRuntime`, `TaskCreation` |
| `StoreOpenProofs`, `KernelProofs`, `EventLogProofs`, `WebsiteProofs` | theorems about the module of that name | their module |
| `LiveWorkspaceProofs` | lemmas about the files of a window | `LiveWorkspace` |
| `ComposerFocusProofs`, `LiveExtensionProofs` | theorems about the two halves of the extension | their module, `LiveWorkspaceProofs` |
| `MC*` | constants and symmetry for TLC | their modules |

### State and actions against the code

*`TaskService`.* `row` is the task's row, `mirror` the three buckets, `timeline` the
set of `task_events` (inserted with `OR IGNORE` under stable ids), `opinions`
the consultation files. `proc[p]` is a handler's local state: its program
counter, request, own copy of the contract and consultation id. A step is one
access to what is shared: `LoadRow` and `LoadMirror` are the two halves of
`get`, `Reconcile` the write back, `Plan` the handler's decision, `Apply`
`ApplyTerminal`, `Copy` and `Prune` the rename and the removal in `fsstore.Save`,
`Reserve`/`Release` the slot transactions, `WriteOpinion`, `Emit`,
`RemoveOpinion` the rest of SubmitConsultation. `Fail` is any access that returns an
error and goes on where the handler's error path goes on; `Crash` is a
process killed between two accesses. `granted` and `acked` are history: the slots
taken and not given back, and the mutations callers were told had succeeded.
Time is a counter that advances with each new history entry.

*`MixedRuntime`.* A PowerShell command is: read the copy, (consult: write the
opinion), remove the copies in the other buckets, write its own, and, for
complete and block, the validator's second read. No lock, no event, no row.

*`TaskCreation`.* The creator saves row and mirror, writes briefings and
appends the event; after a failure it deletes what it wrote, and each part of the
delete may fail as well. Other processes see the task as soon as the row is there.

*`StoreOpen`.* `version` and `objects` are the schema; each migration is one
transaction, the version it starts from is read once. The import lists one bucket
into memory and upserts row by row. Once open, processes finish tasks
(the row, then the two halves of the mirror) and PowerShell moves files.

*`KernelPackage`.* A file is its content and a digest the content it is the digest
of. Sync reads every source three times (copy, digest, zip), and an edit may
come between any two. When the zip fails, the previous manifest is put back; the
errors of that are ignored in the code, and in the model it may be `stuck`.
`Build` takes whatever zip there is: the job that builds the release
(`release.yml:129`) neither runs Verify nor waits for the one that does, so
`verified` is history only. Install decides what to write, writes file by file, and
rolls back.

*`EventLog`.* `pending` is a set of files, each an event and the migration that wrote
it (0 for a recorder): the ULIDs are unique. `archive` counts the lines an
event has in the archive of its month, so that duplicates can be told. A process
is one run of a script and its steps are its file accesses. All the scripts run
with `$ErrorActionPreference = 'Stop'`, so that an access to a file which another
process has taken away ends the process: `Die` stands for that, for every
other failing access and for a kill.

*`LiveWorkspace`.* Sessions and graphs are names; `SessionData` and `GraphData` say
what they hold. `hook` is a rewrite in progress: between `HookBegins` and
`HookEnds` the session file reads as absent, as a file that does not parse
does. `PickPrimary`, `EditorFolder` and `LoadSessionState` are the functions
of the same names in `workspaceContext.ts` and `liveViewProvider.ts`. A folder is
found in the order of the window's folders (`FirstFolder`), so that every list of
folders in the code is a set here.

*`ComposerFocus`.* `poll` is `pollComposerFocusInner` between two awaits: reading a
folder, having read it, waiting for conversation-focus (`focusRun`, with the step the
script has reached). `poll.rest` is the set of the folders it still has to ask, and
`Here` the first of them, which it is asking. `lastFocusSignature`, `lastFocusMeta`,
`lastConversationKey`, `lastResolvedKey` and `cachedNode` are the variables of the
code. context-resolve runs of the editor may overlap each other and the poll. The
actions that end in a callback carry its name (`...OnFocus`, `...OnDone`).

*`LivePanel`, `LiveExtension`.* `refreshTimer`, `pendingForce`, `pendingTabSwitch` and
`lastFingerprint` are the provider's fields, `throttled` stands for "less than
1 s since `lastWatcherRefresh`", `toPage` for messages on their way, and `page` for
what the page drew, its own fingerprint and the key of its track.
`fsPending` are file events not reported yet. `missed` is history: a change the
extension will not hear of. The watcher is known by `FocusFeed` only.

*`SiteContent`.* `step` is the statement of `main` that is next; `broken` names a design
whose script cannot be read, at which `main` throws. A text is a sequence of
words, of which the versions and the counts are told apart.

*`SitePages`.* `query` is what the router has committed, `pending` what was asked of
it; `Commit` may take any of those and drop the ones before it. `selected` is the
state of the two explorers that keep one. `promised` and `choice` are history:
the docs link followed and the last selection.

*`LiveConsole`.* `connects[c]` is one run of the effect between two awaits, with
`cancelled` as in the code; a bundle is the versions its requests were answered
with. `fetches` are the ones a message or a tick has begun. `socket` and
`timer` are per connection, so that one that outlives its page would be seen.
`service` has the version of the answers, the last version its watcher had a
part in, and whether a broadcast is `owed`. `ServiceChanges` is either a file event
that will be flushed or a change nobody is told of; `WatcherFlushes` is the flush,
with its one message to each open socket for all that came until then.

## 3. Runs

All runs but `composer_focus` are safety checks. `CHECK_DEADLOCK FALSE` everywhere: requests, opens,
edits, installs and events are bounded, and a system nobody calls has nothing to do.

| Run | Question | Instance |
|---|---|---|
| `task_go` | do row, timeline, mirror, opinions and slots agree when processes interleave, fail and die? | 2 processes, 3 requests, limit 1, 3 consultation ids |
| `task_single` | is one process at a time, with failures and crashes, the atomic `TaskLedger`? | 1 process, 4 requests, limit 2 |
| `task_mixed` | what survives next to PowerShell? | 1 Go, 1 PowerShell process, 2 requests each |
| `task_creation` | does a failed Create leave nothing, a successful one everything, and is a verdict that another process commits meanwhile recorded with its event? | creator, 1 worker, 2 requests |
| `store_open` | do concurrent, older and dying openers and a rollback leave a usable schema and a full import? | 3 processes (one supports schema 2), 2 tasks, 4 opens, 1 rollback |
| `event_log` | does any event get lost or doubled by unlocked recorders, compactions, migrations and readers? | 2 processes, 3 runs (2 of them migrations at most), 2 events, days 0 to 3, months of 2 days, 1 day of retention |
| `composer_focus` | does the focus watcher keep its contract, and has the chat a session by then? | 2 folders, 2 chats, 1 name, 1 context-resolve at a time, 2 events |
| `live_panel` | does the panel agree with the files, and the page with its payload? | 2 folders, 2 chats, 2 session contents, 1 graph, 2 events, 1 message on its way |
| `website` | is what a visitor sees what was extracted, selected and served? | 4 breakages (none, before, in and after the docs), 2 docs sections, 2 items per list, 14 URLs to arrive at, 2 connections, 2 versions |
| `kernel` | is what arrives what was released, and are failures undone? | 2 paths, 2 contents, 2 edits, 2 syncs, 2 installs (1 of a package Verify reports) |

*Why the bounds are enough for what is asked.* Every race the core has is between two
copies of one contract, so two processes reach it; three requests give the
second process a retry after the first one's verdict; with a limit of one slot two
processes already contend for the last one (`task_single` uses two, so that
release and reserve alternate). The refinement needs four requests to chain a
failed mutation, its retry and a consultation. `store_open` needs two openers
of the newest version to race, one older binary to record a lower version, and a
fourth open to look at what they left. `kernel` needs two paths so that a
failure or an edit falls between two files, and two syncs and installs so that the
second meets what the first left; a binary whose package Verify reports is installed
once (`Bounded` in `MCKernelPackage`), as the second install is there for what
the first one left. `event_log` needs two movers of one event at once
and a third run to look at the result or to write the event first, and days
enough for a month to expire while another one is filled. An *event* of
`composer_focus` and `live_panel` is something the user, a hook or a failure does:
two make a change and a second one while the first is being followed, and
what the extension itself does is not counted. `live_panel` starts with an ARAH
folder in which a chat has run, and another folder that may become one; the
second graph is the absence of the first. `website` looks at the service's
changes and at connections that are left only on the console page of a complete
site, with at most two fetches, and none while a filter is chosen (`Bounded` in
`MCWebsite`): what is read and selected elsewhere does not touch the service, and two
overlapping fetches are already out of order. Two docs sections both have an
`overview`, so that a slug alone does not name a page. The theorems below remove these bounds for
all safety properties.

*Symmetry* is used in `task_go`, `kernel`, `store_open` and `event_log`: the permuted processes, tasks, paths, contents and events are not
distinguished by any definition, and none of these runs checks liveness.

### What the passing runs show

- `TimelineMatchesRow`: the row never shows a verdict whose event is missing.
- `MirrorNeverAhead`: no file shows a verdict before the database has one.
- `TerminalStaysTerminal` (and `MixedTerminalStaysTerminal` with PowerShell): a stale
  copy put back by a reader or written late never revives a finished task.
- `ConsultationLimit`, `SlotsAccounted`, `SubmittedOpinionOnDisk`: racing, failing
  and compensating consultations neither exceed the limit, nor lose or double a
  slot, nor remove an announced opinion.
- `AckedOnTimeline`: success is only reported for what is on the timeline.
- `ImplementsLedger`: with one process at a time the service is the ledger.
- `DryRunWritesNothing`: a dry run changes neither row nor files, although it
  loads like a real one.
- `CreationComplete`, `AbortLeavesNothing`: a creation leaves all or nothing,
  unless another process worked on the task meanwhile or the abort itself failed
  and said so.
- `VerdictHasEvent`: a row with a verdict that another process committed while the
  task was being created or taken back has its event, although the abort removes
  events and row in a transaction of its own.
- `SchemaBacksVersion`, `ReadyFindsSchema`, `ImportComplete`: see the table.
- `NothingLost`: an event once written is in one of the three places until its
  archive is outdated. `ExactlyOnce`: duplicates only come from runs that ended
  early (of two compactions of one file, the slower one fails).
  `QuietReadSeesAll`: a read that no move overlaps sees everything. A read that
  does overlap may miss an event or see it twice; this is a hazard of the
  code that no property claims away.
- `SyncRepairs`: whatever earlier runs left, a Sync that succeeds undisturbed leaves
  nothing for Verify to report.
- `FailedSyncKeepsPackage`: a Sync that returns an error has not touched the zip, and
  leaves the manifest it found or one that cannot be read. Where restoring the manifest
  fails, the code says nothing and the manifest of a package that was not built stays:
  what is left of the promise is that it agrees with the sources and with
  `kernel/`, so that only the zip is behind.
- `InstalledIsReleased`: a forced install of a binary built from a package Verify
  accepts ends with the sources of the release. A package Verify would report can
  be released as well, and of that one nothing is claimed.
- `NoForceKeepsFiles`, `InstallRolledBack`: an install changes nothing that existed
  unless it is forced, and a failed one puts back all but the file it failed on and
  those it could not restore.
- `AnnouncedHasSession`: a chat the panel is told of has its session file when the
  poll that found it is over, unless a script failed; otherwise the panel would
  show another chat's session under this chat's name.
- `FeedImplemented`: the watcher implements `FocusFeed`. The mapping takes
  `focusRun` as the call that is owed; a chat is never exchanged without one, and it is
  made in the end. `live_panel` rests on that contract.
- `PanelCurrent`: with nothing on its way, the page shows what the files say,
  although both ends skip what they take for shown and messages get lost, unless the
  change was one the extension never hears of.
- `PageShowsPayload`: a page that was cleared, hidden and drawn over shows what a new
  one would, up to the marks its key ignores.
- `NoOrphanSocket`, `ConsoleCurrent`: leaving the console at any await leaves nothing
  open; staying with an open socket, nothing under way and no broadcast owed, the page
  shows answers no older than the last change the service's watcher saw, if no fetches
  overlapped or failed. A console may well be behind in what the service never
  announces: GitHub's pull requests, `arah.config.yaml`, the 24 hours of the counts,
  files that are removed, directories that were absent at the start.
- `VisitorSeesChoice`: a docs link leads to the page it names, and the last selection
  is what is shown once the router has settled.
- `WebTypeOK` includes that the copy and the lists of a written page hold no version of
  the prototypes in the forms that `calibrateText` replaces, that the items of a list
  keep slugs of their own if the prototypes' titles have such, and that every entry of the
  docs' sidebar has its page. It is about each file by itself: a site may mix older and
  newer files. What a page of the docs says, and the lists of the static pages, are
  not in the model.

### Findings

Two runs are expected to fail; each checks one statement of the repository that
the code does not keep. The quotes and lines are in `PROJECT.json`.

| Run | Statement | What happens |
|---|---|---|
| `terminal_race` | a terminal state is immutable (`domain.go:257`) | two processes load the live task and commit different verdicts; `ApplyTerminal` does not look at the row again |
| `panel_stale` | file events are limited to one per second "if the state has not changed" (`liveViewProvider.ts:271`) | the code drops them whatever has changed, after the payload was built and before the second is over, and asks for no refresh afterwards |

*Further behaviours met while modelling*, which have no run of their own:

- Core: the late mirror write of a Go consultation prunes the file that held a
  PowerShell verdict (`store.go:483`, against `store.go:170`); `consult -Blocking`
  without `-Reason` blocks without one (`task-control.ps1:211`, against
  `docs/EXECUTION_CONTRACT.md:70`); the file an install failed on stays truncated
  (`payload.go:314`, against `payload.go:240`); a slow second importer writes a live
  copy over a finished row (`store.go:94`, against `store.go:32`).
- Extension: a signature is recorded before its script runs, so that a failed run
  is not tried again until the focus changes; "no node" is kept for good; the
  track stays at a text ("grafo não encontrado") once the graph is back, if its key
  is the last one drawn; folders that come and go are not heard of; the primary
  folder is the first with an active session, not the editor's
  (`docs/LIVE_SESSION.md`, Multi-root); a chat without a session file is shown with the
  session written last, which may be another chat's; conversation-focus does
  recalculate the choreography of a session that has none.
- Website: the language switch of a docs page exchanges only the first part of the
  path, and since slugs are translated it may lead to the 404; "Get Started" leads to
  a page no index has; of overlapping fetches the last answer wins, and the six
  answers of a bundle may be of different versions; a socket that closes is not
  opened again; two selections faster than a render lose the first one's
  parameter on a page with two explorers.

### Fairness

`ComposerFocus` assumes weak fairness of `PollLoop`, since the interval goes on firing,
readers are killed after 5 s and promises settle, and of `FocusScript`, a process that runs
by itself and is killed after 10 s. Nothing is assumed of the user, of hooks, of
context-resolve runs, and nothing has to fail. `FocusFeed` states its promise as
weak fairness of `AnnouncedOnFocus`, and `composer_focus` checks that it follows.

No other run assumes fairness: the requests of the core are synchronous calls of
processes that may die, so that nothing has to happen, and the properties of the panel
and of the console are about states in which nothing is on its way.

## 4. Proofs

The theorems hold for any number of processes, requests, tasks, paths, contents,
connections, chats and folders, and for any bound the runs set. They rest on the named
assumptions of the modules, which TLC evaluates for the runs' constants:

- `ContractAssumption`: concrete evidence is evidence, the primary agent and the
  consultants are agents, the placeholder for no reason is no reason, and the
  limit is a natural number;
- `ServiceAssumption`: requests are requests, only Complete and Block have dry
  runs (the other commands have no such flag), and the placeholder for no
  consultation id is no id;
- `KernelAssumption`, `OpenAssumption`, `EventLogAssumption`: placeholders differ from
  data, bounds are natural numbers, supported schema versions are 1 to 3, months
  have days;
- `WorkspaceAssumption`, `EmptyBodyAssumption`, `NoneAssumption`: the folders have an
  order, a new session has a content, the bound is a natural number, and None is no
  chat, folder, file or record;
- `FocusAssumption`, `HomeAssumption`: a chat has a folder; None is no focus, no
  record of a run and no key;
- `PanelAssumption`: a bound is a natural number;
- `ConsoleAssumption`: the placeholder is no number, bounds are natural numbers, the
  mock's repositories are a sequence;
- `ContentAssumption`: the prototypes, and what an earlier run of the script wrote, are
  such that the items of a list have different slugs, that a section and a slug of the
  docs have one title, and that a home page has parts and layers; versions are none of
  the prototypes'. The prototypes and `website/content` of this repository are like
  that. It is an assumption and not a theorem because `slugify` does not see to it: two
  titles that differ in an accent or a punctuation mark get one slug, and nothing in the
  script looks for that;
- `PendingAssumption`, `ArrivalsAssumption`: the bound is a natural number, a URL has a
  locale and one of the explorers' parameters.

`OneProcessIsLedger` has the hypothesis that there is one process, as its statement
is about one; no other theorem has a hypothesis.

| Module | Theorems | Inductive invariant and why it is needed |
|---|---|---|
| `TaskServiceProofs`, the service | `TypeCorrect`, `VerdictOnTimeline`, `MirrorFollows`, `NoRevival`, `AcknowledgedIsRecorded`, `LimitHolds`, `SlotsCounted`, `OpinionKept` | `TypeInv` adds to the types that a process which is about to write an opinion or to give back a slot holds a consultation id. `VerdictInv` is about the row, every mirror file and every copy a process holds: if it is terminal, its event is on the timeline and the row is terminal too; only the copy about to be applied is excepted, and its event goes with it. `SlotInv`: the counter of a live row is the number of slots granted, each held by one process at most, and a slot whose opinion reached the timeline is held by nobody |
| the ledger | `OneProcessIsLedger` | `LoneInv`: with one process, the copy it holds agrees with the row wherever its next decision depends on it, or the request was decided before and only its files are missing. Each step is then a step of `TaskLedger` or a stutter (`LedgerStep`) |
| next to PowerShell | `MixedTypeCorrect`, `MixedAcknowledgedIsRecorded`, `MixedNoRevival`, `DryRunIsDry` | `MixedInv`: PowerShell's copies have no event, so `VerdictInv` is false here; what is left is that only terminal copies are newer than the first one (`LiveIsFirst`), so that no copy revives a finished row, and that a process with a dry run is at a step that writes nothing |
| a creation | `AbortClean`, `CreationTypeCorrect`, `CreatedIsComplete`, `CreationVerdict` | `AbortInv`: at each step of an abort, what has been removed so far is gone, if nobody else has changed the task. `CompleteSoFar`: the same of what a creation has written, with the copies others hold of it (`HeldExists`). `VerdictSoFar`: before the row is there nobody can have decided, and an event goes only with the row |
| `KernelProofs` | `KernelTypeCorrect`, `SyncSucceeds`, `FailedSyncHarmless`, `ReleaseArrives`, `RollbackRestores`, `ExistingKept` | `KernelInv`: an undisturbed Sync has copied, hashed and packed what it has visited so far; a package that Verify accepts is made of one image, and so are the manifest and `kernel/` of a Sync that packs undisturbed; an install has changed only what it has written, and knows what was there |
| `StoreOpenProofs` | `OpenTypeCorrect`, `VersionBacked`, `ReadyHasSchema`, `ImportsEverything` | `OpenInv`: besides the recorded version, every process that is past a migration finds that migration's objects. The version alone is not inductive, as a slower process may put it back. `ImportInv`: a task is in the database, or in a bucket that the importer has still to list, or in the list it works off |
| `EventLogProofs` | `EventTypeCorrect`, `NothingIsLost`, `RecordedExactlyOnce`, `QuietReadComplete` | `LogInv`: what each process relies on for its next removal (the line it has appended, the month it found outdated, the lines it has migrated), and a lemma that no step of another process takes it away. `OnceInv`: an event is there once, and once more for each process that has still to remove a copy it made (`Owing`), unless a run ended early. `ReadInv`: what a reader that no move overlaps has counted is what is in the places it has visited |
| `ComposerFocusProofs` | `FocusTypeCorrect`, `AnnouncedChatHasSession`, `FeedStepsImplemented` | `SessionInv`: the signature a folder is compared with names the chat of the focus it shows (`SignatureOfFocus`); the chat that conversation-focus would skip, because the last key says so, has a file (`ResolvedHasSession`), and so has the one its script has pointed at (`RunHasSession`); any other focus has one, or the script that will see to it has started (`FocusHasSession`). `AnnouncedHasSession` alone is not inductive: a poll that skips a chat relies on all of them |
| `LiveExtensionProofs` | `PanelTypeCorrect`, `PageLikeFresh`, `PanelIsCurrent` | `PageInv`: a page's key is that of its chains, so that a track which is kept because its key is unchanged is like the one it would draw. `CurrentInv`: with nothing asked for or to report, the host's fingerprint is that of the files (`HostCurrent`); a page that has loaded gets to the host's last fingerprint unless the host has forgotten it in order to post whatever it finds (`PageFollows`); and a session under a hook's rewrite has no file (`HookEmpties`), without which the end of the rewrite might change nothing a watcher reports and still change what is read |
| `WebsiteProofs`, the console | `NothingLeftOpen`, `ConsoleTypeCorrect`, `ConsoleIsCurrent` | `ConsoleInv`: a connection that is not the page's own is cancelled or over. `NoOrphanSocket` alone is not inductive: without it a bundle that returns late could open a socket. `CurrentInv`: since its last message the page has fetched, or is fetching, what the watcher has seen until now, unless a broadcast is owed (`UpToDate`), and it has a socket or an interval, not both (`OneChannel`). Navigation, building and exploring leave the console alone or unmount it |
| the content and the pages | `WebTypeCorrect`, `ChoiceIsSeen` | `VisitorInv`: every file that can be read is as good as the assumption has it of what it is made from (`FilesInv`), hence every deployed site (`SiteInv`); the last request made of the router, or the query when none is left, has the last selection, and the explorer that keeps an index of its own has the right one whenever the query agrees (`Chosen`); a link that was followed is one of the sidebar or of the neighbours, and each of those names a page there is (`Named`). `VisitorSeesChoice` alone is not inductive: it says nothing while a request is pending |

Each proof module states typing first, then the preservation of each part of
the invariant, one step per action, and combines them in the temporal theorems.
TLC checked each inductive invariant on the instances above before it was proved.
`FeedStepsImplemented` maps every step of the watcher to one of `FocusFeed` or to a
stutter under the mapping that `composer_focus` checks; the weak fairness the contract
promises is the part of `FeedImplemented` that is left to TLC.

Facts about the first folder of a set, the first item that passes a test, the last
element of a tail or what flattening a sequence of sequences gives rest on
`LeastIn` (every set of naturals but the empty one has a least element), which is
derived from the library's well-founded induction: what would be an induction looks
for the least counterexample.

*Only model-checked:* the liveness in `FeedImplemented`, as liveness under fairness and
ENABLED are out of the provers' reach. Every other property of a passing run is stated
by a theorem. What the operators compute that no invariant speaks of (the chains of
`LiveView`, the repositories of `ConsoleView`) is not proved.

## 5. What is left out of the models, and why

- One task per run of the service: contracts of different tasks share no state
  but the database lock. `StoreOpen` has several, because the import counts them.
- Objective, scope, participants and wording of a contract are data of the task and
  never change after Create; the properties do not read them.
- preferFresher compares RFC3339 strings; the models order copies by a logical
  clock. The string comparison's trouble with trimmed zeros is listed as a hazard.
- Writing a file under a temporary name and renaming it is one step, so that the
  shared `<task>.yaml.tmp` of two simultaneous saves is not covered (hazard).
- The hot summary (`summary.yaml`), the scrubbing of secrets and torn lines of an append
  in `EventLog`.
- Removing the copies of a task in several buckets is one step (`Prune`, `PsRemove`,
  `DeleteCopies`), though some of them may fail, and a process may die before or after.
- What conversation-focus writes is two steps: the session it creates with the
  pointer, and everything it records of the chat; the copies it writes in between are
  left out. `PickPrimary` takes the `workspace` of an `active.json` as the folder the file
  is in, which is what the script writes.
- A broadcast whose file changed no answer is a version equal to the one before it,
  and a single socket that breaks while the service runs is not modelled.
- Cleaning of zip entry names, YAML, JSON-RPC and flags: pure
  input and output.
- Extension: status bar, view modes, scrolling, the detail panel, opening of files,
  the diagnostics log. Files change in one step, but for a session's rewrite by a hook.
- Website: markup, styles and the pages without state; how a prototype's HTML is cut up
  (a design is given by its words and items, and by what of its script cannot be
  read). `next build` reads all files in one step.
- The live service's index and the keys of its ingestion: only its answers, the flush of
  its watcher and its messages are modelled.
- Components with status `not_modelled` in `PROJECT.json` are in the plan or
  have no shared state; the reason is in their note.

## 6. Plan

Done, in this order: contract, service, ledger, mixed runtime, creation, opening,
kernel package, event log; then the extension (workspace, focus feed and its
implementation, panel, composition) and the website (content, pages, console,
composition); proofs of the core, the extension and the website. Next:

1. Proofs: what the operators of `LiveView` and `ConsoleView` preserve.
2. `LiveIndex` over `EventLog`, in place of the service as environment: scan, watch,
   debounce and flush, ingestion keyed by path or line. Liveness: every event written
   while the watcher runs is in the index in the end.
3. `Routing`: the choreography resolver, the evidence graph and the context budget as
   operators checked against reference definitions over bounded inputs.
4. PowerShell `execute-task` (creation) in `MixedRuntime`, harness update scripts.

Instances stay at two or three actors and one or two items each.

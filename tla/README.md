# TLA+ models of cli-consumption

cli-consumption collects the usage history of AI command-line tools, stores it in
SQLite or PostgreSQL and reports on it. This directory models the parts of it whose
correctness depends on order, concurrency and failure, checks them with TLC on small
instances and proves the most important results for every value of the constants with
TLAPS, the TLA+ proof system.

`PROJECT.json` is the machine-readable index: components, runs, the mutant that breaks
each property, the source lines of each definition, findings, hazards, theorems.

## 1. The system

Paths without a prefix are under `src/src/cli_consumption/`; the web application is
under `src/apps/web/src/`.

| component | state it keeps | operations | works with |
|---|---|---|---|
| Snapshot store and ingestion (`storage.py`, `models.py`) | conversations, seven child tables, subagent graph, scope rows, runs, receipts | `ingest_snapshot` and its helpers | API, CLI, retention, reports |
| Retention (`retention.py`) | the same tables | `retain_before` | CLI; runs next to ingestion |
| Schema migration (`schema.py`, `migrations/`) | the tables there are, what their rows are converted to, the recorded revision, a lock | `upgrade_database`, `downgrade_database` | every command that opens the database |
| Provider adapters (`adapters/`) | none; the conversation that one log is read into | parse a log, rank copies, count | logs of coding tools, collection |
| Collection (`cli.py` collect, `adapters/_incremental.py`, `adapters/claude.py`) | plans, packed groups, staged batches and a summary, all during one command | plan, read, pack, halve, stage, ingest | provider files, store |
| Snapshot upload (`sync.py`, `cli.py` sync and upload-db) | negotiated capabilities, idempotency keys, outcomes | `SyncClient.send_snapshot` | the collector's API over a network |
| Serve supervision (`cli.py`, `frontend.py`) | an API thread, a dashboard process, its unpacked runtime | start, watch, stop | operating system, readiness probe |
| Readiness probe (`api.py`) | one probe slot, closed flag | `run`, `_deliver`, `close` | event loop, daemon thread, database |
| Conversation pagination (`reporting_api.py`) | sessions, cursors, references | create, page, next cursor, resolve, expire | reporting routes |
| Reporting slots and exports (`reporting_api.py`) | two semaphores, private temporaries | report and export slots, streamed responses | reports, file system |
| Report queries (`reporting.py`, `dashboard.py`, `exporting.py`, `snapshot_extraction.py`) | a read transaction | estimate, index, one statement per table | store, commits of others |
| Report, CSV and snapshot files (`dashboard.py`, `exporting.py`, `snapshot_files.py`) | an output and a temporary | `_atomic_write` | store, file system |
| Dashboard layouts (`dashboard_layouts.py`, `reporting_api.py`) | one row with a revision | load, save, reset | reporting routes |
| Layout editor (`app/dashboard/dashboard-client.tsx`, `layout-editor.ts`, `server/reporting.ts`) | draft and its undo history, saved layout, entity tag, recovery state of each tab | edit, undo, redo, save, reload, retry, leave | layout routes through the dashboard server |
| Dashboard and export requests (`dashboard-client.tsx`, `server/export.ts`) | filters, current query, busy flags | query, export, cancel | reporting routes |
| Web sessions (`server/session.ts`) | none; signed tokens | sign in, check, sign out | web routes |

**How they interact.** Everything meets in the database. Ingestion calls from the API's
threads, from `collect` and from `retain` run as separate transactions; nothing but row
locks (PostgreSQL) or the single writer (SQLite) orders them. Clients reach the collector
over HTTP with retries, so a request may be executed after its client gave up. The
dashboard reaches the reporting API through a server of its own with a 20 s limit, with
the same consequence. Inside the API process, requests share the probe slot, the two
semaphores and the page store, the last under a lock.

**What is hard about them, and what makes each of them correct.**

* *Ingestion.* Every call compares what it brings with what is stored and then replaces
  rows in several statements; other calls and retention run between them. It must behave
  as one decision: no lower-ranked copy wins, child rows of two copies never mix, a graph
  is replaced only on evidence that still holds, one idempotency key has one run.
* *Collection.* A provider too large for one snapshot is read in batches; any read may
  fail, the process may be killed between two commits and run again in another mode. Every
  file must be read once, success must leave what one collection would, a strict command
  must not write what it refuses, and what is printed must be what was committed.
* *Upload.* Lost answers, late execution, a gateway's 503 for a request that goes on, a
  collector that is upgraded midway. Each upload must be ingested once, and a reported
  success must stay true.
* *Readiness.* The query of an abandoned probe may run for ever. It must not start a
  second one, answer for a later request, or lose the slot.
* *Pagination.* Expiry, ingestion and lost responses between pages; clocks read before
  the lock. A list must be whole, or end with an error.
* *Slots.* Deadlines, failures and disconnects; permits and temporaries must come back.
* *Reports.* A dashboard is a dozen statements, each of which selects its rows anew while
  conversations are replaced and deleted. What they return together must be one committed
  database, or an error.
* *Layouts.* Several tabs, answers out of order, writes that arrive after the tab gave
  up. No layout may be overwritten unseen, and no draft lost to undo.
* *Files.* Failure, kill and power loss at each call. The output must be old or complete.
* *Schema.* A database of any release, or of none, is opened by several releases at once,
  and a migration may fail or be killed at any of its steps. The recorded revision must
  tell the truth, every row must be converted, a database that none of them recognises must
  be left alone.
* *Adapters.* Twenty-one log formats, most of them append-only files that grow while they are
  read and that exist in copies: records come late, twice, cut off or without the ones they
  refer to. Every model call must be counted once, in its turn; counters must add up, also
  where they pass their limit; an older copy must not undo a newer one.
* *Serve.* Two servers that fail, hang or ignore signals, an interrupt at any moment. The
  command must get over its waits, take the dashboard with it and report the death of either;
  the process then waits for its API thread.

## 2. Modules

| module | models | main state | actions |
|---|---|---|---|
| `Snapshots` | the data of ingestion: copies, ranks, edges, argument lists, scopes to lock | none | none |
| `SnapshotStore` | abstract: one serialized decision per call | the six committed tables | `Ingest` |
| `Ingestion` | `ingest_snapshot` statement by statement, on both dialects, with replays, integrity errors, failures, retention | committed tables; each call's statement, locks, uncommitted writes | `Call`, `Replay`, `LockScope`, `Get`, `Clear`, `FlushRow`, `AddChildren`, `WriteGraph`, `Commit`, their conflicts, `Fail`, `Retain` |
| `SchemaMigration` | both schema commands by processes of several releases | `db`: revision, migrations whose effect it shows, rows, scopes; `lock`; each command's transaction | `Ask`, `Begin`, `GiveUp`, `Adopt`, `PlanUpgrade`, `PlanDowngrade`, `MigrateUp`, `MigrateDown`, `Verify`, `Interrupted`, `WriteRow` |
| `UsageRecords` | token records, drafts of a conversation, counters (`adapters/_shared.py`) | none | none |
| `Sessions` | what a log has to be read as (`Truth`) | none | none |
| `TreeLogs` (Pi, Qwen Code), `EventLogs` (Claude Code, Codex, Copilot, Kimi), `MessageLogs` (Gemini, Cursor, Mistral Vibe), `DatabaseLogs` (OpenCode, Kilo, Goose, Crush), `DocumentLogs` (Amazon Q, Cline, Continue, Amp), `FileLogs` (Plandex, OpenHands), `AiderLogs`, `GrokLogs` | the adapters, by how their tools keep a session: the log the tool writes, and the conversation, event count and choice of copies it is read into | none | none |
| `ProviderLogs` | one session of one tool, written, copied, collected and delivered | `facts`, the copy, what collections hold and have delivered | `Write`, `KeepCopy`, `Select`, `ReadAgain`, `Ingest` |
| `Transcripts` | the files adapters read, what one collection keeps of them, the groups of Claude Code transcripts | none | none |
| `Collection` | `collect` with its batches, commands on one database | `storedRows`; batches each command ingested; each command's plans, place, parts to read, staged batches, summary | `PlanProvider`, `Planned`, `IngestWhole`, `Pack`, `Flush`, `CollectPart`, `YieldWhole`, `Advance`, `IngestBatch`, `StageBatch`, `IngestStaged`, `ReadFails`, `Kill`, `Rerun` |
| `SyncUpload` | upload commands against one collector over a network that loses and delays | each command's plan and progress, collector runs, requests and answers on their way | `Negotiate`, `Send`, `Receive`, `TransportError`, `Execute`, `Refuse`, `Unavailable`, `Drop`, `UpgradeCollector` |
| `Readiness` | `ReadinessProbeRunner` and `GET /ready` | active count, closed, requests, threads | `Arrive`, `Start`, `AskDatabase`, `Release`, `Deliver`, `Respond`, `TimeOut`, `Close`, `Stop` |
| `Serve` | `serve --front`, composed with `Readiness`, whose loop is its API thread | main thread, API thread, dashboard process, runtime directory, `should_exit` | `Prepare`, `Unpack`, `StartFront`, `StartApi`, `Watch`, `Judge`, `Interrupt`, `InterruptAgain`, `StopServers`, `Terminated`, `KillFront`, `Killed`, `Join`, `Report`, `Leave`, `EndProcess`, `FrontEnds`, `ApiFails`, `ApiCloses`, `ApiStops` |
| `Pagination` | `PaginationStore` and the list route | sessions, cursors, references, clients, clock | `Select`, `Create`, `Deliver`, `AskPage`, `Page`, `Resolve`, `Leave`, `Tick`, `Ingest` |
| `ReportingSlots` | `ReportingRuntime._slot`, `export`, `PrivateExportResponse` | permits, request stages, temporaries | `Acquire`, `Begin`, `Work`, `LeaveSlot`, `Stream`, `FinishStream` |
| `ReportReads` | the statements of reports, exports and extractions next to commits | committed copies; each reader's transaction, its view and what it got | `Open`, `Ask`, `Fail`, `Commit` |
| `ReportFiles` | the three `_atomic_write` functions | directory and its unsynchronized versions, contents, writers | `Create`, `Write`, `Flush`, `Replace`, `SyncDirectory`, `Fail`, `Kill`, `PowerLoss` |
| `DashboardLayouts` | the layout row and its conditional write | `row`; `history`, a ghost of what each revision meant | operators used by `LayoutEditor` |
| `LayoutEditor` | browser tabs composed with `DashboardLayouts` | React state of each tab; its requests | user, network and arrival actions |
| `LayoutHistory` | the reducer of one draft: grid, first fit, undo and redo | `draft`: past, present, future | `AddWidget`, `RemoveWidget`, `ChangeWidget`, `Undo`, `Redo`, `Reset`, `Replace` |

`Ingestion` implements `SnapshotStore` (`ImplementsStore`): `conversations`, `children`,
`graph`, `scopes`, `runs` and `receipts` are the same variables, every statement but
`Commit` is a stutter, and `Commit` must be the store's `Ingest` of the call's arguments on
the state it replaces. That is the strongest statement about ingestion here: whatever the
other calls did in between, the result is that of the whole decision taken at the commit.

A session in `ProviderLogs` is a sequence of facts: asked, answered, called a tool,
finished, failed, compacted. The modules of the adapters say, twice over, what a provider
makes of them: what records the tool writes (`LogOf`), which is how the adapter's code and its
tests take the format to be and is marked external, and what rows the adapter makes of
those records, which is the code. Names begin with the provider's. `Truth` counts the facts without looking at any record.
The traits of a provider name what its log cannot tell, so that the exceptions from the
properties are few and in one place.

`MCService` (serve, uploads), `MCCollecting` (schema, logs, the command), `MCReporting` and
`MCLayoutEditor` put parts that share no state in one run: one of them moves and the others
wait. A property that begins with `Every` is the liveness property of one part, stated of the
behaviours in which that part moves.

`LayoutEditor` extends `DashboardLayouts`; a `Put` is the row's conditional `UPDATE` or
`INSERT` with the tag the request carries. `MC...` modules hold small inputs, symmetry and
the settings described below. `...Proofs` modules hold theorems. Operators named
`X_Something` are plausible wrong versions of `X` and are used only to see that a property
notices them.

### Abstractions

* Identifiers are provider-qualified in the code, so one provider is modelled. Machine
  labels are numbers in their sort order, because scope rows are locked in it.
* `event_count` and `content_hash` are kept as the pair the code compares.
* The seven child tables are written and cleared together and are one set of rows.
* In `Collection` the groups of a stream are numbered in discovery order and a batch is an
  interval of them; the three aggregate budgets (candidates, bytes, records) are one
  `Limit`, since each is handled the same way; files do not change while commands run;
  `ingest_snapshot` is one step. A row is its copy's rank and the rank of the parent copy
  it was filtered against; the rows of the subagent graph are in `Ingestion` only. The staging
  directory is gone with its command.
* In `SyncUpload` the collector executes a request in one step: that is what `Ingestion`
  shows of `ingest_snapshot`. A provider's conversations are one version number. What each
  command is to upload is one of `Plans`, chosen at the beginning (`plan`).
* Opaque random handles (cursors, references, entity tags) are what they decode to.
* In `LayoutEditor` an edit is "some valid layout becomes the draft"; which layouts those
  are is `LayoutHistory`. Pixels are grid steps before it begins.
* In `SchemaMigration` a schema is the set of migrations whose effect it shows, a row the
  form of the one thing in it that a migration converts. `altered` says that a table some
  release has is not as any release left it, `foreign` that there is a table of no release,
  which the code looks at nowhere. The lock is the advisory lock of
  PostgreSQL and the write lock of SQLite.
* In `ReportReads` a stored copy is the number of its turns, which stand for all children.
* In `ProviderLogs` a use is six amounts; time stamps, names and identifiers appear where
  an adapter's decision depends on them. An amount may be larger than the limit of a counter,
  alone or together with the others of its call or its session.
* A temporary's name, random in the code, is its writer. File content is a length.

## 3. What is checked

Each run has one question. "Settings" are alternatives chosen for a whole behaviour.

| run | setting and bounds | shows |
|---|---|---|
| `IngestionScoped` | three calls; PostgreSQL with one label per conversation and five argument lists, or SQLite with one conversation under two labels | every call is one serialized decision (`ImplementsStore`); what was read stands; whole copies; acknowledged means stored; one run per key; a scope's graph comes from one snapshot |
| `IngestionElsewhere` | PostgreSQL: two calls without a common scope, or two that share scopes, each next to retention; or three merge batches | ranks never fall where scopes are shared, retention never leaves half a copy, and the schema's keys hold even where calls race (`CommittedRowsStand`); a batch decides once, and an edge follows its child's stored copy |
| `IngestionLabelRace` | PostgreSQL, one conversation under two labels | **violated**: see findings |
| `Collecting` | one of three parts. Schema: two releases, heads 7 and 8; every published revision, one newer than both, every unversioned schema, modified ones, some next to foreign tables; converted, legacy and invalid rows; downgrades to 1, 6 and 9; one ingested row. Logs: 24 log formats of 21 adapters; sessions of four facts, collected up to the second or third; four kinds of outcome, one of them beyond the limit 7 of a counter; one older copy. Command: two commands, one strict, in every mode; thirteen stores of one or two providers, up to five files; batches of two candidates, four batches, budget 3, staging 5 | the recorded revision tells the layout; every row is converted; a database is only stamped by a release that knows every known table in it; every such command ends. The rows tell what happened; counters add up, below the limit and beyond it, but for two tools beyond it; once the whole log was delivered no older copy undoes it. Batches cover the groups of every stream exactly once; success leaves what one collection of the sources stores, after any earlier failure and next to the other command; partial imports hold only rows one collection has, and are printed as committed; strict writes nothing it should refuse; every collection ends |
| `ForeignTables` | the databases of `Collecting` | **violated**: see findings |
| `GrokTotals` | Grok Build, turns of four tokens | **violated**: see findings |
| `Service` | one of two parts. Serve: two probes, one of which may hang for ever, inside a serve whose every step may fail and which is interrupted up to twice. Uploads: a sync of version 2 next to a strict upload-db of version 1 and of a second provider, or two upload-db commands with one snapshot in common; two attempts | "ready" was true during the request; every request is answered; a query that ended gives back the slot; serve gets over its own waits once a server has ended or the user interrupts, and its process ends if its API thread is gone or was asked to exit; no dashboard outlives it; exit 0 means it was asked for. One run per upload; success is stored and is not taken back; after a failure of a strict upload-db nothing more is sent; every command ends with one outcome for each snapshot |
| `Reporting` | one of four parts. Lists: two readers, two and three rows, one per page, one session, clock to 3, two sessions ever. Slots: three reports for two permits, two exports for one. Files: two attempts on one output, three units of content, directories that can be synchronized or not. Reads: one reader of each kind, two conversations of up to two turns, a ceiling of 5 records, three commits | lists are whole; a list is refused as busy only while so many sessions are unexpired, finished ones among them, and expires only by its reader's pause or its age; permits are conserved; a streamed file is there; the output is old or complete after any crash, and a reported file survives where its directory could be synchronized; all that a report is made of is one committed database |
| `PagesReferences`, `PagesFinished` | the lists of `Reporting` | **violated**: see findings |
| `SlotsOverdue` | the slots of `Reporting` | **violated**: see findings |
| `LayoutPages` | one of three settings. Two layouts, revision limit 2, with two pages of one request each, or with one page that has two requests under way; or one draft on a grid of two by two with two types of widgets, at most two of them, a history of two, gestures of one step | tag and displayed layout belong together; no accepted write replaces a layout its page did not display as saved; saving ends; no draft is lost but by the limit, and undo and redo bring back exactly what was there |

**Why the bounds are enough.** The conflicts are pairwise: two transactions on one row, two
writers of one layout, an abandoned probe and its successor. A third call is there where a
property needs a bystander: a replay after a conflict, a batch that could restore what a
second removed from a first, a request that finds the slot taken. Rank needs three values
(older, stored, newer), and a list needs a first, a middle and a last page. The page store's
clock reaches both limits once and one unit beyond. The stores of `Collecting` exceed
the budget by one and by more, with an odd and an even number of groups to halve, and
exceed the number of batches and the staging ceiling by one. `MaxAttempts` is 2 where the code has 3: a first attempt and a last
one; what is proved holds for any number, and the run was made with 3 as well.
The grid of `LayoutPages` is full with two widgets, one of which is as wide as the grid, so
that edits are refused for room, for bounds and for overlap, and the history overflows at
the third edit. The readers of `Reporting` fit in the ceiling with one copy and not with
two, and three commits are one before, one between and one after two statements. Two
releases differ in one revision, which is all that a release can tell of another; the
unversioned schemas are all combinations of the migrations that leave a trace. A session of
four facts has two turns with an answer each, or one turn with an answer, a tool, a repeat
and an end; two uses exceed the counter's limit of 7 together, and one call does alone, by two
amounts that are below it. The formats with most kinds of facts are collected up to the second fact only, as their sessions
of three are most of the states; they were run up to the third, and single providers up to
six facts, on their own.
`IngestionElsewhere` has two constraints: all calls of a behaviour belong to one setting,
and a third call is made only in batches. It checks no liveness. No other run has one.

**Deadlock** is not checked, because each of these systems may stop: all calls have
returned, or all clients have left. A PostgreSQL deadlock between transactions ends one of
them (`Fail`). What must not stay stuck is stated as liveness.

### Fairness

* `LayoutEditor`: weak fairness of each awaited request's arrival or end, because the
  dashboard server aborts upstream requests after 20 s. Nothing is assumed of the user or
  of the request itself, which may be lost or executed later.
* `Collection`: weak fairness of each command's work, one thread that waits for nobody.
  Failing reads, kills and reruns are never required.
* `SyncUpload`: weak fairness of each command's own steps. `TransportError` is always
  possible while it waits, because the HTTP client has a 60 s timeout. Nothing is assumed
  of the collector or of the network.
* `SchemaMigration`: weak fairness of a command's own steps once it holds the lock, and
  strong fairness of getting it: both databases let waiting writers in, and a command
  whose wait is cut short fails, which ends it too. Failures and kills are never required.
* `Serve`: weak fairness of the main thread, whose waits before its last all have timeouts,
  and of an event loop that was asked to exit and whose requests are answered: it closes and
  stops, as uvicorn does. That the dashboard obeys SIGTERM or ends at all is not assumed; nor is
  the end of a probe's query, or of an API thread that nobody asked to exit: after a second
  interrupt before `should_exit` is set the process waits for that thread, which is no daemon,
  for ever, and `ServeEnds` does not say otherwise.
* `Readiness`: weak fairness of a request's start, answer and two-second timeout (the event
  loop), and of a thread that has its query's outcome. The query itself is not fair:
  `ChecksAnswered` holds although it may never end. In `Service` this holds while the API runs.

## 4. What is proved

The eight proof modules (`IngestionProofs`, `UploadProofs`, `ServiceProofs`, `LayoutProofs`,
`ReportingProofs`, `CollectionProofs`, `LogProofs`, `CounterProofs`) hold for any finite or
infinite numbers of calls, commands, tabs, requests and so on, under the modules' named
assumptions only: `RequestsAssumption` (argument lists are well-typed and pass
`validate_snapshot`; reports and exports are finite and disjoint); `NoneAssumption`,
`AbsentAssumption` and `UnsetAssumption` ("no value" is no value of any type it stands
beside); `ReportingAssumption` (the bounds of page sessions are natural numbers, a page has
an item); `PlansAssumption` (a command uploads a sequence of snapshots) and
`MaxAttemptsAssumption`; `ProvidersAssumption` (the coding tools are those with an adapter);
`OutcomesAssumption` and `MaxBigintAssumption` (what one call used are six natural numbers
of any size, and the limit of a column is positive); `InputsAssumption`, `ListingAssumption`
(there are providers, each with the streams of groups that its adapter makes of its files);
`KeysAssumption` (files of different providers are never copies of one conversation: ids
begin with the provider's name, and a command has each provider once) and
`ParentsAssumption` (only Claude Code's rows depend on a parent session);
`StartedAssumption` (the databases there are at first are what releases have left);
`HeadAssumption` (a release that adopts databases at 0004 knows the two tables it looks for
there); `SizesAssumption` (the registry's least sizes are not above the largest, the default
layout is valid, the history of a draft holds at least one). TLC evaluates each of them in
some run.

* **`IngestionProofs`.** `TypeCorrect`. Then the lock discipline: no row is locked by two
  calls (`Exclusive`) and a deciding call holds all of its scope rows (`ScopesHeld`).
  `ScopesSerialize` states when that is enough: on PostgreSQL argument lists that mention a
  common conversation lock a common scope, on SQLite each locks some scope. From it
  `DecisionsApart` follows, and from that by induction with the evidence of every call
  `EvidenceStandsAlways`: between `session.get` and the commit nobody but retention changes
  the row. `RankMonotone` is the consequence for a commit. `IngestionLabelRace` shows that
  the assumption cannot be dropped. `OneRunPerKeyAlways` needs no such assumption; its
  invariant ties every keyed run to its receipt.

  What is written follows. `Replacement` says that a call has cleared every child of what
  it replaces (`Cleared`) and that its pending rows come from its arguments, so `WholeAlways`:
  a stored conversation and its children are of one copy, retention or not.
  `Decisions` relates what the call has collected so far to the database, conversation by
  conversation: at the commit it is the decision on the state it replaces. `Answers` adds
  what receipts and answers stand for, hence `AcknowledgedAlways`. `Scoped` says which edges
  a call has set aside and which it brings, hence `GraphsAreWhole`, which needs no scope to
  serialize anything: it speaks of whole snapshots (`PlainCalls`), since a merge batch
  assembles the graph of a scope from several. `Followed` says that a batch has marked the
  children of exactly the copies that the store would write or find identical now. Together
  they are `StoreInv`, which gives the refinement `CallsImplementStore`: every statement but
  the commit stutters, and the commit is the store's `Ingest`, when the requests are all
  whole snapshots or all merge batches. Where the two kinds meet under two labels it is not
  claimed: a snapshot may remove, after a batch's graph statements, an edge of another label
  that kept the batch from filling a gap. For batches `EdgesFollowAlways` adds that an edge
  comes with the copy that brought it.
  `AcknowledgedAlways`, `EdgesFollowAlways` and the refinement are about behaviours without
  retention (`WriterSpec`), which removes what is stored and is no step of the store; the
  properties say so. `SchemaAlways` (the keys of the schema) holds even where calls race,
  because the flushed rows are locked (`Keyed`).

  The run `IngestionElsewhere` decides by what its calls ask for which of these settings a
  behaviour is in. A call keeps its arguments (`Uncalled`), so a behaviour that is in a
  setting has been in it from the start, and the argument lists of the setting serialize
  (`BatchesShareScope`, `ScopedShareScope`): `BatchesDecideOnceAlways` and
  `CommittedRowsStandAlways` are the two properties of that run for any number of calls.
* **`UploadProofs`.** Two arguments make an upload unique. Where the client knows that the
  collector keeps receipts, each of its runs carries the upload's key, and a key has one run
  (`Distinct`). Where it does not know, it sends one request and stops, and until that one is
  executed there is no run of it. `Progressing` says where a command is when its requests
  (`Requested`) and runs (`Ingested`) are behind it, whether or not the collector was upgraded
  in between. `Told` and `Truthful` follow a success from the run through the answer, which
  may be as late as it likes, into the summary. `Unfailed` says that a strict command with a
  failure behind it is done, so that no request of a later snapshot is under way or executed.
  Gives `UploadedOnceAlways` and `OutcomesAlways`.
* **`LayoutProofs`.** `Inv` joins the row to the end of its history and says that whatever
  tag a tab, a request or an answer carries names, in that history, the layout it carries.
  Requests must be included, as an answer's tag becomes the tab's later. Gives
  `LayoutTypes`, `TagsNameBaselines` and `NothingOverwrittenUnseen`.

  For drafts (`DraftsAreKeptAlways`) the invariant `Kept` says that past and future are lists
  of valid layouts (`Drawn`) and *together* never hold more than the limit. This is why the cut
  of `[present, ...future].slice(0, LIMIT)` never loses what redo still promises, and why the
  past is never cut by a redo: undo and redo move one layout between the two (`UndoKeeps`,
  `RedoKeeps`), and an edit cuts the past when the future is empty (`CommitKeeps`). That edits
  make valid layouts needs an identifier that is free (`SomeIdIsFree`, by the pigeonhole
  principle: one number more than widgets) and a first place in row-major order (`FirstFits`).
* **`ServiceProofs`: probe and serve.** `AtMostOneProbe` is not inductive alone: `OneHolder`
  says who stands for the count, a request about to start its thread or a thread that has not
  released. Gives `NothingAfterClose` too. For serve the same invariant is carried through the
  composition: `ReadyIsTrue` follows a "ready" answer back to a query that was made during the
  request (`Honest`). `ServeCleansUp` and `ServeReports` rest on `ServeInv`: what the main
  thread's place says of the API thread (`ApiInv`) and of the dashboard and its directory
  (`FrontInv`), and why the command may have come to stop or to exit 0 (`CauseInv`). They speak
  of a command that has left: its exit code is decided and its clean-up done, although its
  process may still wait for the API thread.
* **`ReportingProofs`.** Permits and holders add up by counting finite sets (`Entered`, `Left`,
  `Stayed`); a streamed file needs to be followed from its creation (`WorkHasFile`). Gives
  `PermitsKept`, `SlotsTypes`, `StreamedFilesAreThere`, `BusyOnlyWhenFull`.

  Lists: `ListsAreWhole` speaks of lists read to their end. `WalksItsSession` says of every
  client under way that what it has is the beginning of its session's rows, up to the place
  its cursor names, and of a client whose session was removed that what it has still is.
  Gives `WholeLists`. For `RefusalsHaveCauses`, which counts a
  session until it expires, also when its list was read to the end, `Entitled` says that a client still has its
  session and the cursor it holds, or came too late by the clock, which needs that no two
  clients share a session (`OneReader`) and that each removal spares those in time
  (`SparesTheLive`).

  Files: `OutputIsWhole` and `DoneIsDurable` speak of what a crash leaves. The invariant is
  about every version of the directory that a power loss may fall back to: in none of them is
  the output's file short of its content (`Whole`), and once an attempt has reported success
  where directories can be synchronized there is no version left without a new file
  (`Durable`, which follows the writer from its replace to its synchronization).
  Gives `WholeOutputs` and `DurableOutputs`.

  Reports: `ReadsAreCoherent` looks at readers that are done. `Coherent` says the
  same of a reader under way: the database it looks at was committed during its reading
  (`during` has it), and every statement so far answered from that one. The index of a
  report and the rows that must be in it then come from one database, so no row is a stray
  (`Strays` is empty for all but CSV exports). Gives `ReadsAreCoherentAlways`.
* **`CollectionProofs`.** `EveryGroupOnce` speaks of batches that are complete and has to be
  followed through those that are not. `IInv` says where a command is (`Place`); that the
  parts left of the last packed groups are consecutive and end where packing goes on
  (`Pieces`), which halving keeps (`HalvesMeet`, `HalvesLinked`); and that the batches are
  all behind the first group of no batch (`NoneAhead`) and leave nothing out before it
  (`NoneSkipped`). A batch handed over starts there (`Yielding`), and a command goes on to
  the next stream only when it is at its end (`Moving`, `Finishing`). Gives
  `GroupsAreReadOnce` and `CollectionTypes`.

  What is stored rests on that. A command that is done has ingested a complete set of batches
  (`Complete`: every group of a provider read in batches, from `EveryGroupOnce`'s invariant, and
  a whole snapshot of the others, `Visited`); so each copy that one collection keeps is in one of
  them, where it is kept as well (`AllRead`), and no stored row is behind it (`Outdone`, which
  other commands and reruns keep because rows only get better, `Grown`). From above, every
  stored row is of a copy that some provider has, and for Claude Code the very row one
  collection makes (`Sourced`, from `BatchRows`). The two meet in `DoneIsWhole`, and give
  `DoneIsOneCollectionAlways` and, alone, `PartialImportsAgreeAlways`. For
  `StrictWritesWholesAlways`, what is staged was not refused (`Checked`), and at the first
  write that is everything (`NothingFlawed`). `RInv` joins these; TLC checked it before.
  The first part of the module is about the operators of `Transcripts`, for lists of any length:
  the docstring of `_transcript_groups` (claude.py:505-514) as lemmas. Flattening keeps order
  (`PlacesOfAll`); the union-find keeps each subagent with its session (`RootsJoin`); every
  transcript is in exactly one group, which is a class (`HasGroup`, `GroupsApart`); a batch of
  consecutive groups holds whole classes, in order (`GroupedBatch`); a list with whole classes
  keeps the copies and the rows that all files together keep (`SelectedClosed`, `ClosedRows`),
  while any part of the files keeps at least the best copies it has (`SelectedWithin`), which is
  all that providers without groups need (`SingleBatch`). Induction is by least counterexample:
  the naturals are well founded (`Least`, `Induction`), which also shows that the recursive
  functions of the model exist (`Iterated`).
* **`ServiceProofs`: the schema.** What is committed is published or as it was found
  (`Settled`) only because of what holds inside a transaction: an upgrade has at least the
  layout of its revision and nothing beyond its head, with the rows converted that far
  (`Upgrading`), so that at the head nothing is missing or left over; a downgrade is published
  at each step (`Downgrading`); and the plan was made for a database that the release knows
  (`PlannedFor`). Adoption needs that a database without a revision is still the one that was
  found. Gives `SchemaIsPublished`, `RowsAreConverted` and `StrangersAreUntouched`, which is
  about the tables that releases know: `ForeignTables` shows that others do not stop a release.
  (The module
  extends two specifications that share no variable.)

* **`LogProofs`.** `SettledIsCurrentAlways`: for every tool, sessions of any length and any
  answers, a delivered log is not undone by an older copy. The invariant (`LInv`, which TLC
  checked before) says that a copy under way has as many events as the longest source it was
  selected from, and the stored one, once `current`, as many as the log. It rests on one fact
  about the 24 forms of a log: the number that an adapter counts never falls while the session
  goes on (`EventsGrow`). For logs of records that is a sum over the facts (`FlattenedGrows`);
  for tables whose rows are updated in place it is that a row keeps its place and its id
  (`TableIsTabled`, `TableGrows`). OpenCode's rank also counts the parts of the row in place
  and Crush's leaves out the rows of subagents: both can only grow because the tool call of an
  answer that streams is told when it finishes and an answer that has finished began
  (`Sound`, which `Unfinished` gives at every `Write`: `SessionGoesOn`).
  `SelectedMost` and `SelectedOfOpenCode` say what the highest rank means for the count.

* **`CounterProofs`.** `CountersAddUpAlways`: for every tool, sessions of any length and
  amounts of any size, also beyond the limit of a column, the counters of a conversation and of
  its turns are those of the rows under them, but for sessions of Grok Build beyond the limit
  and calls of OpenHands beyond it (`Sparing`; the first of which `GrokTotals` shows to go
  wrong). Three parts lead to it. *The counters*: `counter` bounds each amount alone and
  `tokens` fills six of them in order and gives each what the limit leaves (`FilledIs`), so a
  total that `add_tokens` fills call by call is the sum of all calls, cut once (`SummedIs`), and
  rows add up whenever the draft has calls that carry amounts and turns with keys of their own
  (`RowsAddUp`). Some adapters do not fill but take the larger of the told total and the sum of
  what was told (`TokensApart`). *The adapters*: each of the 24 forms has a lemma (`PiRows`,
  `QwenRows`, ...) that reading such a log ends in such a draft (`GoodDraft`), record by record
  (`ReadTo`, `Step`, `KeepsGood`): that a turn is opened only under a key that no turn has,
  that every call is given to a turn there is or to none, and that the amounts an adapter
  subtracts (cached from input, a residual from a running sum, what a log tells twice) never
  fall below zero. Two forms need more, because their counters are not those of `add_tokens`.
  Mistral Vibe's whole use stands on its last call (`VibeAddsUp`). Grok Build caps each counter
  of a conversation on its own (`grok.py:529-531`): that agrees with its rows as long as no
  counter reaches the limit, and only because no two turns are charged with one fact. The proof
  gives each turn the facts its end was told for (`OfTurns`, `GrokTells`), adds up what facts at
  different places used (`SpentApart`), and shows that the parts a turn is charged with sum up
  to what its calls used (`SumsUp`, `GrokParts`, `GrokCharges`, `GrokTotalIs`). *The session*:
  the invariant `CInv` joins to `LInv` that every fact carries six amounts (`Uses`), none unless
  a model was called (`Idle`), and that what is written again was there before (`Repeats`, for
  Claude Code); all follow from what `Happenings` lets a session go on with (`HappeningUses`,
  `UsesGoOn`).

**Only model-checked:** all liveness (out of this prover's reach, as is `ENABLED`); and
`RowsTellTheTruth`. That the rows add up needs only what a draft looks like; that they tell
what happened needs, for each of the 24 forms, that reading a log of any length gives the very
calls, tools and statuses of `Truth`, which takes a filter of the facts turn by turn
(`SelectSeq`, which this prover cannot expand) and folds them another way. No module uses a
recursive operator: the adapters read with a recursive function (`Drafted`).

## 5. Findings

1. `IngestionLabelRace`. Only scope rows of the snapshot's own machine labels are locked,
   while a conversation's id carries no machine. On PostgreSQL two calls that bring one
   conversation under two labels may both read the old row, and the lower rank may commit
   last. ADR 0003 asks for one serialized decision on both databases.
2. `PagesReferences`. Reading a page refreshes the session and not its references: after
   five minutes of paging, served references answer `conversation_not_found`.
3. `SlotsOverdue`. The export deadline is checked after `export` has returned its path: the
   caller gets `reporting_timeout` and the finished private file stays behind.
4. `ForeignTables`. The preflight of an unversioned database looks only at tables that are in
   `BASELINE_COLUMNS` (`schema.py:203-204`): a database that has a table of no release is adopted
   or migrated and stamped. `docs/architecture.md:166-169` and ADR 0001 promise its refusal.
5. `PagesFinished`. A list that was read to its end holds its place until it expires: only
   `_expire` removes sessions, so finished lists turn new ones away as busy. ADR 0004 says that
   sessions are removed after the final page.
6. `GrokTotals`. Grok Build's adapter caps each counter of a conversation by itself
   (`grok.py:529-531`): turns below the limit make totals that are not the sums of their parts,
   which `validate_token_composition` (`models.py:101-117`) refuses with the whole session.

Seen while modelling and not checked by a run:

* *Readiness.* The probe is counted before `Thread.start` (`api.py:253`); if that raises,
  nobody gives the slot back and `/ready` answers 503 for the life of the process.
* *Collection.* A Claude Code group larger than a batch is a batch of its own, so a batch may
  hold more than the "at most 1,000 candidates" of `docs/architecture.md:348`. `collect`
  without batches that fails at a later provider prints no `ingestions`, although those of
  earlier providers are committed; in batches it prints them. In batches, a losing copy that
  validation refuses fails the command, which one collection of the same files would leave
  out.
* *Ingestion.* A merge batch without edges locks no scope, so two such calls may both read a
  conversation before either writes it (the batches of `IngestionElsewhere` all have edges
  of one label). Equal event counts are ordered by content hash.
* *Layouts.* An edit made while a save is under way is replaced by the save's answer.
* *CSV.* The tables of one export are not coherent with each other, as `docs/usage.md:163-165`
  says.
* *Serve.* If writing the banner, building the API's configuration or starting its thread
  fails, or the user interrupts between the start of the dashboard and the watched block
  (`cli.py:1248-1294`), the dashboard outlives the command; so it does when a second
  interrupt cuts the clean-up short. `NothingOutlivesServe` counts these as "cut". The API
  thread is no daemon (`cli.py:1293`), so a process whose command is over still waits for it:
  for as long as it takes after `join(timeout=10)` has passed, for ever when a second interrupt
  came before `should_exit` was set (`cli.py:1303`).
* *Files.* `_fsync_directory` (`snapshot_files.py:244-255` and its like) swallows `OSError`. A
  reported output survives a power loss where the directory's fsync succeeds, and only there
  (`DoneIsDurable`; `fsync` in `ReportFiles`).
* *Large calls.* Some adapters bound each amount of a call alone (`pi.py:429-449`,
  `grok.py:504-526`): a call whose input and output together exceed the limit of a counter makes
  a record that `models.py:101-117` refuses. OpenHands compares a sum at its limit and subtracts
  the terms (`openhands.py:424-426`): its uncached input may be negative. The limit is 2^63-1.
* *Schema.* The preflight takes a `dashboard_layouts` with the revision column and without
  its check constraint for the current one: the database is stamped with the head, and the
  verification at the end refuses it ever after.
* *Kimi.* Its context samples have no `sequence` (`adapters/kimi.py:163-175`), which
  `models.py:214-221` requires: a snapshot with such a sample is refused, against
  `docs/provider-support.md:561-562`. Its sessions are modelled without context tokens.
* *Statuses.* Kimi and Plandex turn an aborted turn into a completed one at the next prompt;
  Cline, Amazon Q and Kimi call an unanswered turn completed; a late error shutdown of
  Copilot aborts the newer turn; an OpenHands condensation alone completes a turn. `Presumed`
  and `fits` allow what each log can tell.
* *Ranks.* The count of Gemini's old JSON logs is always 1, and those of OpenCode, Kilo, Crush
  and Continue do not change when a row is updated in place, so equal counts may hide a newer
  copy: `SettledIsCurrent` compares counts (compare `docs/architecture.md:199-201`).
  OpenHands ranks without its usage count and reads the base state before the events.
* *Two reads.* Qwen, Gemini, Grok and Copilot rank a file on one read of it and make rows of a
  second one (`ReadAgain`).
* *Attribution.* Goose assigns calls to turns by whole seconds; one valid ledger entry of Amp
  replaces all calls of its messages; turn identifiers of Mistral Vibe may collide across
  segments; Grok gives a terminal record without a turn to the next one, and the number of
  calls of its turns is the one the tool reports.

## 6. Not modelled

* The authentication and body limits of the HTTP API, the web sessions and the validation of
  requests: each is decided from one request alone.
* Dashboard and export requests of the web page: a replaced query is aborted before the next
  one is sent and an export cannot be started again before it ended, which leaves rendering.
* The offline dashboard, aggregation, aliases and rounding: pure functions of one dataset.
* Adapters: the bounds and identity checks of files, project mappings, labels and time
  stamps, context samples, subagents and work items of a log. Subagents as rows are in
  `Ingestion` and `Transcripts`.
* Within the modelled components: validation of the values of single records, the byte
  ceilings of page sessions and responses, the local re-validation of a snapshot before its
  upload, retention's dry run, an interrupt between the creation of a temporary and the
  assignment of its name, and the contents of files.
* Build, packaging and deployment.

Components are listed with their reasons in `PROJECT.json`.

## 7. Plan

What is left to do, in order of importance.

1. **Proofs**: the rows and counters of logs.
2. **Subagents in logs**: the edges that Claude Code, Codex, Copilot and OpenCode read, next
   to the rows of `ProviderLogs`.
3. **Context samples** and work items of adapters.
4. **Qualification** of identifiers and conversion of time stamps over bounded inputs.

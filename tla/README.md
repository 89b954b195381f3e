# Agent Memory Kernel: TLA+ models, model checking and proofs

The Agent Memory Kernel keeps the long-term memory of AI agents in one SQLite
database. What an agent or a user says becomes a *source event*; an extractor
turns the event into *candidates*; a policy and a reviewer decide which
candidates become *active memories*; a graph is derived from the active
memories; a Router builds the memory part of the next prompt; the exchange that
follows is saved as *turns*, and a Keeper extracts new candidates from it:

    source event -> candidate -> review / policy -> active memory -> graph
         ^                                                             |
         |                                                             v
    Keeper job  <-  saved turn  <-  model call  <-  Router prompt envelope

This directory models the parts of that loop in which the order of operations
matters, checks them with TLC on small instances and proves the main invariants
with TLAPS. All line numbers in `PROJECT.json` are of the files under `src/`;
the kernel itself is `src/src/agent_memory_kernel/`, and most of it is the class
`MemoryStore` in `store.py`.

## 1. The system

### 1.1 How operations run

Every HTTP request (`server.py` `do_POST`, a thread per request), MCP call
(`mcp_server.py`), CLI command and iteration of the worker daemon
(`worker.py`) opens a `MemoryStore` of its own, with a SQLite connection of its
own, runs one operation and closes it. Only `MemoryOrchestrator` keeps a store
for several operations. Components therefore interact through the tables alone.
Four facts about these connections decide what can happen:

* Python's `sqlite3` begins a (deferred) transaction at the first INSERT, UPDATE
  or DELETE. A SELECT before it runs in autocommit: it holds no lock, and what it
  read may be out of date when the first write waits for the lock.
* From its first write to its commit a connection holds the database's only
  write lock (rollback journal; no WAL). So what follows the first write is
  atomic towards other connections, and so is a crash inside it.
* Many operations commit more than once (`after_saved_turn`,
  `record_outcome`, `process_keeper_jobs`, sensitive exports), so a crash can
  part what belongs together.
* A few callers catch an exception without a rollback, or with a rollback that
  undoes more than the failing item.

So every model has the same shape: an operation is one step per unlocked read
whose result is used later, and one step per transaction. `op[c]`, `client[c]`
and `todo[w]` hold what a connection has read so far. A connection may be
abandoned between steps: it died, or its wait for the lock timed out.

`now_iso()` has a resolution of one second, so "latest by `created_at`" is
decided by the row order within a second and by a clock read before the lock
across seconds. `MemoryRevisions` has a clock for this reason.

### 1.2 Components

| Component | State | Operations | What is hard | What makes it correct | Here |
|---|---|---|---|---|---|
| Candidate review | `candidate_memories`, `memories`, `memory_items`, `review_actions`, review notifications | `remember`, approve, reject, delete, distrust, expire, supersede, acknowledge, resolve | reads before the lock; reviews that overlap each other and deletions | quarantined or rejected text never becomes a memory, a deleted memory does not reappear, every memory has a decision, decided candidates leave the inbox | `CandidateReview`, `ReviewContract` |
| Memory revisions | `memories.text`, `memory_items.text`, `memory_revisions` | correct, roll back | text, revision and parent read before the lock; one-second clock | the history chains from the first text to the current one, a rollback restores what was replaced, parents are older | `MemoryRevisions`, `RevisionLog` |
| Derived graph | `memory_graph_nodes`, `_edges`, `node_evidence`, `edge_evidence` | approval, deactivation, correction, `optimize_graph` | many rows kept consistent by separate statements; long sequences of legal operations | what the graph shows is supported by active memories, and says what they say now | `DerivedGraph` |
| Saved turns and Keeper queue | `conversation_turns`, `keeper_jobs`, events | `after_saved_turn`, `process_keeper_jobs`, daemon | several workers, retries, crashes, a rollback per failing job in a shared transaction | a finished job has its event; an exchange is remembered once; a queued job is finished in the end | `KeeperQueue` |
| Export approvals and retention | `memory_export_approvals`, `memory_export_records`, their notifications | request, approve, reject, export, retention, purge | decision and use are unguarded updates after unlocked reads; assessment, use, content and ledger entry are separate steps | an export rests on an approval somebody gave for it, an approval is used once, a purged export stays purged | `ExportApproval`, `ExportContract` |
| Notification inbox and outbox | `memory_notifications`, `memory_notification_deliveries` | raise, clear, acknowledge, assign, resolve, escalate, enqueue, mark | look-ups before the first insert; late and overlapping delivery reports; a report of four listings | one open notification per cause, one live delivery per notification, no report lost, no escalation missed | `NotificationOutbox` |
| Restore drills | `restore_drill_schedules`, files | set and run schedules | several schedulers; a death between the drill and its record | a due drill runs, once; the inbox shows how the last one ended | `RestoreDrills` (extends the outbox) |
| Audit chain, backup, restore | `audit_log`, files | `_audit`, integrity report, backup, restore | the last hash is read before the lock when the audit row is the first write; the target is removed before the copy is verified | the report is neither a false alarm nor blind, a restore keeps the chain | `AuditChain` |
| Batches, conflicts, supersession | `memory_conflicts`, statuses | `review_batch`, `batch_memory_lifecycle`, record, detect, supersede | exceptions swallowed without a rollback; detection against supersession | what changed was said to have changed; supersession settles its conflicts | `LifecycleBatch` |
| Profile and bundle import | all tables of two stores | `export_profile`, `export_bundle`, `verify_bundle`, `import_bundle`, `import_profile` | exports that reviews come between; local state met by imported state; altered files | nothing inactive is revived, refused text stays refused, records come with their evidence | `ProfileTransfer` |
| Outcomes, turns, proposals, watched paths | `outcome_records`, draft scopes, import chunks | `record_outcome`, `record_turn`, `propose_memory_change`, `watch_import_path`, `import_vault` | several commits each, with the extractor asked inside a transaction | an answered request left all its records | `Intake` |
| Policies | read and write policies | set, resolve, import | which of several matching rules decides, and changes meanwhile | a denied scope is shown nothing | `Router`, as refusals in the others |
| Retrieval and Router | run records | `retrieve_tree`, `context_builder_pack`, `before_model_call` | a dozen unlocked reads, conflicts and heuristics that leave memories out | nothing inactive is shown, nothing else is left out | `Router` |
| Graph commands | graph tables, `graph_commands` | normalise, propose, apply, retire | many rows per approval, errors in the middle | all or nothing, and only with the memory | `GraphCommands` |
| Usage, billing and operations reports | `llm_usage_stats`, `provider_invoice_items` | record, import, reconcile, dashboard | unlocked import check; reports of many reads | a reconciliation adds up, a dashboard reports what is wrong | `OperationsReports` |
| Schema set-up and migration | the schema itself | `init_db`, `migration_status` | statements that commit one by one, run by every request | a store that is open has its tables and columns | `SchemaMigration` |
| Orchestrator, Hermes adapter | one long-lived store | agent turn, shadow turn, other calls | an operation that raises leaves its transaction open | a turn that was answered is saved as a whole | `AgentTurns` |
| Derived surfaces | derived rows | rebuild | none that other components depend on | | groups in `GraphCommands`, blobs in `DerivedGraph`; the rest not modelled |
| Extractors, embeddings | none | text to drafts, text to vectors | provider calls | | not modelled (the models let them return anything or fail) |
| HTTP, MCP, CLI | none | one operation per request | | | not modelled as such: they are the connections of every model |
| Conformance, evaluation, contract text | none | scenarios | | | not modelled |

### 1.3 Hazards

`PROJECT.json` lists, at its line, each place where this code can go wrong in a
way a test hardly reaches, with the properties that would catch it. They come in
six groups: a value read before the lock and used after it (review, revisions,
exports, notifications, audit, invoices); several connections doing one job
(Keeper workers, schedulers, enqueuers, openers); crashes, errors and rollbacks
between the commits of one operation, or in a transaction that goes on; reports and
exports made of many unlocked reads; retries; and long legal sequences over tables
that are kept consistent by statements in many functions. One hazard has no
property: the target that is removed before its copy is verified (`store.py:3020`), which is
what the code does. Where a property excuses what the code does and says only that nothing
else happens, the hazard's note says so: the second run of a drill that two schedulers
listed, an item of a batch that leaks, the retired content of a profile, a call repeated
before its job row is there, and others of the kind.

## 2. The modules

| Module | Lines | What it is |
|---|---|---|
| `ReviewContract` | 50 | abstract specification: the life of one candidate |
| `CandidateReview` | 361 | the tables and the connections that review |
| `MCCandidateReview` | 7 | symmetry sets for TLC |
| `CandidateReviewProofs` | 1454 | theorems about `CandidateReview` |
| `RevisionLog` | 40 | abstract specification: a text and the log of its changes |
| `MemoryRevisions` | 217 | corrections and rollbacks of overlapping connections |
| `MCMemoryRevisions` | 6 | symmetry sets |
| `MemoryRevisionsProofs` | 684 | theorems about `MemoryRevisions` |
| `DerivedGraph` | 280 | nodes, edges and evidence under all writers of them |
| `MCDerivedGraph` | 13 | entity aliases and symmetry |
| `DerivedGraphProofs` | 1052 | theorems about `DerivedGraph` |
| `KeeperQueue` | 312 | saved turns, Keeper jobs, workers and crashes |
| `MCKeeperQueue` | 13 | the keys of the instances |
| `KeeperQueueProofs` | 1016 | theorems about `KeeperQueue` |
| `ExportContract` | 66 | abstract specification: the life of a permit and of a ledger entry |
| `ExportApproval` | 436 | approvals, exports, retention and their notifications |
| `MCExportApproval` | 10 | shapes and symmetry |
| `ExportApprovalProofs` | 2433 | theorems about `ExportApproval` |
| `NotificationOutbox` | 414 | the operators' inbox, escalation reports and the sender's deliveries |
| `RestoreDrills` | 278 | scheduled drills, composed with the inbox |
| `AuditChain` | 263 | the hash chain, tampering, backups and restores |
| `LifecycleBatch` | 293 | batches with errors, conflicts, supersession |
| `ProfileTransfer` | 319 | two stores that export and import |
| `Intake` | 273 | requests that take text in and commit several times |
| `Router` | 316 | the memory envelope, read policies, the current best |
| `MCRequests` | 124 | the instances of these four, as parts of one run |
| `OperationsReports` | 299 | usage, invoices, reconciliation, dashboard |
| `GraphCommands` | 236 | graph commands from proposal to retirement |
| `SchemaMigration` | 171 | `init_db` on old files and overlapping connections |
| `AgentTurns` | 256 | turns and other calls on long-lived stores |
| `MCOperations` | 176 | the instances of these, the outbox, the drills and the audit chain |
| `TransactionProofs` | 2881 | theorems about `SchemaMigration`, `GraphCommands` and `AgentTurns` |
| `OperationsProofs` | 5218 | theorems about `NotificationOutbox`, `RestoreDrills`, `AuditChain`, `OperationsReports` and `MCOperations` |
| `RequestsProofs` | 4609 | theorems about `LifecycleBatch`, `ProfileTransfer`, `Intake`, `Router` and `MCRequests` |

A definition named `X_Something` next to `X` is `X` with a plausible bug. The
check substitutes it for `X` and expects the property it is paired with (see
"mutants" in `PROJECT.json`) to fail: this is how we know that the properties
look at the code.

### 2.1 CandidateReview

State: `cand` (candidate status), `admitted` (what the admission policy said,
which the code does not change later), `owner` and `status` of memories, `item`
(status of the memory's `memory_items` row), `reviews`, `inbox` (the candidate's
review notification) and `op`. Memory ids are the values of `new_id("mem")`.
`contended` is a history variable, no column: the candidates on which one
connection committed while another was in the middle of an operation on the same
candidate (`CommitsOn`). It separates the two promises the code can make.

| Action | Code |
|---|---|
| `Remember` | `remember`: one transaction; admission decides pending, quarantined or approved for each candidate, approved ones are activated at once, the others get a notification |
| `ApproveLookup`, `ApproveRow`, `ApproveInsert` / `ApproveKnown` | `approve_candidate` and `_activate_candidate`: the existing memory is looked up (any status), then the candidate's row, then the transaction |
| `RejectLookup`, `RejectCommit` | `reject_candidate`: no active memory, then the transaction |
| `Deactivate` | `delete_memory`, `distrust_memory`, `expire_memory` through `_deactivate_memory` |
| `Supersede` | `supersede_memory` |
| `AckRead`, `AckCommit`, `ResolveNotification` | `ack_notification`, `resolve_notification` |
| `Abandon` | the connection dies or times out before its transaction |

`ReviewContract` says what reviewing is for: a candidate is open or blocked,
becomes live at most once, and a closed candidate stays closed. It promises this
for a candidate until two operations on *that candidate* overlap (`Contend`);
overlaps on other candidates must not matter. The refinement mapping `Stage`
reads the contract's stage from the candidate's status, from whether it has an
active memory, and from `contended`.

### 2.2 MemoryRevisions

State: the text of one memory, of its item, its revisions in row order, the clock
and `op`. `CorrectRead` and `RollbackRead`/`RollbackChoose` are the unlocked
reads of `correct_memory` and `rollback_memory`, `ParentRead` is
`_record_memory_revision` up to its INSERT (the parent id and the time are
arguments of that INSERT), `Commit` is the transaction. The field `base` of a
revision is history: how many rows there were when the operation read the text.
`AllAlone` says with it that no revision was committed between the reads and the
commit of another one. `RevisionLog` is the history a reader expects: one entry
per change, from the replaced text to the new one. It, too, promises nothing
after an `Overlap`.

### 2.3 DerivedGraph

Every action is a whole transaction, since graph writers take the write lock
before they read the graph; what is hard here is the sequence. A node row is
named by the memory it was inserted for and by what it stood for (its *slot*),
so a row keeps its identity while its key, status and blob change.

| Action | Code |
|---|---|
| `Activate` | `_create_memory_graph`: upsert of the item node and of the entity nodes, evidence and edges |
| `Deactivate` | `_propagate_inactive_memory` and the two `_refresh_*_from_active_evidence` |
| `Correct` | `_propagate_corrected_memory` (also of a rollback), with the UNIQUE key that can make it fail |
| `Consolidate` | `optimize_graph("consolidate_duplicates")`: candidates, winner and the rewiring of evidence and edges |

A blob is the set of texts its sentences come from.

### 2.4 KeeperQueue

State: the status of the job of each idempotency key, how often the exchange was
recorded (`turns`) and remembered (`drafts`), where each client is inside
`after_saved_turn`, and for each worker its fetched batch (`todo`), the job it
has handled but not yet updated (`outcome`) and its uncommitted updates
(`pending`). Keys are of queued calls, of sync calls (`Sync`), or name only a
turn that nobody recorded (`Silent`).

| Action | Code |
|---|---|
| `Replay`, `Call`, `Record`, `SyncRemember`, `SyncFails`, `Insert` | `after_saved_turn`: idempotency check, turns, the sync Keeper, the job row |
| `Fetch` | `process_keeper_jobs`: SELECT of the oldest queued rows, no claim |
| `Remember`, `Denied`, `Fails`, `NothingToRead` | one job of the loop: `remember` commits (with the earlier updates of the batch), a denied write commits its audit row, another exception rolls back, an empty exchange is skipped |
| `Update`, `Finish` | the UPDATE of the job (uncommitted) and the commit after the loop |
| `Crash`, `Abandon` | a worker, a client dies between steps |

### 2.5 ExportApproval

State: the status, the requested shape and the approver of each approval
(`approval`, `wanted`, `approved`); the status of each ledger entry (`ledger`,
where "due" is a row that is still active and whose `expires_at` has passed), the
approval it names and what its artifact contains (`export`); the unresolved
notifications (`inbox`); and `op`. A *shape* stands for all that
`_enforce_sensitive_export_approval` compares: actor, scope, project, kind and
redaction. Of the contents only the sensitive memories are kept: `Sensitive`, what
the assessment counts, are the active ones, and `Contents`, what is read, has in a profile the
retired ones, too (`_export_memory_lifecycle` selects every status). History fields of an
operation and an export: `gone` (what it contains that had been retired when it was
assessed) and `late` (the memories that became active since an export was assessed to need
no approval). History variables: `burnt` (approvals used by an export that was then given up) and
`contended`, as in `CandidateReview`.

| Action | Code |
|---|---|
| `RequestRead`, `RequestCommit` | `request_export_approval`: assessment, then row and notification |
| `DecideRead`, `DecideCommit` | `_decide_export_approval` |
| `Assess`, `CheckApproval`, `UseApproval` | `_enforce_sensitive_export_approval`: assessment, check of the row, and the transaction that marks it used |
| `ReadProfile`, `ReturnProfile` | `export_profile`: content, active and retired, then the ledger entry |
| `RecordFiles`, `WriteFiles` | `export_vault`, `export_markdown`: the ledger entry, then content |
| `Lapse`, `SweepRead`, `SweepCommit` | time, `enforce_export_retention` |
| `PurgeRead`, `PurgeCommit` | `purge_export_record` |
| `AckRead`, `AckCommit`, `ResolveNotification` | `ack_notification`, `resolve_notification` |
| `Abandon` | an error, or a connection that dies, between two transactions |
| `Learn`, `Retire` | the other components: a sensitive memory comes and goes |

`ExportContract` promises that a permit is asked for, decided once and spent on one
ledger entry, and that an entry only moves onwards. It says nothing of permits and
entries on which two operations overlapped.

### 2.6 NotificationOutbox and RestoreDrills

State: `notice` (rows of `memory_notifications`: status, target, how near the due
date is), `delivery` (rows of `memory_notification_deliveries`) and `call`, what each
connection has read. History variables: `tries` and `arrived` (what the sender
reported), `again` (deliveries queued with dedupe off or put back to sending), and
`raced` (rows on which two calls overlapped).

| Action | Code |
|---|---|
| `Raise`, `Clear` (through `Need`, `Settle`) | `_create_notification` with its dedupe key, `_resolve_notifications_for_target`: in the transaction of the component that calls them |
| `Elapse` | time passes: `_notification_sla` puts a notification into another class |
| `TakeNotice`, `AckCommit`, `AssignCommit`, `ResolveCommit` | the operators' calls: unlocked read, then UPDATE |
| `EnqueueList`, `EnqueueCheck`, `EnqueueCommit` | `enqueue_notification_deliveries`: the list, the look for a live delivery, the INSERT |
| `MarkRead`, `MarkCommit` | `mark_notification_delivery` |
| `ReportFirst`, `ReportMore`, `ReportLast` | `notification_escalations`: four listings one after the other, the last with the cut |
| `Leave` | the request ends or dies |

`Listings` is `list_notifications`: by class it takes `Window` rows of a status first (500, by
severity and date, which the model leaves open) and looks at the class then, and it returns at
most `Cut` (50, if the caller asks for no other). So an overdue notification behind 500 others
of its status is in no listing. `EscalationsAreComplete` says what an escalation report is
nevertheless good for: one that is not full has everything that was urgent throughout, and a
full one has nothing that is due soon while it leaves out something overdue. It promises this
while no status has more than `Window` rows and nothing that was listed as due soon comes due
before its second listing (it stays in the report as due soon and may be cut off as such).

`RestoreDrills` extends it with `schedule`, the artifacts on disk, a clock and what
each scheduler is doing: `SetRead`/`SetCommit`, `ListDue`, `Begin`, `CheckBackup`,
`WriteBackup`, `Restore`, `Record`, `Die`. Its outcome is recorded together with the
notification it raises or clears, so the drills and the inbox are checked composed.
The artifacts' names have a second in them, so two drills of one schedule in one
second meet the same file.

### 2.7 AuditChain

State: `log` (the rows, each with the row whose hash it names), the backup file, the
target of a restore, and what each writer has looked up. `Commit` is a row written
inside a transaction that has written before; `LookUp`/`Insert` one whose look-up is
unlocked, as the row is the first write: backups, refusals, and `init_db`, which audits every
opening of the file (`store.py:471`), that is, every request. `Copy`, `Check`, `Unlink`, `CheckAndCopy`, `Finish` and
`RestoreDies` are `backup_database` and `restore_database`. `Alter`, `Remove` and
`Damage` are not of the code: they are what the report is there to notice. `Fails` is
`audit_integrity_report`. A hash is the row it is the hash of.

### 2.8 LifecycleBatch

State: `item` (memories and candidates as committed), `unsaved` with `holder` (the open
transaction and its connection), `batch`, `conflict` and what the callers were told.
`Look`, `Write`, `Fail`, `Deny` and `Break` are the fates of one item; `Break` is an
exception after the first write: it is put into the answer, the transaction stays open, and
the next item commits it or the end of the connection rolls it back. `Record`,
`Detect`/`RecordFound` and `Supersede` are the writers of `memory_conflicts`.

### 2.9 ProfileTransfer

Two sites, each with candidates, memories, items, revisions, invalidations, reviews and a
branch node with its evidence; conflicts and edges are not among them. `ExportMemories`, `ExportQueue`, `ExportCandidates`,
`ExportItems`, `ExportPapers`, `ExportNodes` and `ExportEvidence` are the SELECTs of
`export_profile` and `export_bundle`; reviews go on between them. `AlterFile` and `Discard`
are a file that `verify_bundle` must refuse or that is lost. `Import` is the transaction of
`import_profile`, with one operator per table (`ImportedCandidate` and so on). Every file has
a digest to verify; a plain payload, which `import_profile` takes without one, is left out.

### 2.10 Intake

One connection's request is a sequence of transactions: `Ask` (the first step of
`record_outcome`, `record_turn`, `propose_memory_change`, `watch_import_path`,
`import_vault`), `Begin` and `Extracted` (`remember` before and after the extractor, with the
write lock held), `Denied`, then `RecordOutcome`, `FindScope`/`InsertScope`/`AddToDraft`
or `ChunkRow`/`EndOfFile`. `Abort` is an error or a death at any of them.

### 2.11 Router

`asked` is one `before_model_call`: `CheckPolicy`, then two passes of `Hit`, `Neighbour`
and `Resolve` (the winners of conflicts and the heuristics) and `Rows`, then `SavedRules`,
`SearchAgain`, `ReadSummary`/`CheckSources` and `Answer`, each an unlocked read. `Become`,
`Decide`, `SetPolicy` and `ImportPolicies` are what others commit in between. `Decisive`
picks the policy that decides. `Explicit` is `_apply_current_best_resolution`: the conflicts
that name what was found are selected once, so one that names only a winner put in by
another is not applied. `Best` is the heuristics, with the scores left open; a group is left
alone if one of its members has an open conflict among its `Marks` newest ones (5,
`_memory_conflict_status`: `Newest`, `InDispute`).

### 2.12 OperationsReports

`RecordUsage`; `CheckInvoice`/`WriteInvoice` (an import without overwrite: unlocked look,
then one transaction) and `OverwriteInvoice`; `ReadUsage`/`ReadLines` of
`billing_reconciliation_report`, whose pages end at a limit. The dashboard (`Open`,
`Look`) goes through the conditions the component reports look at, in the code's order,
while `Change` makes them true and false; `Overall` is how the code combines them.
Calls and lines are given by the numbers of their rows, and a sum (`Total`) is of a function on
them, so that two lines of one amount are two terms.

### 2.13 GraphCommands

A candidate carries a list of updates. `Normalized` is `normalize_graph_commands`;
`Propose`, `Approve`, `Reject` and `Retire` are one transaction each; `NodesOf`, `EdgesOf`
and `ClashesOf` say what the commands write (a conflict is between the memory the command names,
or the candidate's own if it names none, and the other one), `Count` what `_refresh_graph_groups` counts.

### 2.14 SchemaMigration

`OpenFile`, `CreateTable`, `CreateIndexes`, `LookForColumn`, `AddColumn` and `Stamp` are
`init_db` statement by statement, on any file an earlier kernel may have left;
`ReadVersion`, `ReadTable` and `AnswerStatus` are `migration_status`.

### 2.15 AgentTurns

State: `session` (where each host is), `locker` (whose transaction has written), the turns,
the writing operations with what of them is in the tables (`works`), the saved texts and the
jobs. `Route`, `Ask`, `CheckKey`, `SaveText`, `Extract`/`Extracted`/`KeeperFails`,
`RecordJob` and `Trace` are `run_agent_turn` and `shadow_turn`; `StartWork`, `FinishWork`
and `FailWork` are any other writing call, `Locked` is the end of a busy timeout, `CloseHost`
the end of the process. A call that raises leaves its transaction open: `Commits` shows what
the next commit of the session makes of it ("part").

### 2.16 MCRequests and MCOperations

A run may have several independent modules: `part`, chosen in the initial state, says which of
them moves. The parts share no variable (the drills and the inbox, which do, are one part), so
a product of them would multiply states without a new case. `Parts` names the parts of a run.
In `MCOperations` new notifications and deliveries take their ids in one order (`InOrder`),
which takes the place of a symmetry over them.

## 3. What TLC checks

Passing runs (all with TLC's full breadth-first search):

| Run | Instance | Properties | Shows |
|---|---|---|---|
| `review` | 2 candidates, 3 memory ids, 2 connections, 2 reviews each | `DecisionsHold`, `OneDecisionPerCandidate`, `RetiredStaysRetired`, `ContractSpec` | in any interleaving memory and item agree, quarantine holds, decisions are on record, retired memories stay retired; a candidate whose own operations do not overlap has one memory, is approved while active, leaves the inbox when decided, and follows `ReviewContract` |
| `revisions` | 3 texts, 3 revisions, 2 connections, 2 seconds | `HistoryHolds`, `LogSpec` | in any interleaving text, item and last revision agree, nothing is invented, rollbacks restore; while no two operations overlap, parents form one line and the tables implement `RevisionLog` |
| `graph_whole` | 3 memories, 2 texts, 2 forms of one entity and one typed like an item, corrections | `ShownIsSupported`, `ShownIsCurrent`, `HiddenNodeStaysHidden` | every writer of the graph: shown nodes are supported, hidden ones stay hidden, evidence agrees, merged nodes are inert; until the first correction blobs say only what active memories say, until the first merge shown edges are supported |
| `keeper_workers` | 3 keys (queued, sync, silent), 2 clients, 2 workers, batches of 2, 3 calls, 1 crash, fair workers | `JobsTellTheTruth`, `QueueDrains` | finished jobs have an event, events have turns, and every queued job is finished in the end |
| `keeper_single` | 1 worker, batches of 1, 2 crashes | `DuplicatesAreCrashes`, `FinishedStaysFinished` | an exchange is extracted again only because of a crash, and finished jobs keep their status |
| `exports` | 1 sensitive memory, 2 shapes (a profile, files), 1 approval, 2 exports, 2 connections | `ExportsAreAccounted`, `OneTimeAndDone`, `ContractSpec` | in any interleaving an export names an approval given for it, what leaves without one became sensitive after the assessment or, in a profile, had been retired before it, a used approval is accounted for; an approval or export whose own operations do not overlap follows `ExportContract`, and its notification stands for work to do |
| `operations` | parts `inbox`, `reports`, `outbox`, `drills`, `restore`, `tamper`, `bills`, `dashboards`, `commands`, `schema`, `turns`; 3 notifications, listings of 2 rows, reports of 2 | `OneLiveDelivery`, `ReportsAreKept`, `OneNoticePerTarget`, `EscalationsAreComplete`, `InboxShowsLastDrill`, `DrillsRunWhenDue`, `ReportIsRight`, `RestoreHolds`, `ReportsAddUp`, `CommandsFollowTheirMemory`, `MigrationIsWhole`, `TurnsAreWhole` | what the operators' side promises, on two overlapping connections of each kind; an escalation report misses nothing but what its limits cut off |
| `requests` | parts `batches`, `conflicts`, `whole`, `torn`, `outcomes`, `turns`, `files`, `best`, `policies` | `BatchesTellTheTruth`, `ConflictsAreSettled`, `TransferKeepsState`, `IntakeIsComplete`, `RouterAnswers` | answers are true, imports keep local state, requests leave all their records, an envelope shows nothing inactive and leaves out only what it may |

Several properties are conjunctions of named parts (`ShownIsSupported` of
`ActiveNodeHasSupport`, `EdgeEvidenceMatchesNodes` and `ReleasedNodeIsInert`, and so on);
the comment at each part says what it is about.

Runs that expect a violation show where the code and its own documents part. Each
checks one property, and the finding in `PROJECT.json` quotes the line.

| Run | What TLC finds |
|---|---|
| `graph_revived_edge` | consolidation activates the edge of a deleted memory |
| `keeper_lost_update` | one worker: the rollback for a failing job undoes the completed status of the job before it |
| `outcome_deleted_lesson` | the lesson of a deleted memory stays in the outcome pack |
| `router_superseded_returns` | a memory that won an old conflict and lost a newer one is retrieved again as a winner |

### 3.1 What the conditions in the properties mark

A property that says "unless two operations overlapped" is checked with a history
variable for the overlap; without it TLC finds what the code does then. These are
properties of the code as it is, seen while modelling; none contradicts a document
plainly enough to be listed as a finding, except where one is quoted.

* Review: a rejection that looked before an approval committed rejects a candidate with an
  active memory; two approvals that overlap, with a deletion of the first memory in between,
  insert a second one; an acknowledgement puts a resolved notification back. A rejected
  candidate whose memory had been deleted can be approved: `_activate_candidate` returns the
  existing memory before it looks at the candidate's status (`store.py:11844`).
* Revisions: the second of two overlapping corrections records a text that is no longer current.
* Graph: the blob of an entity node keeps a text that was corrected; a memory can be attached
  to an inactive node and so not be shown; a memory with two nodes of one type cannot be
  corrected (`Correct` meets the UNIQUE key).
* Keeper: nothing claims a job, so two workers remember one exchange each; a call that is repeated
  before its job row is there saves the exchange again, as the job row comes last.
* Exports: two exports that both read the approval as approved, so that a "one-time approval"
  (`docs/hermes-integration.md:883`) backs two ledger entries; a memory that becomes active
  between assessment and content leaves without an approval; the texts of retired memories, and
  of proposals that wait for review, are in a profile and not in its assessment (`store.py:15215`;
  `docs/threat-model.md:40` asks to filter inactive memory before exports, while
  `docs/memory-lifecycle-contract.md:215` wants the lifecycle metadata of inactive memory in them); an export
  that fails after its approval was marked used spends it on nothing.
* Outbox and drills: two enqueuers each queue a delivery; overlapping reports lose an attempt;
  a resolution is overwritten by an acknowledgement that had read the notification before; two
  schedulers run one due drill twice, and a late record overwrites a newer due time. An overdue
  notification behind 500 others of its status, or what is more than an escalation report's
  limit, is not reported, with no overlap at all (`store.py:1770`, `2152`).
* Audit: two connections whose first write is the audit row (a backup, a refusal, or just two
  requests that open the file at once: `init_db` writes one, `store.py:471`) chain to one row,
  and the report fails from then on although nobody tampered with anything.
* Batches: an item reported as an error may be committed by the next one ("leaked"); a detection
  that overlaps a supersession opens a conflict that the supersession would have resolved.
* Import: a local refusal is overridden by an imported active memory; a candidate is imported as
  approved without its memory when that was refused; a node inserted later can show a deleted
  text; revisions and invalidations are imported onto a memory that was kept; usage rows double
  on a repeated import (`store.py:7186`); audit rows come without a signature; an imported
  policy overwrites a local one under its own date.
* Intake: a denied `record_turn` commits the turn; the second candidate of a chunk has no
  chunk row; `correct_memory` does not ask the admission policy; an outcome whose candidate
  was pending and is approved later never becomes active in the pack.
* Router: the section of saved rules shows memories that lost a conflict; a memory with an open
  conflict can be suppressed as a near-duplicate once five newer conflicts name it
  (`store.py:18586`), although `docs/memory-lifecycle-contract.md:197-199` speaks of keeping open
  conflicts visible for review; a conflict that names
  only a winner another conflict has put in is not applied.
* Reports: a breach of the observability objectives gives an alert but no component has its
  status, so that the dashboard passes; a failed delivery behind a page of newer rows is not
  seen (`store.py:2010`); two imports of one invoice that overlap are both active; a line of
  scope "all" is in no scoped report; invoice lines are read up to a limit, usage without.
* Graph commands: rows of `graph_commands` are not updated by a decision; a `mark_conflict` that
  names an unknown memory makes every approval raise, and the candidate stays pending; commands
  after the hundredth are dropped silently; a command of another scope leaves that scope's groups
  stale (`store.py:13598`); an inactive node keeps its status while its edge is made active.
* Schema: `schema.sql:751` creates the index on `keeper_jobs.idempotency_key` before `init_db` adds
  that column, so a database from before it is never opened again ("no such column"), although
  `docs/recovery.md:6` speaks of an additive set-up; `user_version` is set unconditionally,
  was not raised for any column that was added, and `migration_status` asks for columns that
  `init_db` never adds; two openers can both add a column, and one raises once.
* Long-lived stores: an operation that raises leaves its rows in an open transaction, which holds
  the write lock for every other process and is published by the session's next commit.
  `docs/implementation-plan.md:116` says "Import/export is atomic"; an import that raises midway
  on an orchestrator's store is published in part by the next turn. `before_model_call` inserts
  its run outside of its `try`, so a locked database raises instead of falling back.

### 3.2 Bounds

*Two connections* are enough for a lost update or a stale read: each involves one
reader and one writer between the read and its use. What holds for two
connections we do not extrapolate but prove (section 4) for any number. *Three
memory ids* for two candidates leave one for a second memory of a candidate,
which is how an overlap of two approvals shows. *Three texts and three revisions* are the
smallest history in which a correction, a rollback of it and a rollback of the
rollback differ, and *two seconds* are enough for a row whose time is older than
the row before it. *Three memories* in the graph: one that keeps a node alive, one
that leaves it, one that comes later; *two forms of one name* are the least that
can be merged, and `AliasAssumption` bounds a group of duplicates to two (with
more, the code repeats the same merge for each loser). *One approval and two exports* are the least that can use
an approval twice; the two shapes differ in whether the ledger entry precedes the
content, and in what an approval for the other one does not allow. *Batches of two* are the
least in which the failure of one job touches the update of another.

In `operations`: *two notifications* on one target, *two deliveries* of one notification and
one reported attempt (a second one would be counted like the first); one schedule and *two
schedulers*, with the clock at two seconds so that artifacts can and cannot meet. Notifications of
the outbox are raised between two calls, and an operator deals with a drill's notification while
at most one scheduler is at work. In the part
`reports` *three notifications* against `Window` = 2 and `Cut` = 2: a status with more rows than a
listing looks at, a report that is exactly full and one that is cut, all occur.

A log of *three rows*, two of them tampered with, which includes a row whose predecessor is removed and
a fork; *two invoices* of up to three lines with a page of three, so that the list ends at its
limit; *two candidates* whose commands name two labels in two scopes, with lists longer than the
bound on commands; *two tables* and four columns, of which one is indexed, two are added and one
is only asked for; *two hosts*, two exchanges (one queued), two turns and two writing
operations, so that one session's failed call can be followed by another turn and by another
session's.

In `requests`: two items in the batches and a memory that none names; three proposals of
which one is refused text and one is known to both stores; three candidates and files of two
chunks; three memories of which two are near-duplicates and summarised and one is a rule, with
a limit of two so that something must be left out; two recorded conflicts of which one counts
per memory (`Marks` = 1), so that an open one lies behind a newer one. The runs that expect a violation have
the code's five (`Marks` = 5).

The parts leave out orders of steps that end in the same states: a step that reads and writes only
what the other steps of an interval do not can be taken first. Where a part says "comes before or
between the reads", or ends a behaviour at a report or at an answer, this is the reason, and the
comment at the part says so. The drills are checked with one operator at a time on one notification,
since the overlaps of operators are the inbox part's.

`CHECK_DEADLOCK FALSE` is set where the system may really stop: when no
connection has anything to do and the bounds on reviews, revisions, corrections,
calls, rows or crashes are used up.

### 3.3 Fairness

Only `QueueDrains` (run `keeper_workers`) needs it. `FairSpec` assumes weak fairness of each worker's
steps: `run_keeper_worker_daemon` polls for ever and catches
only `KeyboardInterrupt` (`worker.py:37-78`): any other exception ends the daemon, which is a
`Crash`, and `docs/production-rollout.md` runs it under systemd with `Restart=always`, which starts
it again. Nothing is assumed of clients, and nothing says that the Keeper
succeeds: `Fails` is a step like the others. Crashes are bounded by `MaxCrashes`:
a worker that dies in every batch finishes nothing, and the code does not promise
otherwise.

## 4. What TLAPS proves

All theorems are of the form `Spec => []Inv`, `Spec => [][A]_vars` or
`Spec => Abstract!Spec`, for every value of the constants: any number of
candidates, texts, memories, entities, keys, connections, workers, hosts, labels, lists,
schemas, schedules, notifications, log rows, bills, rules and conflicts, and any bounds.
Every invariant and action property that a passing run checks is stated by one of them.
Each proof module follows one pattern: an inductive invariant as a conjunction of
named parts, a lemma per part and action, a lemma for the step, and the temporal
theorem by PTL. TLC checks the same properties first. The named strengthenings:

* `CandidateReviewProofs`. The properties are not inductive: an approval that is in
  progress carries what it read. `Inv` adds `RowsOwned` (a used memory id has an
  owner), `AdmissionKept` (a candidate that still waits, or is held, has the status admission
  gave it) and `ReadsKept` (an approval past its second read is not of a quarantined
  candidate, one that found a memory has one: both stay true, as no operation
  removes a memory or returns to quarantine). Results: `TypeCorrect`,
  `QuarantineSafe`, `DecisionSafe`, `PendingSafe`, their conjunction `DecisionsSafe`,
  and `RetiredSafe`.
  `IsolatedInv` adds, for each candidate outside `contended`, `RowsSound` (its
  rows satisfy the properties) and `ReadsExact` (what a connection in the middle of
  an operation on it has read is still so: a commit in between would have contended
  it). `CommitFrame` is the argument common to all transactions: a commit on one
  candidate leaves the facts and the stage of every other one alone. Results:
  `IsolatedSafe` and the refinement `ImplementsContract`, for any number of
  connections.
* `MemoryRevisionsProofs`. `ReadsHeld` says that what a connection has read was once
  true (a seen text was held, a chosen revision exists, a parent is in the table):
  rows are only appended, so this survives any overlap. Results: `TypeCorrect`,
  `TextSafe`, `HistorySafe`. For `HistoryHoldsSafe` and the refinement `ImplementsLog`,
  `Chronological` (times do not decrease while no two operations overlapped) makes
  "latest by time" the last row, and `ReadsTimely` says that an operation nobody has
  overtaken yet has read the last row, and a time no earlier than any row's.
* `DerivedGraphProofs`. `KeysUnique` is the UNIQUE index and is itself proved, not
  assumed, so an upsert finds at most one row. `KeyMatchesSlot`, `ActiveHasKey`,
  `ApprovedHasItem` and `EvidenceOfRows` say which rows can hold which key. Results:
  `TypeCorrect`, `GraphSafe`, `HiddenSafe`, `BlobSafe` (until the first correction)
  and `EdgeSafe` (until the first merge; `MergedStays` makes "until" a matter of the
  state), and `CurrentSafe` puts them together. The two conditions are the stale blob
  of section 3.1 and the finding `graph_revived_edge`, seen from the other side.
* `KeeperQueueProofs`. `RememberedInv` follows the claim "remembered" through the
  places it is held before it is committed: a client's status, a worker's outcome
  and its uncommitted updates. `TurnsInv` does the same for the turns. With at most
  one worker, `SingleInv` says that what the worker holds is still queued
  (`SingleWorkerFinal`); with batches of one job, `OneJobInv` counts the events of
  a key against crashes (`SingleJobDuplicates`). The last needs both assumptions:
  with larger batches the rollback of another job repeats a job without a crash.

* `ExportApprovalProofs`. `Backed` says what each operation in progress relies on (an
  export past the check has an approver and the requested shape, one cleared without
  an approval has all that it may read among what was retired at its assessment and what became
active since: `gone` and `late`). `Grows` is what every
  transaction does to the tables as far as operations rely on them; `StepInv` derives
  the invariant from it once for all actions. Results: `TypeCorrect`, `ApprovedSafe`,
  `UnforeseenSafe`, `UsedSafe`, together `AccountedSafe`. `Isolated` adds, outside `contended`, `UsedAlone`
  (an approval has one running export or one ledger entry, not both) and `HeldFresh`
  (what an operation has read is still so); `Quiet` is the common form of all steps that write
  no status, and maps to a stutter of the contract. Results: `OneTimeSafe`,
  `InboxSafe`, together `OneTimeAndDoneSafe`, and the refinement `ImplementsContract`.
* `TransactionProofs`, three components that share no state.
  - `AgentTurns`: `TurnsAreWhole` speaks of what was answered; the invariant says
    what each host has reached on the way there. `ServesOK` relates where a host is in
    its turn to the texts and the job that are in the tables by then; `WritesOK` says that
    a host in the middle of a write has the lock and one open row; `WorkOK` that every
    open row is such a one, or of a call of the lock's holder that raised; `Apart` that no
    two hosts serve one turn. `Others` is what a step of one host leaves alone, whatever
    the step, so `StepInv` reduces every action to its own host, its own rows, and the jobs
    and the turn it writes; `MoveInv`, `EndInv` and `RestInv` are its three forms. Results:
    `TurnTypeCorrect`, `TurnsSafe`.
  - `GraphCommands`: `Sane` is what normalisation promises of a stored command
    (`NormalizedFacts`), so that what a command writes to exists (`WrittenFacts`); `Known`
    says that the memory it names is there, and stays. `ActivateInv` serves approval and a
    proposal that policy approves. `DoneOK` and `JournalOK` are all or nothing, candidate by
    candidate. The groups' counts need no induction over sets: a scope is counted anew, or
    its nodes are as they were (`CountStays`). Results: `CommandsSafe`, `GraphTypeCorrect`.
  - `SchemaMigration`: `KnowsOK` ties the position of a connection in `init_db` to
    what the file holds; it survives the others' steps since the file only grows, not any
    more once it is complete, and an outdated file stays so (`Grows`). What the status
    report has not found so far (`lacks`) is exact because a connection reads it only of a
    complete file. Results: `MigrationSafe`, `SchemaTypeCorrect`.
* `OperationsProofs`, what else runs in `operations`.
  - Inbox and outbox: what an operation has read before the lock is still so, or the rows
    are among the ones the property excuses (`TakenOK`, `LookedUpOK`, `MarkingOK`).
    `ReportingOK` is the invariant behind a report of four listings: what it must not miss
    is listed already, or is urgent still and of a class that is listed later, or the report is
    full, and then of what is overdue, by as many overdue ones. A listing that is cut has `Cut`
    members, and a report only grows until its own cut. `Continues`
    is what any step leaves of the other operations. Results: `NoticesAreUnique`,
    `DeliveriesAreUnique`, `ReportsStay`, `EscalationsComplete`.
  - Drills: every step of a scheduler is one of the inbox, or leaves it alone
    (`DrillsUseTheInbox`), so all that is proved of the inbox holds beside the drills.
    `SchedulerOK` says that what a scheduler has in hand is due, and what it runs is not
    waited for, unless operations overlapped. Results: `InboxTellsOfDrills`, `DrillsAreDueOnce`.
  - Audit chain: four facts about the order of the signed rows (`RowsInOrder`,
    `ChangesShow`, `ChainedBack`, `GapsShow`) say what tampering leaves to be seen. The report
    compares each row with its predecessor; that a least bad row exists (`LowestExists`) makes
    this a fact about the whole log. `CopyInv` carries it to backups and restored files.
    Results: `AuditReportIsRight`, `RestoreIsWhole`.
  - Reports: while no import overtook another, the active lines of an invoice are those of
    its last import, in a row (`Placed`). The report adds up lines of one table, the property
    what each bill says: the two sums are of the same amounts in another order (`SameTotal`).
    `DashInv` is what a dashboard has looked for so far. Results: `ReportsHold`.
  - `OperationsTypeCorrect` and `OperationsSafe` put these and `TransactionProofs` together
    for the specification of the run, with `Parts` any set of parts.
* `RequestsProofs`, what runs in `requests`.
  - Batches: `TruthInv` says of the open transaction what the property says of the committed
    rows, with what broke in the batch of its holder. `SettledInv` adds that a detection which
    still has to write a pair that is on record has been crossed, and that supersessions which
    are not committed have their rows too. Results: `BatchesAreTruthful`, `ConflictsSettle`.
  - Transfer: `SiteOK` is the property of one store with what its reasons rest on: what
    a node shows is in the evidence that would refresh it, and a memory of another store's
    is there too. `FileOK` says that a file that is sound says nothing its store has undone,
    and holds by `Grows`: nothing a store has seen is undone. Result: `TransfersKeepState`.
  - Intake: `Fits` says of each request what it has made so far and what of it is in the
    chunk table or will be with the next commit; `Locked` that what is not committed is under
    the lock. Result: `IntakeHolds`.
  - Router: `TreeOK` follows what the first retrieval found and selected through the steps
    of an undisturbed call. `Explicit` applies the resolved conflicts that name what was found, one after the other;
    `ExplicitIsFair` says what is left after all of them, and `InDispute` is what the heuristics
    leave alone, for any number of conflicts that are looked at. Result: `RouterAnswersHold`.
  - `RequestsTypeCorrect` and `RequestsSafe` put the four together.

Two models compute by recursion over data: `Total` of `OperationsReports` adds up the values
of a function, `Explicit` of `Router` applies a list of conflicts. Both are recursive functions, and
neither needs a theorem with an operator parameter. That such a function exists is proved first
(`SumsExist`, `RulingsExist`), and what it computes by the least exception: the set of places where the
statement fails has a least element (`LowestExists`), or a member with the fewest elements
(`NoExceptions`), and its predecessor fails as well.

Only model-checked: `QueueDrains`, since liveness is outside of this prover, and the violations. No
theorem relies on anything but the named `ASSUME`s of the modules, which say that a sentinel is not a
real id, that ids of two kinds differ, that a bound is a number, that the limits of listings are in order
(`ListingAssumption`), that drafts, labels,
notifications and the Router's memories are finitely many, that a key is of one kind, that lists, bills and old files are made of what
they may be made of, and (`AliasAssumption`) that a name has at most two forms.

## 5. What is not modelled

* Contents: texts, labels, scores, weights, counts of evidence, reasons, and the
  rows written for display (lineage, profile notes, digital brain state, semantic analyses).
* Taxonomy, and scope except in `GraphCommands`, `OperationsReports` and the read policies of
  `Router`: the other models are about one scope.
* Which memory replaced a superseded one in `CandidateReview` (it is in `LifecycleBatch`);
  graph commands in `DerivedGraph` (they are in `GraphCommands`, with the nodes they name);
  branches in `MemoryRevisions`.
* In `ExportApproval`: what a policy decides (a denial is an `Abandon`), the bytes of
  an artifact, the custody and control reports, and the retention period itself.
* In `ProfileTransfer`: notes, profiles, usage, aliases and encryption.
* The text rules: what the admission policy finds in a text, extraction by rules or by a language
  model, embeddings, taxonomy inference, prompt formats and token budgets. Their results are
  left open, so the properties hold whatever they return; that they return the right thing is
  outside of these models.
* The surfaces (HTTP, MCP, command line, the wrappers of the Hermes provider), the conformance,
  acceptance and evaluation suites and the contract descriptions: they parse, print, or run
  scenarios over the operations above.
* SQLite itself: a lock wait either succeeds or ends in a timeout, and the disk does
  not lose a committed transaction.

## 6. What is left

1. Refinements for the parts of `operations` and `requests`: an abstract inbox (a target is wanted or
   not) for the outbox and the drills, and an abstract journal for the intake.
2. A composition of review, revisions and graph in which a correction, a deletion and an approval
   overlap; each pair of them is covered now, the three together are not.
3. The Router on the tables of `CandidateReview` and `DerivedGraph` instead of tables of its own, and
   the scoring of near-duplicates against a reference order.
4. The derived rows that are rebuilt for display, if a component ever reads them.

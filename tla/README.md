# Verification of mem-trace

mem-trace is a memory runtime for agents: it records the events of agent runs,
extracts memories from them, keeps a tree of execution states with rollback, and
serves memories back as context. This directory holds TLA+ models of its
stateful core, TLC configurations that check them, and TLAPS proofs. Paths
below are relative to `src/apps/api/app/` unless they start with `src/`.

    tlc -workers 2 -config lifecycle.cfg MCMemoryLifecycle   # one run
    tlapm MemoryLifecycle_proofs.tla                         # one proof module

`PROJECT.json` lists the runs, the mutants that show each property can fail, the
source lines behind each definition, the hazards and the theorems.

## 1. Inventory

| component | state it keeps | operations | what is hard |
|---|---|---|---|
| runtime facade (`runtime/memory_runtime.py`) | runs, steps, events, in-process fallback buffers | start_run, start_step, write_event, finish_step, rollback_branch, flush_session, retrieve_context, complete_run, process_event_extraction | every repository call is its own transaction; a request writes back whole rows it read several awaits ago |
| state tree (`runtime/state_tree.py`) | state nodes: parent, depth, status | make_step_node, recovery_parent, apply_finish, apply_rollback, active_path_node_ids | growth beside rollback; node and step rows written separately |
| resolver (`memory/resolver.py`) | none (pure) | resolve: fold, retire, conflict | decided on a listing, applied one row at a time |
| repository (`runtime/repository.py`, `storage/sql_repository.py`, `storage/orm.py`) | all tables | one transaction per method | which locks, indexes and retries make a transaction look like the in-memory class |
| candidate buffer (`memory/candidate_buffer.py`, `memory/redis_candidate_buffer.py`) | lists and three indexes in Redis, a local fallback | append, drain, list_pending_session_ids | partial failures, lost replies, concurrent drains |
| async tasks (`async_tasks/`) | dedupe keys with a TTL, a lease no task takes | memory.extract_event, memory.maintenance | redelivery, TTL expiry, release by a non-owner |
| lifecycle (`memory/lifecycle.py`, `versioning.py`, `retention.py`) | status, lifecycle_metadata, versions, audits of a memory | pin, unpin, decay, archive, quarantine, supersede, delete | stale copies against audited changes |
| scheduler, maintenance (`memory/scheduler.py`, `maintenance.py`) | maintenance runs and attempts | score, decay, archive, quarantine, dedup, refresh, reindex, conflict_scan | listing read once, rows written much later; retry of a failed run |
| conflicts (`memory/conflicts.py`, `conflict_policy.py`) | conflict rows | scan, suggest, resolve | scans, write path and reviewers decide on different readings of the same rows |
| authentication, permissions (`governance/auth.py`, `permissions.py`, `jwt_auth.py`, `admin.py`) | API keys, memberships | require_api_key, require_permission, create and revoke keys | three reads decide who a caller is, and keys change between them |
| quota (`governance/quota.py`) | overrides, counters of one process | check, upsert and delete limits | two reads find the limit that a third step charges |
| retrieval (`retrieval/`) | access, gate and compaction logs, access counts, graph edges | select, hop, gate, pack, log | order of the gate's floors; budget arithmetic; rows that change between select, hop and gate |
| run summaries (`memory/summarizer.py`, `summarizer_provider.py`) | summary memories | complete_run, summary_refresh, history fold | two writers of one key; a rollback while a summary is made |
| replay (`observability/replay.py`) | none | replay_access | runs the past again on present rows |
| index of secondary stores (`memory/secondary_index.py`) | marks in lifecycle_metadata | reconcile_secondary_indexes | marks written with the whole row |
| telemetry, reports, dashboards, SDKs, MCP server, benchmarks, collectors | none the runtime reads back | export, render, call the API | not stateful |

How they interact: API processes and Celery workers share one SQL database and,
optionally, one Redis. Every request passes authentication, permission and quota
before its handler runs. A write_event stores the event and then extracts it
inline, buffers it, or enqueues a task. A window boundary (retrieve_context,
finish_step, complete_run, rollback_branch) or an explicit flush drains the
buffers and extracts what it got. Extraction adds memory rows or folds into
existing ones. Administrators and the scheduler change the status of the same
rows; retrieval bumps their access counts; rollback flips their branch status;
complete_run and the refresh operations distil summaries from them.

What makes each component correct:

* facade and extraction: no evidence of a rolled-back branch stays completed; a
  deferred event is extracted, waits, or is refused, and by one drain only;
  concurrent folds keep a live copy of a fact.
* state tree: the rows are one tree; a recovery is outside what it recovers
  from; a rolled-back branch is off the active path; node and step agree.
* repository: every interleaving of transactions looks like calls of the
  in-memory class made one at a time, and every call returns.
* buffer: accepted candidates wait, are with one drain, or were handed over;
  every non-empty queue can be found.
* lifecycle: no status change is undone by a stale copy; history, counters and
  pin metadata follow the row.
* tasks: an event is extracted once however often it is delivered.
* maintenance: an operation of a run takes effect at most once and in order,
  completed means all of them did, and a run is closed in the end.
* conflicts: the supersession chain of a key ends at a value; while scans keep
  being completed, a conflict that is gone is closed and one that persists is
  reported.
* authentication: nobody is answered beyond its grants or after its key was
  revoked, and a failing lookup does not open the door.
* quota: counters are not exceeded by concurrent requests, and a caller is
  measured by a limit that was in force.
* retrieval: contexts fit their budget, hold nothing the gate's floors exclude,
  report what was dropped, and are logged as they were served.
* summaries: one per kind, of what stands on the path, and there is one while
  refreshes keep being completed.

The hazards this calls for, each at its line, are in `PROJECT.json`.

## 2. Modules

| module | models | rests on |
|---|---|---|
| `EventExtraction` | extraction of events while branches are finished and rolled back | - |
| `StateTree` | growth, finish and rollback of the tree, row by row | - |
| `CandidateQueue` | what a candidate buffer promises (abstract) | - |
| `RedisCandidateBuffer` | the Redis buffer with its fallback, command by command | refines `CandidateQueue` |
| `MemoryLifecycle` | whole-row updates, audited transitions and access bumps on one row | - |
| `MaintenanceRun` | a maintenance run from the admin request over task delivery and dedupe key to its verdict | - |
| `ConflictReview` | the memories of one key: resolution on the write path, conflict policy, scans, deduplication, review | - |
| `AdmissionGate` | the gate's layered policy and its notices, as operators | - |
| `ContextPacker` | pack_context, block by block | - |
| `RetrieveContext` | a retrieval from selection to its logs, and its replay | `AdmissionGate`, `ContextPacker` |
| `Principals` | credentials, grants, and what each route asks for, as operators | - |
| `Server` | the requests at hand, shared by the two below | - |
| `RequestGate` | authentication, permission, quota, and the administration of keys and limits | `Principals` |
| `RunPath` | one run as its handlers share it; rollback | - |
| `RunSummary` | complete_run and the refresh operations | `RunPath` |
| `HistoryFold` | the history fold of retrieve_context and the validation of a provider's answer | `RunPath` |
| `ApiServer` | the server: the gate before the handlers of a run, and maintenance beside them | composes `RequestGate`, `RunSummary`, `HistoryFold` |
| `Tables` | filters, orders, pages, versions, as operators | - |
| `Repository` | the repository protocol, one step per call (abstract) | `Tables` |
| `SqlRepository` | the SQL repository, statement by statement | refines `Repository` |
| `MC...` | constants and workloads for TLC | the module named |
| `..._proofs` | theorems | the module named |

**EventExtraction.** A handler is one request or task delivery; `pc[h]` is the
await it stands at, and one action is one repository call with the Python code
before it. `write_event` is `WriteBegin ... CacheEventOnNode`, with its five
extraction modes (`ExtractInline`, `BufferLazily`, `BufferForExplicitFlush`,
`EnqueueTask`, `SkipExtraction`). `process_event_extraction` is `CheckDuplicate`,
the three reads of `_event_extraction_allowed` (`CheckRun`, `CheckNode`,
`CheckStep`), the write (`AddToolEvidence`, or `ResolveFact`, `FoldFact`,
`AddFact`), the same three reads again, and `Isolate`. A flush is `Drain`, `Pick`
and `EndFlush`. `rollback_branch` drains, lists and marks nodes and steps one
at a time, lists memories and flips them one at a time. `Fail` abandons any
handler between two calls. The shape of the tree is a constant, an event yields
at most one memory, and all messages state one fact, so the resolver's
same-value path is exact; its different-value path is `ConflictReview`'s.

**StateTree.** A step and its node are named by the start_step request creating
them. `start_step` reads the tree, adds the node, adds the step; `write_event`
reads and rewrites the node; `finish_step` writes the step, then the node from
its old copy; `rollback_branch` lists and marks. `Careful` says which requests
clients do not overlap: `"update"` (no write or finish beside or after a
rollback of its branch), `"start"` (no start there). `Die` ends any request
between two transactions. Branches and lineages are smallest sets, so no
induction over the tree is needed.

**CandidateQueue / RedisCandidateBuffer.** One action per Redis command or Lua
script. `Faults` lists what may go wrong: a command without effect
(`"append"`, `"detach"`, `"pop"`, `"restore"`), one with its effect whose reply
is lost (`"append_reply"`, `"detach_reply"`, `"pop_reply"`), an index lookup, a
crash of a process with its fallback buffer. Lists are sets: the caller sorts by
sequence number and an event is pushed once.

**MemoryLifecycle.** One row, its newest version, and requests that read it and
later write. Each update job (rollback flip, fold, retire, conflict, reindex,
secondary marks) ends in `UpdateMemory`, each audited change (administrator,
decay, archive, quarantine, dedup or summary refresh) in `TransitionWithAudit`
or `StaleTransition`. Operations treat the memories they list independently, so
one row shows all of it. `archive_memory` writes twice from one copy. Scores are
left open: a job may pick any memory its status filter admits. `superseded_by`
is left out here (`ConflictReview` has it), and the index marks are one flag, so
re-marking after a backend failure is not followed.

**MaintenanceRun.** The admin request stores a pending run and enqueues its task
(`AddQueuedRun`, `Enqueue`, `EnqueueRaises`, `MarkEnqueueFailed`) or executes it
itself (`StartDirectly`). The broker may repeat a message (`Consume`, at most
`Redeliveries` times); `Acquire` and `SkipDuplicate` are the SET NX of the dedupe
key, `KeyExpires` its TTL, `Release` its deletion by whoever thinks it is the
holder. `job[h]` is the local state of `run_workspace_maintenance`: `AdoptRun`, then
for each operation `AddAttempt` (a unique row per run and operation), `CallHandler`
(nothing in a preview) and `RecordAttempt`, then `CloseRun`. `Faults` lists what may
raise (`"run_row"`, `"attempt_row"` before or after its commit, `"operation"`,
`"enqueue"` and, taken by the broker nevertheless, `"enqueue_reply"`, `"acquire"`,
`"release"`), expire or die. What an operation does to memories is the subject of
`MemoryLifecycle`, `ConflictReview` and `RunSummary`. `cancelled` and a pending
attempt are statuses no code sets.

**ConflictReview.** Memories of one single-valued key, numbered in the order
they are written. `Beats` compares by the rules of the policy in their order: the
four signals of `Standing`, trust and recency; who is left ties (`Adjudicated`).
`Write` lists and resolves, `WriteBack` writes one changed row at a time,
`AddMemory` stores the new one, and the writer then scans (`ListMemories`,
`ListOpen`, `Upsert`, `CloseStale`, unless it dies: `ScanDies`) like the
maintenance scan does. Deduplication
is `ListDuplicates` and `RetireDuplicate`; a reviewer opens a conflict, and then
dismisses it, applies the suggestion or chooses a winner, losers first
(`RetireLoser`, `CloseReviewed`). `Bump` and `GoDormant` are what retrieval and
decay do to the same rows. A conflict is named by its members.

**AdmissionGate, ContextPacker, RetrieveContext.** `Verdict` is evaluate_memory
with its floors in their order; `NoticeChoices` the negative-evidence notices.
The packer fits one block per step, and `ShortenLast` and `Fitted` leave open how
many tokens a shortened text keeps below its limit. `RetrieveContext` has one
action per read or write of the store: `Select` (one of three candidate sources,
linked through the graph), `Hop`, `Gate`, then packing, then `LogAccess`,
`LogAccepted`/`LogGate`, `LogDropped`, `Bump`. `Timeout` cuts a request up to
the packing, `Fail` anywhere. Relevance is the order of the numbers, so ranking,
query planning and the fusion of rankings are left out, and `Leads` says which
memories the cues in a text lead to. `Others` is what everybody else does to a
row: any audited change, pinning a retired memory included (`SetStatus`), a
supersession, and the branch either way, as a rollback flips it and a stale fold
writes it back (`SetBranch`). `DecisionDrift` and `ContextDrift` are the replay:
candidates, verdicts and reasons, and what packing is given, from the logs and
from the request. Blocks, tokens and dropped counts follow from that input. The
scores, and the orders scores make, which `_diff_candidates` and
`_diff_scores_and_gate` compare too, and the state blocks are left out.

**Principals, RequestGate.** `RouteOf` is the table of routes: permission,
where the workspace comes from, quota units. `RequestGate` has one action per
await: `ListKeys`, `LookUpKey`, `MarkUsed`, `Authorize`, the two reads of a
limit (`ReadSpecific`, `ReadWide`), `Charge`, then `Serve` or the handlers that
create and revoke keys (`CreateKey`, `RevokeKey`) and set and drop limits
(`FindLimit`, `UpdateLimit`, `InsertLimit`, `RereadLimit`, `DropLimit`), and
`Audit`. `HandlerFails` and the lookups that fail are the database's faults.
`since` remembers, for the properties, what was true since a request arrived.

**RunPath, RunSummary, HistoryFold, ApiServer.** `RunPath` keeps the status of
the run, its nodes, the branch of its memories and its summary rows;
`RunSummary` is complete_run (`SetRun`, `ReadNodes`, `ReadMemories`, `ListPrior`,
`SupersedePrior`, `AddSummary`) and the refresh (`ListRuns` ... `RefreshAdd`),
`HistoryFold` the fold with a provider whose `Replies` claim anything and what
`Valid` lets through: retained facts, and of the prose its key=value pairs, the
only part of it the code checks. Other prose may say anything and is not
followed. `WriteNodeBack`, `AddItem` and `WriteItemBack` are the late writes of
write_event, of extraction and of a fold that the other modules show. `ApiServer` is the
whole: `Handle` steps a handler only once the gate let its request pass
(`GateStep`), and `Maintain` runs the refresh operations.

**Tables, Repository, SqlRepository.** A table is described by the columns that
some method looks at, its filters, list order, paging and unique columns:
`Repository!Catalogue` from the in-memory class, `SqlRepository!Schema` from the
ORM conversions and queries, independently. A call of `Repository` is one step of
that class: an event appended again replaces the old one under a new number
(`overwritten` remembers it, since the counter does), `Log` adds to a list whatever
it holds, and steps, nodes and events need no run; `Refusable` has the class's own
refusals. What it takes and a schema does not is listed beside them
(`SchemaRefuses`): a taken identifier of an event or a log entry, a row whose run is
missing, a row that was added or deleted between read and write. Equal log entries
are kept once, tables being sets.
In `SqlRepository` a call is a transaction: the read of a merge (`Merge`, `FindMember`,
`Guarded`, `FindKey`) and the flush of the columns that changed (`FlushInsert`,
`FlushUpdate`); a plain insert into the two tables of logs (`LogRow`); or the locked numbering of append_event (`LockRun`, `ReadMax`,
`InsertEvent`, `Collide` with its three tries); or the locked row of a memory
(`LockRow`, `NumberVersion`, `WriteMemory`); or one statement. A lock is held to the
end of the transaction, `Abort` is a failing database. Flush and commit are one
step. The refinement maps each answer to one step of `Repository`, or to its
refusal for one of the reasons `Refusable` and `SchemaRefuses` list; `held` (here `Noticed`) is what a
whole-row upsert may leave alone because the column had the wanted value when it
was read. Which workloads there are is an assumption, `SqlConstants`, and `WorkOK`
says it in parts: section 5.

Mutants (operators marked as such, each the way a bug in that place would look)
stand beside the definition they replace and are used by nothing else.

## 3. Runs

| run | shows | states |
|---|---|---|
| `extraction_rollback` | deferred evidence of a branch is not completed once its rollback returned, with the drains of a finish and of a rollback, a task delivery and crashes around it | 0.49 M |
| `extraction_flush` | two events, three drains: no event extracted twice, none lost | 0.20 M |
| `fact_folding` | three deliveries and an inline write of one fact: a copy stays active | 0.27 M |
| `buffer_promise` | Redis buffer implements `CandidateQueue` under clean failures | 0.07 M |
| `buffer_faults` | all faults together: queues stay discoverable, values in one place | 0.62 M |
| `tree` | careful clients: one tree, recoveries outside, a rolled-back branch off the path for good and marked as a whole, step and node agree | 0.44 M |
| `lifecycle` | two updates, two transitions, a bump: history, counter, pins, no reactivation | 2.3 M |
| `maintenance` | one run under every fault: at most once, in order, completed means all, and it settles | 0.04 M |
| `conflicts` | two writers, a scan, deduplication and a reviewer on one key: supersession ends at a value; if scans recur, gone conflicts are closed and real ones reported | 0.65 M |
| `retrieval` | a request of each strategy while its memories change in any way between its reads: budget, floors, notices, logs, replay | 1.3 M |
| `requests` | every route with every kind of credential, and keys, limits, completions, rollbacks and refreshes that race: grants, revocation, quota, summaries | 0.47 M |
| `repository` | every method of the SQL repository against others on the same rows, with a failing database: a refinement of the in-memory one, and every call returns | 6 k |

Bounds, and why they are enough:

* requests are single use and finite, so deadlock is expected (all done) and
  `CHECK_DEADLOCK FALSE` is set everywhere. Counters that would grow for ever are
  bounded by `Redeliveries` (how often a broker repeats a message), `Changes`
  (of memories beside a retrieval), `Horizon` (the clock of quota windows),
  `MaxClock` (updates that recency can tell apart), `MaxFaults`, and the `budget`
  of what else may happen to a run.
* extraction: a step below a step is the smallest tree in which a rollback marks
  more than its target and can be overtaken between the two; a worker and a
  flush are two extractions of one event at different points of the double
  check. Folding needs three writers: two that retire each other and one that
  reads between them.
* buffer: two events in one workspace and one in another, two processes; two
  drains of one workspace overlap, and a restore meets an append.
* tree: three steps give parent, child and recovery of a recovery, and a write
  and a finish meet a rollback. Two rollbacks that overlap (`Rollbacks = {r1, r2}`,
  `Writes = {}`, 1.1 M states) and starts below a rolled-back branch
  (`Careful = {"update"}` without the last two properties, 0.67 M) show
  nothing new; the theorems cover them for the first four properties.
* lifecycle: with two updates and two transitions every order of a read and a
  write around a pin and an unpin occurs; a third of a kind repeats them. Requests
  of one kind and contents are symmetric.
* maintenance: runs share nothing but the handlers, so one run is enough; two
  handlers and three deliveries let a second worker overlap the first and a
  third come after both; two operations have an order.
* conflicts: two memories equal in all signals but recency tie unless an update
  falls between, so each rule below recency is a tie here; instances with three
  memories (4.7 M states), or with different trust (2.4 M), pass as well.
* retrieval: a protected state block that does not fit, a match, and a risky
  memory that only a cue leads to, with blocks of one token against a budget of
  five: shortening, dropping and the reserve all happen. Two changes let a memory
  move between select and hop and again between hop and gate. Two requests
  at once (of variant_2, with one change: 1.8 M states) share only counters and logs.
* requests and repository: `Init` picks one of a set of workloads (`MC...`): the
  requests that meet and the rows they find, so state spaces add up instead of
  multiplying. Requests of unrelated tables share nothing. Each table of the
  repository has a put against a put of the same row, of a row that takes its
  unique value, and against its list with every filter; appends come in threes
  because the second collision of an append needs two others.

The theorems of section 5 remove these bounds where they apply.

Fairness is assumed where the code's scheduling gives it, and only for the
properties that need it; the specifications of `MaintenanceRun` and of
`SqlRepository` state it, no other does:

* `RunSettles`: a request that was accepted goes on to enqueue or mark its run, a
  handler that has a run in hand goes on (its event loop runs until the
  coroutine returns), and the broker hands a waiting message to a free worker
  (at-least-once delivery). Nothing obliges anybody to ask for a run, or a fault,
  an expiry or a death to happen, and a run whose process died or could not
  reach a store is exempt (`abandoned`): nothing in the code closes it.
* `CallsReturn`: a transaction goes on unless the database fails. Row locks are
  granted in the end because their holders end.

Nothing in the code starts maintenance by itself: Celery beat is off by default
(`config.py:46`) and its message does not fit the task (`async_tasks/celery_app.py:34`,
`async_tasks/tasks.py:39`), so scans and refreshes come when an administrator asks
for them, or a writer for scans. What they bring about in the end is therefore
stated for those who keep asking, as the premise of the property and not as
fairness of the specification: `StaleConflictsClosed` and `LiveConflictReported`
if scans are completed again and again (`ScansRecur`), `SummarisedEventually` if
refreshes are (`RefreshesRecur`). Between two that are completed any number may
die, and no writer, reviewer or client is obliged to act.

Everywhere else requests are HTTP calls and task deliveries that a client, a
broker or a crash may stop anywhere, and the properties are safety. The type
invariants are proved (`TypeCorrect`, `ServerTypeCorrect`, and of the SQL repository
as part of `SqlInvariant`), so no run lists them.

## 4. What the code does that a reader would not expect

Each was seen on the models here with the constants or the property named, or
follows from the definitions. No run depends on them: the properties of section 3
say what holds beside them.

Extraction and tree:

* a fold that began before a rollback writes the representative back whole, and
  `update_memory` protects lifecycle fields but not `branch_status`, so the
  flipped memory is completed again (`memory_runtime.py:1114`; `fact_folding`'s
  writers with a rollback violate `FactIsolation`);
* write_event ends by writing its node copy, status included, and finish_step on
  a rolled-back step sets it to completed, although
  `src/docs/design/SECURITY_CONSISTENCY_HARDENING_PLAN.md:1546` has
  "State-tree transitions should never silently leave rolled_back nodes active"
  (`tree` with `Careful = {}` violates `RolledBackOffPath`);
* inline extraction has no second check, so an event extracted in `sync` mode
  beside a rollback stays completed in the branch;
* finish_step adds its working-state memory as completed after a rollback of the
  step returned (the memory `<<f, f>>` in `extraction_rollback`);
* two folds of one representative lose `source_event_ids` of the first;
* a step whose start_step had read the tree before a rollback is missed by the
  listing (`tree` with `Careful = {"update"}` violates `BranchRolledBack`).

Buffer:

* the detach call of a drain stands outside the `try`
  (`memory/redis_candidate_buffer.py:86`), so a lost reply leaves the list under a key
  that no index names, although `src/.ai/PITFALLS.md:92` has failed drains retried
  (`buffer_faults` with `ScopeOf <- ByWorkspace` and `Faults = {"detach_reply"}`
  violates `Retryable`);
* a drain over several workspaces that fails in a later one drops what it popped
  in an earlier one (`ScopeOf <- Mixed` with fault `"pop"` violates `Retryable`).

Lifecycle:

* a row's status is protected against copies read while `active` only
  (`runtime/repository.py:99`, against `src/.ai/PITFALLS.md:97`). A copy read while
  `conflicted`, `pinned` or `quarantined` undoes a later supersede, unpin or pin
  without an audit (`lifecycle` with one updater and one mover violates
  `OrdinaryUpdateKeepsStatus`);
* the resolver and `_supersede_keys` retire memories through update_memory, so
  such a change overwrites a pin made since the listing and leaves no audit;
* a stale copy of a pinned row can be written over a later pin, and its unpin
  then restores the older previous status; `PinRemembersStatus` claims only
  that the remembered status is one an unpin may restore.

Maintenance and tasks:

* a duplicate acquired after the dedupe key expired, or released, adopts the run
  whatever its status; its first attempt row violates the unique constraint, and a
  run all of whose operations completed reads failed, though
  `src/docs/design/MAINTENANCE_ADMIN_GOVERNANCE_PLAN.md:629` has it "`failed` only
  if at least one operation failed". For the same reason the dedupe key that a
  failed task gives back "for retry" (`src/.ai/PITFALLS.md:128`) buys no retry of
  the same message;
* the request whose enqueue raised although the broker took the message marks the
  run failed while, or after, a worker executes it;
* the Celery beat entry passes its envelope under another name than the task's
  parameter, and no task takes the scheduler lease.

Conflicts:

* every scan re-opens a record that a reviewer closed while its members still
  disagree, and a scan that listed before a reviewer's verdict overwrites it with
  "resolved";
* a tie written back late makes a memory conflicted that a reviewer had decided
  against; two folds at once can supersede each other's representative;
  choose_winner does not ask for the winner's status, and apply_suggested leaves
  out superseded members only. A crash between the updates and the insert
  (`memory_runtime.py:1113`) leaves values superseded by a memory that was never
  stored. `clean` exempts these from `SuccessionEnds`;
* a pinned or archived loser refuses a review request, and a retrieval, which
  renews `updated_at`, may turn the policy's verdict.

Retrieval:

* the notice counts what was dropped before the blocks were shortened for it;
  one notice per state node may be the raw one rather than the sanitised one;
  of several memories on project.runtime the last wins silently;
* nearest neighbours are cut at top_k before the lifecycle filter; a hop reads
  another snapshot than the selection; edges in the graph store are merged and
  never removed; logging is outside the time limit;
* the policy of variant_2 does not itself reject superseded, dormant or archived
  memories: the selection does (`RetiredStaysOut`); and a memory retired when a
  request began is shown if it is pinned before a later hop reads it;
* replay uses the rows as they are, so a replay during the logging of the
  request, or after a memory changed, reports drift.

Requests:

* a limit looked up under the principal, then the workspace, then by default can
  be the default although at no moment there was no override for the caller
  (`OverrideHolds` says what is left);
* two upserts at once can leave a mix of limit and window nobody asked for, and
  an upsert of a limit deleted meanwhile raises StaleDataError;
* the quota key lacks the length of the window; counters live in one process and
  are not expired; write_event/async is charged before the second unit is
  refused, and denied requests count;
* a caller over all workspaces who names none is not asked for a role; an admin
  change stands without audit if the audit cannot be written.

Summaries:

* build_run_summary takes the first project memory whatever its branch, although
  its comment (`memory/summarizer.py:127`) has only active-path memories inform
  the distillation; `FailureStaysOut` claims the rest;
* a memory whose branch a stale fold wrote back to completed, and whose node
  write_event put back, is distilled and folded again (`Escaped`);
* overlapping completions or refreshes leave two active summaries, though
  `memory_runtime.py:551` calls the operation idempotent (`calm` exempts them from
  `OneSummary`); completing a run again as failed leaves the procedure of its
  success active; summaries are superseded without superseded_by;
* a folded history that is cut may lose facts its log says are retained.

Repository:

* in memory an event's number is a counter, in SQL the maximum plus one, which
  differ once add_event is used (tests only); prefilter_candidate_ids and
  search_memories_by_vector select differently; these are left out;
* ties in a list's order come in any order; profile events are in order of
  insertion in memory and of creation in SQL;
* upserts of one row at once may mix columns, revocations at once may move
  revoked_at, and of two first enrolments of a member at once one is refused.
  `Repository` says so (`held`, `SchemaRefuses`);
* an append that repeats an identifier is tried three times in vain, where the
  class in memory replaces the event; gate logs and profile events that repeat one
  are refused, where the lists in memory keep both; steps, nodes and events of a
  run that is not there are refused, where memory takes them.

## 5. Proofs

For all values of the constants that meet the modules' named assumptions
(finite requests are assumed only where a cardinality is: `Bumpers`):

* `EventExtraction_proofs`: `TypeCorrect`, `RollbackIsolated`, `ExtractedByOne`,
  `NeverLost` (assuming `~MayFail`: a dying handler does lose what it drained),
  `FactsStay`. Invariant `IInv`:
  types with what a handler knows at each place (`Typed`); a rollback marks only
  its own branch (`LeftOK`); a step carrying a rollback's mark reads rolled_back
  (`OwnerMarked`), which makes the second check refuse it; rows waiting to be
  written back are facts or rolled-back rows (`PendingRows`); completed evidence
  of a listed branch is on the rollback's list or before its second check
  (`Flipping`). `RollbackIsolation` alone is not inductive: it says nothing until
  the rollback has returned. The other three share `Base`: a request extracts its
  own event or drains others' (`OwnEvent`, `Drained`), adds its row when `made`
  says so and once (`Fresh`), and folds or flips rows that exist (`Waiting`).
  `ExtractedByOne` adds that an event is in one buffer or with one handler
  (`Single`); `NeverLost` that only facts stand for other events (`Sourced`), so
  that a tool result taken for extracted is; `FactsStay` that facts are born at
  different times (`Births`) and one is superseded, or about to be, only if it has
  an elder (`Elders`), so that the eldest, of which the natural numbers
  guarantee one, is active.
* `Stores_proofs`, of the Redis buffer: `TypeCorrect`, `AlwaysDiscoverable` and
  `AlwaysExclusive` under every fault, and the refinement `ImplementsQueue` for
  clean failures and drains that name a workspace. The refinement needs that a
  candidate is in one place (`Once`), that fallbacks and queues are apart
  (`Apart`), and what a drain holds at each stage (`Stage`). What `CandidateQueue`
  promises carries over: `AcceptedIsKept` and `HandedOnce` are about the Redis
  buffer's own behaviours, by an invariant of the queue (`QueueKeeps`) and the
  refinement.

  Of the repository: `ActsAsInMemory`, that `SqlRepository` implements `Repository`,
  for any number of calls of any of its methods on any rows, any page size and any
  number of failures; and `SqlInvariant`. Every step of a transaction is shown to
  keep `SqlInv` and to be a step of `Repository` or a stutter (`Good`), one lemma
  per action: an answer is the call (`Put` for the flush of a merge, `Log` for an insert, and so
  on), a refusal one of the reasons of `Refusable` or `SchemaRefuses`, a read adds to what is `Noticed`, a lock
  nothing. `SqlInv` says what that needs: the rows stay unique by their identifier
  and indexes and refer to runs that are there (`TableOK`); a transaction between its
  read and its flush knows the row as it was, and the row is still there with what
  it was chosen by (`Known`, `There`), which is why the flush updates the row meant;
  under a lock the row is as it was read and the number taken is one more than
  there are (`LockOK`, `NumberOK`), and no two transactions hold one lock
  (`LocksDiffer`), which is why no number is given twice; and what was assumed of
  the calls still holds of those under way (`WorkOK`). That `Schema` and
  `Catalogue`, written down from two classes, fit table by table is a lemma
  (`Matches`).

  `WorkOK` is what the callers guarantee: rows have the columns of their table, and
  what is stored meets the schema's constraints (`TableOK`); a call names a table
  its method is for, limits and members are not put whole, and a listing of
  retention signals names one workspace, which the method's signature requires
  (`CallOK`); numbers of events and versions come from append_event and from
  updates alone and so have no gaps, since add_event and add_memory_version are
  called by tests only (`NumbersOK`); identifiers of audits, versions and
  enrolments are fresh UUIDs, two enrolments have different times, a written row
  keeps its identifying columns, and a memory that is updated is stored, or in no
  one else's hands (`IdentityOK`). TLC evaluates it on every workload of
  `repository`. Without gapless numbers the two repositories do differ (section 4).
* `StateTree_proofs`: `TypeCorrect`, `AlwaysRooted`, `RecoveryStaysOutside` for any
  clients (`Planned`: a planned node relies on a parent already there, and a
  recovery shares the parent of what it recovers), and `RolledBackStaysOff` for
  clients careful with updates (`CutInv`: before its first mark a rollback holds
  its target and, with each other node, its parent; so the target is marked first
  and nobody is left to undo it). For clients who also start nothing below a
  branch being rolled back, `RolledBackIsMarked`: with `RollInv` the branch is
  frozen from the listing on (`BranchFrozen`), and each of its rows is marked, or
  left to mark, or being marked. `StepAndNodeAgree` also assumes that no client
  finishes a step as `"active"`, which the API accepts; its `AgreeInv` says that
  a finish and a rollback are alone on a row (`Alone`) and that what they still
  have to write on the node is what they wrote on the step (`Honest`).
* `MemoryLifecycle_proofs`: `RowsStaySound` and its corollaries `AccessesCount` and
  `PinsRemember`, `ReactivatedByUnpin`, `PinsAreSpared`. `IInv` adds that a mover
  plans a legal change of the status it read (`Planned`), that every pinned copy
  remembers a restorable status (`CopiesRemember`), and that counted bumps have
  ended (`Counted`).
* `MaintenanceRun_proofs`: `TypeCorrect`, `ExecutedAtMostOnce`, `ExecutedInOrder`,
  `CompletedIsComplete`, for any number of runs, handlers, operations and
  deliveries and any faults, the dedupe key playing no part. `IInv` adds that a
  handler between `AddAttempt` and `RecordAttempt` owns its attempt row, which is
  running, and that the operation was not executed before (`Owned`); that what was
  executed has a row (`Counted`), so that whoever comes second meets the unique
  constraint; and that the operations before a handler's current one are settled,
  well unless it knows better (`Past`).
* `RetrieveContext_proofs`, for any memories, requests, budgets, hops and changes:
  `TypeCorrect`, `KeepsToBudget`, `ContextIsSafe`, `RetiredNeverShown`,
  `CountsWhatIsPacked`, `ForgetsNothing`, `ServedContextIsLogged` and
  `ReplayDecidesAlike`. `IInv` says that while blocks are placed the tokens leave
  room for what is reserved (`Budgeted`); that what a context shows was admitted
  by the gate as it was read (`Sound`); that one request packs at a time
  (`Alone`); and that what a request finds retrievable while it reads has been
  noted as fit for it, when it began or when somebody changed it (`Noticed`).
  `Accounted` follows the packer block by block: the tokens counted are the sum
  of the sizes of what is kept (`Counted`), a block is to place or placed once
  (`Placed`), and while room is made for notices they name every block dropped so
  far (`Telling`). `Logging` says at each place which rows of a request's log are
  written and that its accesses have been counted (`Recorded`, `BumpsCount`).
  `ReplayAgrees` speaks of returned requests; `Steady` follows a request whose
  memories do not change from its selection on: its candidates are those a replay
  has after as many hops (`Path`), whatever links others add to the graph
  meanwhile, for the edges of the rows are the same and merging is idempotent.
* `ConflictReview_proofs`: `TypeCorrect` and `SuccessorsEnd`, for any memories, values,
  signals, writers, scanners, cleaners and reviewers. `SuccessionEnds` is not
  inductive: in the middle of a decision of the write path a memory may lead to
  one that is not stored yet. What holds then is that the rows as they will be,
  once all that was resolved is written, lead to stored memories (`Outlook`); and
  of a deduplication or a review, that what the memories still to retire will
  lead to is stored and not to be retired itself (`Heirs`). That one decides at a
  time (`OneDecides`) is what `clean` gives. The verdict between values and the
  folds of the resolver are lemmas of their own (`Adjudicating`, `Folding`,
  `Resolving`); the winner is the first of a strict order on a finite set.
* `ApiServer_proofs`: `ServerKeepsGate`, `TypeCorrect`, `GrantsKept`,
  `CredentialsKept`, `LimitsKept`, `UpsertsKept`, for any requests, keys, limits,
  clocks and failures that meet `GateConstants` (the workloads are well formed:
  rows have their types, limits are unique, a route that takes a named workspace
  gets no target). Each step of `ApiServer` is one of `RequestGate` or leaves the
  gate's variables alone, so `Spec => GateSpec`, and the invariant is one of the
  gate. `IInv` says of each request, by where it stands, what it was let in
  with (`Admitted`: keys revoked before it came stay so, so the row it found live
  is none of them), what it was measured by (`Measured`: an override that a read
  did not find is missing at some moment in `since`) and what an upsert holds
  (`Upserting`: the row it read is there, or was deleted since); and that a
  counter is at least the number of requests that passed on it (`Counted`), which
  `QuotaHolds` alone does not say.

  Of the run: `RolledBackStaysOut`, `OneOfEachKind` and `ServerTypeCorrect`, for any
  steps, items, requests, and any overlap of rollbacks with summaries. `RollInv`
  says what a rollback that has returned, or is under way, has taken off the
  path, but for what a finish under way has put back (`TakenAway`, `Undoing`); with
  it `TellInv` says that what a summary is made of, from the read to the row, holds
  nothing of a branch that was off the path when it began, except an item of
  which both marks were undone (`Escaped`), and in a procedure project memory
  (`Telling`, `RefreshTelling`). For `OneSummary`, `FitInv` says that what a maker read still
  fits the rows it is about, and `Alone`, which holds while makers neither
  overlap nor die (`calm`), that one maker is at work, that every active memory
  of the kind it is retiring is on its list (`Listed`), and that the outcome is
  told by the active episode or about to be (`Told`, `ToTell`).

A set is assumed finite, or not empty, only where the code takes a cardinality,
a last or a first of it: `Bumpers`, the steps of a run, the memories of a key, the
values. What a fold over a set of tokens yields is proved, not assumed
(`TokensAddUp`, and `FoldOnSubset` beside it), by induction on cardinality: the library's
induction theorems take an operator, but a well-founded order on a set of
numbers or of finite sets has a least counterexample, which is first-order. No
module declares a recursive operator.

Only model-checked: liveness (`RunSettles`, `StaleConflictsClosed`,
`LiveConflictReported`, `SummarisedEventually`, `CallsReturn`), which is out of the
prover's reach together with ENABLED. Every safety property, action property and
refinement of a run is the statement of a theorem.

## 6. Not modelled, and what is left

Left out for good: float arithmetic of ranking, fusion and retention,
embeddings, query planning, string classification (secrets, redaction, key
ontology, raw payloads), provider and secondary-store adapters, rendering,
SDKs, the collectors, and the benchmark harness. Where their outcome matters it
is an arbitrary choice or a constant. SQLite, which ignores row locks, is not
modelled: transactions are atomic as on PostgreSQL. A connection lost at a
commit whose outcome nobody learns is not modelled. `lease.py` and
`principal_with_membership` have no caller. Of the admin routes those that look
their target up to find its workspace are left out of `Principals` and `RequestGate`
(get_maintenance_run and its attempts, set_memory_status, resolve_memory_conflict;
what the last two do to rows is in `MemoryLifecycle` and `ConflictReview`), and so
are the `include_admin` part of dashboard_tables and require_api_key without a
repository (`api/deps.py`). Access logs carry scores that replay compares: see
`RetrieveContext`.

Left for later: the dedupe key of memory.extract_event, composed with the `Deliver` step of `EventExtraction`; the
failed and stale marks of the secondary index.

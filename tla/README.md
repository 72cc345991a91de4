# A verification project for ConceptGraph

ConceptGraph turns uploaded PDFs into searchable passages (Qdrant) and a concept graph (Neo4j).
PostgreSQL holds the row of every document, its attempts, leases and jobs. No transaction spans
the three stores, processes are killed and redeployed at any moment, and a request that a store
accepted can take effect after its caller is gone. The modules here model how the back end keeps
the stores consistent all the same, how a PDF becomes passages and a graph, how a question is
answered from them while documents change, and what the dashboard shows of it. TLC checks them on
small instances. For every instance TLAPS proves the invariants of a document's life with fencing
on and off, of the graph projection, the continuation jobs, the admission of documents, provider
budgets and failover, the extraction of a graph, questions and the page, and that the two detailed
specifications of a document implement the abstract ones.

## 1. Inventory

| component | state | operations | interacts with |
|---|---|---|---|
| graph projection fence (`ingestion_service.py`) | `(:GraphProjectionFence)`, the upload's concepts, `(:GraphPublication)` markers | fenced replacement, abort of an attempt, tombstone | called under the upload's row lock by the document processor, the continuation job and the removal |
| upload row (`upload_service.py`, `document_upload.py`) | stage, task, attempt, lease, `result_json`, attempt history, graph checkpoints | create, claim, set stage, heartbeat, complete, fail, recover, retry, mark for deletion, delete | every other component; a row lock makes each transaction atomic |
| document processor (`document_processing_service.py`) | the step of an execution | parse, chunk, embed, extract, publish; failure and cancellation paths; heartbeat | upload row, Qdrant, Neo4j |
| coordinator (`processing_coordinator.py`) | queue, key set, workers, stop flag | submit, dispatch and recovery sweep, worker loop, stop; graph jobs in idle workers | upload row, document processor, continuation jobs |
| removal and retention (`ingest.py`, `demo_retention_service.py`) | the removal flag in `result_json` | request, remote steps, resume, row deletion | upload row, all stores |
| vector tombstones (`vector_cleanup_service.py`) | `vector_deletion_tombstones` | stage for every task, recurring sweep | Qdrant, upload row |
| upload endpoint and budgets (`ingest.py`, `resource_budget_service.py`) | reservations on rows, admission lock | admit, store, create; reserve chunks; retry | object storage, upload row, courses |
| object storage and courses (`storage_service.py`, `course_service.py`) | source PDFs, which documents may share; courses | put, delete; get or create, delete with the last document | upload endpoint, removal |
| graph continuation (`graph_continuation_service.py`, `graph_only_processor.py`, `graph_job_*.py`, `graph_publication_candidate.py`, `graph_retry_policy.py`) | jobs, snapshots, drafts, intents, receipts | stage, claim, heartbeat, defer, draft, publish, receipt, reconcile, prune | upload row, Neo4j, coordinator |
| shared provider budgets (`shared_provider_service.py`, `provider_budget_policy.py`) | `provider_budgets`: counts of the current minute and day | reserve, then send | batch extraction, answering, reranking, in every process |
| provider failover (`provider_failover.py`, `gemini_service.py`, `cerebras_service.py`) | circuit breaker of a process | choose a provider, request, repair, block, record success | batch extraction, answering |
| batch extraction and merging (`ingestion_service.py`, `graph_job_extraction.py`) | saved results (`graph_extraction_checkpoints`), failures in a row | sample, choose batches, extract, stop, recover relationships, merge | providers, document processor, graph jobs |
| parsing and chunking (`parser_service.py`) | pages recognised so far | read a page, recognise it, chunk | document processor |
| retrieval and answering (`query.py`, `rag_service.py`, `retrieval_candidates.py`, `rerank_service.py`, `citation_service.py`, `evidence_facets.py`, `synthesis_service.py`) | none between questions; reads four stores at four times | resolve the course, read graph, vectors and identifiers, fuse, rerank, choose sources, answer | upload row, Qdrant, Neo4j, providers |
| display reads (`upload_pagination.py`, `graph_display_service.py`) | the cursor that a client sends back | list a page, bound a graph | upload row, front end |
| front end (`Dashboard.tsx`, `api.ts`, `UploadModal.tsx`) | selection, answer, upload list, requests in flight | select, ask, upload, remove, refresh, poll, page | upload endpoints, answering |
| authentication, demo endpoint, presence, configuration, audits | none, or outside the processing core | pure computation or I/O | |

What is hard in it:

- Requests to Neo4j and Qdrant commit late, more than once, out of order, or unseen by the caller.
- A lease may run out under a live worker, because the heartbeat waits for the row lock that the
  worker's own remote call holds.
- Processes crash or stop between any two steps; other processes, or workers of the same process,
  take the document over.
- Removal has four steps in four stores, each of which may fail, and it must neither be undone
  nor forgotten.
- Claims, retries, sweeps and removals of different processes race for one row.
- A build of a graph stops early, and the next one starts from what was saved, under other
  failures; concepts of different answers share names and identifiers.
- A question reads rows, vectors and concepts at different times; the front end's requests are
  answered in any order.
- Every discovery, batch, list and graph is bounded: something behind the bound may wait for ever.

What makes the components correct, in short: the fence keeps the graph of the newest attempt; the
row admits one execution at a time; keys match work; a READY document has its own attempt's
vectors and graph; history agrees with the row; saved batches are not lost; a removal is final,
completes and leaves nothing behind; accepted work ends; a completed graph job is a published one,
and an unresolved intent keeps its evidence; budgets are not exceeded, a PDF is admitted to a
course once, and its source object stays as long as a document needs it; a provider is sent no more
than its budget, background work leaves the reserve alone, and waiting as told helps; a complete
graph is complete and what was extracted is kept; an answer cites READY executions that were asked
for; the page shows what was asked. `PROJECT.json` lists every hazard at its line.

## 2. Modules

| module | models |
|---|---|
| `ProjectionFence` | the fence node and the admission rule of `_fence_graph_projection`, as operators on one record |
| `GraphProjection` | one upload's projection under every fenced transaction ever started: an abstract PostgreSQL side (attempt counter and phase) and a store in which any started transaction commits at any time, any number of times |
| `GraphProjectionProofs` | theorems about `GraphProjection` |
| `UploadRow` | the upload row and each transaction of `UploadService` on it, as operators on one record |
| `DocumentLifecycle` | one document end to end: processes with queue, dispatcher and workers; `process_document` statement by statement; leases, crashes, shutdown; retries; removal; Qdrant and Neo4j with requests that outlive their callers. Extends `UploadRow` and `ProjectionFence` |
| `UploadJob` | the abstract specification of a document: what its owner is promised of attempts, results, saved batches, passages, concepts and removal. `DocumentLifecycle` implements it |
| `DocumentLifecycleProofs` | theorems about `DocumentLifecycle`: types, coordinators, row, history, checkpoints, what READY and removed documents have in the stores, and that it implements `UploadJob` |
| `GraphContinuation` | the job that finishes a READY document's graph later: claim, lease, draft, intent, publication, receipt, reconciliation, pruning, cleanup. Instantiates `GraphProjection` for the document's attempts and the store, and refines it |
| `GraphContinuationProofs` | theorems about `GraphContinuation`, among them that it implements `GraphProjection`, and what follows of PostgreSQL's account of the graph once the theorems of `GraphProjection` are carried over |
| `Admission` | the documents of an installation: upload, reservation, retry and removal under the admission lock, the budgets, courses and source objects |
| `Totals` | the sums that budgets are about, counted one by one (`func.sum` over rows) |
| `AdmissionProofs` | theorems about `Admission`, about `Totals` and about `GraphCapacity` |
| `ProviderBudget` | the requests to one provider from all processes: reservation under the advisory lock by the database's clock, refusal, retry delay, lost answers |
| `ProviderBudgetProofs` | theorems about `ProviderBudget` and, as a second part, `GraphExtraction` and `GraphBatches` |
| `LegacyProcessing` | one document with projection fencing off, the default: the same rows, remote writes without the row's lock. Extends `UploadRow` |
| `LegacyProcessingProofs` | theorems about `LegacyProcessing` and, as a second part, `Parsing` |
| `Retention` | the retention loop: four bounded sweeps over several documents |
| `GraphCapacity` | the capacity of snapshots and drafts under the advisory lock |
| `ProviderFailover` | the calls of a process on the route Groq, then a backup, and their circuit breaker |
| `ProviderFailoverProofs` | theorems about `ProviderFailover` |
| `GraphBatches` | operators: the sampling of sections, batches, the choice of the batches of a build |
| `GraphExtraction` | the builds of a document's graph by document processor and graph jobs: failures, stop rules, saved results, relationship recovery |
| `GraphMerge` | operators: refusal, normalisation, binding and merge of answers, and what is written of the merge |
| `Parsing`, `Chunking` | which text of a page is accepted; how lines become passages |
| `Query` | a question beside processing and removal: its reads of four stores |
| `QueryProofs` | theorems about what readers are shown: `Query`, `Dashboard`, `UploadPages` and `GraphReads` |
| `Ranking` | search, fusion, windows, scores and their order |
| `GraphReads`, `Evidence` | operators: the graph that is searched with and shown; the sources that are cited |
| `Dashboard`, `UploadPages` | the page's state with requests in flight; the upload list page by page |
| `MC...` | the instances TLC checks. `MCGraphMerge`, `MCChunking` and `MCEvidence` also have the reference definitions that the operators are compared with; `GraphBatches`, `GraphReads` and `Ranking` have their own |
| `MCStores`, `MCPipeline`, `MCCapacity`, `MCGraphJobs`, `MCExtraction`, `MCRemoval` | instances of several modules side by side (section 3) |

### GraphProjection

`attempt` is `attempt_count`, which also stands for the task id minted with it. `phase` is what
PostgreSQL authorises: an active row, an active row whose execution has begun to clean up
(`closing`), READY, FAILED, or marked for removal. `Send...` starts a Neo4j transaction under the
row lock; `Land` commits any transaction that was ever sent, again and again if TLC likes, which
covers `execute_write`'s retry after an ambiguous commit and every late or lost commit. A
transaction that the fence refuses raises and rolls back: no step. An attempt has one baseline,
because `replace_current` is called once in an execution and an execution that reached it has left
UPLOADED, so that recovery gives it a new attempt. `ClaimAgain` is the exception that
`claim_for_processing` makes for a row still UPLOADED.

### DocumentLifecycle

A row-locked step of the processor is one action: `_with_current_attempt` holds the lock from the
check until the remote call has returned or has been drained (`run_async_safely`). What the lock
cannot hold is an accepted request whose caller died or saw an error: `MayOutlive` puts it into
`late`, and `LateLands` applies it at any later time. Neo4j checks the fence when it applies it.

- *Instances* are process incarnations; `instance_id` is a fresh uuid, so one that went down does
  not return. A crash or a stop needs another instance up: deployment restarts the service, and
  with no process at all nothing happens anyway.
- The failure path aborts the graph first and sends the deletion of the attempt's vectors only when
  the abort has committed (`document_processing_service.py:340`). A process that is killed there has
  got as far as `CleanUp` allows, so `Crash` has that as its second case.
- The upload request is `Init`; `submit` after it does what `Dispatch` does.
- The `superseded` event of the heartbeat loop is left out: wherever it is read, the next
  statement takes the row lock and tests the same condition.
- A process has at most one retry request between its commit and its `submit`.
- One removal is at work at a time: it holds the row's lock and the admission lock. The short
  hand-off after the flag is committed is a `RemovalFails` followed by another `RequestRemoval`.
- Object storage is a removal step that may fail. Parsing, chunk counts, messages, metrics and
  wording are left out; the outcome of the extraction (graph status, whether a rebuild may be
  tried) is chosen freely.
- Fencing is on (`graph_projection_fencing_enabled`); `LegacyProcessing` has it off.
- The fence's course comparison is left out: the course of an upload never changes.

`Promise` maps this state to that of `UploadJob`. The outcome of an attempt is what the history
says of it; whether the newest one failed for good (`rejected`) is read off `retryable`, and whether
it is `complete` off the graph status. Passages and concepts are what a reader can find: the
vectors and the graph while the row is READY and not flagged for removal, and else nothing. The
checkpoints are the saved batches. So the mapping hides processes, queues, leases, the order of
the stores and late requests; `PromiseKept` says that none of them shows, but for one: the late
abort of section 4 is the step `LoseConcepts`.

### GraphContinuation

The document side is coarse here, because `DocumentLifecycle` has it in detail: `attempt` and
`phase` are those of `GraphProjection`, `result` is what a READY row says of its graph and of a
rebuild. `job`, `draft`, `intents`, `receipts` and `cleanups` are the five tables. A job is named
by the attempt it was staged for (`document_task_id`), its claim token by the number of the claim
(`attempt_count` grows with every claim and is never reset). `worker[w]` is the step that a worker
has reached in `GraphOnlyProcessor.process`, with the claim it holds; between two steps anything
may happen to the row, the job and the lease.

- `_locked_claim` is `Holds`, tested in every transaction. `Publish` and `Complete` are the two
  ends of one transaction that keeps the document's row locked (`RowFree`) around the remote
  write; a lease may run out inside it, and `Complete` tests it once more.
- `GiveUp` is every way a worker may stop: an exception, a refusal, cancellation, the end of its
  process. What it had sent stays in `sent` and may commit later.
- Snapshot and contract are compared at every step: `Intact`. A release with other batch settings
  is `Reconfigure`. Capacity limits are a free choice (no job staged, `GiveUp`) and
  `GraphCapacity`'s subject.
- Passing of the retention period and a reconfiguration happen only while a job could notice.
- Left out: section checkpoints that a job saves (`GraphExtraction` has them), and `schedule` and
  `cleanup_graph_publication`, which nothing calls. `reconcile_deleted_source_publication` is called, by the retention loop
  (`demo_retention_service.py:150`), although its docstring says it has no scheduler caller.

### Admission

The lock is a PostgreSQL advisory lock of the transaction, so nobody else's critical section runs
between `Upload` and `Create`, `UploadStops`, or between `BeginRemoval` and `RemoveRow`,
`RemovalStops`: `Unlocked` is read off `request` and `removal`. The object is written and deleted
while the lock is held; these are steps of their own because the caller may die in between. Steps
that only change one row under the lock are one action.

- A *content* is a PDF in a course (`course.id`, `content_hash`), which is also what the object's
  key is made of. Bytes are budgeted exactly as pages are and are left out.
- Rows have four statuses that admission tells apart: `queued` and `indexing` (active, before and
  after `reserve_chunks`), `ready`, `failed`. Processing itself is `DocumentLifecycle`'s.
- `again` is what `can_reprocess` finds but for the removal flag; it is chosen freely.
- `Init` has READY rows of unknown size, also two of one PDF: the code counts and serves rows from
  before the reservations (`resource_budget_service.py:47`). References from before object
  storage (`storage_service.py:122`) are not modelled.
- A request that storage accepted from a caller who died or gave up is put into `late` and lands
  at any time. `struck` and `stray` are history: the contents that a late deletion removed, and
  those stored for an upload that did not finish. A comment at `ingest.py:139` says that such
  objects are left for a later reconciliation.

### ProviderBudget

One provider in one scope, with shared budgets on. A caller asks, gets the advisory lock and only
then reads `clock_timestamp()` (`Lock`), and commits or rolls back (`Grant`, `Deny`); the lock ends
with its transaction, so that `deciding` is having it. `Stop` is a lost connection, a cancellation
or the end of a process, with or without its reservation committed; `Send` is the vendor call.

- The clock is the number of the minute and that of the day, and a new day starts with a new
  minute. How many minutes a day has is left out. A retry delay is the window that the caller is
  told to wait for: `max` over the delays is the day if a day is full. In the last minute of a day
  both delays are the same and so is the caller's wait.
- A missing row is a row of an old window: it is inserted in the transaction that counts in it.
- `Limit` 0 means no limit, which the code allows for tokens only (`config.py:83`); an estimate is
  any number, by caller.
- `spent` is history, what was granted in each window by class; `told` what a refused caller was
  told, kept until anybody is granted anything.

### LegacyProcessing

The default of `config.py:240`. Between the locked statements (`Locking`: stages, reservation,
completion) the remote ones are sent without a lock, so `Write` has no guard but the step; a
worker learns at the next locked statement, or from the heartbeat's event, that it was superseded.
Point ids are the chunks' and do not contain the task, so `upsert_chunks` replaces; a deletion
names the upload only. Concepts and relationships are transactions of their own.

- The coordinator is left to `DocumentLifecycle`: a worker that is free claims what it finds.
- A remote statement takes effect before the next one of its execution or never; one that is
  applied after its sender died is `DocumentLifecycle`'s subject, and a cancelled one is drained
  by `run_blocking_safely`.
- `faults` counts executions that lose the row while they are alive: the process stalls for longer
  than the lease, or a retry's source check fails a task that was claimed meanwhile.
  `StoresMatchRow` is about runs without one; what a stalled execution can do is in section 4.

### Retention

One process's loop (`_cleanup_loop`), round by round: pending removals, expired documents,
graph intents of documents that are gone, vector tombstones. Each sweep discovers at most `Limit`
items and each item may fail; users retry and remove documents, a late upsert brings back vectors,
the process restarts. Documents in `Broken` fail for ever: fewer than `Limit`, because as many
permanently failing rows as one discovery takes (50 removals, 100 expired documents, 50 intents)
would keep later ones waiting, which `docs/DELETION_RECOVERY.md` says of the removals; vector
tombstones rotate. The interval is assumed to be at least `RECHECK_SECONDS`. An unresolvable
sample course stops only the expiry sweep and is left out.

### GraphCapacity

The advisory lock, what is measured under it and what is added: two kinds of transaction from two
call paths (staging with READY, saving a draft), beside prunes, rebuilds and removals, which take
bodies away without it. Each transaction keeps its document's row locked.

### ProviderFailover

`LLM_PROVIDER=groq`, whose route is Groq and one backup; with one provider only the breaker is not
asked. A call is asking a provider, repairing an answer, or idle. It is let through by the breaker,
reserves its budget, and sends its request (`Send`): `observe_provider_call` awaits the reservation
and a thread between `is_available` and the vendor's client, and asks the breaker no more, so that
other calls may open the circuit meanwhile (`Reserving`). A refusal of the budget, or of its storage,
comes before the request, everything else after it. From an answer to the next question to the
breaker the code does not await: that is one step. Time is in half seconds, so that the half second
that `status()` rounds away is one unit. `failing`, `told` and `overtaken` are history: `told` is the
time that each provider last asked to wait for, `overtaken` are the calls that were let through and
had not sent their request when it asked. `CooldownIsKept` says that those are the only first
requests that a provider is sent before that time.

Reading the code for it: an outage of the budget's database blocks the vendor's circuit, since any
exception of a request does; an invalid answer blocks Groq and Gemini for graph extraction too;
with all circuits open the caller is told "unavailable", and the time to wait is lost; a truncated
answer is accepted as it is; `Retry-After` of a 503 of Gemini or Cerebras is not read.

### GraphBatches, GraphExtraction, GraphMerge

`GraphBatches` is arithmetic with Python's `round`. A batch is its place in the document from
there on. In `GraphExtraction` a build (`Begin`) loads the saved rows, chooses at most
`MaxBatches` of the rest, sends them one after the other (`Succeed`, `Fail`, `Skip` and what stops
it), then tries the recovery of relationships and publishes; it may be killed between any two
requests or superseded, and what it had saved stays. The document processor's
builds and the graph jobs' differ in what they do with an unfinished one. Two batches whose answers
are never valid starve those between them when `MaxBatches` is 2, and a request that the vendor
refuses stops each build at the same place; `EveryBatchSettles` therefore has one such batch. That
batch may fail in any way: when its invalid answer is followed by a backup that is out of quota, the
build ends there, and if every build does, the batches after it are never asked for. The property
states this as its one exception (`HeldUpBefore`): a build reaches a batch with no valid answer again
and again and, from some time on, none gets past it. Whether the backup recovers is not the
program's to say, so no fairness is assumed for it. A rebuild that meets a quota skips the recovery
pass.

`GraphMerge` has an answer as tuples of concepts and relationships over names that normalise
alike; identifiers are sequences that grow with each suffix the code adds. Of two concepts of one
name the first is kept: if that one cites an unknown passage, the concept is lost although the
other was cited.

### Parsing, Chunking

A page is the class of its text layer, of its images, and of what recognition gives: the
thresholds over characters are choices among classes. Optional recognition of mixed pages spends
the same budget as the recognition that a page needs. In `Chunking` a line is its text, its place,
whether it scores as a heading, and a number of words; words are known by where they are, so that
"indexed once, under its heading" can be said. A heading without a body is not indexed.

### Query, Ranking, GraphReads, Evidence

`Query` gives each of a question's reads its own time: rows, graph, vectors, identifiers, while
two documents (perhaps of one content) are rebuilt, fail and are removed. A passage is a document
and the attempt that wrote it. Fencing is on there. A course of one document that is asked during
its rebuild answers 409. The course list is an operator on the same rows: it picks the row that
stands for a content by status and by last update, a question by creation; `updated` is any order.
They may pick different rows of one content, of which only the number is compared.

`Ranking` starts from the nearest points and those with an identifier of the question, fuses them,
makes windows, and lets the reranker answer completely, incompletely or inconsistently, in any
order. An excerpt is a number of sentences where the code counts characters
(`ENGINEERING_HANDBOOK.md:192` says 1,600, the code 900). Each side of a comparison is a request
with a reservation of its own, so that the second one's denial fails the question.

`GraphReads` and `Evidence` are operators checked against definitions by distance and by "some
choice of sources". Prompts, exams and wording are left out.

### Dashboard, UploadPages

One variable per piece of React state that the handlers share, and `flight`: requests that the
server reads, and answers or fails, in any order. `current` says whether the version that a
handler compares is still the newest. The page's buttons are its guards and no others: the lists may
be read again while a reading is out (`Refresh`), the interval polls although its last poll is not
answered (each request has a number, `Free`), retries of several rows overlap, one of them perhaps of
a READY row with a partial graph. Questions wait for each other, and so do removals (the dialog is
modal), and a page is turned only when none is being read, as the buttons say. `Elsewhere` is what
other reviewers and the retention loop do to the documents. `UploadPages` has the server's cursor pages and a reviewer
who walks through them, while rows are uploaded, retried and removed by anybody, shown or not;
`walk` is history: what was listed all the while, and what was shown.
A question in flight whose document is removed is still answered and shown.

## 3. Runs

A run asks one question of the system, often of several modules at once: what the stores keep and
show, what the pipeline computes, what ends. Where these modules share no step, the MC module puts
them side by side: it EXTENDS one, INSTANCEs the others with their own variables and constants,
and a variable `part` that never changes says which of them moves; the variables of the others
keep their first values. The reachable states are the disjoint union of the parts', and a property
of a part says of it what it says in the part's own module. Fairness in `MCRemoval`,
`MCExtraction` and `MCGraphJobs` is that of the module, for the behaviours of its part.

Every configuration says `CHECK_DEADLOCK FALSE`: a system whose document is READY or removed and
whose bounds are used up may stop.

| run | instance | what it shows |
|---|---|---|
| `stores` (`MCStores`) | `GraphProjection`: 3 attempts, 2 digests, unbounded repetition of commits | what a READY upload shows, and that its publication stays |
| | `Query`: 2 documents, 2 contents, 2 attempts | a question cites one READY execution per document and content, and its prompt names concepts of no other document; the course list counts as READY what a question is answered from (`CountsWhatIsAsked`) |
| | `Dashboard`: 2 courses, 2 changes, 2 requests in flight | the answer on the page is about the selected course, whatever overlaps |
| | `UploadPages`: 4 rows (from two initial lists), pages of 1, 2 changes, 2 requests in flight | a walk passes no row by that was listed throughout |
| `late_requests` | `DocumentLifecycle`: 2 processes, 1 worker each, 2 attempts, 1 batch, 1 late request of every kind but `delete_all`, 1 fault | what READY and removed documents show, and history |
| `coordinator` | 2 workers in one process and 1 in the other, queues of 2, 1 batch, 1 fault | one execution, exact keys |
| `progress` | 2 processes, 2 attempts, crashes and stops, 1 late upsert, fairness | accepted work ends in READY or FAILED |
| `removal` (`MCRemoval`) | `DocumentLifecycle`: 1 process, 1 batch, 1 late upsert, 1 fault, fairness | removals complete, late vectors are swept for good; every step is one of `UploadJob` or none |
| | `Retention`: 3 documents, one of which can never be cleaned up, sweeps of 2, 2 events, fairness | every other removal, expiry, intent and late vector is dealt with |
| `continuation` (`MCCapacity`) | `GraphContinuation`: 2 workers, 2 drafts, 3 attempts of which the document uses at most 2 | intent, receipt, result and evidence agree with the store; every step is one of `GraphProjection` |
| | `GraphCapacity`: 2 processes, 2 documents, bodies of 1 or 2 bytes | limits of jobs, drafts and bytes |
| `graph_jobs` (`MCGraphJobs`) | `GraphContinuation`: 1 worker, 1 draft, the same attempts, fairness | jobs end, publications are acknowledged, intents of removed documents are cleaned up |
| | `ProviderFailover`: 2 calls, Groq and Gemini, 4 moments, waits of 2 and 4 | what opens a circuit; a cooldown is not shortened by a failure, and only calls let through before it send into it |
| `admission` | 4 documents of which 2 legacy, 2 upload requests, 2 PDFs of one course with 1 and 2 pages, limits as below | budgets, duplicates, shared objects |
| `extraction` (`MCExtraction`) | `ProviderBudget`: 1 background and 2 interactive callers, 3 minutes and up to 3 days, limits as below | limits, the reserve, retry delays |
| | `GraphExtraction`: 4 batches in 3 sections, 2 to a build, 1 killed build | GRAPH_READY means complete, what was extracted is kept |
| | `GraphExtraction`: the same, 1 batch always malformed, fairness | every other batch is saved in the end, or each build ends at the malformed one before it |
| `pipeline` (`MCPipeline`) | `LegacyProcessing`: 3 processes, limits 2 and 2, 1 fault | the stores match the row as long as no live execution lost it |
| | `Parsing`: 3 pages of every kind, 2 may be recognised | accepted text, failure, warnings |
| | `Chunking`: every document of up to 2 pages of up to 3 lines | every visible word under its heading |
| | `GraphBatches`: every document of up to 8 passages in 3 sections, 3 samples, batches of 2, limits up to 4 | a section's beginning, middle and end are sampled; a limited build covers the sections |
| | `GraphMerge`: every sequence of 3 answers of up to 2 concepts (and some over the limit) | saved rows are readable and publishable, the written graph is their union |
| | `GraphReads`: every graph of up to 4 edges between 5 concepts | expansion by distance, and bounds |
| | `Evidence`: up to 3 passages of 1 or 2 windows, 2 sources | answered exactly when some choice covers the question |
| | `Ranking`: 4 points, 3 questions, searches of 2, scores 0 and 1 | fusion and ranking lose and swap nothing |
| `late_delete`, `late_abort` | as `late_requests`, with a late unscoped deletion or abort only | the findings of section 4 |

Bounds and why they suffice:

- Attempts: the fence compares generations only for older, same, newer; three give a write that
  is older than an old one. In `DocumentLifecycle` two give an old and a current attempt. The
  configurations give `MAX_PROCESSING_ATTEMPTS` and `MAX_GRAPH_PROCESSING_ATTEMPTS` the same value;
  the theorems of section 5 are for any two of which the second is not the smaller.
- `MaxLate = 1`: two late requests matter for the graph, where
  `GraphProjection` has any number of them; vectors are keyed by task, so late requests on them
  do not interact.
- `MaxFaults = 1` bounds leases lost by a live owner, claimed reads that raise, and failures
  that PostgreSQL did not record. Unbounded, a document could lose its lease before each first
  stage for ever, which the code does not prevent (a claim of an UPLOADED row counts no attempt);
  `WorkSettles` is therefore relative to finitely many such faults. Crashes and stops are bounded
  by the number of processes.
- `Batches` of `DocumentLifecycle` is 1 where checkpoints matter (`removal`, for `PromiseKept`), in
  `late_requests` and in `coordinator`, else 0.
- `removal` has no late abort, so the step `LoseConcepts` of `UploadJob` is not met there; the proof
  covers it, for any late requests but `delete_all`.
- `QueueCapacity` is 2 in `coordinator`, where a stale task waits beside its successor, and else
  1: the full queue is the interesting case.

- `DocumentAttempts = 2` of `MaxAttempts = 3` in `GraphContinuation`: the job of attempt 1 has two
  tries, that of attempt 2 one, so a resumed job, an exhausted job and a job replaced by its
  successor all occur. Two drafts let two workers extract different graphs for one job.

- `admission`: 2 documents, 3 pages, 5 chunks and 1 pending document in all; a document may have 2
  pages and 3 chunks. Two legacy rows (4 pages) are beyond the budget, one fills most of it, and
  the two PDFs fit together only without one, so that every budget refuses something and each is
  met exactly. Two legacy rows of one PDF are the shared object; the third and fourth name are for
  an upload beside them and its successor.

- `ProviderBudget`: 3 requests and 4 tokens a minute, of which 1 and 1 are reserved, 4 requests a day,
  of which 1, and no limit of tokens a day. A background request costs 2 tokens, an interactive
  one 1: each limit is met by another sequence of requests, and a day fills up across minutes.
  `LastWindow = 2` lets a window be current, old and older while a caller waits for the lock.

- `LegacyProcessing`: three processes, so that two may go down one after the other.
- `GraphExtraction`: the middle section has two batches and a build takes two of four, so that a
  build covers sections, leaves some and comes back; one killed build may meet its successor.
- The other parts of `pipeline`: every input up to a size at which each branch of the operators is taken on both sides of its limits.
- `Retention`: a discovery of two holds the document that always fails and one more.
- `GraphCapacity`: two documents and three bytes, so that two bodies may be one byte too many.
- `Dashboard`, `UploadPages`: two requests in flight are the smallest number that overtake each other, and two changes
  let a document change between them and back.

Symmetry: the workers of a process in `coordinator`, processes in `late_requests` and the two
violations, workers and drafts in `continuation` (processes and documents of
its `GraphCapacity` part), requests, legacy and other documents in
`admission`. In `stores` one pair of values is exchanged in every part: it names two digests,
two contents or two courses; in `pipeline` the three processes. None in the runs with liveness
properties.

Fairness (`FairSpec`): the dispatcher sweep and the retention loop are timers that each process
runs for ever; an asyncio task that can run is run; the clock makes an orphaned lease expire.
`Claim` is strongly fair because a try finds the row locked (`skip_locked`) only now and then, and
`Claim \/ ClaimRefused` weakly fair because a worker pops whatever waits: a stale task that fills
the queue would otherwise stop the recovery sweep. The steps of a removal are strongly fair: the
stores do not fail the same step for ever. Starting a removal, retrying a document, crashes,
faults and late requests have no fairness.

In `GraphContinuation` idle workers poll for due jobs (the queue of documents is assumed to be
empty now and then: a worker takes a graph job only after its queue was idle for one interval), a
worker that can go on does, the provider's deadline and an orphaned lease pass, and the maintenance
and retention loops come round. A remote commit, a removal or a next attempt has no fairness: a
publication may never commit, and then the job is stopped without it. `PublicationRecorded`
exempts a document that was retried, removed or outlived its retention, and a changed
configuration: `claim_next` then stops the job as `incompatible_snapshot`, which no
reconciliation looks at.

`extraction` assumes that builds go on being asked for, that a build at work goes on, and that a batch whose answers can be valid does not fail in every build that sends it (strong
fairness; of the malformed batch, and of the backup it is sent to, nothing is assumed), and `removal` assumes that the
retention loop and a removal at work go on (transient failures are bounded by `MaxEvents`, those of
`Broken` are not) and that an active document settles.

## 4. Findings

1. `late_delete`: the first remote write of an attempt deletes vectors *by upload id*. Accepted
   from a killed worker and applied after the next attempt became READY, it removes that
   attempt's points. `docs/IMPLEMENTATION_PROGRESS.md:118` says that "Namespaced IDs and READY
   task filtering protect newer evidence/search". The run needs a kill between Qdrant's
   acceptance of the deletion and its application, which the document says it allows for.
2. `late_abort`: the comment at `upload_service.py:322` says "Fresh UPLOADED rows have not started
   yet and keep their original attempt". An execution can start, fail before its first
   `set_stage`, send its abort and die while the row is UPLOADED. The next execution runs under
   the *same* attempt, so the fence cannot tell the old abort from its own: the graph of a READY
   document is emptied. `ReadyGraphCurrent` and `ReadyShowsItsAttempt` hold with this exception
   stated.

Reading the code for the models showed more places where it does something else than a document or
a comment says. The models have the behaviour, and no run is spent on it:

- With fencing off, the default, a remote write follows a check of the row but does not hold it. An
  execution that stalls before its first cleanup loses its lease, another one of the same task
  completes, and the cleanup then removes its vectors. `README.md:148` says "task-token fencing,
  restart recovery, retries, and idempotent cleanup protect against lost or stale work".
- A build orders the saved batches before its own; `recovery_checkpoint_batch` takes them in
  document order and says that it "uses the same order": the recovery row of a second build cannot
  be reconstructed (`LinkRefused`).
- `ENGINEERING_HANDBOOK.md:135` says that requests bypass a cooling provider. The repair of an
  answer does not ask the breaker, and a call that was let through before the provider asked to wait
  still sends its request when its budget is granted. `CooldownIsKept` names the second exception and
  is about first requests because of the other.
- A batch whose answers are invalid and whose backup is out of quota ends every build where it is
  (`ingestion_service.py:252`, `:540`): the batches after it wait for the backup. `EveryBatchSettles`
  has this exception.
- A success of a request that was sent before the provider asked to wait ends that wait;
  `tests/test_provider_quota.py:120` says a cooldown cannot be shortened. `CooldownIsKept` is about
  failures.
- `ENGINEERING_HANDBOOK.md:174` says active uploads cannot contribute to an answer. Concepts are read
  by document id, after the rows: those of a rebuild at work reach the prompt.
- `ENGINEERING_HANDBOOK.md:123` says that pages without reliable text contribute nothing. A corrupt
  text layer whose recognition is rejected is indexed, with a warning.
- `ENGINEERING_HANDBOOK.md:121` speaks of repeated text in page margins. A line in the middle of a
  page that reads like one is dropped, too.
- `Dashboard.tsx:545` says a new upload is selected when it becomes READY. If a refresh of the list
  shows that first, no poll sees the change and it never is.
- `ENGINEERING_HANDBOOK.md:262` says that an upload resets the paging. If the refresh after it fails,
  the rows of the later page stay under the number of the first.

## 5. Proofs

`GraphProjectionProofs` proves, for every `MaxAttempts` in `Nat \ {0}` and every set of digests
(assumptions: `MaxAttemptsAssumption`, `NoDigestAssumption`, `NoTaskAssumption`), that the
specification keeps the type invariant, the two properties of it that the `stores` run checks, and
three more: markers name what is stored, an aborted or deleted fence is empty, the fence advances.

The properties are not inductive: that a READY upload shows its own attempt depends on what the
store has seen. `IInv` adds

- `SentInv`: a started transaction names an attempt no newer than the counter, and its own task;
- `FenceInv`: every committed transaction is at most as new as the fence, a committed publication
  of the fence's generation is its payload, and publications are sent only once the fence has
  reached their generation;
- `StoreInv`: concepts and markers are what the fence says was written last;
- `ReadyInv`: READY has a committed baseline of its attempt.

`AdvanceType` and `CloseType` state what an admitted write does to a fence. `InitIInv` and one
lemma for each group of steps (row, send, commit, tombstone) give `Invariance`; each property
follows from `IInv`, and `FenceAdvances` from `IInv` and the commit steps.

`GraphContinuationProofs` proves the safety properties of the `continuation` run, that every
publication is one an intent names, and that a stopped job stays stopped, for any number of
workers, any sets of baselines and drafts, every `MaxAttempts` in `Nat \ {0}` and every
`DocumentAttempts` up to it (assumptions: `MaxAttemptsAssumption`, `DocumentAttemptsAssumption`,
`NoTaskAssumption`, and `DisjointAssumption`: a draft's hash is never a baseline's). `TypeOK` is
already more than types there: it bounds the tries of a job by what the document left over. A
receipt is true because a marker was read, the marker because the store applies only what was
sent, what was sent because an intent came first and is never changed. `IInv` has one part for
each link of that chain:

- `ReachedInv`: a job and an intent belong to an attempt that became READY;
- `AnnouncedInv`: a publication in flight is the one its attempt's intent names;
- `MarkerInv`: a marker was left by a committed publication;
- `ReceiptInv`, `CompletedInv`: a receipt names a committed publication, a completed job has one;
- `EvidenceKept`, which is inductive together with these and says that the draft an unresolved
  intent was copied from is still there, so that a second worker cannot announce another one.

`ImplementsProjection` needs `IInv` at one step: `Publish` is a step of `GraphProjection` only if
an attempt has no second publication, which is `AnnouncedInv` with the immutable intent. With it,
the second part of `GraphContinuationProofs` takes over the invariant of `GraphProjection` (`StoreInvariance`) and
adds what ties the row to the store: an attempt has one baseline (`BaselineInv`), the fence's
payload was sent and without one the concepts are the baseline's (`PayloadInv`), and the row
counts the baseline until the receipt and the publication from then on (`ResultInv`).
`ResultIsTrue` then compares the row's digest with the concepts, by cases on the fence's payload.

`AdmissionProofs` proves the properties of the `admission` run, type correctness and that a
course exists as long as it has documents, for any sets of documents, requests, contents and
courses, finitely many rows from before the reservations and all positive limits (assumptions:
`ContentsAssumption`, `DocumentsAssumption`, `LimitsAssumption`). `IInv` adds to them

- `ExclusiveInv`: one request or removal at most is at work, which is the admission lock;
- `UploadInv`: a content being stored has no row yet, and its object once it is stored, unless a
  late deletion removed it;
- `RemovalInv`: the document being removed is flagged, and once its source is dealt with, the
  object is gone unless another row has it or a late write brought it back.

Each of the two is true only while the lock excludes the other. `GrowthIsBudgeted` is the action
property `BudgetsKept`: it is checked when the lock is taken and it must hold when the row is
committed, some steps later. `BudgetInv` bridges them: while an upload is at work, what fitted
beside the documents still fits beside them, for whatever changes meanwhile only becomes smaller.
Sums are where such a proof usually needs an induction at each use. `Totals` therefore counts pairs
of a document and one of its pages: a smaller document is a subset (`TotalMonotone`), an added one
a disjoint union (`TotalOfOne`), and the library's facts about finite sets do the rest.

A second part of the module proves `CapacityKept` of `GraphCapacity` for any finite number of
documents, any processes, sizes and limits (assumption: `CapacityAssumption`). `CapacityInv` has the
exclusion of the advisory lock (`LockInv`) and `RoomInv`: what the lock's holder measured has room
for what it is about to write, though bodies may go while it holds the lock. Both this part and
those on the dashboard and its pages bring their component in as a named `INSTANCE`, because two
components cannot be extended at once; the prover has the operators of `FiniteSets` once for each,
and the lemmas `SameCounts`, `SameInPages` say that they count alike.

`ProviderBudgetProofs` proves type correctness and the three properties of it that the `extraction` run
checks, for any callers and any costs, limits and reserves that the settings' validation admits (assumptions:
`CallersAssumption`, `LimitAssumption`, `LastWindowAssumption`). `IInv` says of
the row that it is no newer than what its owner read, and that no newer than the clock
(`ClockInv`); that it counts what was granted in its windows, with nothing granted later
(`RowInv`); and that background work stays out of the reserve in every window (`ReserveInv`). `WaitInv` is what makes a retry succeed: since the refusal the row has not
moved beyond the window the caller was told, and the other period had room or is over, too, by then;
`DayInv` (a new day is a new minute) keeps it.

`DocumentLifecycleProofs` proves the properties that `late_requests` and `coordinator` check of `DocumentLifecycle`, for any processes, any workers and
any assignment of workers to them, and every limit, queue, number of batches, late requests and
faults (assumptions: `AttemptLimitsAssumption`, `HomeAssumption`, `OwnerAssumption`,
`BoundsAssumption`). None of the properties is inductive. Four invariants build on each other:

- `ExclusiveInv`: types, and for each process that its key set is what waits in its queue and what
  its workers hold, without repetition, each task in one place only. One execution
  (`OneExecution`) follows: two of one process would need one task in two places, two of different
  processes two owners of one row.
- `RecordInv`: history and row agree; while a removal is at work or done the row is not active and
  each attempt there was has a tombstone; a worker about to clear checkpoints has completed a
  GRAPH_READY document. `CheckpointsKept` is read off the steps from it.
- `FenceInv`: the stores, the fence and every request in flight know of no attempt that the row has
  not reached, a late tombstone means a removal that was asked for, and the fence is shut before
  the object and the row go. `RemovedStaysGone` follows with the tombstones of `RecordInv`.
- `AttemptInv`: a current execution past its upsert has its attempt's vectors, past its
  publication its graph, and READY keeps both, for no request in flight can take them away: an
  older one is refused by the fence or names other vectors, and a late deletion of the current
  attempt's vectors was sent after its abort had committed. To know that last fact for certain was
  what led back to the code: an earlier `InFlight` let a crash send the deletion without the abort.

`ReadyGraphIsShown` needs no further assumption. `ReadyIsShown` assumes that no `delete_all` comes
late (`"delete_all" \notin LateKinds`): the run `late_delete` shows that the vectors' half is false
without it. `NoLateWipe` guards those parts of `AttemptInv` that need it, so that one invariance
proof serves both theorems.

The last part proves `PromiseKept`, that all this implements `UploadJob`, under the same assumption
on `delete_all`. Each action is shown to be one abstract step or a stutter, from the invariants before
and after the step: the steps of an execution by its transactions on the row (`CompleteRefines`,
`FailRefines`, `StageRefines`, `SaveRefines`, `AgainRefines`), then removals, retries and late
requests. `AttemptInv` is what lets `Succeed` find the attempt's own passages and concepts, and what
leaves a late request (`LateRefines`) nothing to change of a READY document. One case needs more. An
execution that had the same attempt number may have sent an abort; once that has landed, the graph is
empty, and a late baseline of the same attempt must not bring it back: the fence refuses it, and
`AbortedInv` says that an aborted projection has no graph, so that concepts may be lost but are
never regained.

`LegacyProcessingProofs` proves `StoresMatchRow` for any number of processes and faults
(assumptions: `WorkersAssumption`, `AttemptLimitsAssumption`). Nothing holds the row during a remote
write there, so exclusion has to come from the lease. `WorkInv` says it: while no execution has
lost the row alive, every worker with a job is the owner of a live lease at the current task, and
finds in the stores what the statement it has reached relies on (`Stored`), or is at the entrance
of the failure path of a task that has ended and will turn back there. `RemovalInv` and `Emptied`
follow a removal through the stores. The argument fails at the first fault, which is why
`StoresMatchRow` is about runs without one (section 4 says what then happens).

Its second part proves `AcceptedText` of `Parsing` for any number of pages and any limit of
recognised pages (assumption: `ParsingAssumption`). It is inductive with the types; what each page
contributes is read off the three ways a page is joined to the document.

`ProviderFailoverProofs` proves the two properties of it that `graph_jobs` checks, for any calls,
keys, cooldown and times to wait (assumption: `FailoverAssumption`). `OpenMeansFailing` is inductive
with types. `CooldownIsKept` is about the moment a request is sent, when the breaker's word may be
old. `ToldInv` is what the breaker knows: a provider that named a time more than the rounding ahead
has a circuit open as long. `ToldToWait` is what makes it true: of all that an answer may be, the
ones whose time to wait is read are those that every handler blocks for. `PassedInv` takes it from
the check to the request: a call in between is in time, as it was when it was let through, or its
provider has named a time since; every step that names one has to mark the calls it overtakes, and
the clock only helps.

`QueryProofs` proves `CitesOneReadyExecution` of `stores` for any documents, contents, attempts and
candidate limits (assumption: `QueryAssumption`). The rows are read once and every other read is
later, so the invariant speaks of the scope, which does not change, and of `wasReady`, which only
grows: an answer may cite what has been removed since, never what was not READY.
`CoursesCountWhatIsAsked` is about the rows alone: both choices of a row for each content find one
(`FirstOfAll`, for any order of updates) and only one, and where a content has a READY row that is
not being removed, the course list cannot prefer one that is not.

The module goes on with what the reviewer's page makes of answers. `AnswersAreAboutTheCourse` is
`ShowsWhatWasAsked` for any courses and any number of requests in flight, overlapping polls, refreshes
and retries included, beside any changes by others (assumption: `DashboardAssumption`). As it stands it is not inductive: an answer could be put in place by a
request about another course, or end the waiting for a second one. `QuestionInv` and `RefreshInv`
say that one request of each kind at most still counts, and that the question that counts is about
the course that is selected, which is what `Select` and `Ask` keep when they raise the version.

`WalksPassNothingBy` is `WalkPassesNothingBy` for any finite number of rows, any times of creation
and any page size, whoever changes which rows meanwhile (assumption: `UploadPagesAssumption`). `PageFacts` is what the server owes: a page that is
not the last ends with a row than which all the rest of the list is older. That finitely many rows
have an oldest and a newest one (`FirstOfAll`) is proved by the well-foundedness of strict inclusion on finite
sets instead of an induction. `PagesInv` then says of each cursor that can still be used, those of
the trail up to the page that is shown, the next one and that of the request that counts, that
what is not older than it has been shown (`ShownUpTo`), and of the answer that counts what
`PageFacts` gave. Reading the first page starts a new walk, and is only asked for where the trail
has one entry; hence `TrailInv`.

A second part of `ProviderBudgetProofs` proves `ReadyMeansComplete` and `ExtractedIsKept` of
`GraphExtraction` for any finite set of batches in sections, any limit per build and any number of
killed builds (assumption: `BatchesAssumption` of `GraphBatches`). `ExtractionInv` adds to
`ReadyMeansComplete`

- `BuildInv`: what a build takes as done is saved, and no batch it is about to ask is;
- `ShownInv`: the graph that is shown holds saved concepts only, and whatever build is at work has
  all of them, so that what it publishes cannot be less.

Both rest on what is chosen and put in order from sequences of batches. These are read as
sets: the rank of a place among chosen places is an injection onto `0 .. n - 1` (`NthFacts`), so
that `At` has every chosen part and nothing else (`AtFacts`, `InOrderFacts`), and the rounded,
evenly spaced choice stays within its list (`RoundHalfEvenFacts`, `SpreadType`), so that `Select`
asks about missing batches only (`SelectType`).

The part ends with the two choices themselves (`BatchesAreChosen` checks both on bounded
documents). `SectionsAreCovered`: of every document, each section's first, a middle and its last
passage are sampled, and as many as may be (of more than nine, as the code has it, nine).
`BudgetsAreSpread`: for any missing batches, sections and limit, exactly as many are chosen as may
be, each section has one before any has a second, and the first and the last section are among them.
Both come down to `EvenlySpacedFacts`: with no
more samples than places the distance between two of them is one at least, and Python's rounding
(half to even) then never sends two to one place (`RoundHalfEvenGrows`).

`QueryProofs` ends with `GraphReads`: `SearchesAreExtended` and `DisplaysAreBounded` are the two
parts of `GraphShown` for any graph, any questions' concepts and any limits (assumption:
`GraphReadsAssumption`, and finitely many edges where they are counted). The code walks the edges
of each record breadth first; `DistanceFacts` says that this finds what is one and two
prerequisites away in the graph itself, so that a record holds all that its distances need.
That nothing is shown without the concept that it belongs to rests on the order of the cut
(`AskedComeFirst`): if something merely related is kept, everything asked about is; and otherwise
both ends of a kept edge were asked about, and the edge is in the record of either.

Only model-checked: `GraphMerge`, `Chunking`, `Ranking`, `Evidence` and how `GraphBatches` cuts
samples into batches, which are about what folds and recursive choices over sequences compute for
every input: induction over data. The liveness runs (liveness under fairness and ENABLED are out
of the prover's reach).

## 6. Plan

1. The same abstract specification for `LegacyProcessing`, as far as its executions keep their
   lease: with a fault it does not implement it (section 4).
2. Graph jobs in idle workers of the coordinator: the two kinds of work competing for one worker.
3. Lemmas about single operators of `Ranking`, `Evidence` and `GraphMerge` that need no induction,
   as those of `GraphBatches` and `GraphReads`.
4. The single-provider setting of `ProviderFailover`, and several processes in `Retention`.

## 7. Not modelled, and why

Authentication and rate limits, the public demo endpoint, start-up and presence, configuration and
the operators' audits do not take part in processing: their state is a counter or a timestamp, or
none. Of the modelled components, prompts and wording, thresholds over characters and layout,
exams, the metrics log, PDF reads with byte ranges, references from before object storage and the
evaluation scripts (which drive these services from outside) are left out. `PROJECT.json` names
each component with what is left out of it.

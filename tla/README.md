# PipelineLens: a TLA+ verification project

PipelineLens collects failed CI pipelines, reads their logs, and explains the
failures with local rules. This directory holds TLA+ models of the parts of it
that keep state and can be interrupted, TLC configurations that check them on
small instances, and proofs that TLAPS checks for every value of the constants.

    tlasany M.tla                        parse a module
    tlc -config X.cfg M                  run a configuration
    tlapm M_proofs.tla                   check the proofs of a module

All source paths below are relative to `src/pipelinelens/` of the repository.

## 1. The system: inventory

| Component | State it keeps | Operations that change it | Hard behaviour |
|---|---|---|---|
| GitLab failure corpus (`services/pipeline_corpus.py`, `harvest.py`) | SQLite tables `pipelines`, `jobs`, one `checkpoint` row; the lock file `.writer.lock`; in memory the `_Harvest` object, its tasks, the provider's `rate_limited` latch | `harvest_pipelines`, `reevaluate_corpus`, `initialize` | two or three tasks at once, stops seen by one task while others are in flight, crash or cancellation between commits, resumption by a later run, two processes |
| Local inspection API (`api/inspection.py`) | the response cache, a semaphore of three | `inspect`, `forget`, `confirm_resolution` | concurrent requests, an inspection that outlives a refresh or a forget, timeouts |
| Credential vault (`services/credentials.py`) | one encrypted document | `save`, `mark_verified`, `forget` | read/modify/write under a lock of this process only; crash before the replacement |
| Local knowledge cache (`services/local_knowledge.py`) | one JSON document of projects, findings, resolutions | `remember`, `record_resolution`, eviction | capacity limits, validation at the next load |
| Container supervisor (`container_runtime.py`) | two children, the requested signal | start, wait, terminate, kill | signals at any await, a child exiting at the same time |
| Investigation agent (`services/agent.py`, `agent_memory.py`, `prompts.py`, `skills.py`) | conversation, issued evidence, budgets | `chat`, tool calls, answer check | budgets that run out in the middle of a turn |
| Public GitHub corpus (`services/public_corpus.py`, `public_harvest.py`) | SQLite tables, rate-limit latch | `harvest`, `record_run`, migration, reevaluation | no writer lease, interrupted migration |
| Dataset corpus (`services/dataset_corpus.py`, `dataset_harvest.py`) | SQLite table of rows | `import_dataset`, reevaluation | repeated and interrupted imports |
| GitLab provider (`providers/gitlab.py`, `base.py`, `http.py`, `services/gitlab_artifacts.py`, `gitlab_includes.py`) | a shared client, a request semaphore | paginated reads, include graph | bounded walks over answers that change |
| Inspection (`services/inspection.py`, `analysis.py`, `findings.py`, ...) | none between requests | selection of jobs and children, diagnosis | bounds on what is read |
| Remediation (`services/remediation.py`) | none between requests | proposals and their verification | an edit must match the source it was read from |
| Storage, orchestrator, worker (`storage.py`, `services/orchestrator.py`, `workers/tasks.py`, and the routes of `api/main.py`) | tables of incidents and their evidence | analyses, `save_snapshot`, `record_feedback`, retried deliveries | a message handled more than once, two processes that save the same incident |
| Dashboard, model clients, redaction, URL parsing | none that outlives a request | | text processing and user interface |

How they interact. The dashboard and the main API call the inspection API. An
inspection takes candidates from the vault, reads GitLab through a provider of
its own, stores the result in the response cache, tells the vault that a
credential worked, remembers findings in the knowledge cache and reads the
GitLab corpus for counts. The corpora are written only by explicit commands
(`harvest.py`, `public_harvest.py`, `dataset_harvest.py`, `local_corpus.py`),
each of them possibly in more than one process. The worker and the main API
write incidents through the orchestrator.

What makes each of them correct:

* corpus: the store always validates; what was observed is never lost or taken
  back; a stop (429, 401) is honoured by every task and never recorded as an
  observation; a run that says it is finished has finished; a run ends;
* inspection API: a cached answer was produced for this token after the last
  refresh, within its lifetime, from sources that the root check covers;
* vault: the document on disk is always one that was written whole; no
  operation of one process loses another's entry;
* knowledge cache: what is saved is accepted by the next load; a resolution is
  only ever a human's;
* supervisor: every child is gone when it returns, and its status is never 0;
* agent: answers cite only issued evidence; budgets are never exceeded; a patch
  changes exactly what it says;
* provider and inspection: what is called complete or passed is; limits and denied
  reads show; proposals are made for exact sources only;
* public and dataset corpora: the store always validates; nothing that is retained
  is lost or relabelled; reports say no more than was retained; no request after a
  rate limit;
* storage: one incident per (repository, run, job) however often it is delivered,
  and what a user said of it stays.

## 2. The modules

| Module | Models | Section |
|---|---|---|
| `PipelineHarvest`, `ObservedCorpus` (its abstract specification) | the GitLab corpus | 3 |
| `VaultDocument`, `CredentialVault` | the vault | 4 |
| `Selection` | no component: the elements of a sequence that are in a set, in order, as the vault, the cache, the inspection and the proposals choose them | 14 |
| `InspectionService` | the local inspection API over the vault's document | 5 |
| `KnowledgeStore` | the knowledge cache | 6 |
| `Supervisor` | the container's supervisor | 7 |
| `PublicCorpus`, `DatasetCorpus` | the other two corpora | 8 |
| `InvestigationAgent` | the agent's loop and tools | 9 |
| `Incidents` | analyses, the incident store, the worker | 10 |
| `CiSources` | the provider's walk along includes | 11 |
| `PipelineInspection` | an inspection of a live pipeline | 12 |
| `Remediation` | proposals | 13 |
| `Composition` | the components of sections 7 and 9 to 13 side by side | 14 |

`ObservedCorpus` is an instance of `PipelineHarvest` under a refinement mapping;
`CredentialVault` and `InspectionService` both extend `VaultDocument`, so that the
first shows that the operations of the vault are atomic within a process and the
second may use them as single steps. `PipelineInspection` takes a load of CI sources
as one read that is complete or not, which `CiSources` details; `Remediation` begins
with the result of an inspection. Each `MC...` module gives modules the values of
their instances.

The theorems are in modules of their own:

| Module | Theorems about | Section |
|---|---|---|
| `HarvestStore_proofs` | `PipelineHarvest` and its refinement of `ObservedCorpus` | 3 |
| `CredentialVault_proofs` | `CredentialVault` | 4 |
| `InspectionService_proofs` | `InspectionService` | 5 |
| `KnowledgeStore_proofs` | `KnowledgeStore` | 6 |
| `Corpora_proofs` | `PublicCorpus` and `DatasetCorpus` | 8 |
| `Services_proofs` | `Supervisor`, `InvestigationAgent`, `Incidents`, `CiSources`, `Composition` | 7, 9, 10, 11, 14 |
| `Inspection_proofs` | `PipelineInspection` and `Remediation` | 12, 13 |
| `Selection_proofs` | the operators of `Selection` and sums over finite sets, for the others | 14 |

`Composition` puts `Supervisor`, `InvestigationAgent`, `Incidents`, `CiSources`,
`PipelineInspection` and `Remediation` side by side: each under way or at rest, and a
step is a step of one of them. `MCServices` gives it values, `MCCorpora` the two smaller
corpora. In the code these share no state with each other, and so in the instances each
behaviour is one of a single component while the others are at rest: the states of the
run are the sum of the components', not the product. For the composition the theorems
of section 14 say the rest.

Left for later: the provider's paginated listings and the artifact reader.

## 3. `PipelineHarvest`

### State

| Variable | Code |
|---|---|
| `pipes`, `jobs`, `ckpt` | the three tables. One origin, so a key is (project id, pipeline id). A row holds what the properties tell apart: project key, batch, listing state, selected jobs, complete, HTTP status; a job row its state and HTTP status |
| `lease` | the holder of `.writer.lock` (`_writer`, `_lock_writer`) |
| `pc` | where the process is in `harvest_pipelines` or `reevaluate_corpus` |
| `run` | the `_Harvest` object and the locals of `run`: batch id, plan, state, project index, resolved ids, listing state per path, and the first error a task raised |
| `disc` | the locals of `discover`: project id, page, selected ids, floor, new ids of the page, how the page ended |
| `latch` | `CorpusGitLabProvider.rate_limited` |
| `at`, `local`, `todo`, `job`, `ans` | a `collect` task: where it is, its copy of the record, the samples it has still to fetch, the one in flight, the answer it got |
| `runs`, `faults` | bounds; `runs` also gives fresh batch ids |

### Steps

One action is at most one commit, so a crash can fall between any two commits.
A request is two steps, sent and answered, and the handling of the answer a
third, so that tasks interleave at every `await`, and at a few points more.

* Start: `Acquire` (the non-blocking lock), `OpenHarvest`, `OpenReevaluation`,
  `OpenRefused` (`initialize` validates the whole store), `Begin` (first save).
* Discovery: `ResolveProject`, `ReadPage`, `PutPipeline`, `FinishPage`. A page is
  any set of at most `PerProject` ids in any order of pages: GitLab's listing may
  move between pages, and the floor test of the code is what must notice it.
* Collection: `PlanCollection`, `LaunchBatch`, `EndBatch`, `CancelBatch`,
  `EndCollection`; the task: `StartTask`, `NextJobPage`, `StopTask`,
  `JobsUnreadable`, `JobsListed`, `LeaveJobs`, `FetchTrace`, `RecordTrace`,
  `FinishPipeline`; GitLab: `AnswerJobs`, `AnswerTrace`.
* Report: `Finish`; reevaluation: `Reclassify`, `EndReevaluation`.
* Faults: a commit that fails (a reader holds the lock, or the file is full) in
  the run (`CommitFails`), in a task (`TaskCommitFails`), or outside every
  handler (`LastCommitFails`); cancellation (`Interrupt`); death (`Crash`).

### Abstractions

* The classification of a trace is any of `TraceOutcomes`. Redaction, times,
  excerpts and rule ids are left out: no property is about them.
* HTTP errors are 401, 429, one code for every other refusal, and 413 for an
  oversized trace. A timeout is an error answer.
* The order in which a task fetches its at most two samples is not fixed.
* Between two commits of one task without an `await` the model allows other
  tasks to run, which the event loop does not: it has more behaviours than the code.
* Damage to the file from outside is not modelled; a store that does not
  validate arises in the model only from what the program itself wrote.

### Runs

| Run | Instance | Checks |
|---|---|---|
| `harvest` | 2 processes, 3 runs in all, 1 fault, 1 path that may resolve to 2 ids, 2 pipelines, 1 job, 2 wanted, 2 tasks, 2 pages, room for 2 pipelines and 1 project | `StoreValidates`, `FinishedMeansFinished`, `StopsAreNotObservations`, `NoRequestAfterRateLimit`, `ObservationsAccumulate` |
| `harvest_ends` | 1 run, 1 fault, 2 pipelines with 2 jobs each, fairness | `RunsEnd` |
| `harvest_project_cap` | 2 runs, room for 1 project | finds a violation of `DocumentedProjectCap` |
| `harvest_renamed` | 2 runs of different paths that resolve to one project | finds a violation of `SelectedCountsAreThisRuns` |

Why these bounds. Everything that one run can leave to another needs two runs,
and a third one finds what a resumed run left; two processes are enough to
compete for the lease. Two pipelines and `Concurrency = 2` make one batch of two
tasks in which one may stop while the other is at any of its awaits; with two
pages and two pipelines a listing can move between pages; room for two
pipelines of two projects makes both capacities bind. One fault at a time
suffices for the store, since after a fault the run commits nothing but its
checkpoint. Both processes are symmetric, and so are project ids and jobs, which
the code compares only for equality. Pipeline ids are ordered, so they are not.
`harvest_ends` declares no symmetry, since it checks liveness. Deadlock is not
checked: after `MaxRuns` runs the instance stops.

Fairness (`Fairness`): a running process is scheduled, each of its tasks is
scheduled, and every request is answered (the client has a timeout). Processes
are not obliged to start and faults are not obliged to happen.

### What the runs show

* `StoreValidates`: what `_validate` demands on the first open holds after every
  interleaving, fault and crash, except for the count of projects (below).
* `FinishedMeansFinished`: when the checkpoint says `complete` or `shortfall`,
  each pipeline still tagged with that batch is closed and nothing of it is
  pending, and `complete` means as many distinct pipelines as were asked for.
* `StopsAreNotObservations`, `NoRequestAfterRateLimit`: a 429 met by one task of
  a batch stops the others at their next request, and neither 429 nor 401 is
  stored as the outcome of a job or pipeline.
* `ObservationsAccumulate`: the module implements `ObservedCorpus` under a
  refinement mapping that forgets processes, tasks, batches and checkpoints:
  pipelines are seen, sampled once, observed once per sample, closed once, and
  nothing is taken back, also by reevaluation and resumed runs. Without the
  lease two runs could overwrite each other's samples.
* `RunsEnd`: no refusal, failed commit, cancelled task or stop leaves a task that
  the batch waits for.

### Disagreements with the documentation

* `harvest_project_cap`. The module docstring caps the store at 20 projects and
  `_validate` refuses a store with more distinct project ids, but
  `_save_pipeline` counts distinct paths. A project that is deleted and created
  again at the same path brings the store over the cap, and no process can open
  it afterwards (`OpenRefused`).
* `harvest_renamed`. `HarvestReport` promises counts of this run, but a stored
  pipeline keeps the path under which it was first seen, and the report counts by
  path. A run over a renamed project tags and collects its pipelines and reports
  that it selected none.

### Proofs

`HarvestStore_proofs` holds for any processes, paths,
plans, ids, capacities and bounds that satisfy the module's four assumptions
(plans are nonempty sequences of distinct paths, ids are finite sets, pipeline
ids are numbers, `NoOne` is none of the values, bounds are naturals).

1. `TypeCorrect`. `TypeOK` is not inductive: `JobsListed` reads the jobs of an
   answer and `RecordTrace` the sample being fetched, and that these exist
   depends on where the task is. `TaskInv` adds this: a task with a copy of a
   record has a row (`HasRow`), and a task that was answered holds an answer of
   the kind its place allows (`HasAnswer`). Each action preserves
   `TypeInv /\ TaskInv`; `CollectStepType`, `MainStepType`, `ServerStepType`,
   `AcquireType` and `FaultsType` are the cases of `NextType`.
2. `StoreAlwaysValidates`. That `FinishPipeline` may close a pipeline rests on the
   task's own bookkeeping, never on the table. `TaskAgrees` relates the two: the
   task's copy is the row, and every pending sample in the table is one the task
   has still to fetch or is fetching. It is stable only because no other process
   writes, which is `Exclusive`: outside `idle` a process holds the lease.
   `Reevaluates` keeps reevaluation away from pending samples. `StoreInv` is their
   conjunction with `RowsConsistent` and `PipelineCap`, and is preserved by every
   action under the types of 1.
3. `OneWriter` is `Exclusive`, restated.
4. `RateLimitHonoured` is an action property: from a state in which the latch is
   set no step brings a task into a waiting place.
5. `StopsLeaveWorkPending`: the only steps that store a status take it from an
   answer under `~ Stops`, and for 401 and 429 `Stops` is true whatever the run's
   state is.

6. `FinishedRunsAreFinished`. `FinishInv` follows a run from its first save to its
   last. `RunStarts`: no row has its batch yet (`OldBatches`: no row has a batch that
   was not given out). `RunCounts`: each project that was listed gave the batch at most
   `PerProject` rows, the current one at most as many as it has selected, so the batch
   never exceeds the target, and `complete`, which counts by path, means exactly that
   many. `RunCloses`: a task of a run that still collects, and met no failure, leaves
   its row complete; `TaskAgrees` of 2 makes this a fact about the table. `RunOpen`:
   until the last commit the checkpoint says nothing of an end, and between runs
   nobody writes a row or adds a sample, except `Reclassify`, which makes none pending.
7. `ImplementsObservedCorpus`: `PipelineHarvest` implements `ObservedCorpus`, with the
   rows as `seen`, `SampleMap` as `sample` and the complete rows as `closed`. Each step
   of the writers that touches a table is one of `See` (a first `PutPipeline`),
   `Enumerate` (`JobsListed`), `Observe` (`RecordTrace`) and `Close` (`JobsUnreadable`,
   `FinishPipeline`), or a stutter (a known pipeline, `Reclassify`, every other step);
   that a listed row has no samples yet, and that a closed one has none pending, is
   `StoreInv`.

8. `HarvestWindsDown`: a step of the process that has the lease leaves it less to do.
   What is left, `HarvestLeft`, is a sum: the phases still to come; the places of the
   discovery that are still ahead (`PagesLeft`: of a project, a page and a row, compared
   in this order, so that a new page may have as many rows again); twice the pipelines
   that are queued, and the batch under way; and for each pipeline the places of its
   task, three for each job to fetch. `HarvestBound` bounds it by the plan, `MaxListPages`
   and the numbers of pipelines and jobs. Needed besides `FinishInv`: no page beyond the
   last one allowed (`PagesInv`).

Only model-checked: `RunsEnd`. `HarvestWindsDown` is the half of it that needs no
fairness; that a process with the lease always has a step left is ENABLED's, and beyond
the prover. `TypeOK` is proved
and no run repeats it; the same holds for the vault and the knowledge cache.

## 4. `VaultDocument` and `CredentialVault`

`VaultDocument` has no variables: it defines what a well-formed document is
(`Decodes`, the checks of `_decode_document`), what each call makes of it
(`Outcomes`: `save`, `mark_verified`, `forget`, with `_associate`) and the order in
which `candidates` offers its entries. `CredentialVault` adds the steps in which
threads carry the calls out.

| Variable | Code |
|---|---|
| `file` | the decrypted document behind `vault.dpapi`; the empty one if there is no file |
| `lock` | `CredentialVault._lock`, one for each process |
| `pc`, `call`, `next`, `fresh` | the place of a thread, its arguments, the document it is about to write, the `uuid4` of the entry it may add |
| `behind` | history: another process replaced the file after this thread read it |
| `issued` | the ids that `uuid4` has returned; a caller knows no others |

Steps: `Call`, `Lock`, `Read` (decide to write or not), `WriteTemporary`, `Replace`
(`os.replace`), `Fails` at any of them, and `Crash` of a process. Encryption, syntax
checks and the retries of a replacement are left out: each can only fail, and `Fails`
is that.

The run `vault` has two threads of one process and one of another, three calls with
three tokens and projects, room for two entries of two projects, one fault. Two
threads compete for a lock, the third shows what another process can do, and three
calls fill a vault or an entry and meet it full. It shows:

* `AlwaysDecodes`: the readers, which fail closed, accept the file after every
  interleaving, failure and crash, also when two processes overwrite each other;
* `UpdatesAreAtomic`: unless another process came between, a replacement is exactly
  its call applied to the document of that moment. With two processes an update can
  be lost: the code's lock is documented for threads and instances only, and the
  property excepts exactly this (`behind`).

Proofs (`CredentialVault_proofs`), for any threads, processes, tokens, projects and
capacities, provided an entry has room for one project (`VaultAssumption`). The lemmas
about `Outcomes` say that a call leads from a well-formed
document to a well-formed one when its new id is not in the document. The invariant
`VaultInv` is the types (`TypeOK`), a well-formed file whose ids were issued
(`Stored`), a call of each thread that is not idle (`Called`), one thread behind each
lock (`Exclusion`) and, of each thread past its read, a prepared document that is
well-formed and, if no other process interfered, an outcome of its call on the file
as it still is (`Prepared`). `Exclusion` is what keeps `Prepared` stable: no other
thread of the process can replace the file meanwhile.

## 5. `InspectionService`

| Variable | Code |
|---|---|
| `vault`, `issued` | the vault; its operations are synchronous calls between two awaits, so each is one step |
| `cache` | `_ResultCache.entries`, least recently used first |
| `access`, `root`, `evidence` | GitLab: which token reads which project, what `verify_resource` and an inspection find there; they may change at any time |
| `queue`, `pc`, `ask` | the waiters of `Semaphore(3)`, the place and body of each request |
| `todo`, `seen`, `result` | the candidates left, the last answer of `verify_resource`, what the inspection read |
| `clock`, `reads`, `changes`, `forgets` | time for the lifetime of entries, a number for each reading, bounds |

Steps of a request: `Arrive`, `Enter` (a slot is free, the candidates are listed),
`Verify`, `Denied` (the next candidate), `Hit` or `Miss`, `Inspect`, `Put`,
`Remediate` (the association is recorded in the vault, or the vault refuses), `Answer`,
and `Fail` (an error of GitLab or a timeout, at the awaits). Of others: `Forget` (the
vault, then the cache), `GitLabChanges`, `Tick`. The contents of findings, the corpus
counts and the agent's text are left out; they change neither vault nor cache.

| Run | Instance | Checks |
|---|---|---|
| `inspection` | 2 requests (given, saved and configured tokens, with and without remember and refresh), 2 projects, 2 tokens, 1 change of GitLab, 1 forget, 1 tick | `TypeOK`, `CacheSound`, `AssociationsVerified`, `CachedAnswersAreOwn`, `SavedOnlyOnRequest` |
| `inspection_ends` | 3 requests for 2 slots, fairness | `EveryRequestAnswered` |
| `inspection_refresh` | 2 requests, one a refresh, evidence that becomes ineligible | finds a violation of `RefreshLeavesNothingOlder` |

Two requests are what each property speaks of, one that leaves something in the cache
or the vault and one that meets it; the cache has room for one entry and 2 units, so
that both limits bind, and one kind of evidence is too large to be kept at all. Three
requests for two slots make one wait. Fairness (`FairSpec`): each step of a request is
taken eventually, since every await of the code has a timeout and the loop runs what
is ready. Requests need not arrive.

What they show: an answer from the cache was read with the token that GitLab has just
accepted, for this project and this root metadata, within its lifetime; tokens are
associated only with projects that they were granted; a forgotten token comes back
only by a request that asks to remember it; no denial or failure keeps a slot.

Proofs (`InspectionService_proofs`), for any requests, hosts, projects, tokens, roots,
evidence, slots, limits and lifetime that satisfy `ServiceAssumption` and
`VaultAssumption` (a slot, an entry and a lifetime are at least one, at most one token
is configured, `None` is none of the values): the four safety properties of the run
`inspection` and the types. The inductive invariant is `ServiceInv`, which TLC was
asked about on the instance of `inspection` first. Its parts, and what needs them:

* `RequestsFit`: what each place of a request implies of its candidates, the last answer
  of GitLab and the reading. A request that is being served has a candidate left, the
  root it was verified with, and, once it was inspected, a reading under that very token
  and root. `AnswersAreOwn` follows from it for the request, and from the key of the
  cache, which names host, project, token and root, for the entry.
* `Queued`: the queue holds each waiting request once, so `Enter` serves one that waits
  and whose body is known.
* `CacheFits` is `CacheSound`, and that each entry's key is the one of its reading.
  `Selected` entries weigh no more than all (`SelectionWeighs`), `Put` evicts from the
  old end until there is room, and there is a least number of evictions that suffice
  (`EvictionFits`).
* `TokenOfId` and `KnownCandidates`: an id in the vault means one token, also the id of
  an entry that a request has read and that was forgotten since; without them a
  verification of one token could be recorded for another.
* `AssociationsVerified` itself: an association that is there was granted by a request
  that has passed `Remediate` and keeps its token, body and answer from then on.

`SavedOnRequest` and `AnswersAreOwn` are action properties: each action is shown to keep
to them from `ServiceInv`, one step for each action.

`SemaphoreKept` and `RequestsWindDown` (section 14) rest on `WaitingInv`: the requests
past the semaphore are no more than its slots (`SlotsRespected`), each one that waits is
in its queue (`NobodyForgotten`), and the candidates are no more than the vault's limit
and the configured token (`FewCandidates`). `Enter` takes the head of the queue only
while a slot is free, and every other step keeps or ends the occupation of its own
request alone.

Disagreement with the documentation, `inspection_refresh`: a comment of `put` says
that a refresh must not leave an older, now ineligible result reusable. An inspection
that read its evidence before the refresh did and ends after it puts its older result
into the cache, where later requests find it until it expires.

## 6. `KnowledgeStore`

| Variable | Code |
|---|---|
| `file` | `knowledge.json`, `None` before the first save |
| `lock` | `_LOCK`, of the module |
| `pc`, `copy`, `mine` | the place of a thread, the document it works on, the record it adds |
| `now`, `steady` | the latest time shown by the clock; history: it has advanced at every call |
| `calls`, `faults` | bounds; `calls` also numbers insertions |

A list, or the order of a dictionary, is a set of records that carry the number of
their insertion. Steps: `Load` (lock, load and validate, sanitize with the secrets of
the call, touch the project, append the record), `DropProject` and `EvictOldest` (one
round of the loops of `_save`), `Replace`, `TooLarge`, `Fail`. The text of a record is
a body with a size; of redaction only what it does to labels is kept, because a label
occurs in projects and records, and the validation compares the two.

The run `knowledge`: two threads, four calls, three projects where two fit, records of
size 1 and 4 where three records and 4 units fit, so that each of the three limits
binds before the others in some behaviour; a label that secrets may cut; a clock that
may advance, stand or go back; one failed write. Several processes are outside the
model, as the docstring excludes them. It shows:

* `SavedDocumentLoads`: what is saved passes the validation of the next load, which
  fails closed: no duplicate, no project without a record, no record whose project is
  missing or has another label, within the limits;
* `OldestGoFirst`: as long as the clock advances, a save keeps its own record, and
  loses another one only if the stored document and the new record together exceed a
  limit; what it loses is older than all it keeps, or belongs to the least recent
  project when there is one too many. (With equal times the record just written may
  itself be evicted, hence the condition.) It also says that no thread's record is
  lost to another.

Proofs (`KnowledgeStore_proofs`), for any threads, projects, labels, secrets, sizes and
limits (`KnowledgeAssumption`). Limits hold only when the loops have ended, while the
rest of the validation holds after every step: `KnowledgeInv` says that the working
copy of each thread is `WellFormed` (its type, `OneOfEach`, `Referenced`) and the file
is that and within the limits. One lemma for each operator (`SanitizedWellFormed`,
`RecordedWellFormed`, `WithoutProjectWellFormed`, `WithoutRecordWellFormed`) shows that
it keeps a document well-formed; the first rests on fingerprints being taken of the
label at the time of the record, which later redaction does not touch.

`OldestRecordsGoFirst` needs the invariant of the loops, `TrimInv`: only the holder of
the lock is trimming, and its copy is `Trimming` what was stored. That is, the copy comes
from the stored document and the new record (`Comes`), insertion numbers and times agree
(`Ordered`), and what it lacks is lost rightly so far (`RightlyLost`), where "not
everything fits" is said of the ids and fingerprints of both together (`Excess`): they,
unlike the records, are not changed by new labels. `LoadedTrims` starts the loops,
`DroppedTrims` and `EvictedTrims` are their rounds, `WholeCounts` translates back when the
copy is saved. The lemma about rounds of the first loop shows that there is at most one
and that it never drops the project of the call; the one about the others that the first
records of the two kinds include the oldest of all. Beyond the types this assumes that
the limits of projects and of entries are positive, as the constants of the module are
(`MAX_PROJECTS`, `MAX_ENTRIES`), and that no document is `None`.

## 7. `Supervisor`

| Variable | Code |
|---|---|
| `pc` | the place in `_supervise` and `_stop_children` |
| `requested`, `status` | `requested_signal`, the value to return |
| `started`, `told` | `children`; the last signal each was sent |
| `ended`, `reaped` | the code with which a service ended; those whose `returncode` and waiter show it |

A service ends (`End`) some time before the loop learns of it (`Reap`); a signal
(`RequestStop`) falls between any two steps, since Python runs the handler between any
two bytecodes. `Launch`, `Started`, `StartFails`, `AllStarted`, `Decide`, `Terminate`,
`Kill`, `Return` are the code between two awaits. The stop event is not a variable: it
is set whenever a signal was requested.

Its part of the run `services` has the two services and two signals of the code and an exit
code of each class (zero, positive, negative). It shows that no service is left when
the process returns (`NoServiceLeft`), that the status is never success
(`NeverSuccess`), that a signal that comes before the end is decided determines the
status, the first of several (`SignalIsHonoured`), and that an end or a signal ends
the container although a service ignores the request to terminate (`OneEndStopsAll`).
A signal that arrives while a service is being started that then cannot be started
ends in status 1, the failure. Fairness: the process is scheduled, starting a service
returns, the watcher sees what has ended, and what was killed ends. Services need not
end otherwise. Deadlock is not checked: the supervisor returns.

Proofs (`Services_proofs`), for any number of services, any signals in 1..127 and any
integer codes: types, `NoServiceLeft` and `NeverSuccess`. `SupervisorInv` adds to the
types that what is reaped has ended, that a service is being started only if one is
left, and that from the decision on the status is in 1..255.

## 8. `PublicCorpus` and `DatasetCorpus`

| Variable | Code |
|---|---|
| `publicFile` | the SQLite file: absent, empty, of schema version 1 or 2, and the rows of `runs` with their job. A row keeps the states of its captures, whether its configuration was cut and is called modified, and (history) whether its text really is the one of GitHub |
| `public` | the processes: where each is in `_PublicHarvester.run` or `reevaluate_public_corpus` and in `_connection`, the repositories and runs left, the captures of the run in hand, the latch of the client |
| `datasetRows`, `datasetCounts` | the tables `rows` and `sources` |
| `importer` | the processes of `import_dataset` and of its reevaluation |
| `publicStarted`, `datasetStarted`, `uncounted` | bounds; history: imports that ended between their two statements |

There is no writer lease. Each use of the public store opens the file anew: existence
and `_validate` (`OpenToWrite`), `sqlite3.connect`, which creates an empty file
(`Connect`), the schema (`Script`), and one transaction with the migration at its head
(`CommitInitialize`, `CommitRun`, `CommitClassification`). Another process may come
between any two of these. The requests of a run are a step each (`Verified`, `ListPage`,
`FailedJob`, `JobLog`, `WorkflowMetadata`, `Contents`), any of which may be answered by
a rate limit (`RateLimited`). `StorageError` is a locked or full file, `CrashPublic` the
death of a process. After a rate limit the final report reads the store once more; a
failure of this read is not distinguished. The dataset corpus commits each statement on
its own, so a row (`InsertRow`) and the count of its source (`CountRow`) are two steps.

The run `corpora` has two processes. For the public corpus: two commands in all (of
which either may be a reevaluation), one repository with two runs, a store found absent,
with a row of the first schema version, or with room for one run more. Two commands
make every race of two; the third that `public_reevaluate` needs is below. For the
dataset corpus: three commands, files of which rows repeat and are blank, and a size
limit that is passed in the middle of an import. Processes are symmetric.

* `PublicStoreValidates`: no race of two commands, failed transaction or crash leaves
  a store that the next open refuses. At its limit the test for room is made inside the
  transaction, which is why `has_run` may be stale.
* `NothingForgotten`: no retained run goes. `CompleteMeansRetained`: a harvest that
  reports "complete" has nothing selected that is not retained, also when it skipped
  the run because another process was recording it.
* `ProvenanceHonest`: a configuration that was cut or redacted, and any of the first
  schema version, is never called unmodified, whichever process migrates.
* `LimitsAreNotObservations`: after a rate limit nothing is written by that process.
* `ImportAccountsForRows`: an import that ends has counted each row it read, and each
  text among them is in the table. `CountsKeepUp`: the count of a source lags only by
  imports that are, or died, between their two statements.

Disagreement, `public_reevaluate`. A reevaluation lists the captured logs once and then
updates each by repository, run and job. When a harvest that had looked for the run
before it was first recorded records it again in between, with a log it could not
capture, the update writes a class onto a row without a log. `_validate_jobs` demands
"no_log" there, so no command can open the store again. It takes three commands: one
that records the run, the reevaluation, and the harvest that overlaps both.

Proofs (`Corpora_proofs`), for any processes, repositories, runs, jobs, plans, limits,
answers and initial files. `PublicFilesAssumption` says of the initial files what the
program itself would have written: a file with a schema validates, one without has no
rows, and no configuration in them claims to be unmodified when it is not.

* The inductive invariant `PublicInv` is the types, `StoreFits` of the file (all that
  `_validate` demands but the class of a job, and `Honest` for each row) and
  `ProcessFits` of each process, which speaks of the file only through its schema and
  its set of keys, so that one lemma covers what a step of one process does to the
  others. `PhaseFits` says that the draft of a harvest fits at each phase and that a
  transaction begins only on a file with a schema; `SelectionFits` that each selected
  run is retained, in hand or still to come unless the harvest has become partial.
  Both survive any write of another process because `record_run` never takes a key
  away and `_migrate` never takes a schema back.
* `PublicProvenance`, `CompleteHarvestsRetain`, `NoRunIsForgotten` and
  `LimitedHarvestsWriteNothing` state `ProvenanceHonest`, `CompleteMeansRetained`,
  `NothingForgotten` and `LimitsAreNotObservations` for every value of the constants.
* `PublicStoreValidates` is `StoreFits` and `ClassesFit`, the class of a job, the one
  thing a reevaluation writes. It is proved where it holds, in three theorems that
  together say when it does.
  - `TwoCommandsKeepTheStoreValid`: whatever two commands are (`PublicStarts <= 2`, the
    bound of the run `corpora`), for every value of the other constants.
  - `DistinctRunsKeepTheStoreValid`: any number of harvests and reevaluations, as long as
    no two harvests have the same run in hand (`DistinctRuns`). `RunsInv` is the
    strengthening: what a harvest has in hand is not retained, and each job that a
    reevaluation has listed is still a captured log, or the run has another job by now.
    `record_run` keeps it when it adds a run, and only breaks it when it replaces one.
  - `HarvestsKeepTheStoreValid`: any number of harvests, of the same runs too, as long as
    no reevaluation is among them (`OnlyHarvests`).
  The first follows from the invariants of the other two: of two commands at most one
  is a harvest (`OneHarvest`), and it alone has a run in hand, or both are. The
  conditions are temporal: they are asked of every state of the behaviour. Without
  any, the property is false, as `public_reevaluate` shows with three commands.
* `DatasetImportsAccount` and `DatasetCountsKeepUp` rest on `DatasetInv`: of what an
  import has read each row but the one in hand is accounted for; and the rows of a
  source are no more than its count and the imports between their two statements, alive
  or dead, a cardinality of processes of which one step moves at most one.

## 9. `InvestigationAgent`

`agent` is the `_Loop` with its `_Toolbox`: turns, tool calls, characters and source
reads used, the calls of the last reply still to be answered, the evidence ids issued,
the files kept as read, whether the answer was repaired, and the answer. The model is
not trusted: a reply is calls (`ReplyWithCalls`), an answer with any citations and any
patch (`ReplyWithAnswer`), nothing (`ReplyEmpty`) or something malformed
(`ReplyMalformed`). `AgentStops` is a failed request or the timeout around the whole.
The tools other than `read_source` only issue ids and are one action. Texts have no
content but their id; those of files are sequences of lines, so that `verify_patch` is
modelled by what it does (`ApplyHunk`, `Applied`, `Verifies`), with Python's slices at
negative positions. A malformed, oversized or credential-showing diff is kept no more
than none at all and is not a case of its own.

Instance: 4 turns, 3 tool calls, 1 source read, answers of 2 citations, a file in the
bundle, one that must be fetched, one that redaction changed and one that is not listed,
and eleven patches: exact, displaced, ambiguous, empty, of two hunks, the second where
the first one has just been applied.

* `CitesOnlyIssued`: the final answer cites something, and a cited window is of a file
  that was read, whatever failed and whatever was repaired. `search_history` may issue
  ids of a text that is cut before they appear in it; citing them is accepted.
* `KeptPatchIsExact`: a patch that is kept is for a file that was read and not redacted,
  changes it, and exchanges exactly the lines it shows; with one hunk, at the place its
  header names or the only one like it.
* `ServicesTypeOK` includes the budgets: turns and reads are exact, tool calls may be
  exceeded by those of one reply, since the code looks at the budget between replies.
* `EveryTaskEnds`: a repair is possible once, so the loop ends within its turns.

Proved in `Services_proofs`, for every value of the constants:
`AgentTypeCorrect` (the types and the budgets), `AgentCitesOnlyIssued` and
`AgentKeepsExactPatches`. The inductive
invariant `AgentInv` adds to the types that a turn is left whenever the loop may go on
(`TurnLeft`), that calls are answered only for a reply begun within the budget
(`CallsLeft`), that every fetched source was paid for (`ReadsPaid`: the step from "a
read is left" to "one source more" is a fact about cardinalities) and that the windows
issued are of files that were read (`Grounds`). One lemma per action; those of the
tools share `CallDoneCounts`. `AgentAssumption` says that the ids of `read_source` have
a form of their own.

`KeptPatchIsExact` follows from `PatchInv`, since nothing but the answer touches the patch
and no source is given up. What `verify_patch` does is the lemma `VerifiedIsExact`,
about any text and any hunks. A text is what is before a place, what is there and what
is after (`PartsOfText`, with Python's negative positions in `Index`), so that replacing
lines that occur exchanges them (`ReplacedCounts`); what is trimmed off a hunk is the
same on both sides (`TrimmedAlike`) and does not matter to the balance; hence one hunk
exchanges its lines (`HunkExchanges`) and, by induction over the hunks, a patch those of
all (`AppliedCounts`). A place that is the only one is a set of cardinality 1, and with
one hunk the positions are those of the file itself (`OnlyHunkIsPlaced`): the header's
line number is a natural number, as the pattern of the code says, so that it is never
counted from the end. `AgentAssumption` gives files and hunks these types.

## 10. `Incidents`

`rows` and `evidence` are the tables, `analyses` where each analysis (a request and a
job) is, `answers` what requests came to, `tries` and `crashes` the retries and deaths
of the worker. A pipeline request analyses several jobs with `gather`; a delivery of
the queue analyses one in another process. `Fetch`, `Retrieve` and `Diagnose` are the
awaits of `_complete_snapshot`; `save_snapshot` is `Look` and `Write`, because the row
is looked up before the transaction that writes it begins. The API's tasks share one
event loop and save without an await, so `LoopIsFree` lets only the worker come between
an API task's look and its write. A changed column is written only if it differs from
what was looked up (`Updated`), as SQLAlchemy does; the key is unique, so that of two
that saw no row the second fails. A failed analysis answers a pipeline request with an
error while the others run on. Feedback is one step of the API; two feedbacks of
different processes are outside the model, and so are other isolation levels than
SQLite's.

Instance: a pipeline of two failed jobs, one of which a delivery analyses too, two
retries, one crash, one kind of feedback at any time.

* `AnswerMeansSaved`: a complete answer and an acknowledged delivery mean that every
  job has its incident, and an incident has the evidence of exactly one analysis.
* `FeedbackKept`: no analysis, late or repeated, takes back what a user said.
* `EveryTaskEnds`: requests are answered, deliveries acknowledged or given up.

Proved in `Services_proofs`, for any requests, jobs, deliveries, retries and crashes:
`IncidentsAnswerMeansSaved` and `IncidentsKeepFeedback`. Neither holds of the rows alone.
`IncidentsInv` adds that the row an analysis saw when it looked, and the one it saved,
are still there when it writes and when it is answered for (`SeenStays`); then a write
either inserts where there is no row and no evidence, or updates a row that exists
(`WriteLeavesARow`), and a crash after the commit begins the analysis again without
taking the row back. The only assumption beyond the shapes of the constants is that
`NoRow` is not a row. `IncidentsTypeCorrect` adds to it `HistoryTyped`: evidence is
of analyses, and a delivery still unanswered has been tried no more often than it may be.

## 11. `CiSources`

`asked` is what is loaded (the entry point, the includes of each file, what is denied or
nowhere, the limit of files), `load` the loop of `_load_ci_sources`: pending requests with
their ancestors, the batch and the stage of each of its reads, the cache, the budget of
operations, the files counted, the edges scheduled, the configurations, the notes of the
entry point and whether the report is partial for another reason.

A load begins (`SourcesInit`) as `_load_ci_sources` does at lines 1024 to 1039. The run names
a commit, a branch or an unusable ref; the project has no CI path, a path, or an unsafe one;
the entry point that results is a file of the repository, of another project at a commit or a
branch, or a URL (`_root_config_request`). A ref that is not a commit and a CI path each leave
a note (`EntryNotes`) that makes the report partial whatever is read; without a file to read,
with an unusable ref or an unsafe path the report is given at once, with no source (`Enterable`).

The reads of a batch interleave (`ReadProject`, `ReadReference`, `ReadCommit`, `ReadFile`) and
compete for budget and files; the batch is merged in order (`MergeBatch`). `ReadReference` is
`_resolve_reference`: a URL does not say where its ref ends and its path begins, so the
prefixes of its tail are looked up one by one, each a paid operation (`Misses` are those that
are no ref), and the last one pins the commit of a branch, too. A URL may also be of another
server, or have no ref that exists. External files are those of other projects. Left out is
the include that names the repository itself as a project or by a URL, which needs no lookup
of the project and is otherwise followed like these. What GitLab answers does not change
during one load.

Instance: every choice of includes among three files of the repository and two files
outside, one at a commit and one at a branch; a third one outside that is a URL at a branch,
while the one at a commit is a URL too, and the ref of each is found at the second try; a file
with five includes of which a limit of one file follows four; one file that is denied, hidden,
odd, on a foreign server or gone; entry points of all the kinds above; limits of 0, 1, 3 and 4
files, depth 2, batches of 2.

* `CompleteIsExact`: a report that calls itself complete is of a run's commit and of the
  default entry point, and has exactly the files that this reaches. One that calls itself
  partial has a reason: something denied, nowhere or not understood, a branch, a cycle, a
  limit or an unusable entry point; or the entry point is a branch's or a configured one, and
  then, if it has none of these other reasons, it still has every file. One exception is part
  of the property: a cycle closed through two files of one batch is not reported by the
  provider; the graph builder notes it later.

Proved in `Services_proofs`, for any entry point, repository, includes, troubles, limits and
order of the reads:

* `SourcesTypeCorrect`: files, edges, operations and requests stay within their limits. A
  budget is taken in one place and spent in another, so `SourcesInv` adds that each file
  expanded was counted, each operation cached was paid for and each request but the first
  is of a scheduled edge (`Limited`), and that the reads of a batch stay in step with its
  requests (`BatchInOrder`).
* `SourcesCompleteIsExact`: `CompleteIsExact` in full. `ExactInv` says four things of every
  moment of the load. Whatever is asked or expanded is reached from the entry point (`Found`). As
  long as the report is not partial, no file expanded has a trouble, and every include of
  one is scheduled and either answered or still waited for (`Sound`). What a read has
  found fits the trouble of its file (`StagesFit`). And without trouble, branch, cycle or
  limit the report is not partial but for the notes of the entry point, and the operations
  paid for are those of files that are reached and of the prefixes of their URLs (`Calm`), so that a budget that a reachable file exhausts is a reason of its own.
  At the end nothing is waited for; the expanded files then contain the entry point and are closed
  under includes, hence hold what is reached, by `ReachIsLeast`. The model defines what is
  reached by steps, as many as there are files. That this is a closed set (`ReachCloses`) is
  an argument by counting: a step that is not the last reaches another file. It is why
  `CiSourcesAssumption` says that a repository has finitely many files.

## 12. `PipelineInspection`

`pipeline` is the live pipeline: the jobs listed, their outcomes, its trigger jobs. Jobs
end and are retried (`JobEnds`, `JobRetried`) until they have been listed. `view` is
what the inspection has read and found: `ReadProjectMetadata`, `ReadSelectedJob`,
`ReadBranch`, `ReadRun`, `ReadJobs`, `ReadBridges`, `Choose`, the reads of evidence in
any order, `Analyze`, one step for each downstream pipeline, `Report`. Any read may be
denied, which makes the inspection partial; an answer about something else ends it
(`Mismatch`). A finding is its rule, its severity and its job. Left out: the artifacts,
the cuts of findings, notes and job lists at their maxima, the texts and locations, and
the semaphore of four, which only delays reads.

Instance: a job, a pipeline or a branch; three jobs of which one is retried and one may
fail, with every outcome of two of them; four trigger jobs: one back to this pipeline,
one allowed to fail and unknown, one successful, one with a failed job; two traces.

* `PassedIsProven`: "passed" is said only of a pipeline read as successful with nothing
  denied, no failed job listed, no trigger in trouble and no trace with an error,
  although status and jobs are read at different times.
* `TracesWellSpent`: the budget is kept, with the child's trace; the selected job gets
  one, a successful job only after all failed ones, and a failed child goes without one
  only if selected and failed jobs take all.
* `SuccessNotOverridden`: of a pipeline that GitLab reports successful nothing is
  reported as an error.

Proved in `Inspection_proofs`, for any jobs, pipelines, trigger jobs, references, limits
and signals: `PassedProven`, `TracesSpent`, `SuccessKept` and the types. The inductive
invariant `InspectionInv` is a predicate of `view` (`ViewInv`) and the shape of the live
pipeline (`PipelineFits`); because it says nothing else of the pipeline, a job that ends
or is retried between two reads cannot disturb it. `InOrder` says what cannot be there
yet at each place; `OutcomesKnown` that each listed job has an outcome; `Chosen` states
`TracesWellSpent` of the choice, with the trace reserved for a child; `Traced` that each
chosen job has been read by the time it is judged; `Judged` that a trouble which was
seen has left a finding above a note, since the status is computed from the findings;
`Told` that "passed" was only said when there was none. `JobsSelected` is the lemma
about `SelectJobs`: the order of its choice makes a successful job come after every
failed one, within the budget.

## 13. `Remediation`

`result` is the inspection's result, `repair` the reads and plans of
`enrich_remediations`: the paths wanted for each finding (`PlanReads`), the reads under
their semaphore of two (`BeginFetch`, `FetchSucceeds`, `FetchFails`), the plans
(`BuildPlans`), or the cancellation of the request. A text is named by its repository,
ref and path, or is scrubbed; the edit a rule makes inside a text is left out, a file
has something to edit or has not (`Wrong`). Of texts that disagree about one source
none is used (`Undisputed`).

Which files a finding is about, and in which order, is `Ranking`, one case for each rule of
`candidate_source_paths`, the compiler's included, whose files are read to be shown but not
edited. Of the ranking only the `MaxResults` best are candidates (`Best`); the code cuts the
rest without a word, and so does the model. `MAX_SOURCE_READS` is the same number, but it is
a limit of all findings together: a candidate beyond it leaves the mark `limited`. A plan is
likewise made of the best `MaxResults` sources (`Diffs`). What the bundle has at the commit
is not read again, and the code compares the ref and the path there but not the repository
(`Loaded`), so a fork's file may stand in for the one that is wanted; it is supplied, but
`Exact` keeps it from being proposed. The changes and the inventory of the root are nothing
to a child's job (`Changed`, `Known`).

Instance: findings of all rules, of the root's jobs, of a child's and of a job that was not
analysed, three at a time; eight files of the kinds the rules tell apart, three with a
secret: elsewhere in the file, in the hunk, or in what the edit makes of it (which the last
redaction then withdraws, `Withheld`); bundles with the file at the commit, scrubbed, at a
branch and from another repository; three candidates of each finding and three reads of all,
equal as in the code. In some states a finding has more than three relevant files, in others
the limit of reads falls between two findings, and in others two share a read.

* `ProposalsAreExact`: each diff is of a file of the finding's own repository as it is
  at the pipeline's commit, and shows nothing that redaction would change.
* `LacksAreNamed`: each file that ranks among the best of those a finding's rule is about was
  supplied at the commit, or its plan names the failed read, also when the read was shared
  with another finding, or the limit; and the limit is named only if all the reads that are
  allowed were asked for. The files behind the best are named nowhere: that a plan is silent
  about them is what the code does and its docstring says ("at most eight"), and no part of
  the property.

Proved in `Inspection_proofs`: `RemediationProposesExact`. `RepairInv` adds that the
files read are marked as redacted or are what is there at the commit (`ReadsAreGenuine`).
The bundles come from the inspection, and `RemediationAssumption` says of them what the
provider does when it makes them: a text that is not marked as redacted is the one at the
repository, ref and path it is stored under.

`RemediationTypeCorrect` and `RemediationNamesLacks` rest on `LackInv`: until the plans
are made, each read a finding asked for is waited for, under way, done or failed
(`ReadsAccounted`), and each of its candidates was in the bundle, was asked for or met
the limit. That the plan begins so is `AskedAccounts`, by going along the order of the
reads: the recursion of `Asked` gives every finding its read or the mark of the limit, also
when the read was asked for before, never asks for more than `MaxCandidateReads`, and marks
only when it has asked for as many. The order is known to hold every wanted read of every
finding (`OrderedHasEachWanted`), and the candidates to be the best of the ranking
(`BestAreFirst`). The proofs need the files to be finitely many, which
`RemediationAssumption` says.

## 14. Shared lemmas, the run `services`, and fairness

What a recursion computes is seldom provable for every input, since the induction
theorems of the library take an operator as a parameter. `Selection_proofs` goes round
this for a recursion over the positions of a sequence: `Selected` and the sums of the
cache are functions on `0..n` given by their value at 0 and a step, and a set of numbers
that contains 0 and with each number the next contains them all (`StepByStep`), because
a least number outside it would follow one inside. Each use names the property of a
prefix as a set. From it follow the lemmas that the other modules cite: the elements of
a selection are those in the set, in their order, no more of them than before; and what
`FlattenSeq` joins has all elements of its parts (`FlattenHasEach`).

The same for the sum over a finite set, which `MapThenSumSet` takes in an order that
nobody chose: a set of subsets that contains {} and each subset with all whose members
can be left out one at a time contains them all (`Subsets`). Hence the recursion of
`MapThenSumSet` has one solution (`AddingSame`, `AddingExists`), any element may be taken
first (`TotalTakesAny`), a part weighs no more than the whole (`TotalOfPart`), and a set
as much as its image under an injection that keeps the weights (`TotalOfImage`). The
knowledge cache needs them for its limit of bytes.

`services` checks all properties of sections 7 and 9 to 13, and the types of all of
them as one (`ServicesTypeOK`). `EveryTaskEnds` says that
the investigation, the analyses, the load, the inspection and the proposals end. The
fairness it assumes is that of the code's timeouts and scheduler: every await of the
code is bounded by a timeout, and an event loop runs what is ready; so each module
takes weak fairness of the steps of its own task (`AgentFairness`, `IncidentsFairness`
for each analysis and request, `SourcesFairness`, `InspectionFairness`,
`RemediationFairness`), and none of users, of GitLab, of crashes or of cancellations.
`RemediationFairness` says of the plan of the reads that it is made (`[]<>(pc # "plan")`),
which is weak fairness of `PlanReads`: that step is enabled wherever the reads are not yet
planned, and it plans them.
Deadlock is not checked in any run: every component may have nothing left to do.

That each component may be proved alone is itself proved (`Services_proofs`). A behaviour
of `ServicesSpec`, with any of the components under way at once, is for each of them
either a behaviour of its own specification or one in which it is at rest for ever
(`RunApart`): a step of `ServicesNext` is a step of one and leaves the others'
variables alone (`StepsApart`), and what is at rest can do nothing. From it and from the
components' theorems follow `ServicesTypeCorrect` (`ServicesTypeOK`) and
`ServicesKeepTheirPromises`, all the safety properties of the run, the action property
`FeedbackKept` included, for every value of the constants. `MCInit` is a case of
`ServicesInit`.

What is left to do. For each component a number is defined, from the places of its
tasks, the budgets they have left and what is still queued, and it is proved that it
stays within a bound given by the constants and that every step of the component makes
it smaller: `SupervisorWindsDown` (`4 * N + 6`), `AgentWindsDown`
(`MaxTurns * (CallsPerReply + 2) + 1`), `AnalysesWindDown` (six for each attempt, of
which there are no more than `MaxRetries + MaxCrashes + 1`), `LoadWindsDown`
(`402 * (4 * Parallel + 2) + 3 * limit + RefCandidates`, since a batch uses up room for
edges, also in a cycle of includes, and a prefix that is no ref uses up budget), `InspectionWindsDown` (20) and `RemediationWindsDown`
(`2 * MaxCandidateReads + 2`); side by side in any interleaving `ServicesWindDown`, and
for a request of the inspection API `RequestsWindDown`, for a harvest run
`HarvestWindsDown` (section 3). So none of them can go round in
circles, whatever is answered, and no fairness is needed for that. What the theorems
leave open is whether a component that has not ended has a step to take and is given
it: this half, with ENABLED and the fairness, is `EveryTaskEnds`, `RunsEnd` and
`EveryRequestAnswered`, which TLC checks. The bounds count the steps of the model, not
seconds.

## 15. Only model-checked, and not modelled

By TLC alone:

* all liveness (`RunsEnd`, `EveryRequestAnswered`, `SignalIsHonoured`, `OneEndStopsAll`,
  `EveryTaskEnds`), since liveness under fairness is beyond the prover. Of
  each of them the half that needs none, that no component takes steps for ever, is
  proved (section 14).

Not modelled: the dashboard (a user interface), the GitHub provider and the offline
corpus command (no state), the paginated listings and the artifact reader of the GitLab
provider, redaction, URL parsing and the tables of diagnosis and patch rules, whose
correctness is a matter of the text. Of the main API only what changes incidents is
modelled, of the model clients only the rule that a diagnosis must be grounded.

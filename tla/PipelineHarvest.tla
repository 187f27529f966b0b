-------------------------- MODULE PipelineHarvest --------------------------
(***************************************************************************)
(* The GitLab failure corpus and the processes that write it               *)
(* (services/pipeline_corpus.py): the SQLite store of pipelines, sampled   *)
(* jobs and one checkpoint; the writer lease; a harvest run, which         *)
(* discovers failed pipelines page by page and then collects their jobs in *)
(* small batches of concurrent tasks; the offline reevaluation; and what   *)
(* goes wrong under them: refused requests, rejected tokens, rate limits,  *)
(* a locked or full database, cancellation, a crash and the next run.      *)
(*                                                                         *)
(* One action is at most one database commit, so a crash falls between any *)
(* two of them. A network request is two steps (sent, answered) and the    *)
(* handling of its answer a third, so the tasks of a batch interleave at   *)
(* every await of the code, and at a few more points (between two          *)
(* consecutive commits of one task).                                       *)
(***************************************************************************)
EXTENDS Integers, Sequences, FiniteSets

CONSTANTS
    Procs,          \* operating-system processes that may harvest or reevaluate
    Paths,          \* project paths (project_key: origin and path)
    Plans,          \* what a harvest may be asked for: sequences of distinct paths
    ProjectIds,     \* numeric project ids GitLab may resolve a path to
    PipelineIds,    \* numeric ids of failed pipelines
    JobIds,         \* ids of failed jobs
    PerProject,     \* pipelines wanted of each project
    Concurrency,    \* tasks of a batch
    MaxPipelines,   \* the store's pipeline capacity
    MaxProjects,    \* the store's project capacity
    MaxListPages,   \* MAX_LIST_PAGES
    TraceOutcomes,  \* what a readable trace can be classified as
    MaxRuns,        \* bound: lease acquisitions of a behaviour
    MaxFaults,      \* bound: crashes, cancellations and failed commits
    NoOne           \* not a process, a record or an id

ASSUME PlanAssumption == \A plan \in Plans :
    /\ plan \in Seq(Paths) /\ plan # <<>>
    /\ \A i, j \in DOMAIN plan : i # j => plan[i] # plan[j]
ASSUME IdAssumption ==
    /\ PipelineIds \subseteq Nat /\ IsFiniteSet(PipelineIds) /\ IsFiniteSet(ProjectIds)
    /\ IsFiniteSet(JobIds)
    /\ NoOne \notin Procs \cup Paths \cup Nat \cup {"capacity", "provider_error"}
ASSUME BoundAssumption ==
    /\ {PerProject, Concurrency, MaxListPages} \subseteq Nat \ {0}
    /\ {MaxPipelines, MaxProjects, MaxRuns, MaxFaults} \subseteq Nat
ASSUME OutcomeAssumption ==
    TraceOutcomes \subseteq {"analyzed", "unknown", "analysis_error", "empty"}

VARIABLES
    pipes,   \* the pipelines table: key -> record, NoPipe where there is no row
    jobs,    \* the jobs table: (key, job id) -> record, NoJob where there is no row
    ckpt,    \* the checkpoint row, NoOne before the first run
    lease,   \* the holder of .writer.lock
    pc,      \* where each process is in harvest_pipelines / reevaluate_corpus
    run,     \* each process's _Harvest object and the locals of run
    disc,    \* the locals of its discover
    latch,   \* each process's CorpusGitLabProvider.rate_limited
    at,      \* where the task of a pipeline is in collect, "off" when there is none
    local,   \* the task's own copy of the pipeline record
    todo,    \* the selected jobs the task has still to fetch
    job,     \* the job whose trace the task is fetching
    ans,     \* the answer to the task's last request
    runs,    \* lease acquisitions so far; also the source of fresh batch ids
    faults   \* faults so far

store    == <<pipes, jobs, ckpt>>
taskVars == <<at, local, todo, job, ans>>
vars     == <<store, lease, pc, run, disc, latch, taskVars, runs, faults>>

-----------------------------------------------------------------------------
(* Data. *)

Keys      == ProjectIds \X PipelineIds      \* (project_id, pipeline_id); one origin
Batches   == 1..MaxRuns
StopCodes == {401, 429}                     \* rejected token, rate limit
Codes     == StopCodes \cup {404}           \* 404: any other refusal or transport error
TooLarge  == 413                            \* _TraceTooLarge
Stopped   == {"rate_limited", "access_denied", "capacity", "provider_error",
              "interrupted", "complete", "shortfall"}
RunStates == {"collecting"} \cup Stopped
Classified == {"analyzed", "unknown", "analysis_error"}   \* samples that keep a log
Listings  == {"pending", "listed", "exhausted", "unreadable", "invalid", "page_limit"}
Samples   == {S \in SUBSET JobIds : Cardinality(S) <= 2}   \* what is sampled of a job list

\* Answers to a task's request.
Refused(c) == [kind |-> "refused", code |-> c]
Listed(S)  == [kind |-> "listed", jobs |-> S]
Traced(s)  == [kind |-> "traced", state |-> s]
Malformed  == [kind |-> "malformed"]
NoAnswer   == [kind |-> "none"]
Answers    == {Refused(c) : c \in Codes \cup {TooLarge}} \cup {Listed(S) : S \in Samples}
                \cup {Traced(s) : s \in TraceOutcomes} \cup {Malformed, NoAnswer}

PipelineRecord ==
    [project_key : Paths, batch : Batches, listing : {"pending", "listed", "unreadable"},
     selected : SUBSET JobIds, complete : BOOLEAN, http : Codes \cup {502, NoOne}]
NoPipe == [project_key |-> NoOne]

JobRecord ==
    [state : {"pending", "empty", "unreadable", "oversized"} \cup Classified,
     http : Codes \cup {TooLarge, NoOne}]
NoJob     == [state |-> "none", http |-> NoOne]
Fresh     == [state |-> "pending", http |-> NoOne]

Rows            == {k \in Keys : pipes[k] # NoPipe}
Sampled(k)      == {j \in JobIds : jobs[k][j] # NoJob}
Pending(k)      == {j \in JobIds : jobs[k][j].state = "pending"}
BatchRows(b)    == {k \in Rows : pipes[k].batch = b}
ProjectKeys     == {pipes[k].project_key : k \in Rows}

-----------------------------------------------------------------------------
(* What _validate demands of a store before this process may use it. *)

RowConsistent(k) ==
    IF pipes[k] = NoPipe
    THEN Sampled(k) = {}
    ELSE /\ pipes[k].selected = Sampled(k)
         /\ pipes[k].complete => Pending(k) = {}
         /\ pipes[k].listing # "listed" => Sampled(k) = {}
         /\ pipes[k].listing = "pending" => ~ pipes[k].complete

RowsConsistent == \A k \in Keys : RowConsistent(k) /\ Cardinality(Sampled(k)) <= 2
PipelineCap    == Cardinality(Rows) <= MaxPipelines
ProjectCap     == Cardinality({k[1] : k \in Rows}) <= MaxProjects

Validates == RowsConsistent /\ PipelineCap /\ ProjectCap

\* _save_pipeline: capacity is only checked for a new row, and the projects
\* are counted by path.
HasRoom(k, path) ==
    pipes[k] = NoPipe =>
        /\ Cardinality(Rows) < MaxPipelines
        /\ path \in ProjectKeys \/ Cardinality(ProjectKeys) < MaxProjects

-----------------------------------------------------------------------------
(* The run. *)

NewRun(b, plan) ==
    [batch |-> b, plan |-> plan, state |-> "collecting", index |-> 1, resolved |-> {},
     listing |-> [path \in Paths |-> "pending"], failure |-> NoOne]
NoRun == NewRun(0, <<>>)

RunRecord ==
    [batch : 0..MaxRuns, plan : Plans \cup {<<>>}, state : RunStates, index : Nat \ {0},
     resolved : SUBSET ProjectIds, listing : [Paths -> Listings],
     failure : {"capacity", "provider_error", NoOne}]

\* discover: the project, the page being read, what was selected so far, the
\* lowest id of the pages before, the page's new ids, and how the page ended.
NewListing(id) ==
    [project |-> id, page |-> 1, selected |-> {}, floor |-> NoOne, new |-> {}, more |-> "next"]

ListingRecord ==
    [project : ProjectIds \cup {NoOne}, page : Nat, selected : SUBSET PipelineIds,
     floor : PipelineIds \cup {NoOne}, new : SUBSET PipelineIds, more : {"next", "last", "bad"}]

CheckpointRecord ==
    [batch : Batches, plan : Plans, state : RunStates, listing : [Paths -> Listings]]

Checkpoint(r) == [batch |-> r.batch, plan |-> r.plan, state |-> r.state, listing |-> r.listing]

\* _stop_for: the run state after a provider error; a later error may replace
\* the reason, and any other error leaves it alone.
StopFor(state, code) ==
    IF code = 429 THEN "rate_limited" ELSE IF code = 401 THEN "access_denied" ELSE state

NoTasks(p) ==
    /\ at'    = [at    EXCEPT ![p] = [k \in Keys |-> "off"]]
    /\ local' = [local EXCEPT ![p] = [k \in Keys |-> NoPipe]]
    /\ todo'  = [todo  EXCEPT ![p] = [k \in Keys |-> {}]]
    /\ job'   = [job   EXCEPT ![p] = [k \in Keys |-> NoOne]]
    /\ ans'   = [ans   EXCEPT ![p] = [k \in Keys |-> NoAnswer]]

\* Leaving the writer's with block, by return, exception or death.
Release(p) ==
    /\ lease' = IF lease = p THEN NoOne ELSE lease
    /\ pc' = [pc EXCEPT ![p] = "idle"]
    /\ run' = [run EXCEPT ![p] = NoRun]
    /\ disc' = [disc EXCEPT ![p] = NewListing(NoOne)]
    /\ latch' = [latch EXCEPT ![p] = FALSE]
    /\ NoTasks(p)

Init ==
    /\ pipes = [k \in Keys |-> NoPipe]
    /\ jobs = [k \in Keys |-> [j \in JobIds |-> NoJob]]
    /\ ckpt = NoOne
    /\ lease = NoOne
    /\ pc = [p \in Procs |-> "idle"]
    /\ run = [p \in Procs |-> NoRun]
    /\ disc = [p \in Procs |-> NewListing(NoOne)]
    /\ latch = [p \in Procs |-> FALSE]
    /\ at = [p \in Procs |-> [k \in Keys |-> "off"]]
    /\ local = [p \in Procs |-> [k \in Keys |-> NoPipe]]
    /\ todo = [p \in Procs |-> [k \in Keys |-> {}]]
    /\ job = [p \in Procs |-> [k \in Keys |-> NoOne]]
    /\ ans = [p \in Procs |-> [k \in Keys |-> NoAnswer]]
    /\ runs = 0
    /\ faults = 0

-----------------------------------------------------------------------------
(* Starting: the writer lease, the first open of the store, the first save. *)

\* _writer: flock LOCK_EX | LOCK_NB. A process that finds the lock held is
\* refused at once and changes nothing.
LeaseFree == lease = NoOne

Acquire(p, mode) ==
    /\ pc[p] = "idle"
    /\ runs < MaxRuns
    /\ LeaseFree
    /\ lease' = p
    /\ runs' = runs + 1
    /\ pc' = [pc EXCEPT ![p] = mode]
    /\ \E plan \in Plans : run' = [run EXCEPT ![p] = NewRun(runs + 1, plan)]
    /\ UNCHANGED <<store, disc, latch, taskVars, faults>>

\* initialize() opens the store for writing, which validates all of it; a
\* store that does not validate is left as it is and the program stops.
OpenHarvest(p) ==
    /\ pc[p] = "open_harvest"
    /\ Validates
    /\ pc' = [pc EXCEPT ![p] = "begin"]
    /\ UNCHANGED <<store, lease, run, disc, latch, taskVars, runs, faults>>

OpenReevaluation(p) ==
    /\ pc[p] = "open_reevaluation"
    /\ Validates
    /\ pc' = [pc EXCEPT ![p] = "reevaluate"]
    /\ todo' = [todo EXCEPT ![p] =
                  [k \in Keys |-> {j \in JobIds : jobs[k][j].state \in Classified}]]
    /\ UNCHANGED <<store, lease, run, disc, latch, at, local, job, ans, runs, faults>>

OpenRefused(p) ==
    /\ pc[p] \in {"open_harvest", "open_reevaluation"}
    /\ ~ Validates
    /\ Release(p)
    /\ UNCHANGED <<store, runs, faults>>

\* The save() that opens run(): the checkpoint now speaks of this batch.
Begin(p) ==
    /\ pc[p] = "begin"
    /\ ckpt' = Checkpoint(run[p])
    /\ pc' = [pc EXCEPT ![p] = "resolve"]
    /\ UNCHANGED <<pipes, jobs, lease, run, disc, latch, taskVars, runs, faults>>

-----------------------------------------------------------------------------
(* Discovery: one coroutine, the projects in order, pages of a listing. *)

\* What GitLab says of request c: the provider latches a rate limit.
Latch(p, c) == latch' = [latch EXCEPT ![p] = @ \/ c = 429]

\* The current project's listing ends: save(index, listing_state=...), then
\* the next project.
EndListing(p, listing, state) ==
    LET path  == run[p].plan[run[p].index]
        ended == [run[p] EXCEPT !.state = state, !.index = @ + 1,
                                !.listing = [@ EXCEPT ![path] = listing]]
    IN  /\ ckpt' = Checkpoint(ended)
        /\ run' = [run EXCEPT ![p] = ended]
        /\ disc' = [disc EXCEPT ![p] = NewListing(NoOne)]
        /\ pc' = [pc EXCEPT ![p] = "resolve"]

ProviderFails(p) ==
    \E c \in Codes :
        /\ Latch(p, c)
        /\ EndListing(p, "unreadable", StopFor(run[p].state, c))

MoreProjects(r) == r.state = "collecting" /\ r.index <= Len(r.plan)

ResolveProject(p) ==
    /\ pc[p] = "resolve"
    /\ MoreProjects(run[p])
    /\ \/ /\ \E id \in ProjectIds \ run[p].resolved :
              /\ run' = [run EXCEPT ![p].resolved = @ \cup {id}]
              /\ disc' = [disc EXCEPT ![p] = NewListing(id)]
          /\ ckpt' = Checkpoint(run[p])
          /\ pc' = [pc EXCEPT ![p] = "page"]
          /\ UNCHANGED latch
       \/ \* another path, or an id this run already has: CorpusError
          /\ run' = [run EXCEPT ![p].state = "provider_error"]
          /\ pc' = [pc EXCEPT ![p] = "final"]
          /\ UNCHANGED <<ckpt, disc, latch>>
       \/ ProviderFails(p)
    /\ UNCHANGED <<pipes, jobs, lease, taskVars, runs, faults>>

\* A page of failed pipelines. An id above the floor of what was selected from
\* the pages before means that the listing moved under the run.
ReadPage(p) ==
    /\ pc[p] = "page"
    /\ \/ ProviderFails(p)
       \/ /\ EndListing(p, "invalid", run[p].state)      \* malformed payload
          /\ UNCHANGED latch
       \/ \E items \in SUBSET PipelineIds, more \in {"next", "last", "bad"} :
            LET new   == items \ disc[p].selected
                moved == disc[p].floor # NoOne /\ \E x \in new : x > disc[p].floor
            IN  /\ Cardinality(items) <= PerProject
                /\ UNCHANGED latch
                /\ IF moved
                   THEN EndListing(p, "invalid", run[p].state)
                   ELSE /\ disc' = [disc EXCEPT ![p] =
                             [@ EXCEPT !.new = new,
                                !.more = IF new = {} /\ more = "next" THEN "bad" ELSE more]]
                        /\ pc' = [pc EXCEPT ![p] = "put"]
                        /\ UNCHANGED <<ckpt, run>>
    /\ UNCHANGED <<pipes, jobs, lease, taskVars, runs, faults>>

PageDone(d) == d.new = {} \/ Cardinality(d.selected) = PerProject

\* The record discover stores: a known pipeline keeps everything but its batch.
Seen_Anew(k, path, b) ==                     \* mutant: a known pipeline starts again
    [project_key |-> path, batch |-> b, listing |-> "pending", selected |-> {},
     complete |-> FALSE, http |-> NoOne]
Seen(k, path, b) ==
    IF pipes[k] # NoPipe
    THEN [pipes[k] EXCEPT !.batch = b]
    ELSE [project_key |-> path, batch |-> b, listing |-> "pending", selected |-> {},
          complete |-> FALSE, http |-> NoOne]

\* The new pipelines of a page, newest first, one commit each.
PutPipeline(p) ==
    LET path == run[p].plan[run[p].index]
    IN  /\ pc[p] = "put"
        /\ ~ PageDone(disc[p])
        /\ \E id \in disc[p].new :
            /\ \A other \in disc[p].new : other <= id
            /\ LET k == <<disc[p].project, id>>
               IN  IF HasRoom(k, path)
                   THEN /\ pipes' = [pipes EXCEPT ![k] = Seen(k, path, run[p].batch)]
                        /\ disc' = [disc EXCEPT ![p] =
                             [@ EXCEPT !.new = disc[p].new \ {id},
                                       !.selected = disc[p].selected \cup {id}]]
                        /\ UNCHANGED <<pc, run>>
                   ELSE /\ run' = [run EXCEPT ![p].state = "capacity"]
                        /\ pc' = [pc EXCEPT ![p] = "final"]
                        /\ UNCHANGED <<pipes, disc>>
        /\ UNCHANGED <<jobs, ckpt, lease, latch, taskVars, runs, faults>>

\* The end of a page: enough pipelines, no more pages, a listing that does not
\* add up, or the next page unless this was the last one allowed.
NextPage(d) == Cardinality(d.selected) # PerProject /\ d.more = "next" /\ d.page < MaxListPages

ListingState(d) ==
    IF Cardinality(d.selected) = PerProject THEN "listed"
    ELSE IF d.more = "last" THEN "exhausted"
    ELSE IF d.more = "bad" THEN "invalid" ELSE "page_limit"

FinishPage(p) ==
    /\ pc[p] = "put"
    /\ PageDone(disc[p])
    /\ IF NextPage(disc[p])
       THEN /\ \E oldest \in disc[p].selected :
                /\ \A other \in disc[p].selected : oldest <= other
                /\ disc' = [disc EXCEPT ![p] =
                              [@ EXCEPT !.page = disc[p].page + 1, !.floor = oldest, !.new = {}]]
            /\ ckpt' = Checkpoint(run[p])
            /\ pc' = [pc EXCEPT ![p] = "page"]
            /\ UNCHANGED run
       ELSE EndListing(p, ListingState(disc[p]), run[p].state)
    /\ UNCHANGED <<pipes, jobs, lease, latch, taskVars, runs, faults>>

\* No project is left or the run has stopped: read the pipelines of the batch.
PlanCollection(p) ==
    /\ pc[p] = "resolve"
    /\ ~ MoreProjects(run[p])
    /\ pc' = [pc EXCEPT ![p] = "batch"]
    /\ at' = [at EXCEPT ![p] =
                [k \in Keys |-> IF k \in BatchRows(run[p].batch) THEN "queued" ELSE "off"]]
    /\ local' = [local EXCEPT ![p] =
                   [k \in Keys |-> IF k \in BatchRows(run[p].batch) THEN pipes[k] ELSE NoPipe]]
    /\ UNCHANGED <<store, lease, run, disc, latch, todo, job, ans, runs, faults>>

-----------------------------------------------------------------------------
(* Collection: batches of tasks, each on its own pipeline. *)

Tasks(p, where) == {k \in Keys : at[p][k] = where}

\* The next Concurrency pipelines, by descending pipeline id.
LaunchBatch(p) ==
    /\ pc[p] = "batch"
    /\ run[p].state = "collecting"
    /\ Tasks(p, "queued") # {}
    /\ \E B \in SUBSET Tasks(p, "queued") :
        /\ Cardinality(B) = IF Cardinality(Tasks(p, "queued")) < Concurrency
                            THEN Cardinality(Tasks(p, "queued")) ELSE Concurrency
        /\ \A k \in B, q \in Tasks(p, "queued") \ B : k[2] >= q[2]
        /\ at' = [at EXCEPT ![p] = [k \in Keys |-> IF k \in B THEN "start" ELSE at[p][k]]]
    /\ pc' = [pc EXCEPT ![p] = "gather"]
    /\ UNCHANGED <<store, lease, run, disc, latch, local, todo, job, ans, runs, faults>>

\* A task returns and drops its locals.
Return(p, k) ==
    /\ at' = [at EXCEPT ![p][k] = "off"]
    /\ local' = [local EXCEPT ![p][k] = NoPipe]
    /\ todo' = [todo EXCEPT ![p][k] = {}]
    /\ job' = [job EXCEPT ![p][k] = NoOne]
    /\ ans' = [ans EXCEPT ![p][k] = NoAnswer]

\* _request: behind a latched rate limit no request is sent; the caller gets
\* the 429 itself.
Send_Unlatched(p, k, waiting, answered) ==   \* mutant: rate_limited is not read
    at' = [at EXCEPT ![p][k] = waiting] /\ UNCHANGED ans
Send(p, k, waiting, answered) ==
    IF latch[p]
    THEN at' = [at EXCEPT ![p][k] = answered] /\ ans' = [ans EXCEPT ![p][k] = Refused(429)]
    ELSE at' = [at EXCEPT ![p][k] = waiting] /\ UNCHANGED ans

StartTask(p, k) ==
    /\ at[p][k] = "start"
    /\ IF local[p][k].complete \/ run[p].state # "collecting"
       THEN Return(p, k)
       ELSE /\ IF local[p][k].listing = "pending"
               THEN Send(p, k, "list", "listed") /\ UNCHANGED todo
               ELSE /\ at' = [at EXCEPT ![p][k] = "jobs"]
                    /\ todo' = [todo EXCEPT ![p][k] = Pending(k)]
                    /\ UNCHANGED ans
            /\ UNCHANGED <<local, job>>
    /\ UNCHANGED <<store, lease, pc, run, disc, latch, runs, faults>>

\* list_pipeline_jobs asks for one page after another.
NextJobPage(p, k) ==
    /\ at[p][k] = "list"
    /\ latch[p]
    /\ Send(p, k, "list", "listed")
    /\ UNCHANGED <<store, lease, pc, run, disc, latch, local, todo, job, runs, faults>>

Answered(p, k, answered, a) ==
    /\ at' = [at EXCEPT ![p][k] = answered]
    /\ ans' = [ans EXCEPT ![p][k] = a]
    /\ UNCHANGED <<store, lease, pc, run, disc, local, todo, job, runs, faults>>

\* The job list is refused, cannot be parsed, or yields at most two failed jobs.
AnswerJobs(p, k) ==
    /\ at[p][k] = "list"
    /\ \/ \E c \in Codes : Answered(p, k, "listed", Refused(c)) /\ Latch(p, c)
       \/ \E S \in Samples : Answered(p, k, "listed", Listed(S)) /\ UNCHANGED latch
       \/ Answered(p, k, "listed", Malformed) /\ UNCHANGED latch

\* The trace is refused, is over MAX_TRACE_BYTES, or is read and classified.
AnswerTrace(p, k) ==
    /\ at[p][k] = "trace"
    /\ \/ \E c \in Codes \cup {TooLarge} :
            Answered(p, k, "traced", Refused(c)) /\ Latch(p, c)
       \/ \E s \in TraceOutcomes : Answered(p, k, "traced", Traced(s)) /\ UNCHANGED latch

\* _stop_for: the error stops the run, or finds it already stopped by another
\* task. The task then returns and leaves its pipeline unfinished.
Stops_Already(p, k) ==                       \* mutant: only an earlier stop counts
    ans[p][k].kind = "refused" /\ run[p].state # "collecting"
Stops(p, k) == /\ ans[p][k].kind = "refused"
               /\ StopFor(run[p].state, ans[p][k].code) # "collecting"

StopTask(p, k) ==
    /\ at[p][k] \in {"listed", "traced"}
    /\ Stops(p, k)
    /\ run' = [run EXCEPT ![p].state = StopFor(@, ans[p][k].code)]
    /\ Return(p, k)
    /\ UNCHANGED <<store, lease, pc, disc, latch, runs, faults>>

\* Any other refusal, and a list that cannot be parsed, is an observation.
JobsUnreadable(p, k) ==
    /\ at[p][k] = "listed"
    /\ ans[p][k].kind \in {"refused", "malformed"}
    /\ ~ Stops(p, k)
    /\ pipes' = [pipes EXCEPT ![k] =
                   [local[p][k] EXCEPT !.listing = "unreadable", !.complete = TRUE,
                      !.http = IF ans[p][k] = Malformed THEN 502 ELSE ans[p][k].code]]
    /\ Return(p, k)
    /\ UNCHANGED <<jobs, ckpt, lease, pc, run, disc, latch, runs, faults>>

\* The pipeline and its pending samples, in one transaction.
JobsListed(p, k) ==
    /\ at[p][k] = "listed"
    /\ ans[p][k].kind = "listed"
    /\ LET sampled == ans[p][k].jobs
           record  == [local[p][k] EXCEPT !.listing = "listed", !.selected = sampled,
                                          !.complete = (sampled = {})]
       IN  /\ pipes' = [pipes EXCEPT ![k] = record]
           /\ jobs' = [jobs EXCEPT ![k] = [j \in JobIds |-> IF j \in sampled THEN Fresh ELSE @[j]]]
           /\ local' = [local EXCEPT ![p][k] = record]
           /\ todo' = [todo EXCEPT ![p][k] = sampled]
    /\ at' = [at EXCEPT ![p][k] = "jobs"]
    /\ ans' = [ans EXCEPT ![p][k] = NoAnswer]
    /\ UNCHANGED <<ckpt, lease, pc, run, disc, latch, job, runs, faults>>

\* The loop over the selected jobs: a stopped run leaves it before the next
\* job; the jobs an earlier run observed come first and are passed over.
LeaveJobs_Never(p, k) == FALSE              \* mutant: a stopped run's task stays
LeaveJobs(p, k) ==
    /\ at[p][k] = "jobs"
    /\ todo[p][k] # {}
    /\ run[p].state # "collecting"
    /\ Return(p, k)
    /\ UNCHANGED <<store, lease, pc, run, disc, latch, runs, faults>>

FetchTrace(p, k) ==
    /\ at[p][k] = "jobs"
    /\ run[p].state = "collecting"
    /\ \E j \in todo[p][k] :
        /\ job' = [job EXCEPT ![p][k] = j]
        /\ todo' = [todo EXCEPT ![p][k] = @ \ {j}]
    /\ Send(p, k, "trace", "traced")
    /\ UNCHANGED <<store, lease, pc, run, disc, latch, local, runs, faults>>

\* What _put_job stores for an answer that does not stop the run.
Observation(a) ==
    IF a.kind = "traced"
    THEN [state |-> a.state, http |-> NoOne]
    ELSE [state |-> IF a.code = TooLarge THEN "oversized" ELSE "unreadable", http |-> a.code]

RecordTrace(p, k) ==
    /\ at[p][k] = "traced"
    /\ ~ Stops(p, k)
    /\ jobs' = [jobs EXCEPT ![k][job[p][k]] = Observation(ans[p][k])]
    /\ at' = [at EXCEPT ![p][k] = "jobs"]
    /\ job' = [job EXCEPT ![p][k] = NoOne]
    /\ ans' = [ans EXCEPT ![p][k] = NoAnswer]
    /\ UNCHANGED <<pipes, ckpt, lease, pc, run, disc, latch, local, todo, runs, faults>>

\* Every selected job was observed; the run may have stopped meanwhile.
AllObserved_Assumed(p, k) == TRUE           \* mutant: closed with pending samples
AllObserved(p, k) == todo[p][k] = {}

FinishPipeline(p, k) ==
    /\ at[p][k] = "jobs"
    /\ AllObserved(p, k)
    /\ pipes' = [pipes EXCEPT ![k] = [local[p][k] EXCEPT !.complete = TRUE]]
    /\ Return(p, k)
    /\ UNCHANGED <<jobs, ckpt, lease, pc, run, disc, latch, runs, faults>>

CollectStep(p, k) ==
    \/ StartTask(p, k) \/ NextJobPage(p, k) \/ StopTask(p, k)
    \/ JobsUnreadable(p, k) \/ JobsListed(p, k)
    \/ LeaveJobs(p, k) \/ FetchTrace(p, k) \/ RecordTrace(p, k) \/ FinishPipeline(p, k)

ServerStep(p, k) == AnswerJobs(p, k) \/ AnswerTrace(p, k)

\* gather has every task back without an error: save() and the next batch.
\* Pipelines of later batches stay queued.
EndBatch(p) ==
    /\ pc[p] = "gather"
    /\ run[p].failure = NoOne
    /\ \A k \in Keys : at[p][k] \in {"off", "queued"}
    /\ ckpt' = Checkpoint(run[p])
    /\ pc' = [pc EXCEPT ![p] = "batch"]
    /\ UNCHANGED <<pipes, jobs, lease, run, disc, latch, taskVars, runs, faults>>

\* A task raised: gather passes its error on, the others are cancelled at
\* their awaits.
CancelBatch(p) ==
    /\ pc[p] = "gather"
    /\ run[p].failure # NoOne
    /\ run' = [run EXCEPT ![p].state = run[p].failure]
    /\ pc' = [pc EXCEPT ![p] = "final"]
    /\ NoTasks(p)
    /\ UNCHANGED <<store, lease, disc, latch, runs, faults>>

CollectionOver_Early(p) == TRUE             \* mutant: later batches are dropped
CollectionOver(p) == run[p].state # "collecting" \/ Tasks(p, "queued") = {}

EndCollection(p) ==
    /\ pc[p] = "batch"
    /\ CollectionOver(p)
    /\ pc' = [pc EXCEPT ![p] = "final"]
    /\ NoTasks(p)
    /\ UNCHANGED <<store, lease, run, disc, latch, runs, faults>>

-----------------------------------------------------------------------------
(* The report of a run, and reevaluation. *)

\* The report counts the rows of the batch under the path of each project.
Asked(r)      == {r.plan[i] : i \in DOMAIN r.plan}
Counted(r)    == {k \in BatchRows(r.batch) : pipes[k].project_key \in Asked(r)}
Completed(r)  == {k \in Counted(r) : pipes[k].complete}
Target(r)     == PerProject * Len(r.plan)
TargetMet(r)  == /\ \A path \in Asked(r) : r.listing[path] = "listed"
                 /\ Cardinality(Counted(r)) = Target(r)
                 /\ Cardinality(Completed(r)) = Target(r)

FinalState(r) ==
    IF r.state # "collecting" THEN r.state
    ELSE IF TargetMet(r) THEN "complete" ELSE "shortfall"

Finish(p) ==
    /\ pc[p] = "final"
    /\ ckpt' = Checkpoint([run[p] EXCEPT !.state = FinalState(run[p])])
    /\ Release(p)
    /\ UNCHANGED <<pipes, jobs, runs, faults>>

\* reevaluate_corpus: every sample with a log is classified again, one commit
\* each.
Reclassify(p) ==
    /\ pc[p] = "reevaluate"
    /\ \E k \in Keys, s \in TraceOutcomes \cap Classified : \E j \in todo[p][k] :
        /\ jobs' = [jobs EXCEPT ![k][j] = [state |-> s, http |-> NoOne]]
        /\ todo' = [todo EXCEPT ![p][k] = @ \ {j}]
    /\ UNCHANGED <<pipes, ckpt, lease, pc, run, disc, latch, at, local, job, ans, runs, faults>>

EndReevaluation(p) ==
    /\ pc[p] = "reevaluate"
    /\ \A k \in Keys : todo[p][k] = {}
    /\ Release(p)
    /\ UNCHANGED <<store, runs, faults>>

-----------------------------------------------------------------------------
(* Faults. *)

Fault == faults < MaxFaults /\ faults' = faults + 1

\* A reader holds the database locked (no busy retries), or the file is full.
\* Nothing of the transaction stays. Which handler the error meets:
\* - discovery, or a save() between batches: the run's handlers, then the report
CommitFails(p) ==
    /\ Fault
    /\ pc[p] \in {"resolve", "page", "put", "gather"}
    /\ pc[p] = "resolve" => MoreProjects(run[p])
    /\ pc[p] = "gather" => /\ run[p].failure = NoOne
                           /\ \A k \in Keys : at[p][k] \in {"off", "queued"}
    /\ \E s \in {"capacity", "provider_error"} : run' = [run EXCEPT ![p].state = s]
    /\ pc' = [pc EXCEPT ![p] = "final"]
    /\ NoTasks(p)
    /\ UNCHANGED <<store, lease, disc, latch, runs>>

\* - a task of a batch: the task dies, gather will pass on the first such error
TaskCommitFails(p, k) ==
    /\ Fault
    /\ \/ at[p][k] \in {"listed", "traced"} /\ ~ Stops(p, k)
       \/ at[p][k] = "jobs" /\ todo[p][k] = {}
    /\ \E s \in {"capacity", "provider_error"} :
         run' = [run EXCEPT ![p].failure = IF @ = NoOne THEN s ELSE @]
    /\ Return(p, k)
    /\ UNCHANGED <<store, lease, pc, disc, latch, runs>>

\* - initialize, the first save(), the last one, or a reevaluation: out of the
\*   with block (a last save() that meets a full database is reported, not raised)
LastCommitFails(p) ==
    /\ Fault
    /\ pc[p] \in {"open_harvest", "open_reevaluation", "begin", "final", "reevaluate"}
    /\ Release(p)
    /\ UNCHANGED <<store, runs>>

\* CancelledError at an await inside run's try: the tasks are cancelled and the
\* checkpoint says so.
Interrupt(p) ==
    /\ Fault
    /\ pc[p] \in {"resolve", "page", "gather"}
    /\ ckpt' = Checkpoint([run[p] EXCEPT !.state = "interrupted"])
    /\ Release(p)
    /\ UNCHANGED <<pipes, jobs, runs>>

\* The process dies; the operating system drops its lock.
Crash(p) ==
    /\ Fault
    /\ pc[p] # "idle"
    /\ Release(p)
    /\ UNCHANGED <<store, runs>>

-----------------------------------------------------------------------------
(* The specification. *)

MainStep(p) ==
    \/ OpenHarvest(p) \/ OpenReevaluation(p) \/ OpenRefused(p) \/ Begin(p)
    \/ ResolveProject(p) \/ ReadPage(p) \/ PutPipeline(p) \/ FinishPage(p)
    \/ PlanCollection(p) \/ LaunchBatch(p) \/ EndBatch(p) \/ CancelBatch(p)
    \/ EndCollection(p) \/ Finish(p) \/ Reclassify(p) \/ EndReevaluation(p)

Faults(p) ==
    \/ CommitFails(p) \/ LastCommitFails(p) \/ Interrupt(p) \/ Crash(p)
    \/ \E k \in Keys : TaskCommitFails(p, k)

Next == \E p \in Procs :
    \/ \E mode \in {"open_harvest", "open_reevaluation"} : Acquire(p, mode)
    \/ MainStep(p)
    \/ \E k \in Keys : CollectStep(p, k) \/ ServerStep(p, k)
    \/ Faults(p)

Spec == Init /\ [][Next]_vars

\* A running process is scheduled, its coroutine and each of its tasks in turn,
\* and every request is answered (the client has a timeout; a timeout is an
\* error answer). Nothing makes a process start, or a fault happen.
Fairness == \A p \in Procs :
    /\ WF_vars(MainStep(p))
    /\ \A k \in Keys : WF_vars(CollectStep(p, k)) /\ WF_vars(ServerStep(p, k))

FairSpec == Spec /\ Fairness

-----------------------------------------------------------------------------
(* Properties. *)

\* Every variable has its type: rows are whole records, a task exists only for
\* a process inside the with block, and its counters are within their bounds.
TypeOK ==
    /\ pipes \in [Keys -> PipelineRecord \cup {NoPipe}]
    /\ jobs \in [Keys -> [JobIds -> JobRecord \cup {NoJob}]]
    /\ ckpt \in CheckpointRecord \cup {NoOne}
    /\ lease \in Procs \cup {NoOne}
    /\ pc \in [Procs -> {"idle", "open_harvest", "open_reevaluation", "begin", "resolve", "page",
                         "put", "batch", "gather", "final", "reevaluate"}]
    /\ run \in [Procs -> RunRecord]
    /\ disc \in [Procs -> ListingRecord]
    /\ latch \in [Procs -> BOOLEAN]
    /\ at \in [Procs -> [Keys -> {"off", "queued", "start", "list", "listed", "jobs", "trace",
                                  "traced"}]]
    /\ local \in [Procs -> [Keys -> PipelineRecord \cup {NoPipe}]]
    /\ todo \in [Procs -> [Keys -> SUBSET JobIds]]
    /\ job \in [Procs -> [Keys -> JobIds \cup {NoOne}]]
    /\ ans \in [Procs -> [Keys -> Answers]]
    /\ runs \in 0..MaxRuns
    /\ faults \in 0..MaxFaults

\* Whatever interleaving, refusal, failed commit or crash came before, the next
\* process to open the store finds one that _validate accepts, and so does not
\* refuse to work on it (_validate, run on every first open). The count of
\* projects is DocumentedProjectCap's.
StoreValidates == RowsConsistent /\ PipelineCap

\* A run that ends by itself, met target or not, has left nothing of its batch
\* unfinished; "complete" means that many distinct pipelines; and the checkpoint
\* says so only as long as the rows still belong to its batch.
FinishedMeansFinished ==
    ckpt # NoOne /\ ckpt.state \in {"complete", "shortfall"} =>
        /\ \A k \in BatchRows(ckpt.batch) : pipes[k].complete /\ Pending(k) = {}
        /\ ckpt.state = "complete" => Cardinality(BatchRows(ckpt.batch)) = Target(ckpt)

\* A rate limit or a rejected token stops the run and is never written down as
\* an observation of the pipeline or job whose request met it, although other
\* tasks of the batch are still running then ("429 leaves unfinished work
\* pending").
StopsAreNotObservations ==
    /\ \A k \in Rows : pipes[k].http \notin StopCodes
    /\ \A k \in Keys, j \in JobIds : jobs[k][j].http \notin StopCodes

\* Once one task was answered 429, no task of the process sends another request,
\* even one that saw the run still collecting (rate_limited, read inside the
\* request semaphore).
Waits(p, k) == at[p][k] \in {"list", "trace"}
NoRequestAfterRateLimit ==
    [][\A p \in Procs, k \in Keys : latch[p] /\ ~ Waits(p, k) => ~ Waits(p, k)']_vars

\* What the tables show of the samples, and the pipelines no run looks at again.
SampleOf(r) ==
    IF r = NoJob THEN "none" ELSE IF r.state = "pending" THEN "pending" ELSE "observed"
SampleMap  == [k \in Keys |-> [j \in JobIds |-> SampleOf(jobs[k][j])]]
ClosedRows == {k \in Rows : pipes[k].complete}

Corpus == INSTANCE ObservedCorpus WITH
    Pipelines <- Keys, Jobs <- JobIds, seen <- Rows, sample <- SampleMap, closed <- ClosedRows

\* The corpus only gains observations: no sample goes back to pending, no row
\* or sample is dropped, no closed pipeline is opened again, over all runs,
\* reevaluations and crashes (the writer lease, transactions per record).
ObservationsAccumulate == Corpus!CorpusSpec

\* A process that has the lease gives it up: refused requests, stopped runs,
\* failed commits and cancelled tasks leave no task the run waits for and no
\* listing it reads for ever.
RunsEnd == \A p \in Procs : (lease = p) ~> (lease # p)

\* Documented capacity of the database ("The DB is capped at ... 20 projects").
DocumentedProjectCap == ProjectCap

\* HarvestReport: "Selected counts refer to THIS run": what a run that read every
\* listing reports as selected is what it tagged with its batch.
SelectedCountsAreThisRuns ==
    \A p \in Procs : pc[p] = "final" => Counted(run[p]) = BatchRows(run[p].batch)

=============================================================================

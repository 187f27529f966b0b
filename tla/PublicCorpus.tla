------------------------------ MODULE PublicCorpus ------------------------------
(*****************************************************************************)
(* The local store of public GitHub failures (services/public_corpus.py) and *)
(* the processes that harvest into it or reevaluate it.  There is no writer  *)
(* lease: each process opens the SQLite file anew for every read and write,  *)
(* validates it, and only then begins a transaction of its own.              *)
(*                                                                           *)
(* Texts are abstracted to what the code decides by: which of its states a   *)
(* capture is in, whether it was cut or changed by redaction, and how the    *)
(* analysis classified a log.                                                *)
(*****************************************************************************)
EXTENDS Integers, FiniteSets

CONSTANTS
    PublicProcesses,      \* runs of the command that may be alive at once
    Repositories,         \* canonical owner/name
    RunIds,               \* ids of the failed workflow runs GitHub may list
    JobIds,               \* ids of failed jobs (a rerun gives a run new ones)
    Plans,                \* sets of repositories the commands are given
    WorkflowOf,           \* what a listed run says of its workflow file
    JobAnswers,           \* what a job page without a failed job leads to
    WorkflowAnswers,      \* what workflow metadata without a path leads to
    LogAnswers,           \* the log states the answers lead to
    ConfigAnswers,        \* the configuration captures the answers lead to
    Verdicts,             \* what the analysis makes of a captured log
    RunsPerRepository,    \* --per-repo
    MaxRepositories,      \* MAX_REPOSITORIES
    MaxRetainedRuns,      \* MAX_RETAINED_RUNS
    PublicStarts,         \* bound: commands started in all
    PublicInitialFiles,   \* the files found at the beginning
    NoJob

ConfigStates == {"captured", "missing", "unavailable", "invalid", "oversized"}
JobStates == {"captured", "none", "limited", "unavailable", "invalid"}
LogStates == {"captured", "empty", "redirect", "forbidden", "unavailable",
              "oversized", "invalid"}
ClassificationStates == {"classified", "unknown", "no_log", "analysis_error"}

\* A captured configuration may have been cut (truncated) and may have been
\* changed by redaction; "exact" is what really happened to the text.
ConfigCapture == [state : ConfigStates, truncated : BOOLEAN, exact : BOOLEAN]
NoConfig(state) == [state |-> state, truncated |-> FALSE, exact |-> FALSE]

PublicRow == [jobState : JobStates, job : JobIds \cup {NoJob},
              log : LogStates, class : ClassificationStates,
              config : ConfigStates, truncated : BOOLEAN, exact : BOOLEAN,
              modified : {"yes", "no", "unrecorded"}]
PublicKeys == Repositories \X RunIds
IsPublicFile(file) ==
    /\ file = [schema |-> file.schema, rows |-> file.rows]
    /\ file.schema \in {"absent", "empty", "v1", "v2"}
    /\ DOMAIN file.rows \subseteq PublicKeys
    /\ file.rows \in [DOMAIN file.rows -> PublicRow]

ASSUME PublicAssumption ==
    /\ RunsPerRepository \in Nat \ {0} /\ MaxRepositories \in Nat /\ MaxRetainedRuns \in Nat
    /\ PublicStarts \in Nat /\ Plans \subseteq (SUBSET Repositories) \ {{}}
    /\ WorkflowOf \in [RunIds -> {"path", "id", "neither", "no_sha"}]
    /\ JobAnswers \subseteq {"none", "unavailable", "invalid"} /\ LogAnswers \subseteq LogStates
    /\ WorkflowAnswers \subseteq {"unavailable", "oversized", "invalid"}
    /\ Verdicts \subseteq {"classified", "unknown", "analysis_error"}
    /\ ConfigAnswers \subseteq { c \in ConfigCapture : c.truncated => ~c.exact }
    /\ \A file \in PublicInitialFiles : IsPublicFile(file)
    /\ NoJob \notin JobIds /\ PublicKeys # {}

VARIABLES
    publicFile,   \* the SQLite file: its schema version and the rows of its runs
    public,       \* the processes
    publicStarted \* commands started so far

publicVars == <<publicFile, public, publicStarted>>

-----------------------------------------------------------------------------
(* The store.                                                                *)

RepositoriesOf(rows) == { key[1] : key \in DOMAIN rows }

\* PublicCorpus._validate_runs and _validate_jobs of one run.
RowValidates(row) ==
    /\ row.truncated => row.modified # "no"
    /\ (row.job # NoJob) <=> (row.jobState = "captured")
    /\ row.job # NoJob =>
         IF row.log = "captured" THEN row.class \in {"classified", "unknown", "analysis_error"}
                                 ELSE row.class = "no_log"

\* PublicCorpus._validate, before every use of the file.
Validates(file) ==
    /\ file.schema \in {"v1", "v2"}
    /\ \A key \in DOMAIN file.rows :
         /\ (file.schema = "v2") <=> (file.rows[key].modified # "unrecorded")
         /\ RowValidates(file.rows[key])
    /\ Cardinality(RepositoriesOf(file.rows)) <= MaxRepositories
    /\ Cardinality(DOMAIN file.rows) <= MaxRetainedRuns

Honest(row) == row.config = "captured" /\ row.modified = "no" => row.exact

\* A store that is found was left by an earlier version or run of the program.
ASSUME PublicFilesAssumption ==
    \A file \in PublicInitialFiles :
      /\ IsFiniteSet(DOMAIN file.rows) /\ \A key \in DOMAIN file.rows : Honest(file.rows[key])
      /\ IF file.schema \in {"v1", "v2"} THEN Validates(file) ELSE DOMAIN file.rows = {}

Migrated_Exact(file) ==
    IF file.schema = "v1"
      THEN [schema |-> "v2",
            rows |-> [key \in DOMAIN file.rows |-> [file.rows[key] EXCEPT !.modified = "no"]]]
      ELSE file

\* The additive migration at the head of a write: the provenance of the rows
\* of version 1 is not known, so they count as modified.
Migrated(file) ==
    IF file.schema = "v1"
      THEN [schema |-> "v2",
            rows |-> [key \in DOMAIN file.rows |-> [file.rows[key] EXCEPT !.modified = "yes"]]]
      ELSE file

\* The classification that is kept with a log.
KeptClass(log, class) == IF log = "captured" THEN class ELSE "no_log"

\* What record_run makes of the captures of one run.
Row(draft) ==
    LET captured == draft.config.state = "captured" IN
    [jobState  |-> draft.jobState,
     job       |-> draft.job,
     log       |-> IF draft.job = NoJob THEN "unavailable" ELSE draft.log,
     class     |-> IF draft.job = NoJob THEN "no_log" ELSE KeptClass(draft.log, draft.class),
     config    |-> draft.config.state,
     truncated |-> captured /\ draft.config.truncated,
     exact     |-> captured /\ draft.config.exact,
     modified  |-> IF captured /\ ~draft.config.exact THEN "yes" ELSE "no"]

RoomForRun_OffByOne(rows, key) ==
    key \in DOMAIN rows \/ Cardinality(DOMAIN rows) <= MaxRetainedRuns

\* The capacity tests of record_run: a new repository or run must find room.
RoomForRun(rows, key) ==
    /\ key[1] \in RepositoriesOf(rows) \/ Cardinality(RepositoriesOf(rows)) < MaxRepositories
    /\ key \in DOMAIN rows \/ Cardinality(DOMAIN rows) < MaxRetainedRuns

Upserted_Evicting(rows, key, row) ==
    [k \in {key} \cup { j \in DOMAIN rows : j[1] # key[1] } |-> IF k = key THEN row ELSE rows[k]]

\* The upsert of a run with its job, and the UPDATE of a classification, which
\* finds its row by repository, run and job id.
Upserted(rows, key, row) ==
    [k \in DOMAIN rows \cup {key} |-> IF k = key THEN row ELSE rows[k]]

Reclassified(rows, key, job, class) ==
    IF key \in DOMAIN rows /\ rows[key].job = job /\ job # NoJob
      THEN [rows EXCEPT ![key].class = class]
      ELSE rows

-----------------------------------------------------------------------------
(* A process.  pc names what it does next; a write goes through open,        *)
(* connect, script and transaction with the operation op.                    *)

NoDraft == [jobState |-> "none", job |-> NoJob, log |-> "unavailable",
            class |-> "no_log", config |-> NoConfig("missing")]
Draft == [jobState : JobStates, job : JobIds \cup {NoJob}, log : LogStates,
          class : ClassificationStates, config : ConfigCapture]

NoKey == CHOOSE key \in PublicKeys : TRUE
Observation == PublicKeys \X JobIds

Ended(result) ==
    [pc |-> "ended", mode |-> "harvest", plan |-> {}, page |-> 1, runs |-> {}, todo |-> {},
     key |-> NoKey, draft |-> NoDraft, op |-> "initialize", limited |-> result = "rate_limited",
     partial |-> FALSE, selected |-> {}, result |-> result]

PublicInit == /\ publicFile \in PublicInitialFiles
              /\ public = [p \in PublicProcesses |-> Ended("not started")]
              /\ publicStarted = 0

At(p, pc) == public[p].pc = pc
\* The process stops; of a complete harvest the selection is remembered.
End(p, result) ==
    public' = [public EXCEPT ![p] = [Ended(result) EXCEPT
                 !.selected = IF result = "complete" THEN public[p].selected ELSE {}]]

\* harvest_public_repositories and reevaluate_public_corpus begin with
\* PublicCorpus.initialize.  The plan is a set of distinct repositories.
StartHarvest(p, plan) ==
    /\ At(p, "ended") /\ publicStarted < PublicStarts
    /\ publicStarted' = publicStarted + 1
    /\ public' = [public EXCEPT ![p] = [Ended("running") EXCEPT !.pc = "open", !.plan = plan]]
    /\ UNCHANGED publicFile

StartReevaluation(p) ==
    /\ At(p, "ended") /\ publicStarted < PublicStarts
    /\ publicStarted' = publicStarted + 1
    /\ public' = [public EXCEPT ![p] = [Ended("running") EXCEPT !.pc = "open", !.mode = "reevaluate"]]
    /\ UNCHANGED publicFile

-----------------------------------------------------------------------------
(* PublicCorpus._connection for a write.                                     *)

\* Does the file exist?  An empty one is refused, a present one validated.
OpenToWrite(p) ==
    /\ At(p, "open")
    /\ CASE publicFile.schema = "absent" -> public' = [public EXCEPT ![p].pc = "connect"]
         [] Validates(publicFile) -> public' = [public EXCEPT ![p].pc = "transaction"]
         [] OTHER -> End(p, "error")
    /\ UNCHANGED <<publicFile, publicStarted>>

\* sqlite3.connect creates the file, with no bytes in it.
Connect(p) ==
    /\ At(p, "connect")
    /\ publicFile' = IF publicFile.schema = "absent" THEN [publicFile EXCEPT !.schema = "empty"]
                                                     ELSE publicFile
    /\ public' = [public EXCEPT ![p].pc = "script"]
    /\ UNCHANGED publicStarted

\* The schema is one transaction; it fails on tables that another process made.
Script(p) ==
    /\ At(p, "script")
    /\ IF publicFile.schema = "empty"
         THEN /\ publicFile' = [publicFile EXCEPT !.schema = "v2"]
              /\ public' = [public EXCEPT ![p].pc = "transaction"]
         ELSE UNCHANGED publicFile /\ End(p, "error")
    /\ UNCHANGED publicStarted

\* BEGIN IMMEDIATE, the migration, the operation and COMMIT.  What was found
\* by the validation may have changed since.
CommitInitialize(p) ==
    /\ At(p, "transaction") /\ public[p].op = "initialize"
    /\ publicFile' = Migrated(publicFile)
    /\ public' = [public EXCEPT ![p].pc =
                    IF public[p].mode = "harvest" THEN "repository" ELSE "observe"]
    /\ UNCHANGED publicStarted

CommitRun(p) ==
    LET key == public[p].key
        file == Migrated(publicFile)
    IN /\ At(p, "transaction") /\ public[p].op = "record"
       /\ IF RoomForRun(file.rows, key)
            THEN /\ publicFile' = [file EXCEPT !.rows = Upserted(@, key, Row(public[p].draft))]
                 /\ public' = [public EXCEPT ![p].pc = "runs", ![p].draft = NoDraft]
            ELSE UNCHANGED publicFile /\ End(p, "error")
       /\ UNCHANGED publicStarted

CommitClassification(p) ==
    LET draft == public[p].draft
        file == Migrated(publicFile)
    IN /\ At(p, "transaction") /\ public[p].op = "classify"
       /\ publicFile' = [file EXCEPT !.rows = Reclassified(@, public[p].key, draft.job, draft.class)]
       /\ public' = [public EXCEPT ![p].pc = "observed", ![p].draft = NoDraft]
       /\ UNCHANGED publicStarted

\* The file is locked by another process (the timeout is 0) or cannot be
\* written: the transaction is rolled back and the command ends.
StorageError(p) ==
    /\ public[p].pc \in {"open", "script", "transaction", "repository", "runs", "observe"}
    /\ End(p, "error")
    /\ UNCHANGED <<publicFile, publicStarted>>

\* The process is killed, at any await and inside any connection.
CrashPublic(p) ==
    /\ ~At(p, "ended")
    /\ End(p, "error")
    /\ UNCHANGED <<publicFile, publicStarted>>

-----------------------------------------------------------------------------
(* _PublicHarvester.                                                         *)

Requests == {"verify", "list", "job", "log", "workflow", "contents"}

\* After the report of a repository, which reads the store, the next one; at
\* the end the state of the whole.
NextRepository(p) ==
    /\ At(p, "repository")
    /\ IF ~Validates(publicFile) THEN End(p, "error")
       ELSE IF public[p].plan = {} THEN End(p, IF public[p].partial THEN "partial" ELSE "complete")
       ELSE \E repository \in public[p].plan :
              public' = [public EXCEPT ![p].plan = @ \ {repository}, ![p].pc = "verify",
                                       ![p].page = 1, ![p].key[1] = repository]
    /\ UNCHANGED <<publicFile, publicStarted>>

RateLimited_Caught(p) ==
    /\ public[p].pc \in Requests
    /\ IF public[p].pc = "job"
         THEN public' = [public EXCEPT ![p].draft.jobState = "unavailable", ![p].limited = TRUE,
                                       ![p].partial = TRUE, ![p].pc = "config"]
         ELSE End(p, "rate_limited")
    /\ UNCHANGED <<publicFile, publicStarted>>

\* Any request may be answered by a rate limit: the client sends no more, the
\* run in hand is not recorded, and no further repository is begun.
RateLimited(p) ==
    /\ public[p].pc \in Requests
    /\ End(p, "rate_limited")
    /\ UNCHANGED <<publicFile, publicStarted>>

Verified(p) ==
    /\ At(p, "verify")
    /\ public' = [public EXCEPT ![p].pc = "list"]
    /\ UNCHANGED <<publicFile, publicStarted>>

\* A rejection or an error while a repository is verified or listed: it is
\* reported, and the harvest goes on with the next one.
RepositoryFailed(p) ==
    /\ public[p].pc \in {"verify", "list"}
    /\ public' = [public EXCEPT ![p].pc = "repository", ![p].partial = TRUE, ![p].runs = {}]
    /\ UNCHANGED <<publicFile, publicStarted>>

\* PublicGitHubClient.list_failed_runs: a page adds the failed runs not seen
\* yet up to the limit; a page that is not full is the last.
ListPage(p) ==
    /\ At(p, "list")
    /\ \E listed \in SUBSET RunIds, short \in BOOLEAN :
         LET known == public[p].runs
             taken == listed \ known
             runs  == known \cup taken
         IN /\ Cardinality(listed) <= RunsPerRepository
            /\ short => Cardinality(listed) < RunsPerRepository
            /\ Cardinality(runs) <= RunsPerRepository
            /\ public' = [public EXCEPT
                 ![p].runs = runs,
                 ![p].selected = @ \cup { <<public[p].key[1], run>> : run \in taken },
                 ![p].page = 2,
                 ![p].pc = IF short \/ public[p].page = 2 \/ Cardinality(runs) = RunsPerRepository
                             THEN "runs" ELSE "list"]
    /\ UNCHANGED <<publicFile, publicStarted>>

HasRun_AnyOfRepository(rows, key) == key[1] \in RepositoriesOf(rows)

HasRun(rows, key) == key \in DOMAIN rows

\* The loop of collect_repository: a run that is retained is skipped.
NextRun(p) ==
    /\ At(p, "runs")
    /\ IF public[p].runs = {} THEN public' = [public EXCEPT ![p].pc = "repository", ![p].key[2] = NoKey[2]]
       ELSE IF ~Validates(publicFile) THEN End(p, "error")
       ELSE \E run \in public[p].runs :
              LET key == <<public[p].key[1], run>> IN
              public' = [public EXCEPT
                 ![p].runs = @ \ {run}, ![p].key = key, ![p].page = 1, ![p].draft = NoDraft,
                 ![p].pc = IF HasRun(publicFile.rows, key) THEN "runs" ELSE "job"]
    /\ UNCHANGED <<publicFile, publicStarted>>

\* PublicGitHubClient.failed_job: the first failed job of at most two pages.
FailedJob(p) ==
    /\ At(p, "job")
    /\ \E job \in JobIds :
         public' = [public EXCEPT ![p].draft.jobState = "captured", ![p].draft.job = job,
                                  ![p].pc = "log"]
    /\ UNCHANGED <<publicFile, publicStarted>>

\* No page, a malformed page, or the last page without a failed job.
NoFailedJob(p) ==
    /\ At(p, "job")
    /\ \E state \in JobAnswers :
         public' = [public EXCEPT ![p].draft.jobState = state, ![p].partial = TRUE,
                                  ![p].pc = "config"]
    /\ UNCHANGED <<publicFile, publicStarted>>

FullJobPage_NoLimit(p) ==
    /\ At(p, "job")
    /\ public' = [public EXCEPT ![p].page = @ + 1]
    /\ UNCHANGED <<publicFile, publicStarted>>

\* A full page without one: the last that is read does not say there is none.
FullJobPage(p) ==
    /\ At(p, "job")
    /\ public' = IF public[p].page < 2
                   THEN [public EXCEPT ![p].page = @ + 1]
                   ELSE [public EXCEPT ![p].draft.jobState = "limited", ![p].partial = TRUE,
                                       ![p].pc = "config"]
    /\ UNCHANGED <<publicFile, publicStarted>>

\* PublicGitHubClient.failed_job_log; a request that fails is "unavailable".
JobLog(p) ==
    /\ At(p, "log")
    /\ \E state \in LogAnswers \cup {"unavailable"} :
         public' = [public EXCEPT ![p].draft.log = state, ![p].pc = "config",
                                  ![p].partial = @ \/ state # "captured"]
    /\ UNCHANGED <<publicFile, publicStarted>>

\* The configuration is the last capture: the log is then classified and the
\* run recorded.  _classify answers for a captured log only, or fails safely.
Classes(draft) == IF draft.job # NoJob /\ draft.log = "captured"
                    THEN Verdicts ELSE {"no_log"}

Captured(p, config) ==
    \E class \in Classes(public[p].draft) :
      public' = [public EXCEPT
         ![p].draft.config = config, ![p].draft.class = class,
         ![p].pc = "open", ![p].op = "record",
         ![p].partial = @ \/ config.state # "captured" \/ config.truncated
                          \/ class = "analysis_error"]

\* PublicGitHubClient.workflow_config: the path of the run itself, or else
\* that of its workflow, and then the file at the commit of the run.
WorkflowPath(p) ==
    /\ At(p, "config")
    /\ CASE WorkflowOf[public[p].key[2]] = "path" -> public' = [public EXCEPT ![p].pc = "contents"]
         [] WorkflowOf[public[p].key[2]] = "id" -> public' = [public EXCEPT ![p].pc = "workflow"]
         [] OTHER -> Captured(p, NoConfig("missing"))
    /\ UNCHANGED <<publicFile, publicStarted>>

WorkflowMetadata(p) ==
    /\ At(p, "workflow")
    /\ \/ public' = [public EXCEPT ![p].pc = "contents"]
       \/ \E state \in WorkflowAnswers : Captured(p, NoConfig(state))
    /\ UNCHANGED <<publicFile, publicStarted>>

Contents(p) ==
    /\ At(p, "contents")
    /\ \E config \in ConfigAnswers : Captured(p, config)
    /\ UNCHANGED <<publicFile, publicStarted>>

-----------------------------------------------------------------------------
(* reevaluate_public_corpus.                                                 *)

\* The observations are listed once; only captured logs are of interest.
Observe(p) ==
    /\ At(p, "observe")
    /\ IF Validates(publicFile)
         THEN public' = [public EXCEPT ![p].pc = "observed",
                ![p].todo = { <<key, publicFile.rows[key].job>> :
                              key \in { k \in DOMAIN publicFile.rows :
                                         /\ publicFile.rows[k].job # NoJob
                                         /\ publicFile.rows[k].log = "captured" } }]
         ELSE End(p, "error")
    /\ UNCHANGED <<publicFile, publicStarted>>

\* Each one is classified from what was listed and written back on its own.
NextObservation(p) ==
    /\ At(p, "observed")
    /\ IF public[p].todo = {} THEN End(p, "reevaluated")
       ELSE \E seen \in public[p].todo, class \in Verdicts :
              public' = [public EXCEPT
                 ![p].todo = @ \ {seen}, ![p].key = seen[1], ![p].draft.job = seen[2],
                 ![p].draft.class = class, ![p].pc = "open", ![p].op = "classify"]
    /\ UNCHANGED <<publicFile, publicStarted>>

-----------------------------------------------------------------------------
PublicStep(p) ==
    \/ \E plan \in Plans : StartHarvest(p, plan)
    \/ StartReevaluation(p)
    \/ OpenToWrite(p) \/ Connect(p) \/ Script(p)
    \/ CommitInitialize(p) \/ CommitRun(p) \/ CommitClassification(p)
    \/ StorageError(p) \/ CrashPublic(p)
    \/ NextRepository(p) \/ RateLimited(p) \/ Verified(p) \/ RepositoryFailed(p)
    \/ ListPage(p) \/ NextRun(p) \/ FailedJob(p) \/ NoFailedJob(p) \/ FullJobPage(p)
    \/ JobLog(p) \/ WorkflowPath(p) \/ WorkflowMetadata(p) \/ Contents(p)
    \/ Observe(p) \/ NextObservation(p)

PublicNext == \E p \in PublicProcesses : PublicStep(p)

PublicSpec == PublicInit /\ [][PublicNext]_publicVars

-----------------------------------------------------------------------------
(* Properties.                                                               *)

PublicProcess ==
    [pc : {"ended", "open", "connect", "script", "transaction", "repository", "runs",
           "config", "observe", "observed"} \cup Requests,
     mode : {"harvest", "reevaluate"}, plan : SUBSET Repositories, page : 1..2,
     runs : SUBSET RunIds, todo : SUBSET Observation, key : PublicKeys, draft : Draft,
     op : {"initialize", "record", "classify"}, limited : BOOLEAN, partial : BOOLEAN,
     selected : SUBSET PublicKeys,
     result : {"not started", "running", "complete", "partial", "rate_limited", "error",
               "reevaluated"}]

\* The types of the store and of the processes that use it.
PublicTypeOK == /\ IsPublicFile(publicFile)
                /\ public \in [PublicProcesses -> PublicProcess]
                /\ publicStarted \in 0..PublicStarts

\* Whatever two processes do to it, a store that has a schema is one that
\* PublicCorpus._validate accepts: otherwise no command could ever use it again.
PublicStoreValidates ==
    publicFile.schema \in {"v1", "v2"} => Validates(publicFile)

\* A full store refuses new runs, and a run that is recorded again replaces
\* itself only: no retained run is ever evicted ("no records were evicted").
NothingForgotten == [][DOMAIN publicFile.rows \subseteq DOMAIN publicFile'.rows]_publicVars

\* A configuration is never called unmodified when its text was cut or changed
\* by redaction; of the rows of version 1 nobody knows, so no migration, read
\* or later write may claim it for them.
ProvenanceHonest ==
    \A key \in DOMAIN publicFile.rows : Honest(publicFile.rows[key])

\* A rate limit ends a harvest; what it could not read is not written down as
\* unavailable, which has_run would take for retained ever after.
LimitsAreNotObservations ==
    [][\A p \in PublicProcesses :
        public[p].limited /\ public'[p] # public[p] => publicFile' = publicFile]_publicVars

\* A harvest that reports "complete" has selected no run that is not retained,
\* even when another one was recording the same repository.
CompleteMeansRetained ==
    \A p \in PublicProcesses :
      public[p].result = "complete" => public[p].selected \subseteq DOMAIN publicFile.rows
=============================================================================

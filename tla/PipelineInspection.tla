-------------------------- MODULE PipelineInspection --------------------------
(*****************************************************************************)
(* One inspection of a GitLab job, pipeline or branch (services/             *)
(* inspection.py inspect_gitlab) while the pipeline goes on: what is read in *)
(* which order, which reads may be denied, which jobs get one of the few     *)
(* trace reads, what is found, and the status that is reported.              *)
(*                                                                           *)
(* Reads that run together are actions in any order; the semaphore of four   *)
(* is not held over another read and only delays them. Texts, locations and  *)
(* scrubbing are left out: a finding is its rule, its severity and its job.  *)
(*****************************************************************************)
EXTENDS Naturals, FiniteSets, Selection, SequencesExt

CONSTANTS
    Jobs,              \* job ids
    Listing,           \* the first jobs of the pipeline, in the order GitLab lists them
    RetryOf,           \* job -> the job that replaces it when it is retried
    ByInterest,        \* Jobs in the order successful ones are sampled: deploy, package...
    AllowedToFail,     \* jobs with allow_failure
    Pipelines,         \* what may be inspected: [outcome, bridges], the jobs' outcomes at first
                       \* and the trigger jobs [trouble, self, allowed, known, run, jobs]
    References,        \* what is inspected: [kind, job]
    MaxJobs,           \* max_jobs of the callers
    NoRun, NoJob

Outcomes == {"success", "failed", "active", "other"}
Bridge == [trouble : BOOLEAN, self : BOOLEAN, allowed : BOOLEAN, known : BOOLEAN,
           run : Outcomes, jobs : Seq(Outcomes)]

ASSUME PipelineInspectionAssumption ==
    /\ Listing \in Seq(Jobs) /\ DOMAIN RetryOf \subseteq Jobs
    /\ \A j \in DOMAIN RetryOf : RetryOf[j] \in Jobs
    /\ ByInterest \in Seq(Jobs) /\ AllowedToFail \subseteq Jobs
    /\ \A p \in Pipelines : p.outcome \in [Jobs -> Outcomes] /\ p.bridges \in Seq(Bridge)
    /\ References \subseteq [kind : {"job", "pipeline", "branch"}, job : Jobs \cup {NoJob}]
    /\ \A reference \in References : reference.kind = "job" => reference.job \in Jobs
    /\ MaxJobs \subseteq Nat /\ NoRun \notin Outcomes /\ NoJob \notin Jobs
    /\ {"jobs", "bridges", "sources", "context"} \cap Jobs = {}

VARIABLES
    pipeline,   \* the live pipeline: jobs listed, their outcomes, trigger jobs
    view        \* what the inspection has read and found

inspectionVars == <<pipeline, view>>

FailingOf(ids, outcome) == { j \in ids : outcome[j] = "failed" }

\* GitLab's outcome of the pipeline: allowed failures do not count.
RunOf(p) ==
    IF \E j \in ToSet(p.listed) : p.outcome[j] = "active" THEN "active"
    ELSE IF FailingOf(ToSet(p.listed), p.outcome) \subseteq AllowedToFail THEN "success"
    ELSE "failed"

NotInspecting ==
    [pc |-> "off", reference |-> [kind |-> "pipeline", job |-> NoJob], budget |-> 1,
     selected |-> NoJob, run |-> NoRun, sha |-> FALSE,
     partial |-> FALSE, reads |-> {}, listed |-> <<>>, outcome |-> [j \in {} |-> "other"],
     bridges |-> <<>>, chosen |-> <<>>, complete |-> FALSE,
     traces |-> [j \in {} |-> "clean"], candidates |-> <<>>, children |-> 0,
     childRead |-> FALSE, childLeft |-> FALSE, findings |-> {}, status |-> "none"]

AtLeastOne(n) == IF n < 1 THEN 1 ELSE n
Bounded(n, most) == IF n < most THEN n ELSE most

InspectionInit ==
    /\ \E p \in Pipelines :
          pipeline = [listed |-> Listing, outcome |-> p.outcome, bridges |-> p.bridges]
    /\ \E reference \in References, max_jobs \in MaxJobs :
          view = [NotInspecting EXCEPT !.pc = "project", !.reference = reference,
                                       !.budget = AtLeastOne(Bounded(max_jobs, 8))]

-----------------------------------------------------------------------------
\* The pipeline meanwhile: jobs end, and jobs are retried under a new id. What it
\* does when its jobs have been listed is not read any more.
Followed == view.pc \in {"project", "selected", "branch", "run", "list"}

JobEnds ==
    \E j \in ToSet(pipeline.listed), o \in {"success", "failed"} :
       /\ Followed /\ pipeline.outcome[j] = "active"
       /\ pipeline' = [pipeline EXCEPT !.outcome[j] = o]
       /\ UNCHANGED view

JobRetried ==
    \E j \in ToSet(pipeline.listed) \cap DOMAIN RetryOf :
       /\ Followed /\ pipeline.outcome[j] \in {"failed", "success"}
       /\ pipeline' = [pipeline EXCEPT
             !.listed = [i \in DOMAIN @ |-> IF @[i] = j THEN RetryOf[j] ELSE @[i]],
             !.outcome[RetryOf[j]] = "active"]
       /\ UNCHANGED view

-----------------------------------------------------------------------------
Stage(pc) == view.pc = pc /\ UNCHANGED pipeline

\* read: a denied read leaves a note and makes the inspection partial.
Read(ok, changed) == view' = [changed EXCEPT !.partial = @ \/ ~ok]

Found(rule, severity, job) == [rule |-> rule, severity |-> severity, job |-> job]

ReadProjectMetadata ==
    /\ Stage("project")
    /\ \E ok \in BOOLEAN :
          Read(ok, [view EXCEPT !.pc = CASE view.reference.kind = "job" -> "selected"
                                         [] view.reference.kind = "branch" -> "branch"
                                         [] OTHER -> "run"])

\* The parent of the selected job: without it no pipeline is guessed.
ReadSelectedJob ==
    /\ Stage("selected")
    /\ \/ \E parent \in BOOLEAN :
             Read(TRUE, [view EXCEPT !.pc = IF parent THEN "run" ELSE "choose",
                 !.selected = view.reference.job,
                 !.outcome = [j \in {view.reference.job} |-> pipeline.outcome[j]]])
       \/ Read(FALSE, [view EXCEPT !.pc = "choose"])

\* The ref, then the head of the branch and its latest pipeline together.
ReadBranch ==
    /\ Stage("branch")
    /\ \/ Read(FALSE, [view EXCEPT !.pc = "choose"])
       \/ \E head \in BOOLEAN, latest \in {"found", "none", "denied"} :
             Read(head /\ latest # "denied",
                [view EXCEPT !.pc = IF latest = "found" THEN "run" ELSE "choose",
                             !.run = IF latest = "found" THEN RunOf(pipeline) ELSE NoRun,
                             !.sha = head /\ latest = "none",
                             !.status = IF head /\ latest = "none"
                                        THEN "configuration_only" ELSE "none"])

\* The pipeline's detail; denied, the summary of the branch's pipeline is kept.
ReadRun ==
    /\ Stage("run")
    /\ \E ok \in BOOLEAN :
          LET run == IF ok THEN RunOf(pipeline) ELSE view.run
              severity == IF run = "failed" THEN "error" ELSE "info"
          IN Read(ok, [view EXCEPT !.pc = "list", !.reads = {"jobs", "bridges"},
                 !.run = run, !.sha = run # NoRun,
                 !.findings = IF run \in {"success", NoRun} THEN @
                              ELSE @ \cup {Found("pipeline", severity, NoJob)}])

\* The selected job stays as it was read, also when it is retried or not listed.
ReadJobs ==
    /\ Stage("list") /\ "jobs" \in view.reads
    /\ \E ok \in BOOLEAN :
          Read(ok, [view EXCEPT !.reads = @ \ {"jobs"},
             !.listed = IF ok THEN pipeline.listed ELSE <<>>,
             !.outcome = IF ~ok THEN @ ELSE
                 [j \in ToSet(pipeline.listed) \cup DOMAIN @ |->
                     IF j \in DOMAIN @ THEN @[j] ELSE pipeline.outcome[j]]])

ReadBridges ==
    /\ Stage("list") /\ "bridges" \in view.reads
    /\ \E ok \in BOOLEAN :
          Read(ok, [view EXCEPT !.reads = @ \ {"bridges"},
                                !.bridges = IF ok THEN pipeline.bridges ELSE <<>>])

-----------------------------------------------------------------------------
\* Who gets a trace: the selected job, the failed ones, at most three successful
\* ones; with a slot kept for a child while the first two leave one.
Failing ==
    Selected(view.listed, FailingOf(ToSet(view.listed), view.outcome) \ {view.selected})
Primary == (IF view.selected = NoJob THEN <<>> ELSE <<view.selected>>) \o Failing

ReserveChild_Never == FALSE

ReserveChild ==
    view.run # NoRun /\ Len(Primary) < view.budget /\ \E i \in DOMAIN view.bridges : view.bridges[i].trouble

SelectJobs(budget) ==
    LET succeeded == { j \in ToSet(view.listed) : view.outcome[j] = "success" }
        sampled == Selected(ByInterest, succeeded \ ToSet(Primary))
        all == Primary \o SubSeq(sampled, 1, Bounded(3, Len(sampled)))
    IN SubSeq(all, 1, Bounded(budget, Len(all)))

Choose ==
    /\ Stage("choose") \/ (Stage("list") /\ view.reads = {})
    /\ LET chosen == IF view.run = NoRun THEN <<>>
                     ELSE SelectJobs(view.budget - (IF ReserveChild THEN 1 ELSE 0))
       IN view' = [view EXCEPT !.pc = "evidence", !.chosen = chosen,
             !.listed = IF view.selected \in ToSet(@) \cup {NoJob} THEN @
                        ELSE Append(@, view.selected),
             !.reads = (IF view.sha THEN {"sources", "context"} ELSE {}) \cup ToSet(chosen)]

ReadSources ==
    /\ Stage("evidence") /\ "sources" \in view.reads
    /\ \E ok, complete \in BOOLEAN :
          /\ complete => ok
          /\ Read(ok, [view EXCEPT !.reads = @ \ {"sources"}, !.complete = complete])

\* Tree, linked merge requests, diffs and changed YAML files: one denied is enough.
ReadContext ==
    /\ Stage("evidence") /\ "context" \in view.reads
    /\ \E ok \in BOOLEAN : Read(ok, [view EXCEPT !.reads = @ \ {"context"}])

WithTrace(j, trace) ==
    [i \in DOMAIN view.traces \cup {j} |-> IF i \in DOMAIN view.traces THEN view.traces[i] ELSE trace]

ReadTrace ==
    /\ Stage("evidence")
    /\ \E j \in view.reads \cap Jobs, signals, ok \in BOOLEAN :
          /\ signals => ok
          /\ Read(ok, [view EXCEPT !.reads = @ \ {j},
                                !.traces = WithTrace(j, IF signals THEN "signals" ELSE "clean")])

-----------------------------------------------------------------------------
JobSeverity_StatusOnly(outcome, trace, allowed, succeeded) ==
    IF outcome = "failed" THEN (IF allowed \/ succeeded THEN "warning" ELSE "error") ELSE "info"

\* diagnose_job and job_finding: an allowed failure, or one of a pipeline that is
\* successful all the same, is a warning.
JobSeverity(outcome, trace, allowed, succeeded) ==
    LET seen == CASE trace = "signals" -> IF outcome = "success" THEN "warning" ELSE "error"
                  [] OTHER -> IF outcome = "failed" THEN "error" ELSE "info"
    IN IF seen = "error" /\ (succeeded \/ (allowed /\ outcome = "failed")) THEN "warning" ELSE seen

Excused(severity, excuse) == IF excuse THEN "warning" ELSE severity

JobFindings ==
    { Found("job", JobSeverity(view.outcome[j], view.traces[j], j \in AllowedToFail,
                               view.run = "success"), j) : j \in ToSet(view.chosen) }

Unanalyzed == FailingOf(ToSet(view.listed), view.outcome) \ ToSet(view.chosen)

\* Trigger jobs in trouble; one that points back at this pipeline is not followed.
Troubled == Selected(view.bridges, { b \in ToSet(view.bridges) : b.trouble /\ ~b.self })

Analyze ==
    /\ Stage("evidence") /\ view.reads = {}
    /\ \E parsed, risky \in BOOLEAN :
       /\ risky => view.sha
       /\ view' = [view EXCEPT !.pc = "child", !.complete = @ /\ parsed,
             !.candidates = IF view.run = NoRun THEN <<>>
                            ELSE SubSeq(Troubled, 1, Bounded(2, Len(Troubled))),
             !.findings = @ \cup JobFindings
                \cup (IF view.complete /\ parsed THEN {} ELSE {Found("sources", "warning", NoJob)})
                \cup (IF risky THEN {Found("risk", "warning", NoJob)} ELSE {})
                \cup (IF view.run = NoRun \/ Unanalyzed = {} THEN {}
                      ELSE {Found("unanalyzed", Excused("error", view.run = "success"
                                     \/ Unanalyzed \subseteq AllowedToFail), NoJob)})]

\* downstream_context, one candidate at a time, one level down.
Child == view.candidates[view.children + 1]
AtChild == Stage("child") /\ view.children < Len(view.candidates)
Pardoned_BridgeOnly == Child.allowed

Pardoned == Child.allowed \/ view.run = "success"

\* An answer about another project, job or pipeline ends the inspection.
Mismatch ==
    /\ \/ view.pc \in {"project", "selected", "run"}
       \/ AtChild
    /\ view' = [NotInspecting EXCEPT !.pc = "raised"]
    /\ UNCHANGED pipeline

ChildUnavailable ==
    /\ AtChild
    /\ Read(~Child.known, [view EXCEPT !.children = @ + 1,
          !.findings = @ \cup {Found("downstream", Excused("error", Pardoned), NoJob)}])

\* At most one job of a child, the first that failed, within what is left of the budget.
ReadChild(jobs, ok, signals, complete) ==
    LET failed == jobs /\ \E i \in DOMAIN Child.jobs : Child.jobs[i] = "failed"
        analysed == failed /\ Len(view.chosen) < view.budget /\ ~view.childRead
        severity == JobSeverity("failed", IF signals THEN "signals" ELSE "clean",
                       Child.allowed, view.run = "success" \/ Child.run = "success")
    IN /\ IF analysed THEN signals /\ complete => ok ELSE ok /\ ~signals /\ ~complete
       /\ Read(jobs /\ ok, [view EXCEPT !.children = @ + 1,
             !.childRead = @ \/ analysed, !.childLeft = @ \/ (failed /\ ~analysed),
             !.findings = @
                \cup {Found("downstream", Excused("error", Pardoned), NoJob)}
                \cup (IF analysed THEN {Found("child", severity, NoJob)} ELSE {})
                \cup (IF analysed /\ ~complete THEN {Found("sources", "warning", NoJob)} ELSE {})])

ChildReadable ==
    /\ AtChild /\ Child.known
    /\ \E jobs, ok, signals, complete \in BOOLEAN : ReadChild(jobs, ok, signals, complete)

Analyses == Len(view.chosen) + (IF view.childRead THEN 1 ELSE 0)

Report ==
    /\ Stage("child") /\ view.children = Len(view.candidates)
    /\ view' = [view EXCEPT !.pc = "done",
          !.status = CASE @ = "configuration_only" -> @
                       [] view.run = "failed" -> "failed"
                       [] view.run = "active" -> "in_progress"
                       [] /\ view.run = "success" /\ ~view.partial
                          /\ \A f \in view.findings : f.severity = "info" -> "passed"
                       [] OTHER -> "warning"]

Inspect ==
    \/ Mismatch \/ ReadProjectMetadata \/ ReadSelectedJob \/ ReadBranch \/ ReadRun
    \/ ReadJobs \/ ReadBridges \/ Choose \/ ReadSources \/ ReadContext \/ ReadTrace
    \/ Analyze \/ ChildUnavailable \/ ChildReadable \/ Report

InspectionNext == JobEnds \/ JobRetried \/ Inspect

InspectionSpec == InspectionInit /\ [][InspectionNext]_inspectionVars

\* Every read has a timeout.
InspectionFairness == WF_inspectionVars(Inspect)

-----------------------------------------------------------------------------
InspectionTypeOK ==
    /\ pipeline.listed \in Seq(Jobs) /\ pipeline.outcome \in [Jobs -> Outcomes]
    /\ view.pc \in {"off", "project", "selected", "branch", "run", "list", "choose",
                    "evidence", "child", "done", "raised"}
    /\ view.reads \subseteq {"jobs", "bridges", "sources", "context"} \cup Jobs
    /\ DOMAIN view.traces \subseteq ToSet(view.chosen)
    /\ ToSet(view.chosen) \subseteq ToSet(view.listed) /\ ToSet(view.listed) \subseteq Jobs
    /\ view.children \in 0..2
    /\ view.status \in {"none", "configuration_only", "failed", "in_progress", "passed", "warning"}

\* "passed" is said of a pipeline that was read as successful, when nothing that was
\* to be read was denied, no job listed has failed, no trigger job is in trouble and
\* no trace that was read shows an error; whatever the pipeline does meanwhile.
PassedIsProven ==
    view.status = "passed" =>
        /\ view.run = "success" /\ ~view.partial /\ view.complete
        /\ FailingOf(ToSet(view.listed), view.outcome) = {} /\ Troubled = <<>>
        /\ \A j \in ToSet(view.chosen) : view.traces[j] = "clean"

\* The budget of traces is kept, with the child's; the job that was asked for gets
\* one; a successful job only when every failed one has; and a failed child is left
\* out only when the selected and the failed jobs take the whole budget.
TracesWellSpent ==
    view.pc = "done" /\ view.run # NoRun =>
        /\ Analyses <= view.budget
        /\ view.selected # NoJob => view.selected \in ToSet(view.chosen)
        /\ \A j \in ToSet(view.chosen) \ {view.selected} :
               view.outcome[j] = "success" => Unanalyzed = {}
        /\ view.childLeft /\ ~view.childRead => Len(Primary) >= view.budget

\* Of a pipeline GitLab reports successful nothing is reported as an error.
SuccessNotOverridden ==
    view.run = "success" => \A f \in view.findings : f.severity # "error"

Inspected == view.pc \in {"off", "done", "raised"}
================================================================================

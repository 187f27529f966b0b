------------------------------- MODULE Incidents -------------------------------
(*****************************************************************************)
(* Analyses and the incidents they store (api/main.py, services/             *)
(* orchestrator.py, retrieval.py, llm.py, workers/tasks.py, storage.py).     *)
(*                                                                           *)
(* A request analyses one job or, for a pipeline link, several at once; a    *)
(* delivery of the queue is such a request handled in another process, which *)
(* may die and be tried again. Each analysis reads its log, retrieves        *)
(* history, may ask a model, and saves an incident whose key is the job.     *)
(* The API's tasks share one event loop, so only a worker comes between an   *)
(* API task's look at the row and its write; the write itself is one         *)
(* transaction.                                                              *)
(*****************************************************************************)
EXTENDS Naturals, Sequences

CONSTANTS
    Incidents,         \* keys of the failed jobs (stable_incident_id)
    IncidentRequests,  \* requests and deliveries
    JobsOf,            \* request -> the incidents of the jobs it analyses
    Deliveries,        \* those that come from the queue
    Alike,             \* the pairs of incidents find_similar takes for similar
    MaxRetries,        \* of a delivery (max_retries)
    MaxCrashes,        \* bound: crashes of the worker
    Feedbacks,         \* what a user says of an incident: <<outcome, text>>
    NoText, NoRow

VARIABLES
    rows,       \* incident -> its record
    evidence,   \* incident -> the analyses whose evidence rows it has
    analyses,   \* task -> where it is
    answers,    \* request -> what it came to
    tries,      \* delivery -> failed attempts
    crashes

incidentVars == <<rows, evidence, analyses, answers, tries, crashes>>

Tasks == { t \in IncidentRequests \X Incidents : t[2] \in JobsOf[t[1]] }
TasksOf(request) == { t \in Tasks : t[1] = request }
InApi(t) == t[1] \notin Deliveries

ByRules == <<"rules">>
Diagnoses == {ByRules} \cup { <<"model", t>> : t \in Tasks }      \* who wrote a summary
Row == [summary : Diagnoses, status : {"new", "resolved", "not_useful", "needs_review"},
        text : { said[2] : said \in Feedbacks } \cup {NoText}]

ASSUME IncidentsAssumption ==
    /\ JobsOf \in [IncidentRequests -> SUBSET Incidents] /\ Deliveries \subseteq IncidentRequests
    /\ Alike \subseteq Incidents \X Incidents
    /\ MaxRetries \in Nat /\ MaxCrashes \in Nat
    /\ \A said \in Feedbacks : said[1] \in {"resolved", "not_useful", "needs_review"}
    /\ NoRow \notin Row \cup Diagnoses

Begun == [pc |-> "fetch", history |-> {}, summary |-> ByRules, seen |-> NoRow]

IncidentsInit ==
    /\ rows = [i \in Incidents |-> NoRow]
    /\ evidence = [i \in Incidents |-> <<>>]
    /\ analyses = [t \in Tasks |-> Begun]
    /\ answers = [r \in IncidentRequests |-> "none"]
    /\ tries = [r \in Deliveries |-> 0]
    /\ crashes = 0

IncidentsTypeOK ==
    /\ rows \in [Incidents -> Row \cup {NoRow}]
    /\ evidence \in [Incidents -> Seq(Tasks)]
    /\ analyses \in [Tasks -> [pc : {"fetch", "retrieve", "diagnose", "look", "write", "saved", "failed"},
                               history : SUBSET Incidents, summary : Diagnoses,
                               seen : Diagnoses \cup {NoRow}]]
    /\ answers \in [IncidentRequests -> {"none", "complete", "error"}]
    /\ tries \in [Deliveries -> 0..(MaxRetries + 1)]
    /\ crashes \in 0..MaxCrashes

-----------------------------------------------------------------------------
\* Nothing else of the API runs between the look and the write of one of its tasks.
LoopIsFree == \A u \in Tasks : InApi(u) => analyses[u].pc # "write"

At(t, pc) == analyses[t].pc = pc /\ (InApi(t) /\ pc # "write" => LoopIsFree)

Becomes(t, changes) ==
    /\ analyses' = [analyses EXCEPT ![t] = changes]
    /\ UNCHANGED <<answers, tries, crashes>>

\* The CI configuration and the log are read; the rules give a first diagnosis.
Fetch(t) ==
    /\ At(t, "fetch")
    /\ \E pc \in {"retrieve", "failed"} : Becomes(t, [analyses[t] EXCEPT !.pc = pc])
    /\ UNCHANGED <<rows, evidence>>

\* Similar incidents of the repository, never the one that is being analysed.
SimilarTo(incident) ==
    { other \in Incidents \ {incident} : rows[other] # NoRow /\ <<incident, other>> \in Alike }

Retrieve(t) ==
    /\ At(t, "retrieve")
    /\ Becomes(t, [analyses[t] EXCEPT !.pc = "diagnose", !.history = SimilarTo(t[2])])
    /\ UNCHANGED <<rows, evidence>>

\* The model's diagnosis is taken only if it cites something and only what was
\* retrieved; of the log's own evidence it may cite any.
Grounded(cited, history) == cited # {} /\ cited \ {"log"} \subseteq history

Diagnose(t) ==
    /\ At(t, "diagnose")
    /\ \E cited \in {{}, {"log"}, {"log", t[2]}} \cup { {i} : i \in Incidents } :
         Becomes(t, IF Grounded(cited, analyses[t].history)
                    THEN [Begun EXCEPT !.pc = "look", !.summary = <<"model", t>>]
                    ELSE [Begun EXCEPT !.pc = "look"])
    /\ UNCHANGED <<rows, evidence>>

\* save_snapshot: the row is looked up outside the transaction that writes it.
Look(t) ==
    /\ At(t, "look")
    /\ Becomes(t, [analyses[t] EXCEPT !.pc = "write",
                     !.seen = IF rows[t[2]] = NoRow THEN NoRow ELSE rows[t[2]].summary])
    /\ UNCHANGED <<rows, evidence>>

\* A column is written only when it differs from what was looked up.
Updated_Replaced(row, seen, summary) == [summary |-> summary, status |-> "new", text |-> NoText]

Updated(row, seen, summary) == IF summary = seen THEN row ELSE [row EXCEPT !.summary = summary]

\* The evidence of earlier analyses goes in the same transaction.
Kept_All(t) == evidence[t[2]]

Kept(t) == IF analyses[t].seen = NoRow THEN evidence[t[2]] ELSE <<>>

\* The key is unique: of two that saw no row the second fails.
Write(t) ==
    LET i == t[2]
        task == analyses[t]
    IN /\ At(t, "write")
       /\ task.seen = NoRow => rows[i] = NoRow
       /\ rows' = [rows EXCEPT ![i] =
                     IF task.seen = NoRow THEN [summary |-> task.summary, status |-> "new", text |-> NoText]
                     ELSE Updated(rows[i], task.seen, task.summary)]
       /\ evidence' = [evidence EXCEPT ![i] = Append(Kept(t), t)]
       /\ Becomes(t, [Begun EXCEPT !.pc = "saved"])

WriteFails(t) ==
    /\ At(t, "write")
    /\ Becomes(t, [Begun EXCEPT !.pc = "failed"])
    /\ UNCHANGED <<rows, evidence>>

-----------------------------------------------------------------------------
Ends(t) == analyses[t].pc \in {"saved", "failed"}

\* The first failure answers a request for a pipeline; its other analyses go on.
AllSaved(request) == \A t \in TasksOf(request) : analyses[t].pc = "saved"

Answer(request) ==
    /\ answers[request] = "none" /\ AllSaved(request)
    /\ request \notin Deliveries => LoopIsFree
    /\ answers' = [answers EXCEPT ![request] = "complete"]
    /\ UNCHANGED <<rows, evidence, analyses, tries, crashes>>

\* A failed analysis, or a failed read of the access report after all of them.
AnswerError(request) ==
    /\ answers[request] = "none" /\ request \notin Deliveries /\ LoopIsFree
    /\ AllSaved(request) \/ \E t \in TasksOf(request) : analyses[t].pc = "failed"
    /\ answers' = [answers EXCEPT ![request] = "error"]
    /\ UNCHANGED <<rows, evidence, analyses, tries, crashes>>

Restarted(request) == [t \in Tasks |-> IF t[1] = request THEN Begun ELSE analyses[t]]

\* The queue delivers a failed analysis again, a limited number of times.
Retry(request) ==
    /\ answers[request] = "none" /\ \E t \in TasksOf(request) : analyses[t].pc = "failed"
    /\ tries' = [tries EXCEPT ![request] = @ + 1]
    /\ IF tries[request] < MaxRetries
       THEN analyses' = Restarted(request) /\ UNCHANGED answers
       ELSE answers' = [answers EXCEPT ![request] = "error"] /\ UNCHANGED analyses
    /\ UNCHANGED <<rows, evidence, crashes>>

\* The worker dies, also after its commit, and what it did not acknowledge comes back.
Crash(request) ==
    /\ answers[request] = "none" /\ crashes < MaxCrashes
    /\ crashes' = crashes + 1
    /\ analyses' = Restarted(request)
    /\ UNCHANGED <<rows, evidence, answers, tries>>

\* record_feedback of an incident that exists.
Feedback(incident, said) ==
    /\ LoopIsFree /\ rows[incident] # NoRow
    /\ rows' = [rows EXCEPT ![incident].status = said[1], ![incident].text = said[2]]
    /\ UNCHANGED <<evidence, analyses, answers, tries, crashes>>

Analyse(t) == Fetch(t) \/ Retrieve(t) \/ Diagnose(t) \/ Look(t) \/ Write(t) \/ WriteFails(t)
Conclude(request) == Answer(request) \/ AnswerError(request) \/ (request \in Deliveries /\ Retry(request))

IncidentsNext ==
    \/ \E t \in Tasks : Analyse(t)
    \/ \E r \in IncidentRequests : Conclude(r)
    \/ \E r \in Deliveries : Crash(r)
    \/ \E i \in Incidents, said \in Feedbacks : Feedback(i, said)

IncidentsSpec == IncidentsInit /\ [][IncidentsNext]_incidentVars

\* Reads and model requests have timeouts, the processes are scheduled.
IncidentsFairness ==
    /\ \A t \in Tasks : WF_incidentVars(Analyse(t))
    /\ \A r \in IncidentRequests : WF_incidentVars(Conclude(r))

-----------------------------------------------------------------------------
\* An analysis never takes back what a user said of an incident, whoever analyses
\* the job again and however late: the incident stays, with its resolution.
FeedbackKept ==
    [][ \A i \in Incidents :
          rows[i] # NoRow =>
            /\ rows'[i] # NoRow
            /\ (rows'[i].status # rows[i].status \/ rows'[i].text # rows[i].text) => UNCHANGED analyses
      ]_incidentVars

\* A complete answer for a pipeline, and a delivery that was acknowledged, mean
\* that every job has its incident; and whatever was delivered twice or raced, an
\* incident has the evidence of exactly one analysis.
AnswerMeansSaved ==
    /\ \A r \in IncidentRequests, i \in Incidents :
         answers[r] = "complete" /\ i \in JobsOf[r] => rows[i] # NoRow
    /\ \A i \in Incidents : IF rows[i] = NoRow THEN evidence[i] = <<>>
                            ELSE Len(evidence[i]) = 1 /\ evidence[i][1][2] = i

\* Every request is answered and every delivery acknowledged or given up, and the
\* analyses nobody waits for any more end too.
AnalysesEnd == \A r \in IncidentRequests : answers[r] # "none" /\ \A t \in TasksOf(r) : Ends(t)
================================================================================

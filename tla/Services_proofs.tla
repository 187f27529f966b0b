--------------------------- MODULE Services_proofs ---------------------------
(****************************************************************************)
(* Proofs about the processes around the inspection: the supervisor leaves no *)
(* service behind and never reports success; whatever races, fails, dies or is *)
(* delivered again, feedback stays and an answer means that every job has its *)
(* incident, with one analysis's evidence; the agent keeps its budgets,       *)
(* answers with what was issued to it and keeps a patch only if it is exact;  *)
(* a load of CI sources keeps its limits and is complete if it says so; and   *)
(* all of them side by side, with the inspection and its proposals, keep what *)
(* each keeps alone. Every step of any of them leaves it fewer steps to take.  *)
(****************************************************************************)
EXTENDS Composition, Inspection_proofs

-----------------------------------------------------------------------------
(* The container supervisor (Supervisor). *)

\* The returned status is decided before the services are stopped, and whoever stopped
\* waiting for them saw each of them reaped, which only an ended one is.
SupervisorInv ==
    /\ SupervisorTypeOK
    /\ \A i \in reaped : ended[i] # None
    /\ pc = "starting" => started < N
    /\ pc \in {"terminate", "grace", "gather", "done"} => status \in 1..255
    /\ pc = "done" => Children \subseteq reaped

LEMMA SupervisorInitKeeps == SupervisorInit => SupervisorInv
  BY SupervisorAssumption DEF SupervisorInit, SupervisorInv, SupervisorTypeOK, Children, Services

\* Statuses are statuses a process can have.
LEMMA StatusRange ==
    /\ \A s \in Signals : 128 + s \in 1..255
    /\ \A code \in Int : ExitStatus(code) \in 1..255
<1>1. ASSUME NEW s \in Signals PROVE 128 + s \in 1..255
  BY SupervisorAssumption
<1>2. ASSUME NEW code \in Int PROVE ExitStatus(code) \in 1..255
  BY DEF ExitStatus
<1> QED
  BY <1>1, <1>2

\* The steps of the environment, which change no place and no status.
LEMMA EnvironmentKeeps ==
    ASSUME SupervisorInv,
           (\E s \in Signals : RequestStop(s)) \/ (\E i \in Services : End(i) \/ Reap(i))
    PROVE  SupervisorInv'
<1>1. CASE \E s \in Signals : RequestStop(s)
  BY <1>1 DEF RequestStop, First, SupervisorInv, SupervisorTypeOK, Children
<1>2. ASSUME NEW i \in Services, End(i) PROVE SupervisorInv'
  <2>1. PICK code \in IF told[i] = "kill" THEN {-SIGKILL} ELSE Codes :
               ended' = [ended EXCEPT ![i] = code]
    BY <1>2 DEF End
  <2>2. code \in Int /\ code # None
    <3>1. CASE told[i] = "kill"
      BY <3>1, SupervisorAssumption DEF SIGKILL
    <3>2. CASE told[i] # "kill"
      BY <3>2, SupervisorAssumption
    <3> QED
      BY <3>1, <3>2
  <2>3. ended' \in [Services -> Int \cup {None}]
    BY <2>1, <2>2 DEF SupervisorInv, SupervisorTypeOK
  <2>4. \A j \in reaped : ended'[j] # None
    BY <2>1, <2>2 DEF SupervisorInv, SupervisorTypeOK, Children, Services
  <2> QED
    BY <1>2, <2>3, <2>4 DEF End, SupervisorInv, SupervisorTypeOK, Children
<1>3. ASSUME NEW i \in Services, Reap(i) PROVE SupervisorInv'
  BY <1>3 DEF Reap, SupervisorInv, SupervisorTypeOK, Children
<1> QED
  BY <1>1, <1>2, <1>3

LEMMA SuperviseKeeps == ASSUME SupervisorInv, Supervise PROVE SupervisorInv'
<1>1. CASE Launch
  <2>1. requested # None => 128 + requested \in 1..255
    BY StatusRange DEF SupervisorInv, SupervisorTypeOK
  <2> QED
    BY <1>1, <2>1 DEF Launch, More, Stop, SupervisorInv, SupervisorTypeOK, Children
<1>2. CASE Started
  <2>1. started' \in 0..N /\ started' = started + 1
    BY <1>2, SupervisorAssumption DEF Started, SupervisorInv, SupervisorTypeOK
  <2>2. reaped' \subseteq Children'
    BY <1>2, <2>1, SupervisorAssumption DEF Started, SupervisorInv, SupervisorTypeOK, Children
  <2> QED
    BY <1>2, <2>1, <2>2 DEF Started, SupervisorInv, SupervisorTypeOK
<1>3. CASE StartFails
  BY <1>3 DEF StartFails, Stop, SupervisorInv, SupervisorTypeOK, Children
<1>4. CASE AllStarted
  BY <1>4 DEF AllStarted, SupervisorInv, SupervisorTypeOK, Children
<1>5. CASE Decide
  <2>1. pc' = "terminate" /\ status' \in 1..255
    <3>1. CASE requested # None
      BY <1>5, <3>1, StatusRange DEF Decide, Stop, SupervisorInv, SupervisorTypeOK
    <3>2. CASE requested = None
      <4>1. PICK i \in reaped : Stop(ExitStatus(ended[i]))
        BY <1>5, <3>2 DEF Decide
      <4>2. ended[i] \in Int
        BY SupervisorAssumption DEF SupervisorInv, SupervisorTypeOK, Children, Services
      <4> QED
        BY <4>1, <4>2, StatusRange DEF Stop
    <3> QED
      BY <3>1, <3>2
  <2> QED
    BY <1>5, <2>1 DEF Decide, SupervisorInv, SupervisorTypeOK, Children
<1>6. CASE Terminate
  BY <1>6, SupervisorAssumption DEF Terminate, Tell, SupervisorInv, SupervisorTypeOK, Children
<1>7. CASE Kill
  BY <1>7 DEF Kill, Tell, SupervisorInv, SupervisorTypeOK, Children
<1>8. CASE Return
  BY <1>8 DEF Return, AllReaped, Alive, SupervisorInv, SupervisorTypeOK, Children
<1> QED
  BY <1>1, <1>2, <1>3, <1>4, <1>5, <1>6, <1>7, <1>8 DEF Supervise

LEMMA SupervisorNextKeeps == SupervisorInv /\ [SupervisorNext]_supervisorVars => SupervisorInv'
<1> SUFFICES ASSUME SupervisorInv, [SupervisorNext]_supervisorVars PROVE SupervisorInv'
  OBVIOUS
<1>1. CASE UNCHANGED supervisorVars
  BY <1>1 DEF supervisorVars, SupervisorInv, SupervisorTypeOK, Children
<1> QED
  BY <1>1, EnvironmentKeeps, SuperviseKeeps DEF SupervisorNext

\* Types of the supervisor's state.
THEOREM SupervisorTypeCorrect == SupervisorSpec => []SupervisorTypeOK
<1>1. SupervisorInv => SupervisorTypeOK
  BY DEF SupervisorInv
<1> QED
  BY <1>1, SupervisorInitKeeps, SupervisorNextKeeps, PTL DEF SupervisorSpec

\* For any number of services, any signals and any ends: when the supervisor returns,
\* all the services it started have ended and were reaped.
THEOREM SupervisorLeavesNone == SupervisorSpec => []NoServiceLeft
<1>1. SupervisorInv => NoServiceLeft
  BY DEF SupervisorInv, NoServiceLeft
<1> QED
  BY <1>1, SupervisorInitKeeps, SupervisorNextKeeps, PTL DEF SupervisorSpec

\* The supervisor's status is never success, and one a process can have.
THEOREM SupervisorNeverSucceeds == SupervisorSpec => []NeverSuccess
<1>1. SupervisorInv => NeverSuccess
  BY DEF SupervisorInv, NeverSuccess
<1> QED
  BY <1>1, SupervisorInitKeeps, SupervisorNextKeeps, PTL DEF SupervisorSpec

-----------------------------------------------------------------------------
(* Incidents (Incidents). *)

Pcs == {"fetch", "retrieve", "diagnose", "look", "write", "saved", "failed"}
Analysis == [pc : Pcs, history : SUBSET Incidents, summary : Diagnoses,
             seen : Diagnoses \cup {NoRow}]

RowsTyped == rows \in [Incidents -> Row \cup {NoRow}]
AnalysesTyped == analyses \in [Tasks -> Analysis]
AnswersTyped == answers \in [IncidentRequests -> {"none", "complete", "error"}]

\* What an analysis saw, and what it saved, is still there.
SeenStays == \A t \in Tasks :
    /\ analyses[t].pc = "write" /\ analyses[t].seen # NoRow => rows[t[2]] # NoRow
    /\ analyses[t].pc = "saved" => rows[t[2]] # NoRow

AnswersHold == \A r \in IncidentRequests, i \in Incidents :
    answers[r] = "complete" /\ i \in JobsOf[r] => rows[i] # NoRow

\* No row, no evidence; a row has that of one analysis of its job.
EvidenceIsOnes ==
    /\ DOMAIN evidence = Incidents
    /\ \A i \in Incidents : IF rows[i] = NoRow THEN evidence[i] = <<>>
                            ELSE Len(evidence[i]) = 1 /\ evidence[i][1][2] = i

IncidentsInv == /\ RowsTyped /\ AnalysesTyped /\ AnswersTyped
                /\ SeenStays /\ AnswersHold /\ EvidenceIsOnes

LEMMA TasksAreOfRequests ==
    /\ \A t \in Tasks : t[1] \in IncidentRequests /\ t[2] \in Incidents
    /\ \A r \in IncidentRequests, i \in Incidents :
         i \in JobsOf[r] => <<r, i>> \in TasksOf(r)
  BY DEF Tasks, TasksOf

LEMMA IncidentsInitKeeps == IncidentsInit => IncidentsInv
<1> SUFFICES ASSUME IncidentsInit PROVE IncidentsInv
  OBVIOUS
<1>1. Begun \in Analysis /\ Begun.pc = "fetch"
  BY DEF Begun, Analysis, Pcs, Diagnoses
<1> QED
  BY <1>1, IncidentsAssumption DEF IncidentsInit, IncidentsInv, RowsTyped, AnalysesTyped, AnswersTyped,
     SeenStays, AnswersHold, EvidenceIsOnes

\* A step of analyses that touches no row is harmless if what they now hold is so.
LEMMA RowsUntouched ==
    ASSUME IncidentsInv, UNCHANGED <<rows, evidence, answers>>, AnalysesTyped', SeenStays'
    PROVE  IncidentsInv'
  BY DEF IncidentsInv, RowsTyped, AnswersTyped, AnswersHold, EvidenceIsOnes

LEMMA OneMoves ==
    ASSUME IncidentsInv, NEW t \in Tasks, NEW changes \in Analysis, Becomes(t, changes),
           UNCHANGED <<rows, evidence>>,
           changes.pc = "write" /\ changes.seen # NoRow => rows[t[2]] # NoRow,
           changes.pc # "saved"
    PROVE  IncidentsInv'
<1>1. analyses' = [analyses EXCEPT ![t] = changes] /\ UNCHANGED answers
  BY DEF Becomes
<1>2. AnalysesTyped'
  BY <1>1 DEF IncidentsInv, AnalysesTyped
<1>3. SeenStays'
  BY <1>1 DEF IncidentsInv, AnalysesTyped, SeenStays
<1> QED
  BY <1>1, <1>2, <1>3, RowsUntouched

LEMMA FetchKeeps == ASSUME IncidentsInv, NEW t \in Tasks, Fetch(t) PROVE IncidentsInv'
<1>1. PICK place \in {"retrieve", "failed"} : Becomes(t, [analyses[t] EXCEPT !.pc = place])
  BY DEF Fetch
<1> DEFINE changes == [analyses[t] EXCEPT !.pc = place]
<1>2. analyses[t] \in Analysis
  BY DEF IncidentsInv, AnalysesTyped
<1>3. changes \in Analysis /\ changes.pc \notin {"write", "saved"}
  BY <1>2 DEF Analysis, Pcs
<1> HIDE DEF changes
<1> QED
  BY <1>1, <1>3, OneMoves DEF Fetch, changes

LEMMA RetrieveKeeps == ASSUME IncidentsInv, NEW t \in Tasks, Retrieve(t) PROVE IncidentsInv'
<1> DEFINE changes == [analyses[t] EXCEPT !.pc = "diagnose", !.history = SimilarTo(t[2])]
<1>1. analyses[t] \in Analysis
  BY DEF IncidentsInv, AnalysesTyped
<1>2. SimilarTo(t[2]) \in SUBSET Incidents
  BY DEF SimilarTo
<1>3. changes \in Analysis /\ changes.pc \notin {"write", "saved"}
  BY <1>1, <1>2 DEF Analysis, Pcs
<1>4. Becomes(t, changes) /\ UNCHANGED <<rows, evidence>>
  BY DEF Retrieve
<1> HIDE DEF changes
<1> QED
  BY <1>3, <1>4, OneMoves

\* Whoever wrote the diagnosis, what a new analysis has seen is forgotten.
LEMMA FreshIsTyped ==
    ASSUME NEW place \in Pcs, NEW summary \in Diagnoses
    PROVE  [Begun EXCEPT !.pc = place, !.summary = summary] \in Analysis
           /\ [Begun EXCEPT !.pc = place, !.summary = summary].pc = place
  BY DEF Begun, Analysis

LEMMA BegunIsTyped ==
    ASSUME NEW place \in Pcs
    PROVE  [Begun EXCEPT !.pc = place] \in Analysis /\ [Begun EXCEPT !.pc = place].pc = place
           /\ [Begun EXCEPT !.pc = place].seen = NoRow
  BY DEF Begun, Analysis, Diagnoses

LEMMA DiagnoseKeeps == ASSUME IncidentsInv, NEW t \in Tasks, Diagnose(t) PROVE IncidentsInv'
<1>1. PICK cited : Becomes(t, IF Grounded(cited, analyses[t].history)
                              THEN [Begun EXCEPT !.pc = "look", !.summary = <<"model", t>>]
                              ELSE [Begun EXCEPT !.pc = "look"])
  BY DEF Diagnose
<1> DEFINE changes == IF Grounded(cited, analyses[t].history)
                      THEN [Begun EXCEPT !.pc = "look", !.summary = <<"model", t>>]
                      ELSE [Begun EXCEPT !.pc = "look"]
<1>2. <<"model", t>> \in Diagnoses /\ "look" \in Pcs
  BY DEF Diagnoses, Pcs
<1>3. changes \in Analysis /\ changes.pc = "look"
  BY <1>2, FreshIsTyped, BegunIsTyped
<1> HIDE DEF changes
<1> QED
  BY <1>1, <1>3, OneMoves DEF Diagnose, changes

LEMMA LookKeeps == ASSUME IncidentsInv, NEW t \in Tasks, Look(t) PROVE IncidentsInv'
<1> DEFINE seen == IF rows[t[2]] = NoRow THEN NoRow ELSE rows[t[2]].summary
           changes == [analyses[t] EXCEPT !.pc = "write", !.seen = seen]
<1>1. analyses[t] \in Analysis
  BY DEF IncidentsInv, AnalysesTyped
<1>2. seen \in Diagnoses \cup {NoRow} /\ (seen # NoRow => rows[t[2]] # NoRow)
  BY TasksAreOfRequests DEF IncidentsInv, RowsTyped, Row
<1> HIDE DEF seen
<1>3. changes \in Analysis /\ changes.pc = "write" /\ changes.seen = seen
  BY <1>1, <1>2 DEF Analysis, Pcs
<1>4. Becomes(t, changes) /\ UNCHANGED <<rows, evidence>>
  BY DEF Look, seen
<1> HIDE DEF changes
<1> QED
  BY <1>2, <1>3, <1>4, OneMoves

LEMMA WriteFailsKeeps == ASSUME IncidentsInv, NEW t \in Tasks, WriteFails(t) PROVE IncidentsInv'
<1> DEFINE changes == [Begun EXCEPT !.pc = "failed"]
<1>1. changes \in Analysis /\ changes.pc = "failed"
  BY BegunIsTyped DEF Pcs
<1>2. Becomes(t, changes) /\ UNCHANGED <<rows, evidence>>
  BY DEF WriteFails
<1> HIDE DEF changes
<1> QED
  BY <1>1, <1>2, OneMoves

\* A write leaves a row behind, and what a user said of it if there was one.
LEMMA WriteLeavesARow ==
    ASSUME IncidentsInv, NEW t \in Tasks, Write(t)
    PROVE  \E row \in Row :
             /\ rows' = [rows EXCEPT ![t[2]] = row]
             /\ rows[t[2]] # NoRow => row.status = rows[t[2]].status /\ row.text = rows[t[2]].text
<1> DEFINE i == t[2]
           seen == analyses[t].seen
           summary == analyses[t].summary
           new == [summary |-> summary, status |-> "new", text |-> NoText]
<1>1. i \in Incidents /\ summary \in Diagnoses
  BY TasksAreOfRequests DEF IncidentsInv, AnalysesTyped, Analysis
<1>2. /\ analyses[t].pc = "write" /\ (seen = NoRow => rows[i] = NoRow)
      /\ rows' = [rows EXCEPT ![i] = IF seen = NoRow THEN new ELSE Updated(rows[i], seen, summary)]
  BY DEF Write, At
<1>3. CASE seen = NoRow
  <2>1. new \in Row
    BY <1>1 DEF Row
  <2> QED
    BY <1>2, <1>3, <2>1
<1>4. CASE seen # NoRow
  <2>1. rows[i] \in Row
    BY <1>1, <1>2, <1>4 DEF IncidentsInv, RowsTyped, SeenStays
  <2> DEFINE row == Updated(rows[i], seen, summary)
  <2>2. row \in Row /\ row.status = rows[i].status /\ row.text = rows[i].text
    BY <1>1, <2>1 DEF Updated, Row
  <2>3. rows' = [rows EXCEPT ![i] = row]
    BY <1>2, <1>4
  <2> QED
    BY <2>2, <2>3
<1> QED
  BY <1>3, <1>4

LEMMA WriteKeeps == ASSUME IncidentsInv, NEW t \in Tasks, Write(t) PROVE IncidentsInv'
<1> DEFINE i == t[2]
           changes == [Begun EXCEPT !.pc = "saved"]
<1>1. i \in Incidents
  BY TasksAreOfRequests
<1>2. PICK row \in Row : rows' = [rows EXCEPT ![i] = row]
  BY WriteLeavesARow
<1>3. row # NoRow
  BY IncidentsAssumption
<1>4. changes \in Analysis /\ changes.pc = "saved"
  BY BegunIsTyped DEF Pcs
<1>5. Becomes(t, changes)
  BY DEF Write
<1> HIDE DEF changes
<1>6. analyses' = [analyses EXCEPT ![t] = changes] /\ UNCHANGED answers
  BY <1>5 DEF Becomes
<1>7. RowsTyped' /\ AnalysesTyped' /\ AnswersTyped'
  BY <1>1, <1>2, <1>4, <1>6 DEF IncidentsInv, RowsTyped, AnalysesTyped, AnswersTyped
<1>8. rows'[i] = row /\ \A j \in Incidents \ {i} : rows'[j] = rows[j]
  BY <1>1, <1>2 DEF IncidentsInv, RowsTyped
<1>9. SeenStays'
  BY <1>3, <1>4, <1>6, <1>8, TasksAreOfRequests DEF IncidentsInv, AnalysesTyped, SeenStays
<1>10. AnswersHold'
  BY <1>3, <1>6, <1>8 DEF IncidentsInv, AnswersHold
<1>11. EvidenceIsOnes'
  <2>1. Kept(t) = <<>>
    <3>1. analyses[t].seen = NoRow => rows[i] = NoRow
      BY DEF Write
    <3> QED
      BY <1>1, <3>1 DEF Kept, IncidentsInv, EvidenceIsOnes
  <2>2. evidence' = [evidence EXCEPT ![i] = Append(Kept(t), t)]
    BY DEF Write
  <2>3. Append(<<>>, t) = <<t>>
    OBVIOUS
  <2>4. evidence'[i] = <<t>> /\ \A j \in Incidents \ {i} : evidence'[j] = evidence[j]
    BY <1>1, <2>1, <2>2, <2>3 DEF IncidentsInv, EvidenceIsOnes
  <2>5. DOMAIN evidence' = Incidents
    BY <2>2 DEF IncidentsInv, EvidenceIsOnes
  <2>6. Len(<<t>>) = 1 /\ <<t>>[1][2] = i
    OBVIOUS
  <2> SUFFICES ASSUME NEW j \in Incidents
               PROVE  IF rows'[j] = NoRow THEN evidence'[j] = <<>>
                      ELSE Len(evidence'[j]) = 1 /\ evidence'[j][1][2] = j
    BY <2>5 DEF EvidenceIsOnes
  <2>7. CASE j = i
    BY <1>3, <1>8, <2>4, <2>6, <2>7
  <2>8. CASE j # i
    BY <1>8, <2>4, <2>8 DEF IncidentsInv, EvidenceIsOnes
  <2> QED
    BY <2>7, <2>8
<1> QED
  BY <1>7, <1>9, <1>10, <1>11 DEF IncidentsInv

\* An answer, a retry and a crash touch no row.
LEMMA AnswerKeeps ==
    ASSUME IncidentsInv, NEW r \in IncidentRequests, Answer(r) PROVE IncidentsInv'
<1>1. /\ answers' = [answers EXCEPT ![r] = "complete"] /\ AllSaved(r)
      /\ UNCHANGED <<rows, evidence, analyses>>
  BY DEF Answer
<1>2. \A i \in Incidents : i \in JobsOf[r] => rows[i] # NoRow
  <2> SUFFICES ASSUME NEW i \in Incidents, i \in JobsOf[r] PROVE rows[i] # NoRow
    OBVIOUS
  <2>1. <<r, i>> \in TasksOf(r) /\ <<r, i>> \in Tasks /\ <<r, i>>[2] = i
    BY TasksAreOfRequests DEF TasksOf
  <2> QED
    BY <1>1, <2>1 DEF AllSaved, IncidentsInv, SeenStays
<1>3. AnswersTyped' /\ AnswersHold'
  BY <1>1, <1>2 DEF IncidentsInv, AnswersTyped, AnswersHold
<1> QED
  BY <1>1, <1>3 DEF IncidentsInv, RowsTyped, AnalysesTyped, SeenStays, EvidenceIsOnes

LEMMA ErrorKeeps ==
    ASSUME IncidentsInv, NEW r \in IncidentRequests,
           answers' = [answers EXCEPT ![r] = "error"], UNCHANGED <<rows, evidence, analyses>>
    PROVE  IncidentsInv'
<1>1. AnswersTyped' /\ AnswersHold'
  BY DEF IncidentsInv, AnswersTyped, AnswersHold
<1> QED
  BY <1>1 DEF IncidentsInv, RowsTyped, AnalysesTyped, SeenStays, EvidenceIsOnes

LEMMA RestartKeeps ==
    ASSUME IncidentsInv, NEW r \in IncidentRequests, analyses' = Restarted(r),
           UNCHANGED <<rows, evidence, answers>>
    PROVE  IncidentsInv'
<1>1. Begun \in Analysis /\ Begun.pc = "fetch"
  BY DEF Begun, Analysis, Pcs, Diagnoses
<1>2. AnalysesTyped' /\ SeenStays'
  BY <1>1 DEF Restarted, IncidentsInv, AnalysesTyped, SeenStays
<1> QED
  BY <1>2, RowsUntouched

LEMMA RetryKeeps ==
    ASSUME IncidentsInv, NEW r \in IncidentRequests, Retry(r) PROVE IncidentsInv'
<1>1. CASE tries[r] < MaxRetries
  BY <1>1, RestartKeeps DEF Retry
<1>2. CASE ~(tries[r] < MaxRetries)
  BY <1>2, ErrorKeeps DEF Retry
<1> QED
  BY <1>1, <1>2

LEMMA FeedbackLeavesRows ==
    ASSUME IncidentsInv, NEW i \in Incidents, NEW said \in Feedbacks, Feedback(i, said)
    PROVE  RowsTyped' /\ \A j \in Incidents : rows'[j] = NoRow <=> rows[j] = NoRow
<1>1. /\ rows[i] \in Row
      /\ rows' = [rows EXCEPT ![i].status = said[1], ![i].text = said[2]]
  BY DEF Feedback, IncidentsInv, RowsTyped
<1> DEFINE row == [rows[i] EXCEPT !.status = said[1], !.text = said[2]]
<1>2. rows' = [rows EXCEPT ![i] = row]
  BY <1>1 DEF IncidentsInv, RowsTyped
<1>3. row \in Row
  <2>1. said[1] \in {"new", "resolved", "not_useful", "needs_review"}
        /\ said[2] \in { other[2] : other \in Feedbacks } \cup {NoText}
    BY IncidentsAssumption
  <2> QED
    BY <1>1, <2>1 DEF Row
<1> HIDE DEF row
<1>4. row # NoRow /\ rows[i] # NoRow
  BY <1>1, <1>3, IncidentsAssumption
<1> QED
  BY <1>2, <1>3, <1>4 DEF IncidentsInv, RowsTyped

LEMMA FeedbackKeeps ==
    ASSUME IncidentsInv, NEW i \in Incidents, NEW said \in Feedbacks, Feedback(i, said)
    PROVE  IncidentsInv'
<1>1. UNCHANGED <<evidence, analyses, answers>>
  BY DEF Feedback
<1> QED
  BY <1>1, FeedbackLeavesRows, TasksAreOfRequests DEF IncidentsInv, AnalysesTyped, AnswersTyped,
     SeenStays, AnswersHold, EvidenceIsOnes

LEMMA IncidentsNextKeeps == ASSUME IncidentsInv, [IncidentsNext]_incidentVars PROVE IncidentsInv'
<1>1. ASSUME NEW t \in Tasks, Analyse(t) PROVE IncidentsInv'
  BY <1>1, FetchKeeps, RetrieveKeeps, DiagnoseKeeps, LookKeeps, WriteKeeps, WriteFailsKeeps
     DEF Analyse
<1>2. ASSUME NEW r \in IncidentRequests, Conclude(r) PROVE IncidentsInv'
  <2>1. ASSUME AnswerError(r) PROVE IncidentsInv'
    BY <2>1, ErrorKeeps DEF AnswerError
  <2> QED
    BY <1>2, <2>1, AnswerKeeps, RetryKeeps DEF Conclude
<1>3. ASSUME NEW r \in Deliveries, Crash(r) PROVE IncidentsInv'
  BY <1>3, RestartKeeps, IncidentsAssumption DEF Crash
<1>4. ASSUME UNCHANGED incidentVars PROVE IncidentsInv'
  BY <1>4 DEF incidentVars, IncidentsInv, RowsTyped, AnalysesTyped, AnswersTyped, SeenStays,
     AnswersHold, EvidenceIsOnes
<1> QED
  BY <1>1, <1>2, <1>3, <1>4, FeedbackKeeps DEF IncidentsNext

LEMMA IncidentsInvariant == IncidentsSpec => []IncidentsInv
<1>1. IncidentsInit => IncidentsInv
  BY IncidentsInitKeeps
<1>2. IncidentsInv /\ [IncidentsNext]_incidentVars => IncidentsInv'
  BY IncidentsNextKeeps
<1> QED
  BY <1>1, <1>2, PTL DEF IncidentsSpec

\* Whichever step an analysis takes, it leaves a row its status and text.
LEMMA AnalysesKeepFeedback ==
    ASSUME IncidentsInv, NEW t \in Tasks, Analyse(t), NEW i \in Incidents, rows[i] # NoRow
    PROVE  rows'[i] # NoRow /\ rows'[i].status = rows[i].status /\ rows'[i].text = rows[i].text
<1>1. CASE Write(t)
  <2>1. PICK row \in Row :
          /\ rows' = [rows EXCEPT ![t[2]] = row]
          /\ rows[t[2]] # NoRow => row.status = rows[t[2]].status /\ row.text = rows[t[2]].text
    BY <1>1, WriteLeavesARow
  <2>2. row # NoRow
    BY IncidentsAssumption
  <2> QED
    BY <2>1, <2>2 DEF IncidentsInv, RowsTyped
<1>2. CASE UNCHANGED rows
  BY <1>2
<1> QED
  BY <1>1, <1>2 DEF Analyse, Fetch, Retrieve, Diagnose, Look, WriteFails

\* Whatever is analysed again, however late and by whichever process, an incident
\* keeps what a user said of it (storage.py, save_snapshot and record_feedback).
THEOREM IncidentsKeepFeedback == IncidentsSpec => FeedbackKept
<1>1. ASSUME IncidentsInv, IncidentsNext, NEW i \in Incidents, rows[i] # NoRow
      PROVE  /\ rows'[i] # NoRow
             /\ (rows'[i].status # rows[i].status \/ rows'[i].text # rows[i].text)
                  => UNCHANGED analyses
  <2>1. ASSUME NEW t \in Tasks, Analyse(t)
        PROVE  rows'[i] # NoRow /\ rows'[i].status = rows[i].status /\ rows'[i].text = rows[i].text
    BY <1>1, <2>1, AnalysesKeepFeedback
  <2>2. ASSUME NEW r \in IncidentRequests, Conclude(r) \/ (r \in Deliveries /\ Crash(r))
        PROVE  UNCHANGED rows
    BY <2>2 DEF Conclude, Answer, AnswerError, Retry, Crash
  <2>3. ASSUME NEW j \in Incidents, NEW said \in Feedbacks, Feedback(j, said)
        PROVE  rows'[i] # NoRow /\ UNCHANGED analyses
    BY <1>1, <2>3, FeedbackLeavesRows DEF Feedback
  <2> QED
    BY <1>1, <2>1, <2>2, <2>3, IncidentsAssumption DEF IncidentsNext
<1>2. IncidentsInv /\ [IncidentsNext]_incidentVars =>
        [ \A i \in Incidents :
            rows[i] # NoRow =>
              /\ rows'[i] # NoRow
              /\ (rows'[i].status # rows[i].status \/ rows'[i].text # rows[i].text)
                   => UNCHANGED analyses ]_incidentVars
  BY <1>1
<1> QED
  BY <1>2, IncidentsInvariant, PTL DEF IncidentsSpec, FeedbackKept

\* A complete answer and an acknowledged delivery mean that every job has its incident,
\* with the evidence of exactly one analysis (services/orchestrator.py, storage.py).
THEOREM IncidentsAnswerMeansSaved == IncidentsSpec => []AnswerMeansSaved
<1>1. IncidentsInv => AnswerMeansSaved
  BY DEF IncidentsInv, AnswersHold, EvidenceIsOnes, AnswerMeansSaved
<1> QED
  BY <1>1, IncidentsInvariant, PTL

\* The evidence is of analyses, and what is not given up yet may be tried again.
HistoryTyped ==
    /\ evidence \in [Incidents -> Seq(Tasks)]
    /\ tries \in [Deliveries -> 0..(MaxRetries + 1)] /\ crashes \in 0..MaxCrashes
    /\ \A r \in Deliveries : answers[r] = "none" => tries[r] <= MaxRetries

LEMMA HistoryInit == IncidentsInit => HistoryTyped
<1> SUFFICES ASSUME IncidentsInit PROVE HistoryTyped
  OBVIOUS
<1>1. MaxRetries \in Nat /\ MaxCrashes \in Nat
  BY IncidentsAssumption
<1>2. <<>> \in Seq(Tasks)
  OBVIOUS
<1>3. evidence \in [Incidents -> Seq(Tasks)]
  BY <1>2 DEF IncidentsInit
<1> QED
  BY <1>1, <1>3 DEF IncidentsInit, HistoryTyped

LEMMA HistoryNext == ASSUME IncidentsInv, HistoryTyped, [IncidentsNext]_incidentVars PROVE HistoryTyped'
<1>1. MaxRetries \in Nat /\ MaxCrashes \in Nat /\ Deliveries \subseteq IncidentRequests
  BY IncidentsAssumption
<1>2. CASE UNCHANGED incidentVars
  BY <1>2 DEF HistoryTyped, incidentVars
<1>3. ASSUME NEW t \in Tasks, Analyse(t) PROVE HistoryTyped'
  <2>1. UNCHANGED <<answers, tries, crashes>>
    BY <1>3 DEF Analyse, Fetch, Retrieve, Diagnose, Look, Write, WriteFails, Becomes
  <2>2. evidence' \in [Incidents -> Seq(Tasks)]
    <3>1. CASE Write(t)
      <4> DEFINE more == Append(Kept(t), t)
      <4>1. t[2] \in Incidents
        BY TasksAreOfRequests
      <4>2. Kept(t) \in Seq(Tasks)
        BY <4>1 DEF HistoryTyped, Kept
      <4>3. more \in Seq(Tasks)
        BY <4>2
      <4>4. evidence' = [evidence EXCEPT ![t[2]] = more]
        BY <3>1 DEF Write
      <4> HIDE DEF more
      <4> QED
        BY <4>1, <4>3, <4>4 DEF HistoryTyped
    <3>2. CASE UNCHANGED evidence
      BY <3>2 DEF HistoryTyped
    <3> QED
      BY <1>3, <3>1, <3>2 DEF Analyse, Fetch, Retrieve, Diagnose, Look, WriteFails
  <2> QED
    BY <2>1, <2>2 DEF HistoryTyped
<1>4. ASSUME NEW r \in IncidentRequests, Answer(r) \/ AnswerError(r) PROVE HistoryTyped'
  <2>1. UNCHANGED <<evidence, tries, crashes>>
    BY <1>4 DEF Answer, AnswerError
  <2>2. \A d \in Deliveries : answers'[d] = "none" => answers[d] = "none"
    BY <1>1, <1>4 DEF Answer, AnswerError, IncidentsInv, AnswersTyped
  <2> QED
    BY <2>1, <2>2 DEF HistoryTyped
<1>5. ASSUME NEW r \in Deliveries, Retry(r) PROVE HistoryTyped'
  <2>1. /\ answers[r] = "none" /\ tries' = [tries EXCEPT ![r] = @ + 1]
        /\ UNCHANGED <<rows, evidence, crashes>>
    BY <1>5 DEF Retry
  <2>2. tries[r] \in 0..MaxRetries
    BY <1>1, <2>1 DEF HistoryTyped
  <2>3. tries' \in [Deliveries -> 0..(MaxRetries + 1)]
    BY <1>1, <2>1, <2>2 DEF HistoryTyped
  <2>4. ASSUME NEW d \in Deliveries, answers'[d] = "none" PROVE tries'[d] <= MaxRetries
    <3>1. CASE tries[r] < MaxRetries
      <4>1. UNCHANGED answers
        BY <1>5, <3>1 DEF Retry
      <4>2. CASE d = r
        BY <1>1, <2>1, <2>2, <3>1, <4>2 DEF HistoryTyped
      <4>3. CASE d # r
        BY <2>1, <2>4, <4>1, <4>3 DEF HistoryTyped
      <4> QED
        BY <4>2, <4>3
    <3>2. CASE ~(tries[r] < MaxRetries)
      <4>1. answers' = [answers EXCEPT ![r] = "error"]
        BY <1>5, <3>2 DEF Retry
      <4>2. d # r /\ answers[d] = "none"
        BY <1>1, <2>4, <4>1 DEF IncidentsInv, AnswersTyped
      <4> QED
        BY <2>1, <4>2 DEF HistoryTyped
    <3> QED
      BY <3>1, <3>2
  <2> QED
    BY <2>1, <2>3, <2>4 DEF HistoryTyped
<1>6. ASSUME NEW r \in Deliveries, Crash(r) PROVE HistoryTyped'
  <2>1. crashes' = crashes + 1 /\ crashes < MaxCrashes /\ UNCHANGED <<evidence, answers, tries>>
    BY <1>6 DEF Crash
  <2> QED
    BY <1>1, <2>1 DEF HistoryTyped
<1>7. ASSUME NEW i \in Incidents, NEW said \in Feedbacks, Feedback(i, said) PROVE HistoryTyped'
  BY <1>7 DEF HistoryTyped, Feedback
<1> QED
  BY <1>2, <1>3, <1>4, <1>5, <1>6, <1>7 DEF IncidentsNext, Conclude

\* Whatever is retried or crashes, an analysis is where the code has it, no delivery is
\* tried more often than the queue allows, and evidence is of analyses.
THEOREM IncidentsTypeCorrect == IncidentsSpec => []IncidentsTypeOK
<1>1. IncidentsInv /\ HistoryTyped => IncidentsTypeOK
  BY DEF IncidentsInv, RowsTyped, AnalysesTyped, AnswersTyped, HistoryTyped, IncidentsTypeOK,
     Analysis, Pcs
<1>2. IncidentsSpec => []HistoryTyped
  BY IncidentsInvariant, HistoryInit, HistoryNext, PTL DEF IncidentsSpec
<1> QED
  BY <1>1, <1>2, IncidentsInvariant, PTL

-----------------------------------------------------------------------------
(* The investigation agent (InvestigationAgent). *)

\* A conversation goes on only while a turn is left, and calls are answered only if
\* the reply that asked for them was begun within the budget of calls.
TurnLeft == (agent.pc \in {"chat", "tools"} \/ (agent.pc = "reply" /\ agent.tools))
                => agent.turns < MaxTurns

CallsLeft ==
    /\ agent.pc \in {"chat", "reply"} => agent.pending = 0
    /\ agent.pc = "reply" /\ agent.tools => agent.calls < MaxToolCalls
    /\ agent.pc = "tools" => agent.pending > 0
    /\ agent.calls + agent.pending < MaxToolCalls + CallsPerReply + 1

\* A fetched source was paid for.
ReadsPaid == /\ IsFiniteSet(agent.sources)
             /\ agent.sources \subseteq KnownPaths
             /\ Cardinality(agent.sources \ BundledPaths) <= agent.reads

\* Windows of files are issued for files that were read, and cited only if issued.
Grounds == /\ \A path \in Paths : SourceId(path) \in agent.evidence => path \in agent.sources
           /\ agent.pc = "answered" => agent.cited # {} /\ agent.cited \subseteq agent.evidence

AgentInv == agent \in Agent /\ TurnLeft /\ CallsLeft /\ ReadsPaid /\ Grounds

LEMMA BudgetsAreNumbers ==
    /\ MaxTurns \in Nat /\ MaxToolCalls \in Nat /\ MaxSourceReads \in Nat
    /\ MaxContextChars \in Nat /\ CallsPerReply \in Nat /\ MaxCited \in Nat
    /\ MaxTurns > 0 /\ CallsPerReply > 0
  BY AgentAssumption DEF Budgets

\* No id of another tool, nor the finding's, is that of a file.
LEMMA SourceIdsAreOwn ==
    ASSUME NEW path \in Paths
    PROVE  /\ SourceId(path) # FindingId /\ SourceId(path) \notin ToolEvidence
           /\ \A other \in Paths : SourceId(path) = SourceId(other) => path = other
<1>1. SourceId(path) # FindingId
  BY DEF SourceId, FindingId
<1>2. SourceId(path) \notin ToolEvidence
  BY AgentAssumption
<1>3. \A other \in Paths : SourceId(path) = SourceId(other) => path = other
  BY DEF SourceId
<1> QED
  BY <1>1, <1>2, <1>3

LEMMA AgentInitKeeps == AgentInit => AgentInv
<1> SUFFICES ASSUME AgentInit PROVE AgentInv
  OBVIOUS
<1>1. agent = [pc |-> "chat", turns |-> 0, calls |-> 0, chars |-> 0, reads |-> 0,
               pending |-> 0, repaired |-> FALSE, tools |-> FALSE, evidence |-> {FindingId},
               sources |-> {}, cited |-> {}, patch |-> NoPatch]
  BY DEF AgentInit, NotAsked
<1>2. agent \in Agent
  BY <1>1, BudgetsAreNumbers DEF Agent, EvidenceIds
<1>3. TurnLeft /\ CallsLeft
  BY <1>1, BudgetsAreNumbers DEF TurnLeft, CallsLeft
<1>4. ReadsPaid
  <2>1. {} \ BundledPaths = {}
    OBVIOUS
  <2> QED
    BY <1>1, <2>1, FS_EmptySet DEF ReadsPaid
<1>5. Grounds
  BY <1>1, SourceIdsAreOwn DEF Grounds
<1> QED
  BY <1>2, <1>3, <1>4, <1>5 DEF AgentInv

\* A step that leaves the sources, the evidence and the reads alone leaves what is
\* known of them alone, as long as it does not answer.
LEMMA GroundsKept ==
    ASSUME ReadsPaid, Grounds, agent'.pc # "answered",
           agent'.sources = agent.sources, agent'.reads = agent.reads,
           agent'.evidence = agent.evidence
    PROVE  ReadsPaid' /\ Grounds'
  BY DEF ReadsPaid, Grounds

LEMMA ChatKeeps == ASSUME AgentInv, Chat PROVE AgentInv'
<1> USE BudgetsAreNumbers DEF AgentInv
<1>1. agent' = [agent EXCEPT !.pc = "reply", !.turns = @ + 1, !.tools = OffersTools]
  BY DEF Chat
<1>2. OffersTools \in BOOLEAN
  BY DEF OffersTools
<1>3. /\ agent'.pc = "reply" /\ agent'.turns = agent.turns + 1
      /\ agent'.tools = OffersTools
      /\ agent'.calls = agent.calls /\ agent'.pending = agent.pending
      /\ agent'.sources = agent.sources /\ agent'.reads = agent.reads
      /\ agent'.evidence = agent.evidence
  BY <1>1 DEF Agent
<1>4. agent' \in Agent
  <2>1. agent.turns + 1 \in 0..MaxTurns
    BY DEF Chat, Agent, TurnLeft
  <2> HIDE DEF AgentInv
  <2>2. agent \in Agent
    BY DEF AgentInv
  <2> QED
    BY <1>1, <1>2, <2>1, <2>2 DEF Agent
<1>5. TurnLeft' /\ CallsLeft'
  <2>1. OffersTools => agent.turns < MaxTurns - 1 /\ agent.calls < MaxToolCalls
    BY DEF OffersTools, LastTurn, OutOfBudget, Agent
  <2>2. agent.pc = "chat" /\ agent.turns \in Nat /\ agent.calls \in Nat
    BY DEF Chat, Agent
  <2> QED
    BY <1>3, <2>1, <2>2 DEF TurnLeft, CallsLeft
<1>6. ReadsPaid' /\ Grounds'
  BY <1>3, GroundsKept
<1> QED
  BY <1>4, <1>5, <1>6

LEMMA ReplyWithCallsKeeps == ASSUME AgentInv, ReplyWithCalls PROVE AgentInv'
<1> USE BudgetsAreNumbers DEF AgentInv
<1>1. PICK n \in 1..CallsPerReply : agent' = [agent EXCEPT !.pc = "tools", !.pending = n]
  BY DEF ReplyWithCalls
<1>2. /\ agent'.pc = "tools" /\ agent'.pending = n /\ agent'.turns = agent.turns
      /\ agent'.calls = agent.calls
      /\ agent'.sources = agent.sources /\ agent'.reads = agent.reads
      /\ agent'.evidence = agent.evidence
  BY <1>1 DEF Agent
<1>3. agent' \in Agent
  <2>1. n \in 0..CallsPerReply
    OBVIOUS
  <2>2. agent \in Agent
    OBVIOUS
  <2> HIDE DEF AgentInv
  <2> QED
    BY <1>1, <2>1, <2>2 DEF Agent
<1>4. TurnLeft' /\ CallsLeft'
  <2>1. agent.pc = "reply" /\ agent.tools /\ agent.calls \in Nat
    BY DEF ReplyWithCalls, Agent
  <2> QED
    BY <1>2, <2>1 DEF TurnLeft, CallsLeft
<1>5. ReadsPaid' /\ Grounds'
  BY <1>2, GroundsKept
<1> QED
  BY <1>3, <1>4, <1>5

\* Whatever a call changes besides, its count goes up and those pending go down.
LEMMA CallDoneCounts ==
    ASSUME AgentInv, agent.pc = "tools", NEW id \in SUBSET EvidenceIds,
           NEW changes \in Agent, CallDone(id, changes),
           changes.turns = agent.turns, changes.calls = agent.calls,
           changes.pending = agent.pending, changes.evidence = agent.evidence
    PROVE  /\ agent' \in Agent /\ TurnLeft' /\ CallsLeft' /\ agent'.pc # "answered"
           /\ agent'.sources = changes.sources /\ agent'.reads = changes.reads
           /\ agent'.evidence = agent.evidence \cup id
<1> USE BudgetsAreNumbers DEF AgentInv
<1> DEFINE place == IF agent.pending = 1 THEN "chat" ELSE "tools"
<1>1. PICK length \in 0..1 :
        agent' = [changes EXCEPT !.pc = place, !.pending = @ - 1, !.calls = @ + 1,
                                 !.chars = @ + length, !.evidence = @ \cup id]
  BY DEF CallDone
<1>2. place \in {"chat", "tools"} /\ (agent.pending = 1 <=> place = "chat")
  OBVIOUS
<1> HIDE DEF place
<1>3. /\ agent.pending \in 1..CallsPerReply /\ agent.calls \in Nat
      /\ agent.calls + agent.pending < MaxToolCalls + CallsPerReply + 1
      /\ agent.turns < MaxTurns
  BY DEF Agent, CallsLeft, TurnLeft
<1>4. /\ agent'.pc = place /\ agent'.pending = agent.pending - 1
      /\ agent'.calls = agent.calls + 1 /\ agent'.turns = agent.turns
      /\ agent'.sources = changes.sources /\ agent'.reads = changes.reads
      /\ agent'.evidence = agent.evidence \cup id
  BY <1>1 DEF Agent
<1>5. agent' \in Agent
  <2>1. /\ agent.pending - 1 \in 0..CallsPerReply
        /\ agent.calls + 1 \in 0..(MaxToolCalls + CallsPerReply)
        /\ changes.chars + length \in Nat
    BY <1>3 DEF Agent
  <2>2. changes.evidence \cup id \in SUBSET EvidenceIds
    BY DEF Agent
  <2> QED
    BY <1>1, <1>2, <2>1, <2>2 DEF Agent
<1>6. TurnLeft' /\ CallsLeft'
  BY <1>2, <1>3, <1>4 DEF TurnLeft, CallsLeft
<1> QED
  BY <1>2, <1>4, <1>5, <1>6

LEMMA ReadEvidenceKeeps == ASSUME AgentInv, ReadEvidence PROVE AgentInv'
<1>1. PICK id \in ToolEvidence : CallDone({id}, agent)
  BY DEF ReadEvidence
<1>2. {id} \in SUBSET EvidenceIds
  BY DEF EvidenceIds
<1>3. agent.pc = "tools" /\ agent \in Agent
  BY DEF ReadEvidence, AgentInv
<1>4. /\ agent' \in Agent /\ TurnLeft' /\ CallsLeft' /\ agent'.pc # "answered"
      /\ agent'.sources = agent.sources /\ agent'.reads = agent.reads
      /\ agent'.evidence = agent.evidence \cup {id}
  BY <1>1, <1>2, <1>3, CallDoneCounts
<1>5. ReadsPaid'
  BY <1>4 DEF AgentInv, ReadsPaid
<1>6. Grounds'
  BY <1>4, SourceIdsAreOwn DEF AgentInv, Grounds
<1> QED
  BY <1>4, <1>5, <1>6 DEF AgentInv

LEMMA ToolErrorKeeps == ASSUME AgentInv, ToolError PROVE AgentInv'
<1>1. agent.pc = "tools" /\ CallDone({}, agent) /\ agent \in Agent
  BY DEF ToolError, AgentInv
<1>2. /\ agent' \in Agent /\ TurnLeft' /\ CallsLeft' /\ agent'.pc # "answered"
      /\ agent'.sources = agent.sources /\ agent'.reads = agent.reads
      /\ agent'.evidence = agent.evidence \cup {}
  BY <1>1, CallDoneCounts
<1>3. ReadsPaid' /\ Grounds'
  BY <1>2, GroundsKept DEF AgentInv
<1> QED
  BY <1>2, <1>3 DEF AgentInv

\* What a call shows of a file is issued under that file's own id.
LEMMA ShownIsOfTheFile ==
    ASSUME NEW path \in Paths, NEW shown \in BOOLEAN
    PROVE  /\ Shown(path, shown) \in SUBSET EvidenceIds
           /\ \A other \in Paths : SourceId(other) \in Shown(path, shown) => other = path
<1>1. Shown(path, shown) \subseteq {SourceId(path)}
  BY DEF Shown
<1>2. SourceId(path) \in EvidenceIds
  BY DEF EvidenceIds
<1> QED
  BY <1>1, <1>2, SourceIdsAreOwn

LEMMA ReadKnownSourceKeeps == ASSUME AgentInv, ReadKnownSource PROVE AgentInv'
<1>1. PICK path \in KnownPaths \cap (agent.sources \cup BundledPaths), shown \in BOOLEAN :
        CallDone(Shown(path, shown), [agent EXCEPT !.sources = @ \cup {path}])
  BY DEF ReadKnownSource
<1> DEFINE changes == [agent EXCEPT !.sources = @ \cup {path}]
<1>2. agent.pc = "tools" /\ agent \in Agent /\ path \in Paths
  BY AgentAssumption DEF ReadKnownSource, AgentInv
<1>3. /\ changes \in Agent
      /\ changes.turns = agent.turns /\ changes.calls = agent.calls
      /\ changes.pending = agent.pending /\ changes.evidence = agent.evidence
      /\ changes.sources = agent.sources \cup {path} /\ changes.reads = agent.reads
  BY <1>2 DEF Agent
<1> HIDE DEF changes
<1>4. /\ agent' \in Agent /\ TurnLeft' /\ CallsLeft' /\ agent'.pc # "answered"
      /\ agent'.sources = agent.sources \cup {path} /\ agent'.reads = agent.reads
      /\ agent'.evidence = agent.evidence \cup Shown(path, shown)
  BY <1>1, <1>2, <1>3, ShownIsOfTheFile, CallDoneCounts DEF changes
<1>5. ReadsPaid'
  <2>1. agent'.sources \ BundledPaths = agent.sources \ BundledPaths
    BY <1>4
  <2>2. IsFiniteSet(agent'.sources)
    BY <1>4, FS_AddElement DEF AgentInv, ReadsPaid
  <2> QED
    BY <1>4, <2>1, <2>2 DEF AgentInv, ReadsPaid
<1>6. Grounds'
  BY <1>2, <1>4, ShownIsOfTheFile DEF AgentInv, Grounds
<1> QED
  BY <1>4, <1>5, <1>6 DEF AgentInv

\* Each file that is fetched was not there yet and is paid for by a read.
LEMMA FetchSourceKeeps == ASSUME AgentInv, FetchSource PROVE AgentInv'
<1>1. PICK path \in Paths, shown \in BOOLEAN :
        /\ MayFetch(path)
        /\ CallDone(Shown(path, shown),
                    [agent EXCEPT !.sources = @ \cup {path}, !.reads = @ + 1])
  BY DEF FetchSource
<1> DEFINE changes == [agent EXCEPT !.sources = @ \cup {path}, !.reads = @ + 1]
<1>2. agent.pc = "tools" /\ agent \in Agent
  BY DEF FetchSource, AgentInv
<1>3. /\ agent.reads + 1 \in 0..MaxSourceReads /\ agent.reads \in Nat
      /\ path \in KnownPaths /\ path \notin agent.sources /\ path \notin BundledPaths
  BY <1>1, <1>2, BudgetsAreNumbers DEF MayFetch, Agent
<1>4. agent.sources \cup {path} \in SUBSET Paths
  BY <1>2 DEF Agent
<1>5. /\ changes \in Agent
      /\ changes.turns = agent.turns /\ changes.calls = agent.calls
      /\ changes.pending = agent.pending /\ changes.evidence = agent.evidence
      /\ changes.sources = agent.sources \cup {path} /\ changes.reads = agent.reads + 1
  BY <1>2, <1>3, <1>4 DEF Agent
<1> HIDE DEF changes
<1>6. /\ agent' \in Agent /\ TurnLeft' /\ CallsLeft' /\ agent'.pc # "answered"
      /\ agent'.sources = agent.sources \cup {path} /\ agent'.reads = agent.reads + 1
      /\ agent'.evidence = agent.evidence \cup Shown(path, shown)
  BY <1>1, <1>2, <1>5, ShownIsOfTheFile, CallDoneCounts DEF changes
<1>7. ReadsPaid'
  <2>1. agent'.sources \ BundledPaths = (agent.sources \ BundledPaths) \cup {path}
    BY <1>3, <1>6
  <2>2. IsFiniteSet(agent.sources \ BundledPaths) /\ path \notin agent.sources \ BundledPaths
    BY <1>3, FS_Difference DEF AgentInv, ReadsPaid
  <2>3. Cardinality(agent'.sources \ BundledPaths) = Cardinality(agent.sources \ BundledPaths) + 1
    BY <2>1, <2>2, FS_AddElement
  <2>4. Cardinality(agent.sources \ BundledPaths) \in Nat
    BY <2>2, FS_CardinalityType
  <2>5. IsFiniteSet(agent'.sources)
    BY <1>6, FS_AddElement DEF AgentInv, ReadsPaid
  <2> QED
    BY <1>3, <1>6, <2>3, <2>4, <2>5 DEF AgentInv, ReadsPaid
<1>8. Grounds'
  BY <1>6, ShownIsOfTheFile DEF AgentInv, Grounds
<1> QED
  BY <1>6, <1>7, <1>8 DEF AgentInv

LEMMA FetchNothingKeeps == ASSUME AgentInv, FetchNothing PROVE AgentInv'
<1> DEFINE changes == [agent EXCEPT !.reads = @ + 1]
<1>1. CallDone({}, changes) /\ agent.pc = "tools" /\ agent \in Agent
  BY DEF FetchNothing, AgentInv
<1>2. agent.reads + 1 \in 0..MaxSourceReads /\ agent.reads \in Nat
  BY <1>1, BudgetsAreNumbers DEF FetchNothing, MayFetch, Agent
<1>3. /\ changes \in Agent
      /\ changes.turns = agent.turns /\ changes.calls = agent.calls
      /\ changes.pending = agent.pending /\ changes.evidence = agent.evidence
      /\ changes.sources = agent.sources /\ changes.reads = agent.reads + 1
  BY <1>1, <1>2 DEF Agent
<1> HIDE DEF changes
<1>4. /\ agent' \in Agent /\ TurnLeft' /\ CallsLeft' /\ agent'.pc # "answered"
      /\ agent'.sources = agent.sources /\ agent'.reads = agent.reads + 1
      /\ agent'.evidence = agent.evidence \cup {}
  BY <1>1, <1>3, CallDoneCounts
<1>5. ReadsPaid'
  <2>1. Cardinality(agent.sources \ BundledPaths) \in Nat
    BY FS_Difference, FS_CardinalityType DEF AgentInv, ReadsPaid
  <2> QED
    BY <1>2, <1>4, <2>1 DEF AgentInv, ReadsPaid
<1>6. Grounds'
  BY <1>4 DEF AgentInv, Grounds
<1> QED
  BY <1>4, <1>5, <1>6 DEF AgentInv

LEMMA FailsKeeps == ASSUME AgentInv, Fails PROVE AgentInv'
<1>1. agent \in Agent /\ agent' = [agent EXCEPT !.pc = "none"]
  BY DEF AgentInv, Fails
<1>2. /\ agent' \in Agent /\ agent'.pc = "none" /\ agent'.calls = agent.calls
      /\ agent'.pending = agent.pending /\ agent'.sources = agent.sources
      /\ agent'.reads = agent.reads /\ agent'.evidence = agent.evidence
  BY <1>1 DEF Agent
<1>3. TurnLeft' /\ CallsLeft'
  BY <1>2 DEF AgentInv, TurnLeft, CallsLeft
<1>4. ReadsPaid' /\ Grounds'
  BY <1>2, GroundsKept DEF AgentInv
<1> QED
  BY <1>2, <1>3, <1>4 DEF AgentInv

LEMMA RepairKeeps == ASSUME AgentInv, agent.pc = "reply", Repair PROVE AgentInv'
<1>1. CASE agent.repaired \/ agent.turns >= MaxTurns
  BY <1>1, FailsKeeps DEF Repair
<1>2. CASE ~(agent.repaired \/ agent.turns >= MaxTurns)
  <2>1. agent \in Agent /\ agent' = [agent EXCEPT !.pc = "chat", !.repaired = TRUE]
    BY <1>2 DEF AgentInv, Repair
  <2>2. /\ agent' \in Agent /\ agent'.pc = "chat" /\ agent'.calls = agent.calls
        /\ agent'.turns = agent.turns
        /\ agent'.pending = agent.pending /\ agent'.sources = agent.sources
        /\ agent'.reads = agent.reads /\ agent'.evidence = agent.evidence
    BY <2>1 DEF Agent
  <2>3. agent.turns < MaxTurns
    BY <1>2, <2>1, BudgetsAreNumbers DEF Agent
  <2>4. TurnLeft' /\ CallsLeft'
    BY <2>2, <2>3 DEF AgentInv, TurnLeft, CallsLeft
  <2>5. ReadsPaid' /\ Grounds'
    BY <2>2, GroundsKept DEF AgentInv
  <2> QED
    BY <2>2, <2>4, <2>5 DEF AgentInv
<1> QED
  BY <1>1, <1>2

LEMMA ReplyWithAnswerKeeps == ASSUME AgentInv, ReplyWithAnswer PROVE AgentInv'
<1>1. PICK cited \in SUBSET EvidenceIds, patch \in Patches \cup {NoPatch} :
        IF ~Acceptable(cited) THEN Repair
        ELSE agent' = [agent EXCEPT !.pc = "answered", !.cited = cited,
                         !.patch = IF patch # NoPatch /\ Verifies(patch, agent.sources)
                                     THEN patch ELSE NoPatch]
  BY DEF ReplyWithAnswer
<1>2. CASE ~Acceptable(cited)
  BY <1>1, <1>2, RepairKeeps DEF ReplyWithAnswer
<1>3. CASE Acceptable(cited)
  <2> DEFINE kept == IF patch # NoPatch /\ Verifies(patch, agent.sources) THEN patch ELSE NoPatch
  <2>1. kept \in Patches \cup {NoPatch}
    OBVIOUS
  <2>2. agent \in Agent /\ agent' = [agent EXCEPT !.pc = "answered", !.cited = cited, !.patch = kept]
    BY <1>1, <1>3 DEF AgentInv
  <2> HIDE DEF kept
  <2>3. /\ agent'.pc = "answered" /\ agent'.calls = agent.calls
        /\ agent'.cited = cited
        /\ agent'.pending = agent.pending /\ agent'.sources = agent.sources
        /\ agent'.reads = agent.reads /\ agent'.evidence = agent.evidence
    BY <2>2 DEF Agent
  <2>4. agent' \in Agent
    BY <2>1, <2>2 DEF Agent
  <2>5. TurnLeft' /\ CallsLeft'
    BY <2>3 DEF AgentInv, TurnLeft, CallsLeft
  <2>6. ReadsPaid'
    BY <2>3 DEF AgentInv, ReadsPaid
  <2>7. Grounds'
    BY <1>3, <2>3 DEF AgentInv, Grounds, Acceptable
  <2> QED
    BY <2>4, <2>5, <2>6, <2>7 DEF AgentInv
<1> QED
  BY <1>2, <1>3

LEMMA AgentNextKeeps == ASSUME AgentInv, [AgentNext]_agent PROVE AgentInv'
<1>1. ASSUME ReplyMalformed PROVE AgentInv'
  BY <1>1, RepairKeeps DEF ReplyMalformed
<1>2. ASSUME ReplyEmpty \/ AgentStops PROVE AgentInv'
  BY <1>2, FailsKeeps DEF ReplyEmpty, AgentStops
<1>3. ASSUME UNCHANGED agent PROVE AgentInv'
  BY <1>3 DEF AgentInv, TurnLeft, CallsLeft, ReadsPaid, Grounds
<1> QED
  BY <1>1, <1>2, <1>3, ChatKeeps, ReplyWithCallsKeeps, ReadEvidenceKeeps, ToolErrorKeeps,
     ReadKnownSourceKeeps, FetchSourceKeeps, FetchNothingKeeps, ReplyWithAnswerKeeps
     DEF AgentNext

LEMMA AgentInvariant == AgentSpec => []AgentInv
<1>1. AgentInit => AgentInv
  BY AgentInitKeeps
<1>2. AgentInv /\ [AgentNext]_agent => AgentInv'
  BY AgentNextKeeps
<1> QED
  BY <1>1, <1>2, PTL DEF AgentSpec

\* The budgets hold for every limit and every reply of the model: the turns, the tool
\* calls up to the last reply's, and the reads that fetched sources were paid with
\* (services/agent.py, _Loop.run and _Toolbox.read_source).
THEOREM AgentTypeCorrect == AgentSpec => []AgentTypeOK
<1>1. AgentInv => AgentTypeOK
  BY DEF AgentInv, AgentTypeOK, CallsLeft, ReadsPaid
<1> QED
  BY <1>1, AgentInvariant, PTL

\* An answer cites something, and of files only those that were read, after any
\* repair, failed read and budget that ran out (services/agent.py, _Loop._finish).
THEOREM AgentCitesOnlyIssued == AgentSpec => []CitesOnlyIssued
<1>1. AgentInv => CitesOnlyIssued
  BY DEF AgentInv, Grounds, CitesOnlyIssued
<1> QED
  BY <1>1, AgentInvariant, PTL

-----------------------------------------------------------------------------
(* What a verified patch does to the lines of its file (verify_patch). *)

File == Seq(Nat)

LEMMA CountIsNumber ==
    ASSUME NEW s \in File, NEW line
    PROVE  IsFiniteSet({ i \in DOMAIN s : s[i] = line }) /\ Count(s, line) \in Nat
<1> DEFINE at == { i \in DOMAIN s : s[i] = line }
<1>1. at \subseteq 1..Len(s) /\ Len(s) \in Nat
  BY DEF File
<1>2. IsFiniteSet(1..Len(s))
  BY <1>1, FS_Interval
<1> HIDE DEF at
<1>3. IsFiniteSet(at) /\ Cardinality(at) \in Nat
  BY <1>1, <1>2, FS_Subset, FS_CardinalityType
<1> QED
  BY <1>3 DEF at, Count

\* A set of numbers has as many members where it is moved to.
LEMMA MovedSize ==
    ASSUME NEW T, T \subseteq Nat, IsFiniteSet(T), NEW m \in Nat
    PROVE  LET moved == { m + j : j \in T }
           IN IsFiniteSet(moved) /\ Cardinality(moved) = Cardinality(T)
<1> DEFINE moved == { m + j : j \in T }
           f == [j \in T |-> m + j]
<1>1. f \in Bijection(T, moved)
  <2>1. f \in [T -> moved]
    OBVIOUS
  <2>2. \A a, b \in T : f[a] = f[b] => a = b
    OBVIOUS
  <2>3. \A y \in moved : \E j \in T : f[j] = y
    OBVIOUS
  <2> QED
    BY <2>1, <2>2, <2>3 DEF Bijection, Injection, Surjection, IsInjective
<1>2. ExistsBijection(T, moved)
  BY <1>1 DEF ExistsBijection
<1> HIDE DEF moved
<1>3. IsFiniteSet(moved) /\ Cardinality(moved) = Cardinality(T)
  BY <1>2, FS_Bijection
<1> QED
  BY <1>3 DEF moved

\* Lines of two texts, one after the other.
LEMMA CountOfBoth ==
    ASSUME NEW s \in File, NEW t \in File, NEW line
    PROVE  s \o t \in File /\ Count(s \o t, line) = Count(s, line) + Count(t, line)
<1> DEFINE r == s \o t
           m == Len(s)
           A == { i \in DOMAIN s : s[i] = line }
           T == { j \in DOMAIN t : t[j] = line }
           B == { m + j : j \in T }
<1>1. /\ m \in Nat /\ Len(t) \in Nat /\ DOMAIN s = 1..m /\ DOMAIN t = 1..Len(t)
      /\ r \in File /\ DOMAIN r = 1..(m + Len(t))
  BY DEF File
<1>2. \A k \in 1..m : r[k] = s[k]
  BY <1>1 DEF File
<1>3. \A j \in 1..Len(t) : r[m + j] = t[j]
  BY <1>1 DEF File
<1> HIDE DEF r, m
<1>4. { k \in DOMAIN r : r[k] = line } = A \cup B
  <2>1. ASSUME NEW k \in DOMAIN r, r[k] = line PROVE k \in A \cup B
    <3>1. CASE k <= m
      BY <1>1, <1>2, <2>1, <3>1
    <3>2. CASE ~ (k <= m)
      <4>1. k - m \in 1..Len(t) /\ m + (k - m) = k
        BY <1>1, <3>2
      <4>2. t[k - m] = line
        BY <1>3, <2>1, <4>1
      <4>3. k - m \in T
        BY <1>1, <4>1, <4>2
      <4> QED
        BY <4>1, <4>3
    <3> QED
      BY <3>1, <3>2
  <2>2. ASSUME NEW k \in A PROVE k \in DOMAIN r /\ r[k] = line
    BY <1>1, <1>2
  <2>3. ASSUME NEW j \in T PROVE m + j \in DOMAIN r /\ r[m + j] = line
    BY <1>1, <1>3
  <2> QED
    BY <2>1, <2>2, <2>3
<1>5. IsFiniteSet(A) /\ IsFiniteSet(T) /\ Cardinality(A) \in Nat /\ Cardinality(T) \in Nat
  BY CountIsNumber DEF Count
<1>6. T \subseteq Nat /\ A \subseteq 1..m
  BY <1>1
<1>7. IsFiniteSet(B) /\ Cardinality(B) = Cardinality(T)
  <2> HIDE DEF T
  <2> QED
    BY <1>1, <1>5, <1>6, MovedSize
<1>8. A \cap B = {}
  BY <1>1
<1> HIDE DEF A, B, T
<1>9. Cardinality(A \cup B) = Cardinality(A) + Cardinality(T)
  <2>1. Cardinality(A \cup B) = Cardinality(A) + Cardinality(B) - Cardinality(A \cap B)
    BY <1>5, <1>7, FS_Union
  <2> QED
    BY <1>5, <1>7, <1>8, <2>1, FS_EmptySet
<1> QED
  BY <1>1, <1>4, <1>9 DEF r, A, T, Count

\* The elements of a part of a sequence.
LEMMA PartOfText ==
    ASSUME NEW s \in File, NEW m \in 1..(Len(s) + 1), NEW n \in (m - 1)..Len(s)
    PROVE  /\ SubSeq(s, m, n) \in File /\ Len(SubSeq(s, m, n)) = n - m + 1
           /\ \A k \in 1..(n - m + 1) : SubSeq(s, m, n)[k] = s[k + m - 1]
<1>1. s \in Seq(Nat)
  BY DEF File
<1>2. SubSeq(s, m, n) \in Seq(Nat) /\ Len(SubSeq(s, m, n)) = n - m + 1
  BY <1>1
<1>3. \A k \in 1..(n - m + 1) : SubSeq(s, m, n)[k] = s[k + m - 1]
  BY <1>1
<1> QED
  BY <1>2, <1>3 DEF File

\* Where the lines of a joined text come from.
LEMMA JoinOfTexts ==
    ASSUME NEW s \in File, NEW t \in File
    PROVE  /\ s \o t \in File /\ Len(s \o t) = Len(s) + Len(t)
           /\ \A k \in 1..(Len(s) + Len(t)) :
                (s \o t)[k] = IF k <= Len(s) THEN s[k] ELSE t[k - Len(s)]
<1>1. s \in Seq(Nat) /\ t \in Seq(Nat)
  BY DEF File
<1>2. s \o t \in Seq(Nat) /\ Len(s \o t) = Len(s) + Len(t)
  BY <1>1
<1>3. \A k \in 1..(Len(s) + Len(t)) : (s \o t)[k] = IF k <= Len(s) THEN s[k] ELSE t[k - Len(s)]
  BY <1>1
<1> QED
  BY <1>2, <1>3 DEF File

LEMMA SameText ==
    ASSUME NEW s \in File, NEW t \in File, Len(s) = Len(t), \A k \in 1..Len(s) : s[k] = t[k]
    PROVE  s = t
  BY DEF File

\* A text is what is before some place, what is there and what is after.
LEMMA PartsOfText ==
    ASSUME NEW s \in File, NEW i \in Nat, NEW n \in Nat, i + n <= Len(s)
    PROVE  /\ SubSeq(s, 1, i) \in File /\ SubSeq(s, i + 1, i + n) \in File
           /\ SubSeq(s, i + n + 1, Len(s)) \in File
           /\ s = SubSeq(s, 1, i) \o SubSeq(s, i + 1, i + n) \o SubSeq(s, i + n + 1, Len(s))
<1> DEFINE a == SubSeq(s, 1, i)
           b == SubSeq(s, i + 1, i + n)
           c == SubSeq(s, i + n + 1, Len(s))
           L == Len(s)
<1>1. L \in Nat /\ s \in [1..L -> Nat]
  BY DEF File
<1>2. a \in File /\ Len(a) = i /\ \A k \in 1..i : a[k] = s[k]
  <2>1. 1 \in 1..(Len(s) + 1) /\ i \in (1 - 1)..Len(s) /\ i - 1 + 1 = i
    BY <1>1
  <2>2. a \in File /\ Len(a) = i - 1 + 1 /\ \A k \in 1..(i - 1 + 1) : a[k] = s[k + 1 - 1]
    BY <2>1, PartOfText
  <2> HIDE DEF a
  <2> QED
    BY <2>1, <2>2
<1>3. b \in File /\ Len(b) = n /\ \A k \in 1..n : b[k] = s[i + k]
  <2>1. i + 1 \in 1..(Len(s) + 1) /\ i + n \in ((i + 1) - 1)..Len(s) /\ (i + n) - (i + 1) + 1 = n
    BY <1>1
  <2>2. /\ b \in File /\ Len(b) = (i + n) - (i + 1) + 1
        /\ \A k \in 1..((i + n) - (i + 1) + 1) : b[k] = s[k + (i + 1) - 1]
    BY <2>1, PartOfText
  <2>3. \A k \in 1..n : k + (i + 1) - 1 = i + k
    OBVIOUS
  <2> HIDE DEF b
  <2> QED
    BY <2>1, <2>2, <2>3
<1>4. c \in File /\ Len(c) = L - (i + n) /\ \A k \in 1..(L - (i + n)) : c[k] = s[i + n + k]
  <2>1. /\ i + n + 1 \in 1..(Len(s) + 1) /\ L \in ((i + n + 1) - 1)..Len(s)
        /\ L - (i + n + 1) + 1 = L - (i + n)
    BY <1>1
  <2>2. /\ c \in File /\ Len(c) = L - (i + n + 1) + 1
        /\ \A k \in 1..(L - (i + n + 1) + 1) : c[k] = s[k + (i + n + 1) - 1]
    BY <2>1, PartOfText
  <2>3. \A k \in 1..(L - (i + n)) : k + (i + n + 1) - 1 = i + n + k
    BY <1>1
  <2> HIDE DEF c
  <2> QED
    BY <2>1, <2>2, <2>3
<1> HIDE DEF a, b, c, L
<1>5. a \o b \in File /\ Len(a \o b) = i + n /\ \A k \in 1..(i + n) : (a \o b)[k] = s[k]
  <2>1. /\ a \o b \in Seq(Nat) /\ Len(a \o b) = i + n
        /\ \A k \in 1..(i + n) : (a \o b)[k] = IF k <= i THEN a[k] ELSE b[k - i]
    BY <1>2, <1>3, JoinOfTexts DEF File
  <2>2. ASSUME NEW k \in 1..(i + n) PROVE (a \o b)[k] = s[k]
    <3>1. CASE k <= i
      BY <1>2, <2>1, <3>1
    <3>2. CASE ~ (k <= i)
      <4>1. k - i \in 1..n /\ i + (k - i) = k
        BY <3>2
      <4>2. b[k - i] = s[i + (k - i)]
        BY <1>3, <4>1
      <4> QED
        BY <2>1, <3>2, <4>1, <4>2
    <3> QED
      BY <3>1, <3>2
  <2> QED
    BY <2>1, <2>2 DEF File
<1> DEFINE d == a \o b
           m == i + n
<1>6. d \in File /\ Len(d) = m /\ m \in Nat /\ m <= L /\ \A k \in 1..m : d[k] = s[k]
  BY <1>1, <1>5 DEF L
<1>7. Len(c) = L - m /\ \A k \in 1..(L - m) : c[k] = s[m + k]
  BY <1>4
<1> HIDE DEF d, m
<1>8. d \o c \in File /\ Len(d \o c) = L /\ \A k \in 1..L : (d \o c)[k] = s[k]
  <2>1. /\ d \o c \in Seq(Nat) /\ Len(d \o c) = L
        /\ \A k \in 1..L : (d \o c)[k] = IF k <= m THEN d[k] ELSE c[k - m]
    <3>1. /\ d \o c \in File /\ Len(d \o c) = Len(d) + Len(c)
          /\ \A k \in 1..(Len(d) + Len(c)) :
               (d \o c)[k] = IF k <= Len(d) THEN d[k] ELSE c[k - Len(d)]
      BY <1>4, <1>6, JoinOfTexts
    <3>2. Len(d) = m /\ Len(d) + Len(c) = L
      BY <1>1, <1>6, <1>7
    <3> QED
      BY <3>1, <3>2 DEF File
  <2>2. ASSUME NEW k \in 1..L PROVE (d \o c)[k] = s[k]
    <3>1. CASE k <= m
      BY <1>1, <1>6, <2>1, <3>1
    <3>2. CASE ~ (k <= m)
      <4>1. k - m \in 1..(L - m) /\ m + (k - m) = k
        BY <1>1, <1>6, <3>2
      <4>2. c[k - m] = s[m + (k - m)]
        BY <1>7, <4>1
      <4> QED
        BY <2>1, <3>2, <4>1, <4>2
    <3> QED
      BY <3>1, <3>2
  <2> QED
    BY <2>1, <2>2 DEF File
<1>9. s = d \o c
  <2>1. Len(s) = Len(d \o c) /\ \A k \in 1..Len(s) : s[k] = (d \o c)[k]
    BY <1>8 DEF L
  <2> QED
    BY <1>8, <2>1, SameText
<1> QED
  BY <1>2, <1>3, <1>4, <1>9 DEF a, b, c, d, L

Hunk == [start : Nat, old : File, new : File]
Edited == [ok : BOOLEAN, lines : File, offset : Int, floor : Int]

LEMMA TwoPartsOfText ==
    ASSUME NEW s \in File, NEW i \in 0..Len(s)
    PROVE  /\ SubSeq(s, 1, i) \in File /\ SubSeq(s, i + 1, Len(s)) \in File
           /\ Len(SubSeq(s, i + 1, Len(s))) = Len(s) - i
           /\ \A k \in 1..(Len(s) - i) : SubSeq(s, i + 1, Len(s))[k] = s[i + k]
           /\ s = SubSeq(s, 1, i) \o SubSeq(s, i + 1, Len(s))
<1> DEFINE a == SubSeq(s, 1, i)
           c == SubSeq(s, i + 1, Len(s))
           L == Len(s)
<1>1. L \in Nat
  BY DEF File
<1>2. a \in File /\ Len(a) = i /\ \A k \in 1..i : a[k] = s[k]
  <2>1. 1 \in 1..(Len(s) + 1) /\ i \in (1 - 1)..Len(s) /\ i - 1 + 1 = i
    BY <1>1
  <2>2. a \in File /\ Len(a) = i - 1 + 1 /\ \A k \in 1..(i - 1 + 1) : a[k] = s[k + 1 - 1]
    BY <2>1, PartOfText
  <2> HIDE DEF a
  <2> QED
    BY <2>1, <2>2
<1>3. c \in File /\ Len(c) = L - i /\ \A k \in 1..(L - i) : c[k] = s[i + k]
  <2>1. i + 1 \in 1..(Len(s) + 1) /\ L \in ((i + 1) - 1)..Len(s) /\ L - (i + 1) + 1 = L - i
    BY SMTT(60), <1>1
  <2>2. /\ c \in File /\ Len(c) = L - (i + 1) + 1
        /\ \A k \in 1..(L - (i + 1) + 1) : c[k] = s[k + (i + 1) - 1]
    BY <2>1, PartOfText
  <2>3. \A k \in 1..(L - i) : k + (i + 1) - 1 = i + k
    BY <1>1
  <2> HIDE DEF c
  <2> QED
    BY <2>1, <2>2, <2>3
<1> HIDE DEF a, c
<1>4. /\ a \o c \in File /\ Len(a \o c) = Len(a) + Len(c)
      /\ \A k \in 1..(Len(a) + Len(c)) : (a \o c)[k] = IF k <= Len(a) THEN a[k] ELSE c[k - Len(a)]
  BY <1>2, <1>3, JoinOfTexts
<1>5. Len(a) = i /\ Len(a) + Len(c) = L
  BY <1>1, <1>2, <1>3
<1>6. ASSUME NEW k \in 1..L PROVE (a \o c)[k] = s[k]
  <2>1. CASE k <= i
    BY <1>1, <1>2, <1>4, <1>5, <2>1
  <2>2. CASE ~ (k <= i)
    <3>1. k - i \in 1..(L - i) /\ i + (k - i) = k
      BY <1>1, <2>2
    <3>2. c[k - i] = s[i + (k - i)]
      BY <1>3, <3>1
    <3> QED
      BY <1>4, <1>5, <2>2, <3>1, <3>2
  <2> QED
    BY <2>1, <2>2
<1>7. s = a \o c
  BY <1>4, <1>5, <1>6, SameText DEF L
<1> QED
  BY <1>2, <1>3, <1>7 DEF a, c, L

\* What is trimmed off a hunk is the same on both sides.
LEMMA TrimmedAlike ==
    ASSUME NEW hunk \in Hunk
    PROVE  /\ Trimmed(hunk).old \in File /\ Trimmed(hunk).new \in File
           /\ \E rest \in File : /\ hunk.old = Trimmed(hunk).old \o rest
                                 /\ hunk.new = Trimmed(hunk).new \o rest
<1> DEFINE old == hunk.old
           new == hunk.new
           cuts == { k \in 0..Len(old) :
                       /\ k <= Len(new)
                       /\ \A i \in 0..(k - 1) : old[Len(old) - i] = 0 /\ new[Len(new) - i] = 0 }
           Most(k) == k \in cuts /\ \A j \in cuts : j <= k
           cut == CHOOSE k \in cuts : \A j \in cuts : j <= k
<1>1. old \in File /\ new \in File
  BY DEF Hunk
<1> HIDE DEF old, new
<1>2. Len(old) \in Nat /\ Len(new) \in Nat
  BY <1>1 DEF File
<1>3. 0 \in cuts /\ cuts \subseteq 0..Len(old)
  BY <1>2
<1>4. ASSUME NEW k \in cuts
      PROVE  /\ k \in 0..Len(old) /\ k <= Len(new)
             /\ \A i \in 0..(k - 1) : old[Len(old) - i] = 0 /\ new[Len(new) - i] = 0
  OBVIOUS
<1>5. /\ Trimmed(hunk).old = SubSeq(old, 1, Len(old) - cut)
      /\ Trimmed(hunk).new = SubSeq(new, 1, Len(new) - cut)
  BY DEF Trimmed, old, new
<1> HIDE DEF cuts
<1>6. \E k \in cuts : \A j \in cuts : j <= k
  <2> DEFINE T == { Len(old) - k : k \in cuts }
  <2>1. T \subseteq Nat /\ T # {}
    BY <1>2, <1>3
  <2>2. PICK x \in T : \A y \in T : x <= y
    BY <2>1, Least
  <2>3. PICK k \in cuts : x = Len(old) - k
    BY <2>2
  <2>4. ASSUME NEW j \in cuts PROVE j <= k
    <3>1. Len(old) - k <= Len(old) - j
      BY <2>2, <2>3
    <3>2. j \in 0..Len(old) /\ k \in 0..Len(old)
      BY <1>3
    <3> QED
      BY <1>2, <3>1, <3>2
  <2> QED
    BY <2>4
<1>7. cut \in cuts
  BY <1>6
<1> HIDE DEF cut
<1> DEFINE i == Len(old) - cut
           j == Len(new) - cut
           r == SubSeq(old, i + 1, Len(old))
           q == SubSeq(new, j + 1, Len(new))
<1>8. /\ cut \in Nat /\ i \in 0..Len(old) /\ j \in 0..Len(new)
      /\ Len(old) - i = cut /\ Len(new) - j = cut
  BY <1>2, <1>4, <1>7
<1> HIDE DEF i, j
<1>9. /\ SubSeq(old, 1, i) \in File /\ r \in File /\ Len(r) = cut
      /\ \A k \in 1..cut : r[k] = old[i + k]
      /\ old = SubSeq(old, 1, i) \o r
  BY <1>1, <1>8, TwoPartsOfText
<1>10. /\ SubSeq(new, 1, j) \in File /\ q \in File /\ Len(q) = cut
       /\ \A k \in 1..cut : q[k] = new[j + k]
       /\ new = SubSeq(new, 1, j) \o q
  BY <1>1, <1>8, TwoPartsOfText
<1> HIDE DEF r, q
<1>11. ASSUME NEW k \in 1..cut PROVE r[k] = q[k]
  <2>1. cut - k \in 0..(cut - 1) /\ Len(old) - (cut - k) = i + k /\ Len(new) - (cut - k) = j + k
    BY <1>2, <1>8
  <2>2. old[Len(old) - (cut - k)] = 0 /\ new[Len(new) - (cut - k)] = 0
    BY <1>4, <1>7, <2>1
  <2> QED
    BY <1>9, <1>10, <2>1, <2>2
<1>12. r = q
  BY <1>9, <1>10, <1>11, SameText
<1> QED
  BY <1>5, <1>9, <1>10, <1>12 DEF i, j, old, new

\* So trimming does not change by how much the lines become more.
LEMMA TrimmedCounts ==
    ASSUME NEW hunk \in Hunk, NEW line
    PROVE  Count(Trimmed(hunk).new, line) - Count(Trimmed(hunk).old, line)
             = Count(hunk.new, line) - Count(hunk.old, line)
<1> DEFINE old == Trimmed(hunk).old
           new == Trimmed(hunk).new
<1>1. /\ old \in File /\ new \in File
      /\ \E rest \in File : hunk.old = old \o rest /\ hunk.new = new \o rest
  BY TrimmedAlike
<1> HIDE DEF old, new
<1>2. PICK rest \in File : hunk.old = old \o rest /\ hunk.new = new \o rest
  BY <1>1
<1>3. /\ Count(hunk.old, line) = Count(old, line) + Count(rest, line)
      /\ Count(hunk.new, line) = Count(new, line) + Count(rest, line)
  BY <1>1, <1>2, CountOfBoth
<1>4. Count(old, line) \in Nat /\ Count(new, line) \in Nat /\ Count(rest, line) \in Nat
  BY <1>1, CountIsNumber
<1> QED
  BY <1>3, <1>4 DEF old, new

\* What is replaced is exchanged line by line, wherever it occurred.
LEMMA ReplacedCounts ==
    ASSUME NEW lines \in File, NEW old \in File, NEW new \in File, NEW at \in Int,
           Occurs(lines, at, old)
    PROVE  /\ Replaced(lines, at, old, new) \in File
           /\ \A line : Count(Replaced(lines, at, old, new), line)
                          = Count(lines, line) + Count(new, line) - Count(old, line)
<1> DEFINE i == Index(lines, at, Len(old))
           n == Len(old)
           a == SubSeq(lines, 1, i)
           c == SubSeq(lines, i + n + 1, Len(lines))
<1>1. n \in Nat /\ Len(lines) \in Nat
  BY DEF File
<1>2. i \in Int
  BY <1>1 DEF Index
<1>3. i >= 0 /\ i + n <= Len(lines) /\ SubSeq(lines, i + 1, i + n) = old
  BY DEF Occurs
<1>4. Replaced(lines, at, old, new) = a \o new \o c
  BY DEF Replaced
<1> HIDE DEF i, n
<1>5. i \in Nat
  BY <1>2, <1>3
<1>6. a \in File /\ c \in File /\ lines = a \o SubSeq(lines, i + 1, i + n) \o c
  BY <1>1, <1>3, <1>5, PartsOfText
<1> HIDE DEF a, c
<1>7. lines = a \o old \o c
  BY <1>3, <1>6
<1>8. a \o new \in File /\ a \o old \in File /\ (a \o new) \o c \in File
  BY <1>6, JoinOfTexts
<1>9. ASSUME NEW line
      PROVE  Count(a \o new \o c, line) = Count(lines, line) + Count(new, line) - Count(old, line)
  <2>1. /\ Count(a \o new, line) = Count(a, line) + Count(new, line)
        /\ Count(a \o old, line) = Count(a, line) + Count(old, line)
    BY <1>6, CountOfBoth
  <2>2. /\ Count((a \o new) \o c, line) = Count(a \o new, line) + Count(c, line)
        /\ Count((a \o old) \o c, line) = Count(a \o old, line) + Count(c, line)
    BY <1>6, <1>8, CountOfBoth
  <2>3. /\ Count(a, line) \in Nat /\ Count(c, line) \in Nat
        /\ Count(new, line) \in Nat /\ Count(old, line) \in Nat
    BY <1>6, CountIsNumber
  <2>4. Count(lines, line) = Count(a, line) + Count(old, line) + Count(c, line)
    BY <1>7, <2>1, <2>2
  <2> QED
    BY <2>1, <2>2, <2>3, <2>4
<1> QED
  BY <1>4, <1>8, <1>9

\* The only place where the lines are found is one.
LEMMA OnlyPlace ==
    ASSUME NEW S, NEW a \in Int, NEW b \in Int, S \subseteq a..b, Cardinality(S) = 1
    PROVE  \E x \in Int : S = {x}
<1>1. IsFiniteSet(S)
  BY FS_Interval, FS_Subset
<1>2. \E x : S = {x}
  BY <1>1, FS_Singleton
<1> QED
  BY <1>2

Exchanged(was, now, hunk) ==
    \A line : Count(now.lines, line)
                = Count(was.lines, line) + Count(hunk.new, line) - Count(hunk.old, line)

\* A hunk that applies exchanges its lines.
LEMMA HunkExchanges ==
    ASSUME NEW was \in Edited, NEW hunk \in Hunk
    PROVE  /\ ApplyHunk(was, hunk) \in Edited
           /\ ApplyHunk(was, hunk).ok => was.ok /\ Exchanged(was, ApplyHunk(was, hunk), hunk)
<1> DEFINE old == Trimmed(hunk).old
           new == Trimmed(hunk).new
           expected == hunk.start - 1 + was.offset
           found == { i \in was.floor..(Len(was.lines) - Len(old)) : Occurs(was.lines, i, old) }
           at == IF Occurs(was.lines, expected, old) THEN expected ELSE CHOOSE i \in found : TRUE
           now == ApplyHunk(was, hunk)
           fails == \/ ~was.ok
                    \/ old = <<>>
                    \/ ~Occurs(was.lines, expected, old) /\ Cardinality(found) # 1
<1>1. now = IF fails THEN [was EXCEPT !.ok = FALSE]
            ELSE [ok |-> TRUE, lines |-> Replaced(was.lines, at, old, new),
                  offset |-> was.offset + Len(new) - Len(old), floor |-> at + Len(new)]
  BY DEF ApplyHunk
<1>2. /\ was.ok \in BOOLEAN /\ was.lines \in File /\ was.offset \in Int /\ was.floor \in Int
      /\ hunk.start \in Nat
  BY DEF Edited, Hunk
<1>3. old \in File /\ new \in File
  BY TrimmedAlike
<1>4. \A line : Count(new, line) - Count(old, line) = Count(hunk.new, line) - Count(hunk.old, line)
  BY TrimmedCounts
<1> HIDE DEF old, new, now
<1>5. Len(old) \in Nat /\ Len(new) \in Nat /\ Len(was.lines) \in Nat
  BY <1>2, <1>3 DEF File
<1>6. CASE fails
  <2>1. now = [was EXCEPT !.ok = FALSE]
    BY <1>1, <1>6
  <2>2. now \in Edited /\ now.ok = FALSE
    BY <2>1 DEF Edited
  <2> QED
    BY <2>2 DEF now
<1>7. CASE ~fails
  <2>1. at \in Int /\ Occurs(was.lines, at, old)
    <3>1. CASE Occurs(was.lines, expected, old)
      <4>1. at = expected
        BY <3>1
      <4>2. expected \in Int
        BY <1>2
      <4> QED
        BY <3>1, <4>1, <4>2
    <3>2. CASE ~Occurs(was.lines, expected, old)
      <4>1. Cardinality(found) = 1
        BY <1>7, <3>2
      <4>2. found \subseteq was.floor..(Len(was.lines) - Len(old))
        OBVIOUS
      <4>3. \A x \in found : Occurs(was.lines, x, old)
        OBVIOUS
      <4>4. at = CHOOSE i \in found : TRUE
        BY <3>2
      <4> HIDE DEF found, at
      <4> DEFINE last == Len(was.lines) - Len(old)
      <4>5. was.floor \in Int /\ last \in Int /\ found \subseteq was.floor..last
        BY <1>2, <1>5, <4>2
      <4> HIDE DEF last
      <4>6. PICK x \in Int : found = {x}
        BY <4>1, <4>5, OnlyPlace
      <4>7. at = x
        BY <4>4, <4>6
      <4> QED
        BY <4>3, <4>6, <4>7
    <3> QED
      BY <3>1, <3>2
  <2> DEFINE after == Replaced(was.lines, at, old, new)
  <2>2. now = [ok |-> TRUE, lines |-> after,
               offset |-> was.offset + Len(new) - Len(old), floor |-> at + Len(new)]
    BY <1>1, <1>7
  <2>3. was.ok
    BY <1>7
  <2> HIDE DEF at, expected, found, fails
  <2>4. /\ after \in File
        /\ \A line : Count(after, line) = Count(was.lines, line) + Count(new, line) - Count(old, line)
    BY <1>2, <1>3, <2>1, ReplacedCounts
  <2> HIDE DEF after
  <2>5. now \in Edited
    BY <1>2, <1>5, <2>1, <2>2, <2>4 DEF Edited
  <2>6. now.lines = after
    BY <2>2
  <2>7. ASSUME NEW line
        PROVE  Count(now.lines, line)
                 = Count(was.lines, line) + Count(hunk.new, line) - Count(hunk.old, line)
    <3>1. /\ Count(was.lines, line) \in Nat /\ Count(new, line) \in Nat /\ Count(old, line) \in Nat
          /\ Count(hunk.new, line) \in Nat /\ Count(hunk.old, line) \in Nat
      BY <1>2, <1>3, CountIsNumber DEF Hunk
    <3>2. Count(new, line) - Count(old, line) = Count(hunk.new, line) - Count(hunk.old, line)
      BY <1>4
    <3>3. Count(after, line) = Count(was.lines, line) + Count(new, line) - Count(old, line)
      BY <2>4
    <3> QED
      BY <2>6, <3>1, <3>2, <3>3
  <2> QED
    BY <2>3, <2>5, <2>7 DEF Exchanged, now
<1> QED
  BY <1>6, <1>7

\* The lines on one side of the hunks, added up from the first hunk on.
Sums(f, hunks, side, line) ==
    /\ f \in [0..Len(hunks) -> Nat] /\ f[0] = 0
    /\ \A n \in 1..Len(hunks) : f[n] = f[n - 1] + Count(hunks[n][side], line)
    /\ LinesOf(hunks, side, line) = f[Len(hunks)]

LEMMA SumsExist ==
    ASSUME NEW hunks \in Seq(Hunk), NEW side \in {"old", "new"}, NEW line
    PROVE  \E f : Sums(f, hunks, side, line)
<1> DEFINE L == Len(hunks)
           step == [n \in 1..L |-> [v \in Nat |-> v + Count(hunks[n][side], line)]]
           Fits(f) == f = [n \in 0..L |-> IF n = 0 THEN 0
                                          ELSE f[n - 1] + Count(hunks[n][side], line)]
<1>1. L \in Nat /\ 0 \in Nat
  OBVIOUS
<1>2. ASSUME NEW n \in 1..L PROVE Count(hunks[n][side], line) \in Nat
  <2>1. hunks[n] \in Hunk
    OBVIOUS
  <2>2. hunks[n].old \in File /\ hunks[n].new \in File
    BY <2>1 DEF Hunk
  <2>3. hunks[n][side] \in File
    BY <2>2
  <2> QED
    BY <2>3, CountIsNumber
<1>3. step \in [1..L -> [Nat -> Nat]]
  BY <1>2
<1>4. \A n \in 1..L : \A v \in Nat : step[n][v] = v + Count(hunks[n][side], line)
  OBVIOUS
<1> HIDE DEF L, step
<1>5. PICK g : Steps(g, L, Nat, 0, step)
  BY <1>1, <1>3, StepByStep
<1>6. g \in [0..L -> Nat] /\ g[0] = 0 /\ \A n \in 1..L : g[n] = step[n][g[n - 1]]
  BY <1>5 DEF Steps
<1>7. ASSUME NEW n \in 1..L PROVE g[n] = g[n - 1] + Count(hunks[n][side], line)
  <2>1. n - 1 \in 0..L
    BY <1>1
  <2>2. g[n - 1] \in Nat
    BY <1>6, <2>1
  <2> QED
    BY <1>4, <1>6, <2>2
<1>8. Fits(g)
  <2>1. \A n \in 0..L : n # 0 => n \in 1..L
    BY <1>1
  <2>2. \A n \in 0..L : g[n] = IF n = 0 THEN 0 ELSE g[n - 1] + Count(hunks[n][side], line)
    BY <1>6, <1>7, <2>1
  <2>3. g = [n \in 0..L |-> g[n]]
    BY <1>6
  <2>4. [n \in 0..L |-> g[n]]
          = [n \in 0..L |-> IF n = 0 THEN 0 ELSE g[n - 1] + Count(hunks[n][side], line)]
    BY <2>2, Zenon
  <2> QED
    BY <2>3, <2>4
<1> DEFINE f == CHOOSE any : Fits(any)
<1>9. Fits(f)
  <2> HIDE DEF Fits
  <2> QED
    BY <1>8
<1>10. LinesOf(hunks, side, line) = f[L]
  BY DEF LinesOf, L
<1> HIDE DEF f
<1>11. /\ DOMAIN f = 0..L /\ f[0] = 0
       /\ \A n \in 1..L : f[n] = f[n - 1] + Count(hunks[n][side], line)
  <2>1. 0 \in 0..L /\ \A n \in 1..L : n \in 0..L /\ n # 0
    BY <1>1
  <2> QED
    BY <1>9, <2>1
<1> HIDE DEF Fits
<1>12. \A n \in 0..L : f[n] \in Nat
  <2> DEFINE T == { n \in 0..L : f[n] \in Nat }
  <2>1. 0 \in T
    BY <1>1, <1>11
  <2>2. ASSUME NEW n \in 0..(L - 1), n \in T PROVE n + 1 \in T
    <3>1. n + 1 \in 1..L /\ n + 1 \in 0..L /\ (n + 1) - 1 = n
      BY <1>1
    <3>2. f[n + 1] = f[(n + 1) - 1] + Count(hunks[n + 1][side], line)
      BY <1>11, <3>1
    <3>3. f[n] \in Nat /\ Count(hunks[n + 1][side], line) \in Nat
      BY <1>2, <2>2, <3>1
    <3> QED
      BY <3>1, <3>2, <3>3
  <2> HIDE DEF T
  <2>3. \A n \in 0..L : n \in T
    BY <1>1, <2>1, <2>2, UpTo
  <2> QED
    BY <2>3 DEF T
<1>13. f \in [0..L -> Nat]
  <2>1. f = [n \in 0..L |-> f[n]]
    BY <1>9 DEF Fits
  <2> QED
    BY <1>12, <2>1
<1> QED
  BY <1>10, <1>11, <1>13 DEF Sums, L

\* The texts between the hunks.
Untouched(lines) == [ok |-> TRUE, lines |-> lines, offset |-> 0, floor |-> 0]

Applying(f, hunks, lines) ==
    /\ f[0] = Untouched(lines) /\ f[0] \in Edited
    /\ \A n \in 1..Len(hunks) : f[n] = ApplyHunk(f[n - 1], hunks[n]) /\ f[n] \in Edited
    /\ Applied(hunks, lines) = f[Len(hunks)]

LEMMA ApplyingExists ==
    ASSUME NEW hunks \in Seq(Hunk), NEW lines \in File
    PROVE  \E f : Applying(f, hunks, lines)
<1> DEFINE L == Len(hunks)
           base == Untouched(lines)
           step == [n \in 1..L |-> [v \in Edited |-> ApplyHunk(v, hunks[n])]]
           Fits(f) == f = [n \in 0..L |-> IF n = 0 THEN Untouched(lines)
                                          ELSE ApplyHunk(f[n - 1], hunks[n])]
<1>1. L \in Nat
  OBVIOUS
<1>2. base \in Edited
  BY DEF Edited, Untouched
<1>3. \A n \in 1..L : \A v \in Edited : ApplyHunk(v, hunks[n]) \in Edited
  BY HunkExchanges
<1> HIDE DEF base
<1>4. step \in [1..L -> [Edited -> Edited]]
  BY <1>3
<1>5. \A n \in 1..L : \A v \in Edited : step[n][v] = ApplyHunk(v, hunks[n])
  OBVIOUS
<1> HIDE DEF L, step
<1>6. PICK g : Steps(g, L, Edited, base, step)
  BY <1>1, <1>2, <1>4, StepByStep
<1>7. g \in [0..L -> Edited] /\ g[0] = base /\ \A n \in 1..L : g[n] = step[n][g[n - 1]]
  BY <1>6 DEF Steps
<1>8. ASSUME NEW n \in 1..L PROVE g[n] = ApplyHunk(g[n - 1], hunks[n])
  <2>1. n - 1 \in 0..L
    BY <1>1
  <2>2. g[n - 1] \in Edited
    BY <1>7, <2>1
  <2> QED
    BY <1>5, <1>7, <2>2
<1>9. Fits(g)
  <2>1. \A n \in 0..L : n # 0 => n \in 1..L
    BY <1>1
  <2>2. \A n \in 0..L : g[n] = IF n = 0 THEN Untouched(lines) ELSE ApplyHunk(g[n - 1], hunks[n])
    BY <1>7, <1>8, <2>1 DEF base
  <2>3. g = [n \in 0..L |-> g[n]]
    BY <1>7
  <2>4. [n \in 0..L |-> g[n]]
          = [n \in 0..L |-> IF n = 0 THEN Untouched(lines) ELSE ApplyHunk(g[n - 1], hunks[n])]
    BY <2>2, Zenon
  <2> QED
    BY <2>3, <2>4
<1> DEFINE f == CHOOSE any : Fits(any)
<1>10. Fits(f)
  <2> HIDE DEF Fits
  <2> QED
    BY <1>9
<1>11. Applied(hunks, lines) = f[L]
  BY DEF Applied, Untouched, L
<1> HIDE DEF f
<1>12. f[0] = base /\ \A n \in 1..L : f[n] = ApplyHunk(f[n - 1], hunks[n])
  <2>1. 0 \in 0..L /\ \A n \in 1..L : n \in 0..L /\ n # 0
    BY <1>1
  <2> QED
    BY <1>10, <2>1 DEF base
<1> HIDE DEF Fits
<1> DEFINE T == { n \in 0..L : f[n] \in Edited }
<1>13. 0 \in T
  BY <1>1, <1>2, <1>12
<1>14. ASSUME NEW n \in 0..(L - 1), n \in T PROVE n + 1 \in T
  <2>1. n + 1 \in 1..L /\ n + 1 \in 0..L /\ (n + 1) - 1 = n
    BY <1>1
  <2>2. f[n + 1] = ApplyHunk(f[(n + 1) - 1], hunks[n + 1])
    BY <1>12, <2>1
  <2> QED
    BY <1>3, <1>14, <2>1, <2>2
<1> HIDE DEF T
<1>15. \A n \in 0..L : n \in T
  BY <1>1, <1>13, <1>14, UpTo
<1>16. \A n \in 1..L : f[n] \in Edited
  BY <1>1, <1>15 DEF T
<1> QED
  BY <1>2, <1>11, <1>12, <1>16 DEF Applying, L, base

\* What the hunks of a patch do to the lines is what they say.
LEMMA AppliedCounts ==
    ASSUME NEW hunks \in Seq(Hunk), NEW lines \in File, Applied(hunks, lines).ok, NEW line
    PROVE  Count(Applied(hunks, lines).lines, line)
             = Count(lines, line) + LinesOf(hunks, "new", line) - LinesOf(hunks, "old", line)
<1> DEFINE L == Len(hunks)
<1>1. L \in Nat /\ \A n \in 1..L : hunks[n] \in Hunk
  OBVIOUS
<1>2. PICK f : Applying(f, hunks, lines)
  BY ApplyingExists
<1>3. PICK new : Sums(new, hunks, "new", line)
  BY SumsExist
<1>4. PICK old : Sums(old, hunks, "old", line)
  BY SumsExist
<1> HIDE DEF L
<1>5. /\ f[0] = Untouched(lines) /\ f[0] \in Edited
      /\ \A n \in 1..L : f[n] = ApplyHunk(f[n - 1], hunks[n]) /\ f[n] \in Edited
      /\ Applied(hunks, lines) = f[L]
  BY <1>2 DEF Applying, L
<1>6. /\ new \in [0..L -> Nat] /\ new[0] = 0 /\ LinesOf(hunks, "new", line) = new[L]
      /\ \A n \in 1..L : new[n] = new[n - 1] + Count(hunks[n].new, line)
  BY <1>3 DEF Sums, L
<1>7. /\ old \in [0..L -> Nat] /\ old[0] = 0 /\ LinesOf(hunks, "old", line) = old[L]
      /\ \A n \in 1..L : old[n] = old[n - 1] + Count(hunks[n].old, line)
  BY <1>4 DEF Sums, L
<1> DEFINE T == { n \in 0..L : f[n].ok =>
                    Count(f[n].lines, line) = Count(lines, line) + new[n] - old[n] }
<1>8. 0 \in T
  <2>1. f[0].lines = lines
    BY <1>5 DEF Untouched
  <2>2. Count(lines, line) \in Nat
    BY CountIsNumber
  <2> QED
    BY <1>1, <1>6, <1>7, <2>1, <2>2
<1>9. ASSUME NEW n \in 0..(L - 1), n \in T PROVE n + 1 \in T
  <2>1. n + 1 \in 1..L /\ n + 1 \in 0..L /\ (n + 1) - 1 = n /\ n \in 0..L /\ (n # 0 => n \in 1..L)
    BY <1>1
  <2>2. f[n] \in Edited
    BY <1>5, <2>1
  <2>3. f[n + 1] = ApplyHunk(f[(n + 1) - 1], hunks[n + 1])
    BY <1>5, <2>1
  <2>4. hunks[n + 1] \in Hunk
    BY <1>1, <2>1
  <2>5. f[n + 1].ok => f[n].ok /\ Exchanged(f[n], f[n + 1], hunks[n + 1])
    BY <2>1, <2>2, <2>3, <2>4, HunkExchanges
  <2>6. /\ new[n + 1] = new[(n + 1) - 1] + Count(hunks[n + 1].new, line)
        /\ old[n + 1] = old[(n + 1) - 1] + Count(hunks[n + 1].old, line)
    BY <1>6, <1>7, <2>1
  <2>7. /\ new[n] \in Nat /\ old[n] \in Nat /\ Count(lines, line) \in Nat
        /\ Count(hunks[n + 1].new, line) \in Nat /\ Count(hunks[n + 1].old, line) \in Nat
    <3>1. hunks[n + 1].new \in File /\ hunks[n + 1].old \in File
      BY <2>4 DEF Hunk
    <3> QED
      BY <1>6, <1>7, <2>1, <3>1, CountIsNumber
  <2>8. ASSUME f[n + 1].ok
        PROVE  Count(f[n + 1].lines, line) = Count(lines, line) + new[n + 1] - old[n + 1]
    <3>1. Count(f[n + 1].lines, line) = Count(f[n].lines, line) + Count(hunks[n + 1].new, line)
                                                             - Count(hunks[n + 1].old, line)
      BY <2>5, <2>8 DEF Exchanged
    <3>2. Count(f[n].lines, line) = Count(lines, line) + new[n] - old[n]
      BY <1>9, <2>5, <2>8
    <3> QED
      BY <2>1, <2>6, <2>7, <3>1, <3>2
  <2> QED
    BY <2>1, <2>8
<1> HIDE DEF T
<1>10. L \in T
  <2>1. \A n \in 0..L : n \in T
    BY <1>1, <1>8, <1>9, UpTo
  <2> QED
    BY <1>1, <2>1
<1> QED
  BY <1>5, <1>6, <1>7, <1>10 DEF T

\* The one place that the only hunk of a patch may be applied at.
RightPlace(hunk, lines, after) ==
    LET trimmed == Trimmed(hunk)
        at == { i \in 0..Len(lines) : Occurs(lines, i, trimmed.old) }
        there == { i \in at : i = hunk.start - 1 }
    IN \E i \in at : /\ after = Replaced(lines, i, trimmed.old, trimmed.new)
                     /\ (there = {i} \/ at = {i})

LEMMA OnlyHunkIsPlaced ==
    ASSUME NEW hunk \in Hunk, NEW lines \in File, ApplyHunk(Untouched(lines), hunk).ok
    PROVE  RightPlace(hunk, lines, ApplyHunk(Untouched(lines), hunk).lines)
<1> DEFINE was == Untouched(lines)
           old == Trimmed(hunk).old
           new == Trimmed(hunk).new
           expected == hunk.start - 1 + was.offset
           found == { i \in was.floor..(Len(was.lines) - Len(old)) : Occurs(was.lines, i, old) }
           at == IF Occurs(was.lines, expected, old) THEN expected ELSE CHOOSE i \in found : TRUE
           now == ApplyHunk(was, hunk)
           fails == \/ ~was.ok
                    \/ old = <<>>
                    \/ ~Occurs(was.lines, expected, old) /\ Cardinality(found) # 1
           places == { i \in 0..Len(lines) : Occurs(lines, i, old) }
<1>1. now = IF fails THEN [was EXCEPT !.ok = FALSE]
            ELSE [ok |-> TRUE, lines |-> Replaced(was.lines, at, old, new),
                  offset |-> was.offset + Len(new) - Len(old), floor |-> at + Len(new)]
  BY DEF ApplyHunk
<1>2. was.ok = TRUE /\ was.lines = lines /\ was.offset = 0 /\ was.floor = 0 /\ DOMAIN was = {"ok", "lines", "offset", "floor"}
  BY DEF Untouched
<1>3. old \in File /\ new \in File
  BY TrimmedAlike
<1>4. hunk.start \in Nat
  BY DEF Hunk
<1>5. now.ok
  OBVIOUS
<1> HIDE DEF old, new, now, was
<1>6. Len(old) \in Nat /\ Len(lines) \in Nat
  BY <1>3 DEF File
<1>7. ~fails
  <2>1. [was EXCEPT !.ok = FALSE].ok = FALSE
    BY <1>2
  <2> HIDE DEF fails
  <2> QED
    BY <1>1, <1>5, <2>1
<1>8. now.lines = Replaced(lines, at, old, new)
  <2> HIDE DEF fails, at
  <2> QED
    BY <1>1, <1>2, <1>7
<1>9. expected = hunk.start - 1
  BY <1>2, <1>4
<1>10. old # <<>> /\ Len(old) > 0
  <2>1. old # <<>>
    BY <1>7
  <2> QED
    BY <1>3, <2>1 DEF File
\* A place is counted from the start when some of the lines are at or after it.
<1>11. ASSUME NEW i \in Int, i >= -1, Occurs(lines, i, old)
       PROVE  i \in 0..Len(lines) /\ i + Len(old) <= Len(lines)
  <2>1. Index(lines, i, Len(old)) = i
    BY <1>6, <1>10, <1>11 DEF Index
  <2>2. i >= 0 /\ i + Len(old) <= Len(lines)
    BY <1>11, <2>1 DEF Occurs
  <2> QED
    BY <1>6, <2>2
<1>12. \E i \in places : /\ now.lines = Replaced(lines, i, old, new)
                         /\ ({ j \in places : j = hunk.start - 1 } = {i} \/ places = {i})
  <2>1. CASE Occurs(was.lines, expected, old)
    <3>1. at = expected
      BY <2>1
    <3>2. expected \in Int /\ expected >= -1 /\ Occurs(lines, expected, old)
      BY <1>2, <1>4, <1>9, <2>1
    <3>3. expected \in places
      BY <1>11, <3>2
    <3>4. { j \in places : j = hunk.start - 1 } = {expected}
      BY <1>9, <3>3
    <3> QED
      BY <1>8, <3>1, <3>3, <3>4
  <2>2. CASE ~Occurs(was.lines, expected, old)
    <3>1. Cardinality(found) = 1
      BY <1>7, <2>2
    <3>2. found = places
      <4>1. found = { i \in 0..(Len(lines) - Len(old)) : Occurs(lines, i, old) }
        BY <1>2
      <4>2. ASSUME NEW i \in places PROVE i \in 0..(Len(lines) - Len(old)) /\ Occurs(lines, i, old)
        BY <1>6, <1>11
      <4>3. 0..(Len(lines) - Len(old)) \subseteq 0..Len(lines)
        BY <1>6
      <4> QED
        BY <4>1, <4>2, <4>3
    <3>3. places \subseteq 0..Len(lines)
      OBVIOUS
    <3>4. at = CHOOSE i \in found : TRUE
      BY <2>2
    <3> HIDE DEF found, at, places
    <3>5. PICK x \in Int : places = {x}
      <4>1. 0 \in Int /\ Len(lines) \in Int
        BY <1>6
      <4> QED
        BY <3>1, <3>2, <3>3, <4>1, OnlyPlace
    <3>6. at = x
      BY <3>2, <3>4, <3>5
    <3> QED
      BY <1>8, <3>5, <3>6
  <2> QED
    BY <2>1, <2>2
<1> QED
  BY <1>12 DEF RightPlace, places, now, was, old, new

\* What KeptPatchIsExact says of the patch alone.
ExactPatch(patch) ==
    LET lines == Content[patch.path]
        hunks == patch.hunks
        after == Applied(hunks, lines).lines
    IN /\ after # lines
       /\ \A line : Count(after, line) = Count(lines, line) + LinesOf(hunks, "new", line)
                                                            - LinesOf(hunks, "old", line)
       /\ Len(hunks) = 1 => RightPlace(hunks[1], lines, after)

LEMMA PatchTypes ==
    ASSUME NEW patch \in Patches
    PROVE  /\ patch.path \in Paths /\ patch.hunks \in Seq(Hunk) /\ Content[patch.path] \in File
<1>1. patch.path \in Paths /\ patch.hunks \in Seq(Hunk)
  BY AgentAssumption DEF Hunk, File
<1> QED
  BY <1>1, AgentAssumption DEF File

LEMMA VerifiedIsExact ==
    ASSUME NEW patch \in Patches, NEW sources, Verifies(patch, sources)
    PROVE  patch.path \in sources \ ModifiedPaths /\ ExactPatch(patch)
<1> DEFINE lines == Content[patch.path]
           hunks == patch.hunks
           patched == Applied(hunks, lines)
<1>1. hunks \in Seq(Hunk) /\ lines \in File
  BY PatchTypes
<1>2. patch.path \in sources \ ModifiedPaths /\ patched.ok /\ patched.lines # lines
  BY DEF Verifies
<1> HIDE DEF lines, hunks
<1>3. \A line : Count(patched.lines, line) = Count(lines, line) + LinesOf(hunks, "new", line)
                                                               - LinesOf(hunks, "old", line)
  BY <1>1, <1>2, AppliedCounts
<1>4. ASSUME Len(hunks) = 1 PROVE RightPlace(hunks[1], lines, patched.lines)
  <2>1. PICK f : Applying(f, hunks, lines)
    BY <1>1, ApplyingExists
  <2>2. 1 \in 1..Len(hunks) /\ 1 - 1 = 0 /\ hunks[1] \in Hunk
    BY <1>1, <1>4
  <2>3. f[0] = Untouched(lines) /\ patched = f[1] /\ f[1] = ApplyHunk(f[1 - 1], hunks[1])
    BY <1>4, <2>1, <2>2 DEF Applying
  <2>4. patched = ApplyHunk(Untouched(lines), hunks[1])
    BY <2>2, <2>3
  <2> QED
    BY <1>1, <1>2, <2>2, <2>4, OnlyHunkIsPlaced
<1> HIDE DEF patched
<1> QED
  BY <1>2, <1>3, <1>4 DEF ExactPatch, lines, hunks, patched

-----------------------------------------------------------------------------
\* The patch that is kept was verified against a file that is still a source.
KeptVerified == agent.patch # NoPatch => /\ agent.patch.path \in agent.sources \ ModifiedPaths
                                         /\ ExactPatch(agent.patch)

PatchInv == AgentInv /\ KeptVerified

\* No step but the answer touches the patch, and no source is given up.
LEMMA PatchStays ==
    ASSUME KeptVerified, agent'.patch = agent.patch, agent.sources \subseteq agent'.sources
    PROVE  KeptVerified'
  BY DEF KeptVerified, ExactPatch

LEMMA FailsKeepsPatch == ASSUME PatchInv, Fails PROVE KeptVerified'
<1>1. agent'.patch = agent.patch /\ agent'.sources = agent.sources
  BY DEF PatchInv, AgentInv, Agent, Fails
<1> QED
  BY <1>1, PatchStays DEF PatchInv

LEMMA RepairKeepsPatch == ASSUME PatchInv, Repair PROVE KeptVerified'
<1>1. CASE agent.repaired \/ agent.turns >= MaxTurns
  BY <1>1, FailsKeepsPatch DEF Repair
<1>2. CASE ~(agent.repaired \/ agent.turns >= MaxTurns)
  <2>1. agent'.patch = agent.patch /\ agent'.sources = agent.sources
    BY <1>2 DEF PatchInv, AgentInv, Agent, Repair
  <2> QED
    BY <2>1, PatchStays DEF PatchInv
<1> QED
  BY <1>1, <1>2

LEMMA CallKeepsPatch ==
    ASSUME PatchInv, NEW id, NEW changes \in Agent, CallDone(id, changes),
           changes.patch = agent.patch, agent.sources \subseteq changes.sources
    PROVE  KeptVerified'
<1>1. agent'.patch = changes.patch /\ agent'.sources = changes.sources
  BY DEF CallDone, Agent
<1> QED
  BY <1>1, PatchStays DEF PatchInv

LEMMA ToolKeepsPatch ==
    ASSUME PatchInv,
           ReadEvidence \/ ToolError \/ ReadKnownSource \/ FetchSource \/ FetchNothing
    PROVE  KeptVerified'
<1>1. agent \in Agent
  BY DEF PatchInv, AgentInv
<1>2. CASE ReadEvidence \/ ToolError
  BY <1>1, <1>2, CallKeepsPatch DEF ReadEvidence, ToolError
<1>3. CASE ReadKnownSource
  <2>1. PICK path \in Paths, shown \in BOOLEAN :
          CallDone(Shown(path, shown), [agent EXCEPT !.sources = @ \cup {path}])
    BY <1>3, AgentAssumption DEF ReadKnownSource
  <2> DEFINE changes == [agent EXCEPT !.sources = @ \cup {path}]
  <2>2. /\ changes \in Agent /\ changes.patch = agent.patch
        /\ agent.sources \subseteq changes.sources
    BY <1>1 DEF Agent
  <2> HIDE DEF changes
  <2>3. CallDone(Shown(path, shown), changes)
    BY <2>1 DEF changes
  <2> QED
    BY <2>2, <2>3, CallKeepsPatch
<1>4. CASE FetchSource
  <2>1. PICK path \in Paths, shown \in BOOLEAN :
          /\ MayFetch(path)
          /\ CallDone(Shown(path, shown), [agent EXCEPT !.sources = @ \cup {path}, !.reads = @ + 1])
    BY <1>4 DEF FetchSource
  <2> DEFINE changes == [agent EXCEPT !.sources = @ \cup {path}, !.reads = @ + 1]
  <2>2. /\ changes \in Agent /\ changes.patch = agent.patch
        /\ agent.sources \subseteq changes.sources
    <3>1. agent.reads + 1 \in 0..MaxSourceReads
      BY <1>1, <2>1, BudgetsAreNumbers DEF Agent, MayFetch
    <3> QED
      BY <1>1, <3>1 DEF Agent
  <2> HIDE DEF changes
  <2>3. CallDone(Shown(path, shown), changes)
    BY <2>1 DEF changes
  <2> QED
    BY <2>2, <2>3, CallKeepsPatch
<1>5. CASE FetchNothing
  <2> DEFINE changes == [agent EXCEPT !.reads = @ + 1]
  <2>1. PICK path \in Paths : MayFetch(path)
    BY <1>5 DEF FetchNothing
  <2>2. /\ changes \in Agent /\ changes.patch = agent.patch
        /\ agent.sources \subseteq changes.sources
    <3>1. agent.reads + 1 \in 0..MaxSourceReads
      BY <1>1, <2>1, BudgetsAreNumbers DEF Agent, MayFetch
    <3> QED
      BY <1>1, <3>1 DEF Agent
  <2> HIDE DEF changes
  <2>3. CallDone({}, changes)
    BY <1>5 DEF FetchNothing, changes
  <2> QED
    BY <2>2, <2>3, CallKeepsPatch
<1> QED
  BY <1>2, <1>3, <1>4, <1>5

LEMMA AnswerKeepsPatch == ASSUME PatchInv, ReplyWithAnswer PROVE KeptVerified'
<1>1. PICK cited \in SUBSET EvidenceIds, patch \in Patches \cup {NoPatch} :
        IF ~Acceptable(cited) THEN Repair
        ELSE agent' = [agent EXCEPT !.pc = "answered", !.cited = cited,
                         !.patch = IF patch # NoPatch /\ Verifies(patch, agent.sources)
                                     THEN patch ELSE NoPatch]
  BY DEF ReplyWithAnswer
<1>2. CASE ~Acceptable(cited)
  BY <1>1, <1>2, RepairKeepsPatch
<1>3. CASE Acceptable(cited)
  <2> DEFINE kept == IF patch # NoPatch /\ Verifies(patch, agent.sources) THEN patch ELSE NoPatch
  <2>1. agent \in Agent /\ agent' = [agent EXCEPT !.pc = "answered", !.cited = cited, !.patch = kept]
    BY <1>1, <1>3 DEF PatchInv, AgentInv
  <2>2. kept # NoPatch => kept \in Patches /\ Verifies(kept, agent.sources)
    OBVIOUS
  <2> HIDE DEF kept
  <2>3. agent'.patch = kept /\ agent'.sources = agent.sources
    BY <2>1 DEF Agent
  <2>4. kept # NoPatch => kept.path \in agent.sources \ ModifiedPaths /\ ExactPatch(kept)
    BY <2>2, VerifiedIsExact
  <2> QED
    BY <2>3, <2>4 DEF KeptVerified, ExactPatch
<1> QED
  BY <1>2, <1>3

LEMMA PatchNextKeeps == ASSUME PatchInv, [AgentNext]_agent PROVE PatchInv'
<1>1. ASSUME Chat \/ ReplyWithCalls \/ UNCHANGED agent PROVE KeptVerified'
  <2>1. agent'.patch = agent.patch /\ agent'.sources = agent.sources
    BY <1>1 DEF PatchInv, AgentInv, Agent, Chat, ReplyWithCalls
  <2> QED
    BY <2>1, PatchStays DEF PatchInv
<1>2. ASSUME ReplyMalformed \/ ReplyEmpty \/ AgentStops PROVE KeptVerified'
  BY <1>2, RepairKeepsPatch, FailsKeepsPatch DEF ReplyMalformed, ReplyEmpty, AgentStops
<1>3. KeptVerified'
  BY <1>1, <1>2, ToolKeepsPatch, AnswerKeepsPatch DEF AgentNext
<1> QED
  BY <1>3, AgentNextKeeps DEF PatchInv

\* For any file and any patch a model may propose, one that is kept is for a file that was
\* read and that redaction left alone, changes it and exchanges exactly the lines it
\* says it does, the only hunk of one at the lines its header names or the only ones like
\* them (services/agent.py, verify_patch and _Loop._finish).
THEOREM AgentKeepsExactPatches == AgentSpec => []KeptPatchIsExact
<1>1. AgentInit => PatchInv
  <2> SUFFICES ASSUME AgentInit PROVE PatchInv
    OBVIOUS
  <2>1. agent.patch = NoPatch
    BY SMTT(60) DEF AgentInit, NotAsked
  <2> QED
    BY <2>1, AgentInitKeeps DEF PatchInv, KeptVerified
<1>2. PatchInv /\ [AgentNext]_agent => PatchInv'
  BY PatchNextKeeps
<1>3. PatchInv => KeptPatchIsExact
  <2> SUFFICES ASSUME PatchInv, agent.patch # NoPatch PROVE KeptPatchIsExact
    BY DEF KeptPatchIsExact
  <2> DEFINE patch == agent.patch
  <2>1. patch.path \in agent.sources \ ModifiedPaths /\ ExactPatch(patch)
    BY DEF PatchInv, KeptVerified
  <2> HIDE DEF patch
  <2>2. ExactPatch(patch) =>
          LET lines == Content[patch.path]
              hunks == patch.hunks
              after == Applied(hunks, lines).lines
          IN /\ after # lines
             /\ \A line : Count(after, line) = Count(lines, line) + LinesOf(hunks, "new", line)
                                                                  - LinesOf(hunks, "old", line)
             /\ Len(hunks) = 1 => RightPlace(hunks[1], lines, after)
    BY DEF ExactPatch
  <2> QED
    BY <2>1, <2>2 DEF KeptPatchIsExact, RightPlace, patch
<1> QED
  BY <1>1, <1>2, <1>3, PTL DEF AgentSpec

-----------------------------------------------------------------------------
(* The load of CI sources (CiSources). *)

Requests == [file : Files, ancestors : SUBSET Files]
Operations == ({"project", "commit", "file"} \X Files) \cup ({"ref"} \X Misses)

Load == [pc : {"batch", "reading", "done"}, pending : Seq(Requests), batch : Seq(Requests),
         stage : Seq(Stages), cached : SUBSET Operations, budget : Nat, files : SUBSET Files,
         scheduled : SUBSET (Files \X Files), configs : SUBSET Files, processed : Nat,
         notes : SUBSET Notes, partial : BOOLEAN]

Askable == [entry : Entries, includes : Declarations, trouble : Troubles, limit : FileLimits]

\* The limits of a load: each file that was expanded was counted, each operation that is
\* cached was paid for, and each request but the first is of an edge that was scheduled;
\* the notes are those of the entry point.
Limited(l) ==
    /\ l.configs \subseteq l.files /\ Cardinality(l.files) <= asked.limit
    /\ l.budget + Cardinality(l.cached) = 3 * asked.limit + RefCandidates
    /\ Cardinality(l.scheduled) <= EdgeLimit
    /\ l.processed + Len(l.batch) + Len(l.pending) <= 1 + Cardinality(l.scheduled)
    /\ l.notes = EntryNotes

\* A batch is read from its first request to its last, and what is read was counted.
BatchInOrder ==
    /\ load.pc = "reading" => DOMAIN load.stage = DOMAIN load.batch
    /\ load.pc # "reading" => load.batch = <<>> /\ load.stage = <<>>
    /\ \A i \in DOMAIN load.stage : load.stage[i] = "read" => load.batch[i].file \in load.files

SourcesInv == asked \in Askable /\ load \in Load /\ Limited(load) /\ BatchInOrder

\* The limits are numbers.
LEMMA SourceNumbers ==
    /\ RefCandidates \in Nat /\ Parallel \in Nat \ {0} /\ MaxIncludeDepth \in Nat
    /\ asked \in Askable => asked.limit \in Nat /\ EdgeLimit \in Nat \ {0}
<1>1. RefCandidates \in Nat /\ Parallel \in Nat \ {0} /\ MaxIncludeDepth \in Nat
  BY CiSourcesAssumption
<1>2. ASSUME asked \in Askable PROVE asked.limit \in Nat /\ EdgeLimit \in Nat \ {0}
  <2>1. asked.limit \in Nat
    BY <1>2, CiSourcesAssumption DEF Askable
  <2> QED
    BY <2>1 DEF EdgeLimit
<1> QED
  BY <1>1, <1>2

\* What is asked for begins at a file, and what is wrong with URLs is wrong with remote files.
LEMMA AskedParts ==
    ASSUME NEW a \in Askable
    PROVE  /\ a.entry \in Entries /\ a.entry.file \in Files
           /\ a.trouble.gone \subseteq Remote /\ a.trouble.foreign \subseteq Remote
           /\ Remote \subseteq External
<1>1. a.entry \in Entries /\ a.trouble \in Troubles
  BY DEF Askable
<1> QED
  BY <1>1, CiSourcesAssumption

\* All sets of a load are finite.
LEMMA LoadIsFinite ==
    ASSUME NEW l \in Load
    PROVE  /\ IsFiniteSet(l.files) /\ IsFiniteSet(l.cached) /\ IsFiniteSet(l.scheduled)
           /\ Cardinality(l.files) \in Nat /\ Cardinality(l.cached) \in Nat
           /\ Cardinality(l.scheduled) \in Nat
<1>1. IsFiniteSet(Files)
  BY CiSourcesAssumption
<1>2. IsFiniteSet({"project", "commit", "file"})
  <2>1. IsFiniteSet({"project"})
    BY FS_Singleton
  <2>2. IsFiniteSet({"project"} \cup {"commit"})
    BY <2>1, FS_AddElement
  <2>3. IsFiniteSet(({"project"} \cup {"commit"}) \cup {"file"})
    BY <2>2, FS_AddElement
  <2>4. ({"project"} \cup {"commit"}) \cup {"file"} = {"project", "commit", "file"}
    OBVIOUS
  <2> QED
    BY <2>3, <2>4
<1>3. IsFiniteSet(Operations) /\ IsFiniteSet(Files \X Files)
  <2>1. IsFiniteSet(Misses) /\ IsFiniteSet({"ref"})
    BY CiSourcesAssumption, FS_Singleton
  <2>2. /\ IsFiniteSet({"project", "commit", "file"} \X Files) /\ IsFiniteSet({"ref"} \X Misses)
        /\ IsFiniteSet(Files \X Files)
    BY <1>1, <1>2, <2>1, FS_Product
  <2> QED
    BY <2>2, FS_Union DEF Operations
<1>4. l.files \subseteq Files /\ l.cached \subseteq Operations /\ l.scheduled \subseteq Files \X Files
  BY DEF Load
<1>5. IsFiniteSet(l.files) /\ IsFiniteSet(l.cached) /\ IsFiniteSet(l.scheduled)
  BY <1>1, <1>3, <1>4, FS_Subset
<1> QED
  BY <1>5, FS_CardinalityType

LEMMA SourcesInitKeeps == SourcesInit => SourcesInv
<1> SUFFICES ASSUME SourcesInit PROVE SourcesInv
  OBVIOUS
<1>1. asked \in Askable
  BY DEF SourcesInit, Askable
<1> DEFINE root == Request(asked.entry.file, {})
           pending == IF Enterable THEN <<root>> ELSE <<>>
           budget == 3 * asked.limit + RefCandidates
<1>2. load = [pc |-> IF Enterable THEN "batch" ELSE "done", pending |-> pending, batch |-> <<>>,
              stage |-> <<>>, cached |-> {}, budget |-> budget, files |-> {}, scheduled |-> {},
              configs |-> {}, processed |-> 0, notes |-> EntryNotes, partial |-> ~Enterable]
  BY DEF SourcesInit, NotLoading
<1>3. budget \in Nat
  BY <1>1, SourceNumbers
<1>4. root \in Requests
  BY <1>1, AskedParts DEF Request, Requests
<1> HIDE DEF root
<1>5. pending \in Seq(Requests) /\ Len(pending) \in Nat /\ Len(pending) <= 1
  <2>1. CASE Enterable
    BY <1>4, <2>1
  <2>2. CASE ~Enterable
    BY <2>2
  <2> QED
    BY <2>1, <2>2
<1>6. load \in Load
  <2>1. <<>> \in Seq(Requests) /\ <<>> \in Seq(Stages) /\ Enterable \in BOOLEAN
    BY DEF Enterable
  <2>2. EntryNotes \subseteq Notes
    BY DEF EntryNotes, Notes
  <2> HIDE DEF budget, pending
  <2> QED
    BY <1>2, <1>3, <1>5, <2>1, <2>2 DEF Load
<1>7. Limited(load)
  <2>1. Cardinality({}) = 0 /\ Len(<<>>) = 0
    BY FS_EmptySet
  <2> HIDE DEF pending
  <2>2. /\ load.configs = {} /\ load.files = {} /\ load.cached = {} /\ load.scheduled = {}
        /\ load.budget = budget /\ load.processed = 0 /\ load.batch = <<>>
        /\ load.pending = pending /\ load.notes = EntryNotes
    BY <1>2
  <2>3. /\ asked.limit \in Nat /\ EdgeLimit \in Nat /\ 0 <= asked.limit /\ 0 <= EdgeLimit
        /\ budget + 0 = 3 * asked.limit + RefCandidates
    BY <1>1, SourceNumbers
  <2>4. load.processed + Len(load.batch) + Len(load.pending) <= 1 + Cardinality(load.scheduled)
    <3>1. Len(load.batch) = 0
      <4>1. load.batch \in Seq({}) /\ load.batch = <<>>
        BY <2>2
      <4> QED
        BY <4>1
    <3>2. Cardinality(load.scheduled) = 0
      BY Zenon, <2>1, <2>2
    <3>3. Len(load.pending) <= 1 /\ Len(load.pending) \in Nat
      BY Zenon, <1>5, <2>2
    <3> QED
      BY <2>2, <3>1, <3>2, <3>3
  <2> HIDE DEF budget
  <2> QED
    BY <2>1, <2>2, <2>3, <2>4 DEF Limited
<1>8. BatchInOrder
  <2>1. DOMAIN <<>> = {}
    OBVIOUS
  <2> HIDE DEF pending
  <2>2. load.pc # "reading" /\ load.batch = <<>> /\ load.stage = <<>>
    BY <1>2
  <2> QED
    BY <2>1, <2>2 DEF BatchInOrder
<1> QED
  BY <1>1, <1>6, <1>7, <1>8 DEF SourcesInv

LEMMA TakeBatchKeeps == ASSUME SourcesInv, TakeBatch PROVE SourcesInv'
<1> DEFINE all == load.pending
           n == IF Len(all) < Parallel THEN Len(all) ELSE Parallel
           batch == SubSeq(all, 1, n)
           rest == SubSeq(all, n + 1, Len(all))
           stage == [i \in 1..n |-> IF Elsewhere(batch[i]) THEN "project" ELSE "file"]
<1>1. /\ load' = [load EXCEPT !.pc = "reading", !.batch = batch, !.pending = rest, !.stage = stage]
      /\ load.pc = "batch" /\ UNCHANGED asked
  BY DEF TakeBatch
<1>2. load \in Load /\ load.batch = <<>> /\ all \in Seq(Requests)
  BY <1>1 DEF SourcesInv, BatchInOrder, Load
<1> HIDE DEF all
<1>3. n \in 0..Len(all) /\ Len(all) \in Nat
  BY <1>2, SourceNumbers
<1>4. stage \in Seq(Stages) /\ DOMAIN stage = 1..n /\ \A i \in DOMAIN stage : stage[i] # "read"
  <2> HIDE DEF batch
  <2> QED
    BY <1>3 DEF Stages
<1> HIDE DEF n, stage
<1>5. batch \in Seq(Requests) /\ Len(batch) = n
  <2>1. 1 \in 1..(Len(all) + 1) /\ n \in (1 - 1)..Len(all) /\ n - 1 + 1 = n
    BY <1>3
  <2> QED
    BY <1>2, <2>1
<1>6. rest \in Seq(Requests) /\ Len(rest) = Len(all) - n
  <2>1. n + 1 \in 1..(Len(all) + 1) /\ Len(all) \in ((n + 1) - 1)..Len(all) /\ n \in Nat
    BY <1>3
  <2> QED
    BY <1>2, <1>3, <2>1
<1> HIDE DEF batch, rest
<1>7. load' \in Load
  BY <1>1, <1>2, <1>4, <1>5, <1>6 DEF Load
<1>8. /\ load'.pc = "reading" /\ load'.batch = batch /\ load'.pending = rest /\ load'.stage = stage
      /\ load'.configs = load.configs /\ load'.files = load.files /\ load'.cached = load.cached
      /\ load'.budget = load.budget /\ load'.notes = load.notes /\ load'.scheduled = load.scheduled
      /\ load'.processed = load.processed
  BY <1>1, <1>2 DEF Load
<1>9. load'.processed + Len(load'.batch) + Len(load'.pending) <= 1 + Cardinality(load'.scheduled)
  <2>1. Len(load.batch) = 0 /\ load.processed \in Nat /\ Cardinality(load.scheduled) \in Nat
    BY <1>2, LoadIsFinite DEF Load
  <2>2. load.processed + Len(load.batch) + Len(all) <= 1 + Cardinality(load.scheduled)
    BY DEF SourcesInv, Limited, all
  <2> QED
    BY <1>3, <1>5, <1>6, <1>8, <2>1, <2>2
<1>10. Limited(load)'
  BY <1>1, <1>8, <1>9 DEF SourcesInv, Limited, EdgeLimit, EntryNotes
<1>11. BatchInOrder'
  <2>1. DOMAIN batch = 1..n
    BY <1>5
  <2> QED
    BY <1>4, <1>8, <2>1 DEF BatchInOrder
<1> QED
  BY <1>1, <1>7, <1>10, <1>11 DEF SourcesInv

LEMMA LoadDoneKeeps == ASSUME SourcesInv, LoadDone PROVE SourcesInv'
<1> DEFINE partial == load.partial \/ load.pending # <<>>
<1>1. /\ load' = [load EXCEPT !.pc = "done", !.partial = partial]
      /\ load.pc = "batch" /\ UNCHANGED asked
  BY DEF LoadDone
<1>2. partial \in BOOLEAN /\ load \in Load
  BY DEF SourcesInv
<1> HIDE DEF partial
<1>3. load' \in Load
  BY <1>1, <1>2 DEF Load
<1>4. /\ load'.pc = "done" /\ load'.batch = load.batch /\ load'.pending = load.pending
      /\ load'.stage = load.stage
      /\ load'.configs = load.configs /\ load'.files = load.files /\ load'.cached = load.cached
      /\ load'.budget = load.budget /\ load'.notes = load.notes /\ load'.scheduled = load.scheduled
      /\ load'.processed = load.processed
  BY <1>1, <1>2 DEF Load
<1>5. Limited(load)'
  BY <1>1, <1>4 DEF SourcesInv, Limited, EdgeLimit, EntryNotes
<1>6. BatchInOrder'
  BY <1>1, <1>4 DEF SourcesInv, BatchInOrder
<1> QED
  BY <1>1, <1>3, <1>5, <1>6 DEF SourcesInv

\* A read of one request that changes nothing of the batch but its stage.
LEMMA GoesKeeps ==
    ASSUME SourcesInv, UNCHANGED asked, load.pc = "reading", NEW i \in DOMAIN load.stage,
           NEW changes \in Load, Limited(changes), changes.pc = "reading",
           changes.batch = load.batch, changes.stage = load.stage,
           load.files \subseteq changes.files,
           NEW stage \in Stages, stage = "read" => load.batch[i].file \in changes.files,
           Goes(i, changes, stage)
    PROVE  SourcesInv'
<1> DEFINE stages == [load.stage EXCEPT ![i] = stage]
<1>1. load' = [changes EXCEPT !.stage = stages]
  <2>1. load' = [changes EXCEPT !.stage[i] = stage]
    BY DEF Goes
  <2>2. [changes EXCEPT !.stage[i] = stage] = [changes EXCEPT !.stage = [changes.stage EXCEPT ![i] = stage]]
    OBVIOUS
  <2> QED
    BY <2>1, <2>2
<1>2. load.stage \in Seq(Stages)
  BY DEF SourcesInv, Load
<1>3. /\ stages \in Seq(Stages) /\ DOMAIN stages = DOMAIN load.stage /\ stages[i] = stage
      /\ \A j \in DOMAIN load.stage : j # i => stages[j] = load.stage[j]
  BY <1>2
<1> HIDE DEF stages
<1>4. load' \in Load
  BY <1>1, <1>3 DEF Load
<1>5. /\ load'.pc = "reading" /\ load'.batch = load.batch /\ load'.pending = changes.pending
      /\ load'.stage = stages
      /\ load'.configs = changes.configs /\ load'.files = changes.files
      /\ load'.cached = changes.cached /\ load'.budget = changes.budget /\ load'.notes = changes.notes
      /\ load'.scheduled = changes.scheduled /\ load'.processed = changes.processed
  BY <1>1 DEF Load
<1>6. Limited(load)'
  BY <1>5 DEF Limited, EdgeLimit, EntryNotes
<1>7. BatchInOrder'
  <2>1. DOMAIN load.stage = DOMAIN load.batch
    BY DEF SourcesInv, BatchInOrder
  <2>2. ASSUME NEW j \in DOMAIN stages, stages[j] = "read" PROVE load.batch[j].file \in changes.files
    <3>1. CASE j = i
      BY <1>3, <2>2, <3>1
    <3>2. CASE j # i
      BY <1>3, <2>2, <3>2 DEF SourcesInv, BatchInOrder
    <3> QED
      BY <3>1, <3>2
  <2> QED
    BY <1>3, <1>5, <2>1, <2>2 DEF BatchInOrder
<1> QED
  BY <1>4, <1>6, <1>7 DEF SourcesInv

\* What an operation costs is paid once.
LEMMA PerformedPays ==
    ASSUME SourcesInv, NEW key \in Operations, ~Unaffordable(key),
           NEW changes \in Load, Limited(changes),
           changes.cached = load.cached, changes.budget = load.budget /\ changes.notes = load.notes
    PROVE  LET now == Performed(key, changes)
           IN /\ now \in Load /\ Limited(now) /\ now.pc = changes.pc
              /\ now.batch = changes.batch /\ now.stage = changes.stage
              /\ now.files = changes.files /\ now.partial = changes.partial
              /\ now.pending = changes.pending /\ now.configs = changes.configs
              /\ now.scheduled = changes.scheduled /\ now.cached = changes.cached \cup {key}
<1> DEFINE now == Performed(key, changes)
<1>1. CASE key \in load.cached
  <2>1. now = changes
    BY <1>1 DEF Performed
  <2>2. changes.cached = changes.cached \cup {key}
    BY <1>1
  <2> QED
    BY <2>1, <2>2
<1>2. CASE key \notin load.cached
  <2> DEFINE cached == changes.cached \cup {key}
             budget == changes.budget - 1
  <2>1. now = [changes EXCEPT !.cached = cached, !.budget = budget]
    BY <1>2 DEF Performed
  <2>2. changes.budget \in Nat /\ changes.budget # 0
    BY <1>2 DEF Unaffordable, Load
  <2>3. cached \subseteq Operations /\ budget \in Nat
    BY <2>2 DEF Load
  <2>4. Cardinality(cached) = Cardinality(changes.cached) + 1
    BY <1>2, LoadIsFinite, FS_AddElement
  <2>5. Cardinality(changes.cached) \in Nat
    BY LoadIsFinite
  <2>6. budget + Cardinality(cached) = 3 * asked.limit + RefCandidates
    BY <2>2, <2>4, <2>5 DEF Limited
  <2> HIDE DEF now, cached, budget
  <2>7. now \in Load
    BY <2>1, <2>3 DEF Load
  <2>8. /\ now.pc = changes.pc /\ now.batch = changes.batch /\ now.stage = changes.stage
        /\ now.files = changes.files /\ now.partial = changes.partial
        /\ now.pending = changes.pending /\ now.configs = changes.configs
        /\ now.scheduled = changes.scheduled /\ now.processed = changes.processed
        /\ now.cached = cached /\ now.budget = budget /\ now.notes = changes.notes
    BY <2>1 DEF Load
  <2>9. Limited(now)
    BY <2>6, <2>8 DEF Limited
  <2> QED
    BY <2>7, <2>8, <2>9 DEF now, cached
<1> QED
  BY <1>1, <1>2

\* A request of the batch is of a file.
LEMMA RequestsOfBatch ==
    ASSUME SourcesInv, NEW i, NEW stage, Reading(i, stage)
    PROVE  /\ load.pc = "reading" /\ i \in DOMAIN load.stage /\ i \in DOMAIN load.batch
           /\ load.batch[i] \in Requests /\ load.batch[i].file \in Files
           /\ \A kind \in {"project", "commit", "file"} :
                <<kind, load.batch[i].file>> \in Operations
<1>1. load.pc = "reading" /\ i \in DOMAIN load.stage /\ i \in DOMAIN load.batch
  BY DEF Reading, SourcesInv, BatchInOrder
<1>2. load.batch \in Seq(Requests)
  BY DEF SourcesInv, Load
<1>3. load.batch[i] \in Requests
  BY <1>1, <1>2
<1>4. load.batch[i].file \in Files
  BY <1>3 DEF Requests
<1> QED
  BY <1>1, <1>3, <1>4 DEF Operations

LEMMA ReadProjectKeeps == ASSUME SourcesInv, NEW i, ReadProject(i) PROVE SourcesInv'
<1> DEFINE file == load.batch[i].file
           key == <<"project", file>>
<1>1. Reading(i, "project") /\ UNCHANGED asked
  BY DEF ReadProject
<1>2. load.pc = "reading" /\ i \in DOMAIN load.stage /\ key \in Operations
  BY <1>1, RequestsOfBatch
<1>3. load \in Load /\ Limited(load)
  BY DEF SourcesInv
<1> HIDE DEF file, key
<1> DEFINE barred == TooDeep(i) \/ file \in asked.trouble.foreign \/ Unaffordable(key)
<1>4. CASE barred
  <2>1. Goes(i, load, "unresolved")
    BY <1>4 DEF ReadProject, file, key
  <2>2. "unresolved" \in Stages
    BY DEF Stages
  <2> QED
    BY <1>1, <1>2, <1>3, <2>1, <2>2, GoesKeeps
<1>5. CASE ~barred
  <2> DEFINE next == IF file \in asked.trouble.hidden THEN "denied"
                     ELSE IF file \in Remote THEN "reference" ELSE Resolved(file)
             now == Performed(key, load)
  <2>1. Goes(i, now, next)
    BY <1>5 DEF ReadProject, file, key
  <2>2. next \in Stages /\ next # "read"
    BY DEF Stages, Resolved
  <2>3. /\ now \in Load /\ Limited(now) /\ now.pc = load.pc /\ now.batch = load.batch
        /\ now.stage = load.stage /\ now.files = load.files
    BY <1>2, <1>3, <1>5, PerformedPays
  <2> HIDE DEF next, now
  <2> QED
    BY <1>1, <1>2, <2>1, <2>2, <2>3, GoesKeeps
<1> QED
  BY <1>4, <1>5

LEMMA ReadReferenceKeeps == ASSUME SourcesInv, NEW i, ReadReference(i) PROVE SourcesInv'
<1> DEFINE file == load.batch[i].file
           found == <<"commit", file>>
<1>1. Reading(i, "reference") /\ UNCHANGED asked
  BY DEF ReadReference
<1>2. load.pc = "reading" /\ i \in DOMAIN load.stage /\ found \in Operations
  BY <1>1, RequestsOfBatch
<1>3. load \in Load /\ Limited(load)
  BY DEF SourcesInv
<1> HIDE DEF file, found
<1>4. CASE Goes(i, load, "unresolved")
  <2>1. "unresolved" \in Stages
    BY DEF Stages
  <2> QED
    BY <1>1, <1>2, <1>3, <1>4, <2>1, GoesKeeps
<1>5. ASSUME NEW miss \in Untried(file), load.budget # 0,
             Goes(i, Performed(<<"ref", miss>>, load), "reference")
      PROVE  SourcesInv'
  <2> DEFINE key == <<"ref", miss>>
             now == Performed(key, load)
  <2>1. key \in Operations /\ ~Unaffordable(key) /\ "reference" \in Stages
    BY <1>5 DEF Untried, Operations, Unaffordable, Stages
  <2>2. Goes(i, now, "reference")
    BY <1>5
  <2> HIDE DEF key
  <2>3. /\ now \in Load /\ Limited(now) /\ now.pc = load.pc /\ now.batch = load.batch
        /\ now.stage = load.stage /\ now.files = load.files
    BY <1>3, <2>1, PerformedPays
  <2> HIDE DEF now
  <2> QED
    BY <1>1, <1>2, <2>1, <2>2, <2>3, GoesKeeps
<1>6. CASE ~Unaffordable(found) /\ Goes(i, Performed(found, load),
                    IF file \in asked.trouble.gone THEN "unresolved" ELSE Resolved(file))
  <2> DEFINE next == IF file \in asked.trouble.gone THEN "unresolved" ELSE Resolved(file)
             now == Performed(found, load)
  <2>1. Goes(i, now, next)
    BY <1>6
  <2>2. next \in Stages /\ next # "read"
    BY DEF Stages, Resolved
  <2>3. /\ now \in Load /\ Limited(now) /\ now.pc = load.pc /\ now.batch = load.batch
        /\ now.stage = load.stage /\ now.files = load.files
    BY <1>2, <1>3, <1>6, PerformedPays
  <2> HIDE DEF next, now
  <2> QED
    BY <1>1, <1>2, <2>1, <2>2, <2>3, GoesKeeps
<1> QED
  BY <1>4, <1>5, <1>6 DEF ReadReference, file, found

LEMMA ReadCommitKeeps == ASSUME SourcesInv, NEW i, ReadCommit(i) PROVE SourcesInv'
<1> DEFINE file == load.batch[i].file
           key == <<"commit", file>>
           noted == [load EXCEPT !.partial = TRUE]
<1>1. Reading(i, "commit") /\ UNCHANGED asked
  BY DEF ReadCommit
<1>2. load.pc = "reading" /\ i \in DOMAIN load.stage /\ key \in Operations
  BY <1>1, RequestsOfBatch
<1>3. load \in Load /\ Limited(load)
  BY DEF SourcesInv
<1>4. /\ noted \in Load /\ noted.pc = load.pc /\ noted.batch = load.batch
      /\ noted.stage = load.stage /\ noted.files = load.files
      /\ noted.cached = load.cached /\ noted.budget = load.budget /\ noted.notes = load.notes
      /\ noted.configs = load.configs /\ noted.scheduled = load.scheduled
      /\ noted.processed = load.processed /\ noted.pending = load.pending
  BY <1>3 DEF Load
<1> HIDE DEF file, key
<1>5. CASE Unaffordable(key)
  <2>1. Goes(i, noted, "unresolved")
    BY <1>5 DEF ReadCommit, file, key
  <2>2. "unresolved" \in Stages
    BY DEF Stages
  <2> HIDE DEF noted
  <2>3. Limited(noted)
    BY <1>3, <1>4 DEF Limited
  <2> QED
    BY <1>1, <1>2, <1>4, <2>1, <2>2, <2>3, GoesKeeps
<1>6. CASE ~Unaffordable(key)
  <2> DEFINE now == Performed(key, noted)
  <2>1. Goes(i, now, "file")
    BY <1>6 DEF ReadCommit, file, key
  <2>2. "file" \in Stages
    BY DEF Stages
  <2> HIDE DEF noted
  <2>3. Limited(noted)
    BY <1>3, <1>4 DEF Limited
  <2>4. /\ now \in Load /\ Limited(now) /\ now.pc = load.pc /\ now.batch = load.batch
        /\ now.stage = load.stage /\ now.files = load.files
    BY <1>2, <1>4, <1>6, <2>3, PerformedPays
  <2> HIDE DEF now
  <2> QED
    BY <1>1, <1>2, <2>1, <2>2, <2>4, GoesKeeps
<1> QED
  BY <1>5, <1>6

LEMMA ReadFileKeeps == ASSUME SourcesInv, NEW i, ReadFile(i) PROVE SourcesInv'
<1> DEFINE file == load.batch[i].file
           key == <<"file", file>>
           files == load.files \cup {file}
           attempt == [load EXCEPT !.files = files]
<1>1. Reading(i, "file") /\ UNCHANGED asked
  BY DEF ReadFile
<1>2. load.pc = "reading" /\ i \in DOMAIN load.stage /\ key \in Operations /\ file \in Files
  BY <1>1, RequestsOfBatch
<1>3. load \in Load /\ Limited(load) /\ asked \in Askable
  BY DEF SourcesInv
<1> HIDE DEF file, key
<1>4. CASE ~Readable(i)
  <2>1. Goes(i, load, "unresolved")
    BY <1>4 DEF ReadFile
  <2>2. "unresolved" \in Stages
    BY DEF Stages
  <2> QED
    BY <1>1, <1>2, <1>3, <2>1, <2>2, GoesKeeps
<1>5. CASE Readable(i)
  <2>1. /\ attempt \in Load /\ attempt.pc = load.pc /\ attempt.batch = load.batch
        /\ attempt.stage = load.stage /\ attempt.files = files
        /\ attempt.cached = load.cached /\ attempt.budget = load.budget /\ attempt.notes = load.notes
        /\ attempt.configs = load.configs /\ attempt.scheduled = load.scheduled
        /\ attempt.processed = load.processed /\ attempt.pending = load.pending
    BY <1>2, <1>3 DEF Load
  <2>2. Cardinality(files) <= asked.limit
    <3>1. file \in load.files \/ Cardinality(load.files) < asked.limit
      BY <1>5 DEF Readable, file
    <3>2. Cardinality(files) = IF file \in load.files THEN Cardinality(load.files)
                               ELSE Cardinality(load.files) + 1
      BY <1>3, LoadIsFinite, FS_AddElement
    <3>3. Cardinality(load.files) \in Nat /\ asked.limit \in Nat
      BY <1>3, LoadIsFinite, SourceNumbers
    <3>4. Cardinality(load.files) <= asked.limit
      BY <1>3 DEF Limited
    <3> QED
      BY <3>1, <3>2, <3>3, <3>4
  <2>3. load.files \subseteq files /\ file \in files
    OBVIOUS
  <2>4. CASE Unaffordable(key)
    <3>1. Goes(i, attempt, "unresolved")
      BY <1>5, <2>4 DEF ReadFile, file, key
    <3>2. "unresolved" \in Stages
      BY DEF Stages
    <3> HIDE DEF attempt, files
    <3>3. Limited(attempt)
      BY <1>3, <2>1, <2>2, <2>3 DEF Limited
    <3> QED
      BY <1>1, <1>2, <2>1, <2>3, <3>1, <3>2, <3>3, GoesKeeps
  <2>5. CASE ~Unaffordable(key)
    <3> DEFINE now == Performed(key, attempt)
               next == IF file \in asked.trouble.denied THEN "denied" ELSE "read"
    <3>1. Goes(i, now, next)
      BY <1>5, <2>5 DEF ReadFile, file, key
    <3>2. next \in Stages
      BY DEF Stages
    <3> HIDE DEF attempt, files
    <3>3. Limited(attempt)
      BY <1>3, <2>1, <2>2, <2>3 DEF Limited
    <3>4. /\ now \in Load /\ Limited(now) /\ now.pc = load.pc /\ now.batch = load.batch
          /\ now.stage = load.stage /\ now.files = files
      BY <1>2, <2>1, <2>5, <3>3, PerformedPays
    <3> HIDE DEF now, next
    <3>5. load.files \subseteq now.files /\ load.batch[i].file \in now.files
      BY <2>3, <3>4 DEF file
    <3> QED
      BY <1>1, <1>2, <3>1, <3>2, <3>4, <3>5, GoesKeeps
  <2> QED
    BY <2>4, <2>5
<1> QED
  BY <1>4, <1>5

\* What each include that is scheduled keeps, an expanded file keeps.
LEMMA ExpandedIn ==
    ASSUME NEW V, NEW W, NEW now, NEW request, Len(Listed(request.file).files) \in Nat,
           [now EXCEPT !.configs = @ \cup {request.file},
                       !.partial = @ \/ ~Listed(request.file).whole] \in V \cap W[0],
           \A n \in DOMAIN Listed(request.file).files : \A v \in V :
              /\ Scheduled(v, request, Listed(request.file).files[n]) \in V
              /\ v \in W[n - 1] => Scheduled(v, request, Listed(request.file).files[n]) \in W[n],
           DOMAIN Listed(request.file).files = 1..Len(Listed(request.file).files)
    PROVE  Expanded(now, request) \in V \cap W[Len(Listed(request.file).files)]
<1> DEFINE listed == Listed(request.file)
           L == Len(listed.files)
           base == [now EXCEPT !.configs = @ \cup {request.file}, !.partial = @ \/ ~listed.whole]
           step == [n \in 1..L |-> [v \in V |-> Scheduled(v, request, listed.files[n])]]
           Fits(f) == f = [n \in 0..L |->
                             IF n = 0
                             THEN [now EXCEPT !.configs = @ \cup {request.file},
                                              !.partial = @ \/ ~listed.whole]
                             ELSE Scheduled(f[n - 1], request, listed.files[n])]
<1>1. L \in Nat /\ base \in V /\ base \in W[0]
  OBVIOUS
<1>2. \A n \in 1..L : \A v \in V :
        /\ Scheduled(v, request, listed.files[n]) \in V
        /\ v \in W[n - 1] => Scheduled(v, request, listed.files[n]) \in W[n]
  OBVIOUS
<1> DEFINE f == CHOOSE any : Fits(any)
<1>3. Expanded(now, request) = f[L]
  BY DEF Expanded
<1> HIDE DEF listed, L
<1>4. step \in [1..L -> [V -> V]]
  BY <1>2
<1>5. \A n \in 1..L : \A v \in V : step[n][v] = Scheduled(v, request, listed.files[n])
  OBVIOUS
<1> HIDE DEF step
<1>6. /\ base = [now EXCEPT !.configs = @ \cup {request.file}, !.partial = @ \/ ~listed.whole]
  OBVIOUS
<1> HIDE DEF base
<1>7. PICK g : Steps(g, L, V, base, step)
  BY <1>1, <1>4, StepByStep
<1>8. g \in [0..L -> V] /\ g[0] = base /\ \A n \in 1..L : g[n] = step[n][g[n - 1]]
  BY <1>7 DEF Steps
<1>9. ASSUME NEW n \in 1..L PROVE g[n] = Scheduled(g[n - 1], request, listed.files[n])
  <2>1. n - 1 \in 0..L
    BY <1>1
  <2> QED
    BY <1>5, <1>8, <2>1
<1>10. Fits(g)
  <2> DEFINE Point(n) == IF n = 0
                      THEN [now EXCEPT !.configs = @ \cup {request.file},
                                       !.partial = @ \/ ~listed.whole]
                      ELSE Scheduled(g[n - 1], request, listed.files[n])
  <2>1. \A n \in 0..L : n # 0 => n \in 1..L
    BY <1>1
  <2>2. \A n \in 0..L : g[n] = Point(n)
    BY <1>6, <1>8, <1>9, <2>1
  <2>3. g = [n \in 0..L |-> g[n]]
    BY <1>8
  <2> SUFFICES g = [n \in 0..L |-> Point(n)]
    OBVIOUS
  <2> HIDE DEF Point
  <2>4. [n \in 0..L |-> g[n]] = [n \in 0..L |-> Point(n)]
    BY <2>2, Zenon
  <2> QED
    BY <2>3, <2>4
<1>11. Fits(f)
  <2> HIDE DEF Fits
  <2> QED
    BY <1>10
<1> HIDE DEF f
<1>12. f[0] = base /\ \A n \in 1..L : f[n] = Scheduled(f[n - 1], request, listed.files[n])
  <2>1. 0 \in 0..L /\ \A n \in 1..L : n \in 0..L /\ n # 0
    BY <1>1
  <2> QED
    BY <1>6, <1>11, <2>1
<1> HIDE DEF Fits
<1> DEFINE T == { n \in 0..L : f[n] \in V /\ f[n] \in W[n] }
<1>13. 0 \in T
  BY <1>1, <1>12
<1>14. ASSUME NEW n \in 0..(L - 1), n \in T PROVE n + 1 \in T
  <2>1. n + 1 \in 1..L /\ n + 1 \in 0..L /\ (n + 1) - 1 = n
    BY <1>1
  <2>2. f[n] \in V /\ f[n] \in W[n]
    BY <1>14
  <2>3. f[n + 1] = Scheduled(f[n], request, listed.files[n + 1])
    BY <1>12, <2>1
  <2> QED
    BY <1>2, <2>1, <2>2, <2>3
<1> HIDE DEF T
<1>15. \A n \in 0..L : n \in T
  BY <1>1, <1>13, <1>14, UpTo
<1>16. L \in 0..L
  BY <1>1
<1>17. f[L] \in V /\ f[L] \in W[L]
  BY <1>15, <1>16 DEF T
<1> QED
  BY <1>3, <1>17 DEF listed, L

\* What each request that is merged keeps, the batch keeps.
LEMMA MergedIn ==
    ASSUME NEW V, NEW W, load \in V \cap W[0], Len(load.batch) \in Nat,
           \A i \in 1..Len(load.batch) : \A v \in V :
              Merged(v, i) \in V /\ (v \in W[i - 1] => Merged(v, i) \in W[i]),
           MergeBatch
    PROVE  \E now \in V \cap W[Len(load.batch)] :
             load' = [now EXCEPT !.pc = "batch", !.batch = <<>>, !.stage = <<>>,
                                 !.processed = @ + Len(load.batch)]
<1> DEFINE n == Len(load.batch)
           step == [i \in 1..n |-> [v \in V |-> Merged(v, i)]]
           Fits(f) == f = [i \in 0..n |-> IF i = 0 THEN load ELSE Merged(f[i - 1], i)]
           f == CHOOSE any : Fits(any)
<1>1. /\ n \in Nat /\ load \in V /\ load \in W[0]
      /\ \A i \in 1..n : \A v \in V :
           Merged(v, i) \in V /\ (v \in W[i - 1] => Merged(v, i) \in W[i])
  OBVIOUS
<1>2. load' = [f[n] EXCEPT !.pc = "batch", !.batch = <<>>, !.stage = <<>>, !.processed = @ + n]
  BY DEF MergeBatch
<1> HIDE DEF n
<1>3. step \in [1..n -> [V -> V]] /\ \A i \in 1..n : \A v \in V : step[i][v] = Merged(v, i)
  BY <1>1
<1> HIDE DEF step
<1>4. PICK g : Steps(g, n, V, load, step)
  BY <1>1, <1>3, StepByStep
<1>5. g \in [0..n -> V] /\ g[0] = load /\ \A i \in 1..n : g[i] = step[i][g[i - 1]]
  BY <1>4 DEF Steps
<1>6. ASSUME NEW i \in 1..n PROVE g[i] = Merged(g[i - 1], i)
  <2>1. i - 1 \in 0..n
    BY <1>1
  <2> QED
    BY <1>3, <1>5, <2>1
<1>7. Fits(g)
  <2> DEFINE Point(i) == IF i = 0 THEN load ELSE Merged(g[i - 1], i)
  <2>1. \A i \in 0..n : i # 0 => i \in 1..n
    BY <1>1
  <2>2. \A i \in 0..n : g[i] = Point(i)
    BY <1>5, <1>6, <2>1
  <2>3. g = [i \in 0..n |-> g[i]]
    BY <1>5
  <2> SUFFICES g = [i \in 0..n |-> Point(i)]
    OBVIOUS
  <2> HIDE DEF Point
  <2>4. [i \in 0..n |-> g[i]] = [i \in 0..n |-> Point(i)]
    BY <2>2, Zenon
  <2> QED
    BY <2>3, <2>4
<1>8. Fits(f)
  <2> HIDE DEF Fits
  <2> QED
    BY <1>7
<1> HIDE DEF f
<1>9. f[0] = load /\ \A i \in 1..n : f[i] = Merged(f[i - 1], i)
  <2>1. 0 \in 0..n /\ \A i \in 1..n : i \in 0..n /\ i # 0
    BY <1>1
  <2> QED
    BY <1>8, <2>1
<1> HIDE DEF Fits
<1> DEFINE T == { i \in 0..n : f[i] \in V /\ f[i] \in W[i] }
<1>10. 0 \in T
  BY <1>1, <1>9
<1>11. ASSUME NEW i \in 0..(n - 1), i \in T PROVE i + 1 \in T
  <2>1. i + 1 \in 1..n /\ i + 1 \in 0..n /\ (i + 1) - 1 = i
    BY <1>1
  <2>2. f[i] \in V /\ f[i] \in W[i]
    BY <1>11
  <2>3. f[i + 1] = Merged(f[i], i + 1)
    BY <1>9, <2>1
  <2> QED
    BY <1>1, <2>1, <2>2, <2>3
<1> HIDE DEF T
<1>12. \A i \in 0..n : i \in T
  BY <1>1, <1>10, <1>11, UpTo
<1>13. n \in 0..n
  BY <1>1
<1>14. f[n] \in V /\ f[n] \in W[n]
  BY <1>12, <1>13 DEF T
<1> QED
  BY <1>2, <1>14 DEF n

\* A load that differs from this one in what merging a batch changes.
Merging == { now \in Load : /\ Limited(now)
                            /\ now.pc = load.pc /\ now.batch = load.batch
                            /\ now.stage = load.stage /\ now.files = load.files
                            /\ now.cached = load.cached /\ now.processed = load.processed }

\* The includes that are followed are files.
LEMMA ListedFiles ==
    ASSUME asked \in Askable, NEW file \in Files
    PROVE  LET listed == Listed(file)
           IN /\ listed.files \in Seq(Files) /\ listed.whole \in BOOLEAN
              /\ Len(listed.files) \in Nat /\ DOMAIN listed.files = 1..Len(listed.files)
              /\ \A n \in DOMAIN listed.files : listed.files[n] \in Files
<1> DEFINE all == asked.includes[file]
           n == IF Len(all) < EdgeLimit THEN Len(all) ELSE EdgeLimit
           part == SubSeq(all, 1, n)
           whole == Len(all) <= EdgeLimit /\ file \notin asked.trouble.odd
<1>1. Listed(file) = [files |-> part, whole |-> whole]
  BY DEF Listed
<1>2. all \in Seq(Files)
  BY CiSourcesAssumption DEF Askable
<1>3. n \in 0..Len(all) /\ Len(all) \in Nat
  BY <1>2, SourceNumbers
<1> HIDE DEF all, n
<1>4. part \in Seq(Files)
  <2>1. 1 \in 1..(Len(all) + 1) /\ n \in (1 - 1)..Len(all)
    BY <1>3
  <2> QED
    BY <1>2, <2>1
<1> HIDE DEF part
<1>5. Len(part) \in Nat /\ DOMAIN part = 1..Len(part) /\ \A m \in DOMAIN part : part[m] \in Files
  BY <1>4
<1>6. whole \in BOOLEAN
  OBVIOUS
<1> HIDE DEF whole
<1> QED
  BY <1>1, <1>4, <1>5, <1>6

LEMMA ScheduledMerges ==
    ASSUME SourcesInv, NEW now \in Merging, NEW request \in Requests, NEW include \in Files
    PROVE  Scheduled(now, request, include) \in Merging
<1> DEFINE edge == <<request.file, include>>
           next == Request(include, request.ancestors \cup {request.file})
           scheduled == now.scheduled \cup {edge}
           pending == Append(now.pending, next)
           noted == [now EXCEPT !.partial = TRUE]
           more == [now EXCEPT !.scheduled = scheduled, !.pending = pending]
<1>1. now \in Load /\ Limited(now)
  BY DEF Merging
<1>2. asked.limit \in Nat /\ EdgeLimit \in Nat
  BY SourceNumbers DEF SourcesInv
<1>3. /\ edge \in Files \X Files /\ next \in Requests
  BY DEF Requests, Request
<1>4. CASE edge \in now.scheduled
  BY <1>4 DEF Scheduled
<1>5. CASE edge \notin now.scheduled /\ Cardinality(now.scheduled) >= EdgeLimit
  <2>1. Scheduled(now, request, include) = noted
    BY <1>5 DEF Scheduled
  <2>2. /\ noted \in Load /\ noted.pc = now.pc /\ noted.batch = now.batch
        /\ noted.stage = now.stage /\ noted.files = now.files
        /\ noted.cached = now.cached /\ noted.budget = now.budget /\ noted.notes = now.notes
        /\ noted.configs = now.configs /\ noted.scheduled = now.scheduled
        /\ noted.processed = now.processed /\ noted.pending = now.pending
    BY <1>1 DEF Load
  <2> HIDE DEF noted
  <2>3. Limited(noted)
    BY <1>1, <2>2 DEF Limited
  <2> QED
    BY <2>1, <2>2, <2>3 DEF Merging
<1>6. CASE edge \notin now.scheduled /\ ~(Cardinality(now.scheduled) >= EdgeLimit)
  <2>1. Scheduled(now, request, include) = more
    BY <1>6 DEF Scheduled
  <2>2. now.pending \in Seq(Requests) /\ now.scheduled \subseteq Files \X Files
    BY <1>1 DEF Load
  <2>3. /\ pending \in Seq(Requests) /\ Len(pending) = Len(now.pending) + 1
        /\ scheduled \subseteq Files \X Files /\ Len(now.pending) \in Nat
    BY <1>3, <2>2
  <2>4. Cardinality(scheduled) = Cardinality(now.scheduled) + 1 /\ Cardinality(now.scheduled) \in Nat
    BY <1>1, <1>6, LoadIsFinite, FS_AddElement
  <2> HIDE DEF edge, next, scheduled, pending
  <2>5. /\ more \in Load /\ more.pc = now.pc /\ more.batch = now.batch
        /\ more.stage = now.stage /\ more.files = now.files
        /\ more.cached = now.cached /\ more.budget = now.budget /\ more.notes = now.notes
        /\ more.configs = now.configs /\ more.scheduled = scheduled
        /\ more.processed = now.processed /\ more.pending = pending
    BY <1>1, <2>3 DEF Load
  <2>6. Limited(more)
    <3>1. now.processed \in Nat /\ Len(now.batch) \in Nat
      BY <1>1 DEF Load
    <3>2. /\ now.processed + Len(now.batch) + Len(now.pending) <= 1 + Cardinality(now.scheduled)
          /\ Cardinality(now.scheduled) <= EdgeLimit
      BY <1>1 DEF Limited
    <3>3. /\ Cardinality(scheduled) <= EdgeLimit
          /\ now.processed + Len(now.batch) + Len(pending) <= 1 + Cardinality(scheduled)
      BY SMTT(60), <1>2, <1>6, <2>3, <2>4, <3>1, <3>2
    <3> HIDE DEF more
    <3> QED
      BY <1>1, <2>5, <3>3 DEF Limited
  <2> HIDE DEF more
  <2> QED
    BY <2>1, <2>5, <2>6 DEF Merging
<1> QED
  BY <1>4, <1>5, <1>6

\* The file of a request that was read is expanded.
LEMMA BaseMerges ==
    ASSUME SourcesInv, NEW now \in Merging, NEW file \in load.files
    PROVE  LET base == [now EXCEPT !.configs = @ \cup {file},
                                   !.partial = @ \/ ~Listed(file).whole]
           IN /\ base \in Merging /\ base.configs = now.configs \cup {file}
              /\ base.partial = (now.partial \/ ~Listed(file).whole)
              /\ base.scheduled = now.scheduled /\ base.pending = now.pending
              /\ base.batch = now.batch
<1> DEFINE configs == now.configs \cup {file}
           partial == now.partial \/ ~Listed(file).whole
           base == [now EXCEPT !.configs = configs, !.partial = partial]
<1>1. now \in Load /\ Limited(now) /\ now.files = load.files /\ file \in Files
  BY DEF Merging, SourcesInv, Load
<1>2. configs \subseteq now.files /\ configs \subseteq Files /\ partial \in BOOLEAN
  BY <1>1 DEF Limited, Load
<1>3. base = [now EXCEPT !.configs = @ \cup {file}, !.partial = @ \/ ~Listed(file).whole]
  OBVIOUS
<1> HIDE DEF configs, partial
<1>4. /\ base \in Load /\ base.pc = now.pc /\ base.batch = now.batch
      /\ base.stage = now.stage /\ base.files = now.files
      /\ base.cached = now.cached /\ base.budget = now.budget /\ base.notes = now.notes
      /\ base.configs = configs /\ base.scheduled = now.scheduled
      /\ base.processed = now.processed /\ base.pending = now.pending
      /\ base.partial = partial
  BY <1>1, <1>2 DEF Load
<1> HIDE DEF base
<1>5. Limited(base)
  BY <1>1, <1>2, <1>4 DEF Limited
<1>6. base \in Merging
  BY <1>4, <1>5 DEF Merging
<1> QED
  BY <1>3, <1>4, <1>6 DEF configs, partial

\* A request of the batch is of a file, which was counted if it was read.
LEMMA BatchRequests ==
    ASSUME SourcesInv, load.pc = "reading", NEW i \in DOMAIN load.batch
    PROVE  /\ load.batch[i] \in Requests /\ load.batch[i].file \in Files /\ i \in DOMAIN load.stage
           /\ load.stage[i] = "read" => load.batch[i].file \in load.files
<1>1. load.batch \in Seq(Requests)
  BY DEF SourcesInv, Load
<1>2. load.batch[i] \in Requests
  BY <1>1
<1> QED
  BY <1>2 DEF Requests, SourcesInv, BatchInOrder

LEMMA MergedMerges ==
    ASSUME SourcesInv, load.pc = "reading", NEW i \in DOMAIN load.batch, NEW now \in Merging
    PROVE  Merged(now, i) \in Merging
<1> DEFINE request == load.batch[i]
           file == request.file
           noted == [now EXCEPT !.partial = TRUE]
<1>1. now \in Load /\ Limited(now) /\ now.files = load.files
  BY DEF Merging
<1>2. request \in Requests /\ file \in Files /\ (load.stage[i] = "read" => file \in load.files)
  BY BatchRequests
<1>3. CASE load.stage[i] # "read"
  <2>1. Merged(now, i) = noted
    BY <1>3 DEF Merged
  <2>2. /\ noted \in Load /\ noted.pc = now.pc /\ noted.batch = now.batch
        /\ noted.stage = now.stage /\ noted.files = now.files
        /\ noted.cached = now.cached /\ noted.budget = now.budget /\ noted.notes = now.notes
        /\ noted.configs = now.configs /\ noted.scheduled = now.scheduled
        /\ noted.processed = now.processed /\ noted.pending = now.pending
    BY <1>1 DEF Load
  <2> HIDE DEF noted
  <2>3. Limited(noted)
    BY <1>1, <2>2 DEF Limited
  <2> QED
    BY <2>1, <2>2, <2>3 DEF Merging
<1>4. CASE load.stage[i] = "read" /\ file \in now.configs
  BY <1>4 DEF Merged
<1>5. CASE load.stage[i] = "read" /\ file \notin now.configs
  <2> DEFINE listed == Listed(file)
  <2>1. Merged(now, i) = Expanded(now, request)
    BY <1>5 DEF Merged
  <2>2. /\ listed.files \in Seq(Files) /\ listed.whole \in BOOLEAN
        /\ Len(listed.files) \in Nat /\ DOMAIN listed.files = 1..Len(listed.files)
        /\ \A n \in DOMAIN listed.files : listed.files[n] \in Files
    BY <1>2, ListedFiles DEF SourcesInv
  <2>3. [now EXCEPT !.configs = @ \cup {file}, !.partial = @ \/ ~listed.whole] \in Merging
    BY <1>2, <1>5, BaseMerges
  <2>4. \A n \in DOMAIN listed.files : \A v \in Merging :
          Scheduled(v, request, listed.files[n]) \in Merging
    BY <1>2, <2>2, ScheduledMerges
  <2>5. Expanded(now, request) \in Merging
    <3> DEFINE V == Merging
               W == [n \in Nat |-> V]
               L == Len(listed.files)
    <3>1. /\ [now EXCEPT !.configs = @ \cup {request.file},
                         !.partial = @ \/ ~Listed(request.file).whole] \in V
          /\ \A n \in DOMAIN Listed(request.file).files : \A v \in V :
               Scheduled(v, request, Listed(request.file).files[n]) \in V
      BY <2>3, <2>4
    <3>2. /\ L \in Nat /\ DOMAIN listed.files = 1..L /\ W[0] = V /\ W[L] = V
          /\ \A n \in 1..L : W[n - 1] = V /\ W[n] = V
      BY <2>2
    <3> HIDE DEF V, W, L
    <3>3. /\ [now EXCEPT !.configs = @ \cup {request.file},
                         !.partial = @ \/ ~Listed(request.file).whole] \in V \cap W[0]
          /\ \A n \in DOMAIN Listed(request.file).files : \A v \in V :
               /\ Scheduled(v, request, Listed(request.file).files[n]) \in V
               /\ v \in W[n - 1] => Scheduled(v, request, Listed(request.file).files[n]) \in W[n]
      BY <3>1, <3>2
    <3>4. /\ Len(Listed(request.file).files) \in Nat
          /\ DOMAIN Listed(request.file).files = 1..Len(Listed(request.file).files)
      BY SMTT(60), <2>2
    <3> HIDE DEF request
    <3>5. Expanded(now, request) \in V
      BY <3>3, <3>4, ExpandedIn
    <3> QED
      BY <3>5 DEF V
  <2> QED
    BY <2>1, <2>5
<1> QED
  BY <1>3, <1>4, <1>5

LEMMA MergeBatchKeeps == ASSUME SourcesInv, MergeBatch PROVE SourcesInv'
<1> DEFINE n == Len(load.batch)
<1>1. load.pc = "reading" /\ UNCHANGED asked /\ load \in Load /\ Limited(load)
  BY DEF MergeBatch, SourcesInv
<1>2. n \in Nat /\ DOMAIN load.batch = 1..n
  BY <1>1 DEF Load
<1>3. load \in Merging
  BY <1>1 DEF Merging
<1>4. \A i \in 1..n : \A v \in Merging : Merged(v, i) \in Merging
  BY <1>1, <1>2, MergedMerges
<1>5. PICK now \in Merging :
        load' = [now EXCEPT !.pc = "batch", !.batch = <<>>, !.stage = <<>>, !.processed = @ + n]
  <2> DEFINE W == [i \in Nat |-> Merging]
  <2>1. W[0] = Merging /\ W[n] = Merging /\ \A i \in 1..n : W[i] = Merging
    BY <1>2
  <2> HIDE DEF W
  <2> QED
    BY <1>2, <1>3, <1>4, <2>1, MergedIn
<1>6. now \in Load /\ Limited(now) /\ now.batch = load.batch
  BY <1>5 DEF Merging
<1> HIDE DEF n
<1>7. /\ load'.pc = "batch" /\ load'.batch = <<>> /\ load'.stage = <<>>
      /\ load'.pending = now.pending /\ load'.configs = now.configs /\ load'.files = now.files
      /\ load'.cached = now.cached /\ load'.budget = now.budget /\ load'.notes = now.notes
      /\ load'.scheduled = now.scheduled /\ load'.processed = now.processed + n
  BY <1>5, <1>6 DEF Load
<1>8. now.processed + n \in Nat /\ now.processed \in Nat
  BY <1>2, <1>6 DEF Load
<1>9. load' \in Load
  <2>1. <<>> \in Seq(Requests) /\ <<>> \in Seq(Stages)
    OBVIOUS
  <2> QED
    BY <1>5, <1>6, <1>8, <2>1 DEF Load
<1>10. load'.processed + Len(load'.batch) + Len(load'.pending) <= 1 + Cardinality(load'.scheduled)
  <2>1. now.processed + n + Len(now.pending) <= 1 + Cardinality(now.scheduled)
    BY <1>6 DEF Limited, n
  <2>2. Len(now.pending) \in Nat
    BY <1>6 DEF Load
  <2>3. Len(<<>>) = 0
    OBVIOUS
  <2> QED
    BY <1>2, <1>7, <1>8, <2>1, <2>2, <2>3
<1>11. Limited(load)'
  BY <1>1, <1>6, <1>7, <1>10 DEF Limited, EdgeLimit, EntryNotes
<1>12. BatchInOrder'
  <2>1. DOMAIN <<>> = {}
    OBVIOUS
  <2> QED
    BY <1>7, <2>1 DEF BatchInOrder
<1> QED
  BY <1>1, <1>9, <1>11, <1>12 DEF SourcesInv

LEMMA SourcesNextKeeps == ASSUME SourcesInv, [SourcesNext]_sourceVars PROVE SourcesInv'
<1>1. CASE TakeBatch
  BY <1>1, TakeBatchKeeps
<1>2. CASE MergeBatch
  BY <1>2, MergeBatchKeeps
<1>3. CASE LoadDone
  BY <1>3, LoadDoneKeeps
<1>4. CASE \E i \in 1..Parallel :
             ReadProject(i) \/ ReadReference(i) \/ ReadCommit(i) \/ ReadFile(i)
  <2>1. PICK i \in 1..Parallel : ReadProject(i) \/ ReadReference(i) \/ ReadCommit(i) \/ ReadFile(i)
    BY <1>4
  <2> QED
    BY <2>1, ReadProjectKeeps, ReadReferenceKeeps, ReadCommitKeeps, ReadFileKeeps
<1>5. CASE UNCHANGED sourceVars
  BY <1>5 DEF sourceVars, SourcesInv, Limited, EdgeLimit, EntryNotes, BatchInOrder
<1> QED
  BY <1>1, <1>2, <1>3, <1>4, <1>5 DEF SourcesNext

LEMMA SourcesInvTyped == SourcesInv => SourcesTypeOK
<1> SUFFICES ASSUME SourcesInv PROVE SourcesTypeOK
  OBVIOUS
<1>1. load \in Load /\ Limited(load)
  BY DEF SourcesInv
<1>2. \A i \in DOMAIN load.stage : load.stage[i] \in Stages
  <2>1. load.stage \in Seq(Stages)
    BY <1>1 DEF Load
  <2> QED
    BY <2>1
<1>3. load.processed <= EdgeLimit + 1
  <2>1. /\ load.processed \in Nat /\ Len(load.batch) \in Nat /\ Len(load.pending) \in Nat
        /\ Cardinality(load.scheduled) \in Nat
    BY <1>1, LoadIsFinite DEF Load
  <2>2. EdgeLimit \in Nat
    BY SourceNumbers DEF SourcesInv
  <2>3. /\ load.processed + Len(load.batch) + Len(load.pending) <= 1 + Cardinality(load.scheduled)
        /\ Cardinality(load.scheduled) <= EdgeLimit
    BY <1>1 DEF Limited
  <2> QED
    BY SMTT(60), <2>1, <2>2, <2>3
<1>4. /\ load.pc \in {"off", "batch", "reading", "done"} /\ load.files \subseteq Files
      /\ load.notes \subseteq Notes
  BY <1>1 DEF Load
<1> QED
  BY <1>1, <1>2, <1>3, <1>4 DEF SourcesTypeOK, Limited

\* A load keeps its limits: no more files than it may read, no more operations than
\* were budgeted, no more edges and requests than the limit of edges.
THEOREM SourcesTypeCorrect == SourcesSpec => []SourcesTypeOK
<1>1. SourcesSpec => []SourcesInv
  BY SourcesInitKeeps, SourcesNextKeeps, PTL DEF SourcesSpec
<1> QED
  BY <1>1, SourcesInvTyped, PTL

-----------------------------------------------------------------------------
(* What the files of a load include, and that a complete report has it all. *)

\* The includes that a declares, and what is reached along them.
Includes(a, file) == { a.includes[file][i] : i \in DOMAIN a.includes[file] }
IncludedBy(a, files) == UNION { Includes(a, f) : f \in files }

Reach(a, from) ==
    LET within[n \in 0..Cardinality(Files)] ==
          IF n = 0 THEN from
          ELSE within[n - 1] \cup UNION { Includes(a, f) : f \in within[n - 1] }
    IN within[Cardinality(Files)]

LEMMA ReachedIs == \A from : Reached(from) = Reach(asked, from)
  BY DEF Reached, Reach, Included, Includes

LEMMA IncludesFiles ==
    ASSUME NEW a \in Askable, NEW file \in Files
    PROVE  /\ a.includes[file] \in Seq(Files)
           /\ Includes(a, file) \subseteq Files
           /\ file \in Pinned => Includes(a, file) \subseteq Pinned
           /\ file \in Branched => Includes(a, file) \subseteq Branched
<1>1. a.includes \in Declarations
  BY DEF Askable
<1> DEFINE list == a.includes[file]
<1>2. list \in Seq(Files)
  BY <1>1, CiSourcesAssumption
<1>3. (file \in Pinned => list \in Seq(Pinned)) /\ (file \in Branched => list \in Seq(Branched))
  BY <1>1, CiSourcesAssumption
<1> HIDE DEF list
<1>4. \A i \in DOMAIN list : list[i] \in Files
  BY <1>2
<1>5. file \in Pinned => \A i \in DOMAIN list : list[i] \in Pinned
  BY <1>3
<1>6. file \in Branched => \A i \in DOMAIN list : list[i] \in Branched
  BY <1>3
<1> QED
  BY <1>2, <1>4, <1>5, <1>6 DEF Includes, list

\* The steps of a reach.
Reaching(w, a, from) ==
    /\ w[0] = from /\ Reach(a, from) = w[Cardinality(Files)]
    /\ \A n \in 0..Cardinality(Files) : w[n] \subseteq Files
    /\ \A n \in 1..Cardinality(Files) : w[n] = w[n - 1] \cup IncludedBy(a, w[n - 1])

LEMMA FilesCounted == IsFiniteSet(Files) /\ Cardinality(Files) \in Nat
  BY CiSourcesAssumption, FS_CardinalityType

LEMMA IncludedByFiles ==
    ASSUME NEW a \in Askable, NEW files \in SUBSET Files PROVE IncludedBy(a, files) \subseteq Files
<1>1. \A f \in files : Includes(a, f) \subseteq Files
  BY IncludesFiles
<1> QED
  BY <1>1 DEF IncludedBy

LEMMA ReachingExists ==
    ASSUME NEW a \in Askable, NEW from \in SUBSET Files
    PROVE  \E w : Reaching(w, a, from)
<1> DEFINE C == Cardinality(Files)
           V == SUBSET Files
           step == [n \in 1..C |-> [v \in V |-> v \cup IncludedBy(a, v)]]
           Fits(f) == f = [n \in 0..C |->
                             IF n = 0 THEN from
                             ELSE f[n - 1] \cup UNION { Includes(a, g) : g \in f[n - 1] }]
           f == CHOOSE any : Fits(any)
<1>1. C \in Nat
  BY FilesCounted
<1>2. Reach(a, from) = f[C]
  BY DEF Reach
<1> HIDE DEF C, V
<1>3. /\ step \in [1..C -> [V -> V]] /\ from \in V
      /\ \A n \in 1..C : \A v \in V : step[n][v] = v \cup IncludedBy(a, v)
  <2>1. \A v \in V : v \cup IncludedBy(a, v) \in V
    BY IncludedByFiles DEF V
  <2>2. from \in V
    BY DEF V
  <2> QED
    BY <2>1, <2>2
<1> HIDE DEF step
<1>4. PICK g : Steps(g, C, V, from, step)
  BY <1>1, <1>3, StepByStep
<1>5. g \in [0..C -> V] /\ g[0] = from /\ \A n \in 1..C : g[n] = step[n][g[n - 1]]
  BY <1>4 DEF Steps
<1>6. ASSUME NEW n \in 1..C
      PROVE  g[n] = g[n - 1] \cup UNION { Includes(a, x) : x \in g[n - 1] }
  <2>1. n - 1 \in 0..C
    BY <1>1
  <2>2. g[n] = g[n - 1] \cup IncludedBy(a, g[n - 1])
    BY <1>3, <1>5, <2>1
  <2> QED
    BY <2>2 DEF IncludedBy
<1>7. Fits(g)
  <2> DEFINE Point(n) == IF n = 0 THEN from
                      ELSE g[n - 1] \cup UNION { Includes(a, x) : x \in g[n - 1] }
  <2>1. \A n \in 0..C : n # 0 => n \in 1..C
    BY <1>1
  <2>2. \A n \in 0..C : g[n] = Point(n)
    BY <1>5, <1>6, <2>1
  <2>3. g = [n \in 0..C |-> g[n]]
    BY <1>5
  <2> SUFFICES g = [n \in 0..C |-> Point(n)]
    OBVIOUS
  <2> HIDE DEF Point
  <2>4. [n \in 0..C |-> g[n]] = [n \in 0..C |-> Point(n)]
    BY <2>2, Zenon
  <2> QED
    BY <2>3, <2>4
<1>8. Fits(f)
  <2> HIDE DEF Fits
  <2> QED
    BY <1>7
<1> HIDE DEF f
<1>9. f[0] = from /\ \A n \in 1..C : f[n] = f[n - 1] \cup IncludedBy(a, f[n - 1])
  <2>1. 0 \in 0..C /\ \A n \in 1..C : n \in 0..C /\ n # 0
    BY <1>1
  <2> QED
    BY <1>8, <2>1 DEF IncludedBy
<1> HIDE DEF Fits
<1> DEFINE T == { n \in 0..C : f[n] \subseteq Files }
<1>10. 0 \in T
  BY <1>1, <1>9
<1>11. ASSUME NEW n \in 0..(C - 1), n \in T PROVE n + 1 \in T
  <2>1. n + 1 \in 1..C /\ n + 1 \in 0..C /\ (n + 1) - 1 = n
    BY <1>1
  <2>2. f[n] \in SUBSET Files
    BY <1>11
  <2>3. f[n + 1] = f[n] \cup IncludedBy(a, f[n])
    BY <1>9, <2>1
  <2>4. IncludedBy(a, f[n]) \subseteq Files
    BY <2>2, IncludedByFiles
  <2> QED
    BY <2>1, <2>2, <2>3, <2>4
<1> HIDE DEF T
<1>12. \A n \in 0..C : n \in T
  BY <1>1, <1>10, <1>11, UpTo
<1>13. \A n \in 0..C : f[n] \subseteq Files
  BY <1>12 DEF T
<1>14. Reaching(f, a, from)
  BY <1>2, <1>9, <1>13 DEF Reaching, C
<1> QED
  BY <1>14

Closed(a, files) == IncludedBy(a, files) \subseteq files

\* What is reached is closed, since each step but a last one reaches another file.
LEMMA ReachCloses ==
    ASSUME NEW a \in Askable, NEW from \in SUBSET Files
    PROVE  from \subseteq Reach(a, from) /\ Reach(a, from) \subseteq Files /\ Closed(a, Reach(a, from))
<1> DEFINE C == Cardinality(Files)
<1>1. C \in Nat /\ IsFiniteSet(Files)
  BY FilesCounted
<1>2. PICK w : Reaching(w, a, from)
  BY ReachingExists
<1>3. /\ w[0] = from /\ Reach(a, from) = w[C] /\ \A n \in 0..C : w[n] \subseteq Files
      /\ \A n \in 1..C : w[n] = w[n - 1] \cup IncludedBy(a, w[n - 1])
  BY <1>2 DEF Reaching
<1>4. \A n \in 0..C : IsFiniteSet(w[n]) /\ Cardinality(w[n]) \in Nat /\ Cardinality(w[n]) <= C
  <2> SUFFICES ASSUME NEW n \in 0..C
               PROVE  IsFiniteSet(w[n]) /\ Cardinality(w[n]) \in Nat /\ Cardinality(w[n]) <= C
    OBVIOUS
  <2>1. w[n] \in SUBSET Files
    BY <1>3
  <2>2. IsFiniteSet(w[n]) /\ Cardinality(w[n]) <= C
    BY <1>1, <2>1, FS_Subset
  <2> QED
    BY <2>2, FS_CardinalityType
<1> HIDE DEF C
<1> DEFINE T == { n \in 0..C : /\ from \subseteq w[n]
                               /\ Closed(a, w[n]) \/ Cardinality(w[n]) >= n }
<1>5. 0 \in T
  BY <1>1, <1>3, <1>4
<1>6. ASSUME NEW n \in 0..(C - 1), n \in T PROVE n + 1 \in T
  <2>1. n + 1 \in 1..C /\ n + 1 \in 0..C /\ (n + 1) - 1 = n /\ n \in 0..C /\ n \in Nat
    BY <1>1
  <2>2. w[n + 1] = w[n] \cup IncludedBy(a, w[n])
    BY <1>3, <2>1
  <2>3. from \subseteq w[n + 1]
    BY <1>6, <2>2
  <2>4. CASE Closed(a, w[n])
    <3>1. w[n + 1] = w[n]
      BY <2>2, <2>4 DEF Closed
    <3> QED
      BY <2>1, <2>3, <2>4, <3>1
  <2>5. CASE ~Closed(a, w[n])
    <3>1. PICK x : x \in IncludedBy(a, w[n]) /\ x \notin w[n]
      BY <2>5 DEF Closed
    <3>2. w[n] \cup {x} \subseteq w[n + 1]
      BY <2>2, <3>1
    <3>3. /\ Cardinality(w[n] \cup {x}) = Cardinality(w[n]) + 1 /\ IsFiniteSet(w[n + 1])
      BY <1>4, <2>1, <3>1, FS_AddElement
    <3>4. Cardinality(w[n] \cup {x}) <= Cardinality(w[n + 1])
      BY <3>2, <3>3, FS_Subset
    <3>5. Cardinality(w[n]) >= n
      BY <1>6, <2>5
    <3>6. Cardinality(w[n]) \in Nat /\ Cardinality(w[n + 1]) \in Nat
      BY <1>4, <2>1
    <3>7. Cardinality(w[n + 1]) >= n + 1
      BY <2>1, <3>3, <3>4, <3>5, <3>6
    <3> QED
      BY <2>1, <2>3, <3>7
  <2> QED
    BY <2>4, <2>5
<1> HIDE DEF T
<1>7. \A n \in 0..C : n \in T
  BY <1>1, <1>5, <1>6, UpTo
<1>8. C \in 0..C
  BY <1>1
<1>9. from \subseteq w[C] /\ (Closed(a, w[C]) \/ Cardinality(w[C]) >= C)
  BY <1>7, <1>8 DEF T
<1>10. ASSUME Cardinality(w[C]) >= C PROVE Closed(a, w[C])
  <2>1. Cardinality(w[C]) = C /\ w[C] \in SUBSET Files
    BY <1>1, <1>3, <1>4, <1>8, <1>10
  <2>2. w[C] = Files
    BY <1>1, <2>1, FS_Subset DEF C
  <2> QED
    BY <2>1, <2>2, IncludedByFiles DEF Closed
<1> QED
  BY <1>3, <1>8, <1>9, <1>10

\* And it is the least that is.
LEMMA ReachIsLeast ==
    ASSUME NEW a \in Askable, NEW from \in SUBSET Files, NEW S, from \subseteq S,
           \A f \in S : Includes(a, f) \subseteq S
    PROVE  Reach(a, from) \subseteq S
<1> DEFINE C == Cardinality(Files)
<1>1. C \in Nat
  BY FilesCounted
<1>2. PICK w : Reaching(w, a, from)
  BY ReachingExists
<1>3. /\ w[0] = from /\ Reach(a, from) = w[C]
      /\ \A n \in 1..C : w[n] = w[n - 1] \cup IncludedBy(a, w[n - 1])
  BY <1>2 DEF Reaching
<1> HIDE DEF C
<1> DEFINE U == { n \in 0..C : w[n] \subseteq S }
<1>4. 0 \in U
  BY <1>1, <1>3
<1>5. ASSUME NEW n \in 0..(C - 1), n \in U PROVE n + 1 \in U
  <2>1. n + 1 \in 1..C /\ n + 1 \in 0..C /\ (n + 1) - 1 = n
    BY <1>1
  <2>2. w[n + 1] = w[n] \cup IncludedBy(a, w[n])
    BY <1>3, <2>1
  <2>3. w[n] \subseteq S
    BY <1>5
  <2>4. IncludedBy(a, w[n]) \subseteq S
    BY <2>3 DEF IncludedBy
  <2> QED
    BY <2>1, <2>2, <2>3, <2>4
<1> HIDE DEF U
<1>6. \A n \in 0..C : n \in U
  BY <1>1, <1>4, <1>5, UpTo
<1>7. C \in 0..C
  BY <1>1
<1> QED
  BY <1>3, <1>6, <1>7 DEF U

\* What CompleteIsExact names, of what is loaded.
All(a) == Reach(a, {a.entry.file})
Hurt(a) == a.trouble.odd \cup a.trouble.denied \cup Branched
BarredIn(a) == a.trouble.hidden \cup a.trouble.foreign \cup a.trouble.gone
Hidden(a, e, f) == e \notin External /\ f \in External /\ f \in BarredIn(a)
Edges(a) == { e \in All(a) \X All(a) : e[2] \in Includes(a, e[1]) }
EdgesAllowed(a) == IF a.limit = 0 THEN 1 ELSE IF 4 * a.limit > 400 THEN 400 ELSE 4 * a.limit
Lookups(a) == { m \in Misses : m[1] \in All(a) }
Entered(a) == a.limit > 0 /\ a.entry.ref # "invalid" /\ a.entry.setting # "unsafe"

\* Nothing that is reached is denied, odd, at a branch or nowhere; RootFile stands for the
\* project itself where it is the entry point that is looked up elsewhere.
AllReadable(a) ==
    /\ All(a) \cap Hurt(a) = {} /\ ~Hidden(a, RootFile, a.entry.file)
    /\ \A e, f \in All(a) : f \in Includes(a, e) => ~Hidden(a, e, f)

\* No trouble, no cycle and no limit is met.
Clean(a) ==
    /\ Entered(a) /\ AllReadable(a)
    /\ \A f \in All(a) : f \notin Reach(a, Includes(a, f)) /\ Len(a.includes[f]) <= EdgesAllowed(a)
    /\ Cardinality(All(a)) <= a.limit /\ Cardinality(All(a)) <= MaxIncludeDepth
    /\ Cardinality(Edges(a)) <= EdgesAllowed(a) /\ Cardinality(Lookups(a)) <= RefCandidates

\* What a load without a trouble may have paid for.
Payable(a) == ({"project", "commit", "file"} \X All(a)) \cup ({"ref"} \X Lookups(a))

\* A request is of a file that is reached, over ancestors that were expanded.
Rooted(a, r, configs) ==
    /\ r.file \in All(a) /\ r.ancestors \subseteq configs
    /\ \A x \in r.ancestors : r.file \in Reach(a, Includes(a, x))
    /\ r.file = a.entry.file \/ \E e \in r.ancestors : r.file \in Includes(a, e)
    /\ r.file \notin External => r.ancestors \cap External = {}
    /\ r.file \in Branched /\ r.ancestors \cap External # {} => r.ancestors \cap Branched # {}

\* All that is asked for, and all that was expanded, is reached from the root.
AllFound(a, l) ==
    /\ l.configs \subseteq All(a)
    /\ \A k \in DOMAIN l.pending : Rooted(a, l.pending[k], l.configs)
    /\ \A k \in DOMAIN l.batch : Rooted(a, l.batch[k], l.configs)

\* An include is answered once its file is expanded, unless it is denied with its project.
Answered(a, l, edge) == edge[2] \in l.configs /\ ~Hidden(a, edge[1], edge[2])
Asks(r, edge) == r.file = edge[2] /\ (edge[1] \notin External => r.ancestors \cap External = {})
Waits(s, from, edge) == \E k \in DOMAIN s : k > from /\ Asks(s[k], edge)
Wanted(a, l) == l.scheduled \cup {<<RootFile, a.entry.file>>}

\* Each include of an expanded file was scheduled, and is answered or waits.
FollowedBy(a, l, files) == \A f \in files : \A g \in Includes(a, f) : <<f, g>> \in l.scheduled
Awaited(a, l, i) == \A edge \in Wanted(a, l) :
    Answered(a, l, edge) \/ Waits(l.pending, 0, edge) \/ Waits(l.batch, i, edge)

Sound(a, l, i) ==
    ~l.partial => /\ l.configs \cap Hurt(a) = {} /\ FollowedBy(a, l, l.configs) /\ Awaited(a, l, i)

\* How far a request of the batch has come says what it met.
StageFits(a, r, stage, partial) ==
    /\ stage \in {"project", "reference", "commit"} => Elsewhere(r)
    /\ stage = "read" => r.file \notin a.trouble.denied
    /\ Elsewhere(r) /\ stage \in {"reference", "commit", "file", "read"} =>
         r.file \notin a.trouble.hidden /\ r.file \notin a.trouble.foreign
    /\ Elsewhere(r) /\ stage \in {"commit", "file", "read"} => r.file \notin a.trouble.gone
    /\ Elsewhere(r) /\ stage \in {"file", "read"} /\ r.file \in Branched => partial

StagesFit(a, l) == \A i \in DOMAIN l.stage : StageFits(a, l.batch[i], l.stage[i], l.partial)

Untroubled == {"project", "reference", "file", "read"}

\* Where no trouble is met, none is reported, and what is paid is for what is reached.
Calm(a, l) ==
    Clean(a) => /\ ~l.partial /\ l.files \subseteq All(a)
                /\ l.cached \subseteq Payable(a)
                /\ l.scheduled \subseteq Edges(a)
                /\ \A i \in DOMAIN l.stage : l.stage[i] \in Untroubled

\* What is reported is exact, which is what each step keeps.
ExactInv ==
    /\ SourcesInv /\ AllFound(asked, load) /\ Sound(asked, load, 0) /\ StagesFit(asked, load)
    /\ Calm(asked, load)
    /\ load.pc = "done" /\ ~load.partial => load.pending = <<>>

LEMMA AllOfALoad ==
    ASSUME NEW a \in Askable
    PROVE  /\ All(a) \subseteq Files /\ a.entry.file \in All(a) /\ IsFiniteSet(All(a))
           /\ \A f \in All(a) : Includes(a, f) \subseteq All(a)
           /\ \A x \in Files : Includes(a, x) \subseteq Reach(a, Includes(a, x))
           /\ \A x \in Files : \A f \in Reach(a, Includes(a, x)) :
                Includes(a, f) \subseteq Reach(a, Includes(a, x))
<1>1. {a.entry.file} \in SUBSET Files
  BY AskedParts
<1>2. /\ All(a) \subseteq Files /\ {a.entry.file} \subseteq All(a) /\ Closed(a, All(a))
  BY <1>1, ReachCloses DEF All
<1>3. IsFiniteSet(All(a))
  BY <1>2, FilesCounted, FS_Subset
<1>4. \A f \in All(a) : Includes(a, f) \subseteq All(a)
  BY <1>2 DEF Closed, IncludedBy
<1>5. ASSUME NEW x \in Files
      PROVE  /\ Includes(a, x) \subseteq Reach(a, Includes(a, x))
             /\ \A f \in Reach(a, Includes(a, x)) : Includes(a, f) \subseteq Reach(a, Includes(a, x))
  <2> DEFINE R == Reach(a, Includes(a, x))
  <2>1. Includes(a, x) \in SUBSET Files
    BY IncludesFiles
  <2>2. Includes(a, x) \subseteq R /\ Closed(a, R)
    BY <2>1, ReachCloses
  <2> HIDE DEF R
  <2>3. \A f \in R : Includes(a, f) \subseteq R
    BY <2>2 DEF Closed, IncludedBy
  <2> QED
    BY <2>2, <2>3 DEF R
<1> QED
  BY <1>2, <1>3, <1>4, <1>5

LEMMA ExactInit == SourcesInit => ExactInv
<1> SUFFICES ASSUME SourcesInit PROVE ExactInv
  OBVIOUS
<1>1. SourcesInv
  BY SourcesInitKeeps
<1> DEFINE entry == asked.entry.file
           root == Request(entry, {})
           s == IF Enterable THEN <<root>> ELSE <<>>
<1>2. /\ load.pc \in {"batch", "done"} /\ load.pending = s /\ load.batch = <<>>
      /\ load.stage = <<>> /\ load.cached = {} /\ load.files = {} /\ load.scheduled = {}
      /\ load.configs = {} /\ load.partial = ~Enterable
  BY DEF SourcesInit, NotLoading
<1>3. root.file = entry /\ root.ancestors = {} /\ RootFile \notin External
  BY CiSourcesAssumption DEF Request
<1> HIDE DEF root
<1>4. /\ Enterable => DOMAIN s = {1} /\ s[1] = root
      /\ ~Enterable => DOMAIN s = {}
  OBVIOUS
<1> HIDE DEF s
<1>5. asked \in Askable /\ DOMAIN <<>> = {} /\ Enterable = Entered(asked)
  BY <1>1 DEF SourcesInv, Enterable, Entered
<1>6. Rooted(asked, root, {})
  BY <1>3, <1>5, AllOfALoad DEF Rooted
<1> HIDE DEF entry
<1>7. AllFound(asked, load)
  BY <1>2, <1>4, <1>5, <1>6 DEF AllFound
<1>8. Sound(asked, load, 0)
  <2> SUFFICES ASSUME Enterable PROVE Awaited(asked, load, 0)
    BY <1>2 DEF Sound, FollowedBy
  <2>1. Asks(root, <<RootFile, entry>>)
    BY <1>3 DEF Asks
  <2>2. Waits(s, 0, <<RootFile, entry>>)
    BY <1>4, <2>1 DEF Waits
  <2>3. Wanted(asked, load) = {<<RootFile, entry>>}
    BY <1>2 DEF Wanted, entry
  <2> QED
    BY <1>2, <2>2, <2>3 DEF Awaited
<1>9. StagesFit(asked, load)
  BY <1>2, <1>5 DEF StagesFit
<1>10. Calm(asked, load)
  BY <1>2, <1>5 DEF Calm, Clean
<1>11. load.pc = "done" => load.partial
  BY DEF SourcesInit, NotLoading
<1> QED
  BY <1>1, <1>7, <1>8, <1>9, <1>10, <1>11 DEF ExactInv

LEMMA ExactTakeBatch == ASSUME ExactInv, TakeBatch PROVE ExactInv'
<1> DEFINE all == load.pending
           n == IF Len(all) < Parallel THEN Len(all) ELSE Parallel
           batch == SubSeq(all, 1, n)
           rest == SubSeq(all, n + 1, Len(all))
           stage == [i \in 1..n |-> IF Elsewhere(batch[i]) THEN "project" ELSE "file"]
<1>0. SourcesInv /\ SourcesInv'
  BY SMTT(60), TakeBatchKeeps DEF ExactInv
<1>1. /\ load' = [load EXCEPT !.pc = "reading", !.batch = batch, !.pending = rest, !.stage = stage]
      /\ load.pc = "batch" /\ UNCHANGED asked
  BY DEF TakeBatch
<1>2. load \in Load /\ load.batch = <<>> /\ all \in Seq(Requests)
  BY <1>0, <1>1 DEF SourcesInv, BatchInOrder, Load
<1> HIDE DEF all
<1>3. n \in 0..Len(all) /\ Len(all) \in Nat
  BY <1>2, SourceNumbers
<1>4. DOMAIN stage = 1..n /\ \A i \in 1..n : stage[i] = IF Elsewhere(batch[i]) THEN "project" ELSE "file"
  <2> HIDE DEF batch
  <2> QED
    OBVIOUS
<1> HIDE DEF n, stage
<1>5. DOMAIN batch = 1..n /\ \A k \in 1..n : k \in DOMAIN all /\ batch[k] = all[k]
  BY <1>2, <1>3
<1>6. DOMAIN rest = 1..(Len(all) - n) /\ \A k \in 1..(Len(all) - n) : n + k \in DOMAIN all /\ rest[k] = all[n + k]
  BY <1>2, <1>3
<1>7. DOMAIN all = 1..Len(all)
  BY <1>2
<1> HIDE DEF batch, rest
<1>8. /\ load'.pc = "reading" /\ load'.batch = batch /\ load'.pending = rest /\ load'.stage = stage
      /\ load'.configs = load.configs /\ load'.files = load.files /\ load'.cached = load.cached
      /\ load'.scheduled = load.scheduled /\ load'.partial = load.partial
  BY <1>1, <1>2 DEF Load
<1>9. AllFound(asked, load')
  <2>1. \A k \in DOMAIN all : Rooted(asked, all[k], load.configs)
    BY DEF ExactInv, AllFound, all
  <2>2. \A k \in DOMAIN rest : Rooted(asked, rest[k], load.configs)
    BY <1>6, <2>1
  <2>3. \A k \in DOMAIN batch : Rooted(asked, batch[k], load.configs)
    BY <1>5, <2>1
  <2> QED
    BY <1>8, <2>2, <2>3 DEF ExactInv, AllFound
<1>10. Sound(asked, load', 0)
  <2> SUFFICES ASSUME ~load'.partial PROVE Awaited(asked, load', 0)
    BY <1>8 DEF ExactInv, Sound, FollowedBy
  <2>1. Awaited(asked, load, 0)
    BY <1>8 DEF ExactInv, Sound
  <2>2. Wanted(asked, load') = Wanted(asked, load)
    BY <1>8 DEF Wanted
  <2> SUFFICES ASSUME NEW edge \in Wanted(asked, load), ~Answered(asked, load, edge)
               PROVE  Waits(rest, 0, edge) \/ Waits(batch, 0, edge)
    BY <1>8, <2>2 DEF Awaited, Answered
  <2>3. ~Waits(load.batch, 0, edge)
    <3>1. DOMAIN <<>> = {}
      OBVIOUS
    <3> QED
      BY <1>2, <3>1 DEF Waits
  <2>4. PICK k \in DOMAIN all : Asks(all[k], edge)
    BY <2>1, <2>3 DEF Awaited, Waits, all
  <2>5. CASE k <= n
    <3>1. k \in 1..n /\ k > 0
      BY <1>3, <1>7, <2>5
    <3>2. k \in DOMAIN batch /\ batch[k] = all[k]
      BY <1>5, <3>1
    <3> QED
      BY <2>4, <3>1, <3>2 DEF Waits
  <2>6. CASE ~(k <= n)
    <3> DEFINE m == k - n
    <3>1. m \in 1..(Len(all) - n) /\ m > 0 /\ n + m = k
      BY <1>3, <1>7, <2>6
    <3>2. m \in DOMAIN rest /\ rest[m] = all[k]
      BY <1>6, <3>1
    <3> HIDE DEF m
    <3> QED
      BY <2>4, <3>1, <3>2 DEF Waits
  <2> QED
    BY <2>5, <2>6
<1>11. StagesFit(asked, load')
  <2>1. \A i \in 1..n : StageFits(asked, batch[i], stage[i], load.partial)
    BY <1>4 DEF StageFits
  <2> QED
    BY <1>4, <1>8, <2>1 DEF StagesFit
<1>12. Calm(asked, load')
  <2>1. \A i \in DOMAIN stage : stage[i] \in Untroubled
    BY <1>4 DEF Untroubled
  <2> QED
    BY <1>8, <2>1 DEF ExactInv, Calm
<1> QED
  BY <1>0, <1>1, <1>8, <1>9, <1>10, <1>11, <1>12 DEF ExactInv

LEMMA ExactLoadDone == ASSUME ExactInv, LoadDone PROVE ExactInv'
<1> DEFINE partial == load.partial \/ load.pending # <<>>
<1>0. SourcesInv /\ SourcesInv'
  BY LoadDoneKeeps DEF ExactInv
<1>1. /\ load' = [load EXCEPT !.pc = "done", !.partial = partial]
      /\ load.pc = "batch" /\ UNCHANGED asked /\ (load.pending = <<>> \/ load.processed > EdgeLimit)
  BY DEF LoadDone
<1>2. load \in Load /\ load.batch = <<>> /\ load.stage = <<>> /\ asked \in Askable
  BY <1>0, <1>1 DEF SourcesInv, BatchInOrder
<1>3. /\ load'.batch = load.batch /\ load'.pending = load.pending
      /\ load'.stage = load.stage /\ load'.partial = partial
      /\ load'.configs = load.configs /\ load'.files = load.files /\ load'.cached = load.cached
      /\ load'.scheduled = load.scheduled
  BY <1>1, <1>2 DEF Load
<1>4. AllFound(asked, load')
  BY <1>3 DEF ExactInv, AllFound
<1>5. Sound(asked, load', 0)
  BY <1>3 DEF ExactInv, Sound, FollowedBy, Awaited, Wanted, Answered
<1>6. StagesFit(asked, load')
  <2>1. DOMAIN <<>> = {}
    OBVIOUS
  <2> QED
    BY <1>2, <1>3, <2>1 DEF StagesFit
<1>7. Calm(asked, load')
  <2> SUFFICES ASSUME Clean(asked) PROVE load.pending = <<>>
    BY <1>3 DEF ExactInv, Calm
  <2>1. /\ load.processed \in Nat /\ Len(load.pending) \in Nat /\ Cardinality(load.scheduled) \in Nat
        /\ load.pending \in Seq(Requests) /\ Len(load.batch) = 0 /\ EdgeLimit \in Nat
    BY <1>2, LoadIsFinite, SourceNumbers DEF Load
  <2>2. /\ load.processed + Len(load.batch) + Len(load.pending) <= 1 + Cardinality(load.scheduled)
        /\ Cardinality(load.scheduled) <= EdgeLimit
    BY <1>0 DEF SourcesInv, Limited
  <2>3. ASSUME load.processed > EdgeLimit PROVE Len(load.pending) = 0
    BY <2>1, <2>2, <2>3
  <2>4. Len(load.pending) = 0 => load.pending = <<>>
    BY <2>1
  <2> QED
    BY <1>1, <2>3, <2>4
<1> QED
  BY <1>0, <1>1, <1>3, <1>4, <1>5, <1>6, <1>7 DEF ExactInv

\* A read that fits what is known of its request keeps the report exact.
LEMMA GoesExact ==
    ASSUME ExactInv, SourcesInv', UNCHANGED asked, load.pc = "reading", NEW i \in DOMAIN load.stage,
           NEW changes \in Load, changes.pc = "reading",
           changes.batch = load.batch, changes.stage = load.stage,
           changes.pending = load.pending, changes.configs = load.configs,
           changes.scheduled = load.scheduled, load.partial => changes.partial,
           NEW stage \in Stages, StageFits(asked, load.batch[i], stage, changes.partial),
           Clean(asked) => /\ ~changes.partial /\ changes.files \subseteq All(asked)
                           /\ changes.cached \subseteq Payable(asked)
                           /\ stage \in Untroubled,
           Goes(i, changes, stage)
    PROVE  ExactInv'
<1> DEFINE stages == [load.stage EXCEPT ![i] = stage]
<1>1. load' = [changes EXCEPT !.stage = stages]
  <2>1. load' = [changes EXCEPT !.stage[i] = stage]
    BY DEF Goes
  <2>2. [changes EXCEPT !.stage[i] = stage] = [changes EXCEPT !.stage = [changes.stage EXCEPT ![i] = stage]]
    OBVIOUS
  <2> QED
    BY <2>1, <2>2
<1>2. load.stage \in Seq(Stages)
  BY DEF ExactInv, SourcesInv, Load
<1>3. /\ DOMAIN stages = DOMAIN load.stage /\ stages[i] = stage
      /\ \A j \in DOMAIN load.stage : j # i => stages[j] = load.stage[j]
  BY <1>2
<1> HIDE DEF stages
<1>4. /\ load'.pc = "reading" /\ load'.batch = load.batch /\ load'.pending = load.pending
      /\ load'.stage = stages /\ load'.partial = changes.partial
      /\ load'.configs = load.configs /\ load'.files = changes.files
      /\ load'.cached = changes.cached /\ load'.scheduled = load.scheduled
  BY <1>1 DEF Load
<1>5. AllFound(asked, load')
  BY <1>4 DEF ExactInv, AllFound
<1>6. Sound(asked, load', 0)
  BY <1>4 DEF ExactInv, Sound, FollowedBy, Awaited, Wanted, Answered
<1>7. StagesFit(asked, load')
  <2> SUFFICES ASSUME NEW j \in DOMAIN load.stage
               PROVE  StageFits(asked, load.batch[j], stages[j], changes.partial)
    BY <1>3, <1>4 DEF StagesFit
  <2>1. CASE j = i
    BY <1>3, <2>1
  <2>2. CASE j # i
    <3>1. StageFits(asked, load.batch[j], load.stage[j], load.partial)
      BY DEF ExactInv, StagesFit
    <3> QED
      BY <1>3, <2>2, <3>1 DEF StageFits
  <2> QED
    BY <2>1, <2>2
<1>8. Calm(asked, load')
  <2> SUFFICES ASSUME Clean(asked) PROVE \A j \in DOMAIN load.stage : stages[j] \in Untroubled
    BY <1>3, <1>4 DEF ExactInv, Calm
  <2>1. \A j \in DOMAIN load.stage : load.stage[j] \in Untroubled
    BY DEF ExactInv, Calm
  <2> QED
    BY <1>3, <2>1
<1> QED
  BY <1>4, <1>5, <1>6, <1>7, <1>8 DEF ExactInv

\* What is known of a request that is read.
LEMMA RequestRead ==
    ASSUME ExactInv, NEW i, NEW stage, Reading(i, stage)
    PROVE  /\ Rooted(asked, load.batch[i], load.configs)
           /\ StageFits(asked, load.batch[i], stage, load.partial)
           /\ load.batch[i].file \in All(asked)
           /\ load.batch[i].ancestors \subseteq All(asked)
<1>1. i \in DOMAIN load.stage /\ i \in DOMAIN load.batch /\ load.stage[i] = stage
  BY RequestsOfBatch DEF ExactInv, Reading
<1>2. Rooted(asked, load.batch[i], load.configs) /\ load.configs \subseteq All(asked)
  BY <1>1 DEF ExactInv, AllFound
<1>3. StageFits(asked, load.batch[i], stage, load.partial)
  BY <1>1 DEF ExactInv, StagesFit
<1> QED
  BY <1>2, <1>3 DEF Rooted

\* Without a trouble, no request is too deep, and each operation can be paid.
LEMMA CleanIsShallow ==
    ASSUME ExactInv, Clean(asked), NEW i, NEW stage, Reading(i, stage) PROVE ~TooDeep(i)
<1>1. load.batch[i].ancestors \subseteq All(asked) /\ IsFiniteSet(All(asked))
  BY RequestRead, AllOfALoad DEF ExactInv, SourcesInv
<1>2. /\ Cardinality(load.batch[i].ancestors) <= Cardinality(All(asked))
      /\ IsFiniteSet(load.batch[i].ancestors)
  BY <1>1, FS_Subset
<1>3. /\ Cardinality(load.batch[i].ancestors) \in Nat /\ Cardinality(All(asked)) \in Nat
      /\ MaxIncludeDepth \in Nat
  BY <1>1, <1>2, FS_CardinalityType, SourceNumbers
<1>4. Cardinality(All(asked)) <= MaxIncludeDepth
  BY DEF Clean
<1> QED
  BY <1>2, <1>3, <1>4 DEF TooDeep

LEMMA CleanCanPay ==
    ASSUME ExactInv, Clean(asked), NEW key \in Payable(asked)
    PROVE  ~Unaffordable(key)
<1> DEFINE kinds == {"project", "commit", "file"}
           operations == kinds \X All(asked)
           lookups == {"ref"} \X Lookups(asked)
           paid == load.cached \cup {key}
<1>1. load \in Load /\ asked \in Askable /\ Limited(load)
  BY DEF ExactInv, SourcesInv
<1>2. IsFiniteSet(All(asked)) /\ Cardinality(All(asked)) \in Nat
  BY <1>1, AllOfALoad, FS_CardinalityType
<1>3. IsFiniteSet(kinds) /\ Cardinality(kinds) = 3
  <2> DEFINE one == {"project"}
             two == one \cup {"commit"}
             three == two \cup {"file"}
  <2>1. three = kinds /\ "commit" \notin one /\ "file" \notin two
    OBVIOUS
  <2>2. IsFiniteSet(one) /\ Cardinality(one) = 1
    BY FS_Singleton
  <2> HIDE DEF one, kinds
  <2>3. IsFiniteSet(two) /\ Cardinality(two) = 2
    BY <2>1, <2>2, FS_AddElement
  <2> HIDE DEF two
  <2>4. IsFiniteSet(three) /\ Cardinality(three) = 3
    BY <2>1, <2>3, FS_AddElement
  <2> QED
    BY <2>1, <2>4
<1> HIDE DEF kinds
<1>4. IsFiniteSet(operations) /\ Cardinality(operations) = 3 * Cardinality(All(asked))
  BY <1>2, <1>3, FS_Product
<1>5. /\ IsFiniteSet(lookups) /\ Cardinality(lookups) <= RefCandidates
      /\ Cardinality(lookups) \in Nat
  <2>1. IsFiniteSet(Lookups(asked)) /\ Cardinality(Lookups(asked)) \in Nat
    BY CiSourcesAssumption, FS_Subset, FS_CardinalityType DEF Lookups
  <2>2. IsFiniteSet({"ref"}) /\ Cardinality({"ref"}) = 1
    BY FS_Singleton
  <2>3. IsFiniteSet(lookups) /\ Cardinality(lookups) = 1 * Cardinality(Lookups(asked))
    BY <2>1, <2>2, FS_Product
  <2>4. Cardinality(Lookups(asked)) <= RefCandidates
    BY DEF Clean
  <2> HIDE DEF lookups
  <2> QED
    BY <2>1, <2>3, <2>4
<1>6. Cardinality(paid) <= Cardinality(operations) + RefCandidates
  <2>1. load.cached \subseteq operations \cup lookups /\ key \in operations \cup lookups
    BY DEF ExactInv, Calm, kinds, Payable
  <2> HIDE DEF operations, lookups
  <2>2. /\ IsFiniteSet(operations \cup lookups)
        /\ Cardinality(operations \cup lookups)
             = Cardinality(operations) + Cardinality(lookups) - Cardinality(operations \cap lookups)
    BY <1>4, <1>5, FS_Union
  <2>3. Cardinality(paid) <= Cardinality(operations \cup lookups) /\ Cardinality(paid) \in Nat
    <3>1. paid \subseteq operations \cup lookups
      BY <2>1
    <3> HIDE DEF paid
    <3> QED
      BY <2>2, <3>1, FS_Subset, FS_CardinalityType
  <2>4. Cardinality(operations \cap lookups) \in Nat /\ Cardinality(operations) \in Nat
    BY <1>4, FS_Intersection, FS_CardinalityType
  <2>5. RefCandidates \in Nat
    BY SourceNumbers
  <2> HIDE DEF paid
  <2> QED
    BY <1>5, <2>2, <2>3, <2>4, <2>5
<1> HIDE DEF operations, lookups
<1>7. key \notin load.cached => Cardinality(paid) = Cardinality(load.cached) + 1
  BY <1>1, LoadIsFinite, FS_AddElement
<1>8. /\ Cardinality(load.cached) \in Nat /\ load.budget \in Nat /\ RefCandidates \in Nat
      /\ asked.limit \in Nat
  BY <1>1, LoadIsFinite, SourceNumbers DEF Load
<1>9. load.budget + Cardinality(load.cached) = 3 * asked.limit + RefCandidates
  BY <1>1 DEF Limited
<1>10. Cardinality(All(asked)) <= asked.limit
  BY DEF Clean
<1> HIDE DEF paid
<1>11. key \notin load.cached => load.budget # 0
  BY <1>2, <1>4, <1>6, <1>7, <1>8, <1>9, <1>10
<1> QED
  BY <1>11 DEF Unaffordable

LEMMA ExactReadProject == ASSUME ExactInv, NEW i, ReadProject(i) PROVE ExactInv'
<1> DEFINE r == load.batch[i]
           file == load.batch[i].file
           key == <<"project", file>>
<1>0. SourcesInv /\ SourcesInv'
  BY ReadProjectKeeps DEF ExactInv
<1>1. Reading(i, "project") /\ UNCHANGED asked
  BY DEF ReadProject
<1>2. load.pc = "reading" /\ i \in DOMAIN load.stage /\ key \in Operations /\ file \in Files
  BY <1>0, <1>1, RequestsOfBatch
<1>3. load \in Load /\ Limited(load) /\ asked \in Askable
  BY <1>0 DEF SourcesInv
<1>4. /\ Rooted(asked, r, load.configs) /\ StageFits(asked, r, "project", load.partial)
      /\ file \in All(asked) /\ r.ancestors \subseteq All(asked)
  BY <1>1, RequestRead
<1>5. Elsewhere(r)
  BY <1>4 DEF StageFits
<1>6. ASSUME Clean(asked)
      PROVE  /\ ~TooDeep(i) /\ ~Unaffordable(key)
             /\ file \notin BarredIn(asked) /\ file \in Pinned
             /\ ~load.partial /\ load.files \subseteq All(asked)
             /\ load.cached \cup {key} \subseteq Payable(asked)
  <2>1. key \in Payable(asked)
    BY <1>4 DEF Payable
  <2>2. ~TooDeep(i) /\ ~Unaffordable(key)
    BY <1>1, <1>6, <2>1, CleanIsShallow, CleanCanPay
  <2>3. file \in External /\ r.ancestors \cap External = {}
    BY <1>5 DEF Elsewhere
  <2>4. file \notin BarredIn(asked)
    <3>1. CASE file = asked.entry.file
      BY <1>6, <2>3, <3>1, CiSourcesAssumption DEF Clean, AllReadable, Hidden
    <3>2. CASE \E e \in r.ancestors : file \in Includes(asked, e)
      <4>1. PICK e \in r.ancestors : file \in Includes(asked, e)
        BY <3>2
      <4>2. e \in All(asked) /\ e \notin External
        BY <1>4, <2>3
      <4> QED
        BY <1>4, <1>6, <2>3, <4>1, <4>2 DEF Clean, AllReadable, Hidden
    <3> QED
      BY <1>4, <3>1, <3>2 DEF Rooted
  <2>5. file \notin Branched
    BY <1>4, <1>6 DEF Clean, AllReadable, Hurt
  <2>6. ~load.partial /\ load.files \subseteq All(asked) /\ load.cached \subseteq Payable(asked)
    BY <1>6 DEF ExactInv, Calm
  <2> QED
    BY <2>1, <2>2, <2>3, <2>4, <2>5, <2>6 DEF External
<1> DEFINE barred == TooDeep(i) \/ file \in asked.trouble.foreign \/ Unaffordable(key)
<1> HIDE DEF file, key
<1>7. CASE barred
  <2>1. Goes(i, load, "unresolved")
    BY <1>7 DEF ReadProject, file, key
  <2>2. "unresolved" \in Stages /\ ~Clean(asked)
    BY <1>6, <1>7 DEF Stages, BarredIn
  <2>3. StageFits(asked, load.batch[i], "unresolved", load.partial)
    BY DEF StageFits
  <2> QED
    BY <1>0, <1>1, <1>2, <1>3, <2>1, <2>2, <2>3, GoesExact
<1>8. CASE ~barred
  <2> DEFINE next == IF file \in asked.trouble.hidden THEN "denied"
                     ELSE IF file \in Remote THEN "reference" ELSE Resolved(file)
             now == Performed(key, load)
  <2>1. Goes(i, now, next)
    BY <1>8 DEF ReadProject, file, key
  <2>2. next \in Stages
    BY DEF Stages, Resolved
  <2>3. /\ now \in Load /\ Limited(now) /\ now.pc = load.pc /\ now.batch = load.batch
        /\ now.stage = load.stage /\ now.files = load.files /\ now.partial = load.partial
        /\ now.pending = load.pending /\ now.configs = load.configs
        /\ now.scheduled = load.scheduled /\ now.cached = load.cached \cup {key}
    BY <1>0, <1>2, <1>3, <1>8, PerformedPays
  <2>4. StageFits(asked, load.batch[i], next, now.partial)
    <3>1. /\ file \in Pinned => file \notin Branched
          /\ file \notin Remote => file \notin asked.trouble.gone
      BY <1>3, AskedParts, CiSourcesAssumption
    <3> QED
      BY <1>5, <1>8, <3>1 DEF StageFits, Resolved, file, r
  <2>5. Clean(asked) => next \in Untroubled
    BY <1>6 DEF Untroubled, BarredIn, Resolved
  <2> HIDE DEF next, now
  <2>6. Clean(asked) => /\ ~now.partial /\ now.files \subseteq All(asked)
                        /\ now.cached \subseteq Payable(asked)
    BY <1>6, <2>3
  <2> QED
    BY <1>0, <1>1, <1>2, <2>1, <2>2, <2>3, <2>4, <2>5, <2>6, GoesExact
<1> QED
  BY <1>7, <1>8

LEMMA ExactReadReference == ASSUME ExactInv, NEW i, ReadReference(i) PROVE ExactInv'
<1> DEFINE r == load.batch[i]
           file == load.batch[i].file
           found == <<"commit", file>>
<1>0. SourcesInv /\ SourcesInv'
  BY ReadReferenceKeeps DEF ExactInv
<1>1. Reading(i, "reference") /\ UNCHANGED asked
  BY DEF ReadReference
<1>2. load.pc = "reading" /\ i \in DOMAIN load.stage /\ found \in Operations
  BY <1>0, <1>1, RequestsOfBatch
<1>3. load \in Load /\ Limited(load) /\ asked \in Askable
  BY <1>0 DEF SourcesInv
<1>4. /\ Rooted(asked, r, load.configs) /\ StageFits(asked, r, "reference", load.partial)
      /\ file \in All(asked) /\ r.ancestors \subseteq All(asked)
  BY <1>1, RequestRead
<1>5. Elsewhere(r)
  BY <1>4 DEF StageFits
<1>6. ASSUME Clean(asked)
      PROVE  /\ ~load.partial /\ load.files \subseteq All(asked)
             /\ load.cached \subseteq Payable(asked) /\ found \in Payable(asked)
             /\ file \notin asked.trouble.gone /\ file \in Pinned
  <2>1. file \in External /\ r.ancestors \cap External = {}
    BY <1>5 DEF Elsewhere
  <2>2. file \notin asked.trouble.gone
    <3>1. CASE file = asked.entry.file
      BY <1>6, <2>1, <3>1, CiSourcesAssumption DEF Clean, AllReadable, Hidden, BarredIn
    <3>2. CASE \E e \in r.ancestors : file \in Includes(asked, e)
      <4>1. PICK e \in r.ancestors : file \in Includes(asked, e)
        BY <3>2
      <4>2. e \in All(asked) /\ e \notin External
        BY <1>4, <2>1
      <4> QED
        BY <1>4, <1>6, <2>1, <4>1, <4>2 DEF Clean, AllReadable, Hidden, BarredIn
    <3> QED
      BY <1>4, <3>1, <3>2 DEF Rooted
  <2>3. file \notin Branched
    BY <1>4, <1>6 DEF Clean, AllReadable, Hurt
  <2>4. ~load.partial /\ load.files \subseteq All(asked) /\ load.cached \subseteq Payable(asked)
    BY <1>6 DEF ExactInv, Calm
  <2>5. found \in Payable(asked)
    BY <1>4 DEF Payable
  <2> QED
    BY <2>1, <2>2, <2>3, <2>4, <2>5 DEF External
<1>7. CASE Goes(i, load, "unresolved") /\ ~Clean(asked)
  <2>1. "unresolved" \in Stages /\ StageFits(asked, load.batch[i], "unresolved", load.partial)
    BY DEF Stages, StageFits
  <2> QED
    BY <1>0, <1>1, <1>2, <1>3, <1>7, <2>1, GoesExact
<1>8. ASSUME NEW miss \in Untried(file)
      PROVE  /\ <<"ref", miss>> \in Operations /\ <<"ref", miss>> \in Payable(asked)
             /\ load.budget = 0 => ~Clean(asked)
  <2>1. miss \in Lookups(asked) /\ miss \in Misses /\ <<"ref", miss>> \notin load.cached
    BY <1>4, <1>8 DEF Untried, Lookups
  <2>2. <<"ref", miss>> \in Operations /\ <<"ref", miss>> \in Payable(asked)
    BY <2>1 DEF Operations, Payable
  <2> QED
    BY <2>1, <2>2, CleanCanPay DEF Unaffordable
<1> HIDE DEF file, found
<1>9. ASSUME NEW miss \in Untried(file), load.budget # 0,
             Goes(i, Performed(<<"ref", miss>>, load), "reference")
      PROVE  ExactInv'
  <2> DEFINE key == <<"ref", miss>>
             now == Performed(key, load)
  <2>1. key \in Operations /\ key \in Payable(asked) /\ ~Unaffordable(key)
    BY <1>8, <1>9 DEF Unaffordable
  <2>2. Goes(i, now, "reference") /\ "reference" \in Stages /\ "reference" \in Untroubled
    BY <1>9 DEF Stages, Untroubled
  <2> HIDE DEF key
  <2>3. /\ now \in Load /\ Limited(now) /\ now.pc = load.pc /\ now.batch = load.batch
        /\ now.stage = load.stage /\ now.files = load.files /\ now.partial = load.partial
        /\ now.pending = load.pending /\ now.configs = load.configs
        /\ now.scheduled = load.scheduled /\ now.cached = load.cached \cup {key}
    BY <1>0, <1>3, <2>1, PerformedPays
  <2> HIDE DEF now
  <2>4. StageFits(asked, load.batch[i], "reference", now.partial)
    BY <1>4, <2>3 DEF r
  <2>5. Clean(asked) => /\ ~now.partial /\ now.files \subseteq All(asked)
                        /\ now.cached \subseteq Payable(asked)
    BY <1>6, <2>1, <2>3
  <2> QED
    BY <1>0, <1>1, <1>2, <2>2, <2>3, <2>4, <2>5, GoesExact
<1>10. ASSUME ~Unaffordable(found),
              Goes(i, Performed(found, load),
                   IF file \in asked.trouble.gone THEN "unresolved" ELSE Resolved(file))
       PROVE  ExactInv'
  <2> DEFINE next == IF file \in asked.trouble.gone THEN "unresolved" ELSE Resolved(file)
             now == Performed(found, load)
  <2>1. Goes(i, now, next)
    BY <1>10
  <2>2. next \in Stages
    BY DEF Stages, Resolved
  <2>3. /\ now \in Load /\ Limited(now) /\ now.pc = load.pc /\ now.batch = load.batch
        /\ now.stage = load.stage /\ now.files = load.files /\ now.partial = load.partial
        /\ now.pending = load.pending /\ now.configs = load.configs
        /\ now.scheduled = load.scheduled /\ now.cached = load.cached \cup {found}
    BY <1>0, <1>2, <1>3, <1>10, PerformedPays
  <2>4. StageFits(asked, load.batch[i], next, now.partial)
    <3>1. file \in Pinned => file \notin Branched
      BY CiSourcesAssumption
    <3> QED
      BY <1>4, <1>5, <3>1 DEF StageFits, Resolved, file, r
  <2>5. Clean(asked) => next \in Untroubled
    BY <1>6 DEF Untroubled, Resolved
  <2> HIDE DEF next, now
  <2>6. Clean(asked) => /\ ~now.partial /\ now.files \subseteq All(asked)
                        /\ now.cached \subseteq Payable(asked)
    BY <1>6, <2>3
  <2> QED
    BY <1>0, <1>1, <1>2, <2>1, <2>2, <2>3, <2>4, <2>5, <2>6, GoesExact
<1>11. CASE \E miss \in Untried(file) :
              IF load.budget = 0 THEN Goes(i, load, "unresolved")
              ELSE Goes(i, Performed(<<"ref", miss>>, load), "reference")
  BY <1>7, <1>8, <1>9, <1>11
<1>12. CASE IF Unaffordable(found) THEN Goes(i, load, "unresolved")
            ELSE Goes(i, Performed(found, load),
                      IF file \in asked.trouble.gone THEN "unresolved" ELSE Resolved(file))
  <2>1. Unaffordable(found) => ~Clean(asked)
    BY <1>6, CleanCanPay
  <2> QED
    BY <1>7, <1>10, <1>12, <2>1
<1> QED
  BY <1>11, <1>12 DEF ReadReference, file, found

LEMMA ExactReadCommit == ASSUME ExactInv, NEW i, ReadCommit(i) PROVE ExactInv'
<1> DEFINE file == load.batch[i].file
           key == <<"commit", file>>
           noted == [load EXCEPT !.partial = TRUE]
<1>0. SourcesInv /\ SourcesInv'
  BY ReadCommitKeeps DEF ExactInv
<1>1. Reading(i, "commit") /\ UNCHANGED asked
  BY DEF ReadCommit
<1>2. load.pc = "reading" /\ i \in DOMAIN load.stage /\ key \in Operations
  BY <1>0, <1>1, RequestsOfBatch
<1>3. load \in Load /\ Limited(load)
  BY <1>0 DEF SourcesInv
<1>4. /\ noted \in Load /\ noted.pc = load.pc /\ noted.batch = load.batch
      /\ noted.stage = load.stage /\ noted.files = load.files /\ noted.partial = TRUE
      /\ noted.cached = load.cached /\ noted.budget = load.budget /\ noted.notes = load.notes
      /\ noted.configs = load.configs /\ noted.scheduled = load.scheduled
      /\ noted.processed = load.processed /\ noted.pending = load.pending
  BY <1>3 DEF Load
<1>5. StageFits(asked, load.batch[i], "commit", load.partial)
  BY <1>1, RequestRead
<1>6. ~Clean(asked)
  BY <1>1, <1>2 DEF ExactInv, Calm, Untroubled, Reading
<1> HIDE DEF file, key
<1>7. CASE Unaffordable(key)
  <2>1. Goes(i, noted, "unresolved")
    BY <1>7 DEF ReadCommit, file, key
  <2>2. "unresolved" \in Stages
    BY DEF Stages
  <2>3. StageFits(asked, load.batch[i], "unresolved", TRUE)
    BY DEF StageFits
  <2> HIDE DEF noted
  <2> QED
    BY <1>0, <1>1, <1>2, <1>4, <1>6, <2>1, <2>2, <2>3, GoesExact
<1>8. CASE ~Unaffordable(key)
  <2> DEFINE now == Performed(key, noted)
  <2>1. Goes(i, now, "file")
    BY <1>8 DEF ReadCommit, file, key
  <2>2. "file" \in Stages
    BY DEF Stages
  <2>3. StageFits(asked, load.batch[i], "file", TRUE)
    BY <1>5 DEF StageFits
  <2> HIDE DEF noted
  <2>4. Limited(noted)
    BY <1>3, <1>4 DEF Limited
  <2>5. /\ now \in Load /\ Limited(now) /\ now.pc = load.pc /\ now.batch = load.batch
        /\ now.stage = load.stage /\ now.files = load.files /\ now.partial = TRUE
        /\ now.pending = load.pending /\ now.configs = load.configs
        /\ now.scheduled = load.scheduled
    BY <1>0, <1>2, <1>4, <1>8, <2>4, PerformedPays
  <2> HIDE DEF now
  <2> QED
    BY <1>0, <1>1, <1>2, <1>6, <2>1, <2>2, <2>3, <2>5, GoesExact
<1> QED
  BY <1>7, <1>8

LEMMA ExactReadFile == ASSUME ExactInv, NEW i, ReadFile(i) PROVE ExactInv'
<1> DEFINE r == load.batch[i]
           file == load.batch[i].file
           key == <<"file", file>>
           files == load.files \cup {file}
           attempt == [load EXCEPT !.files = files]
<1>0. SourcesInv /\ SourcesInv'
  BY ReadFileKeeps DEF ExactInv
<1>1. Reading(i, "file") /\ UNCHANGED asked
  BY DEF ReadFile
<1>2. load.pc = "reading" /\ i \in DOMAIN load.stage /\ key \in Operations /\ file \in Files
  BY <1>0, <1>1, RequestsOfBatch
<1>3. load \in Load /\ Limited(load) /\ asked \in Askable
  BY <1>0 DEF SourcesInv
<1>4. /\ Rooted(asked, r, load.configs) /\ StageFits(asked, r, "file", load.partial)
      /\ file \in All(asked)
  BY <1>1, RequestRead
<1>5. ASSUME Clean(asked)
      PROVE  /\ Readable(i) /\ ~Unaffordable(key) /\ file \notin asked.trouble.denied
             /\ ~load.partial /\ files \subseteq All(asked)
             /\ load.cached \cup {key} \subseteq Payable(asked)
  <2>0. key \in Payable(asked)
    BY <1>4 DEF Payable
  <2>1. ~TooDeep(i) /\ ~Unaffordable(key)
    BY <1>1, <1>5, <2>0, CleanIsShallow, CleanCanPay
  <2>2. file \notin r.ancestors
    BY <1>4, <1>5 DEF Rooted, Clean
  <2>3. /\ ~load.partial /\ load.files \subseteq All(asked)
        /\ load.cached \subseteq Payable(asked)
    BY <1>5 DEF ExactInv, Calm
  <2>4. file \notin asked.trouble.denied
    BY <1>4, <1>5 DEF Clean, AllReadable, Hurt
  <2>5. file \in load.files \/ Cardinality(load.files) < asked.limit
    <3>1. SUFFICES ASSUME file \notin load.files PROVE Cardinality(load.files) < asked.limit
      OBVIOUS
    <3>2. Cardinality(files) = Cardinality(load.files) + 1 /\ Cardinality(load.files) \in Nat
      BY <1>3, <3>1, LoadIsFinite, FS_AddElement
    <3>3. IsFiniteSet(All(asked)) /\ Cardinality(All(asked)) \in Nat /\ asked.limit \in Nat
      BY <1>3, AllOfALoad, FS_CardinalityType, SourceNumbers
    <3>4. files \subseteq All(asked)
      BY <1>4, <2>3
    <3>5. Cardinality(files) <= Cardinality(All(asked))
      BY <3>3, <3>4, FS_Subset
    <3>6. Cardinality(All(asked)) <= asked.limit
      BY <1>5 DEF Clean
    <3> HIDE DEF files
    <3> QED
      BY <3>2, <3>3, <3>5, <3>6
  <2> QED
    BY <1>4, <2>0, <2>1, <2>2, <2>3, <2>4, <2>5 DEF Readable
<1> HIDE DEF file, key
<1>6. CASE ~Readable(i)
  <2>1. Goes(i, load, "unresolved")
    BY <1>6 DEF ReadFile
  <2>2. "unresolved" \in Stages /\ ~Clean(asked)
    BY <1>5, <1>6 DEF Stages
  <2>3. StageFits(asked, load.batch[i], "unresolved", load.partial)
    BY DEF StageFits
  <2> QED
    BY <1>0, <1>1, <1>2, <1>3, <2>1, <2>2, <2>3, GoesExact
<1>7. CASE Readable(i)
  <2>1. /\ attempt \in Load /\ attempt.pc = load.pc /\ attempt.batch = load.batch
        /\ attempt.stage = load.stage /\ attempt.files = files
        /\ attempt.cached = load.cached /\ attempt.budget = load.budget /\ attempt.notes = load.notes
        /\ attempt.configs = load.configs /\ attempt.scheduled = load.scheduled
        /\ attempt.partial = load.partial
        /\ attempt.processed = load.processed /\ attempt.pending = load.pending
    BY <1>2, <1>3 DEF Load
  <2>2. CASE Unaffordable(key)
    <3>1. Goes(i, attempt, "unresolved")
      BY <1>7, <2>2 DEF ReadFile, file, key
    <3>2. "unresolved" \in Stages /\ ~Clean(asked)
      BY <1>5, <2>2 DEF Stages
    <3>3. StageFits(asked, load.batch[i], "unresolved", load.partial)
      BY DEF StageFits
    <3> HIDE DEF attempt, files
    <3> QED
      BY <1>0, <1>1, <1>2, <2>1, <3>1, <3>2, <3>3, GoesExact
  <2>3. CASE ~Unaffordable(key)
    <3> DEFINE now == Performed(key, attempt)
               next == IF file \in asked.trouble.denied THEN "denied" ELSE "read"
    <3>1. Goes(i, now, next)
      BY <1>7, <2>3 DEF ReadFile, file, key
    <3>2. next \in Stages
      BY DEF Stages
    <3>3. StageFits(asked, load.batch[i], next, load.partial)
      BY <1>4 DEF StageFits, file, r
    <3>4. Clean(asked) => next \in Untroubled
      BY <1>5 DEF Untroubled
    <3> HIDE DEF attempt, files
    <3>5. Limited(attempt)
      <4>1. files \subseteq Files
        BY <1>2, <1>3 DEF files, Load
      <4>2. load.files \subseteq files
        BY DEF files
      <4>3. Cardinality(files) <= asked.limit
        <5>1. file \in load.files \/ Cardinality(load.files) < asked.limit
          BY <1>7 DEF Readable, file
        <5>2. Cardinality(files) = IF file \in load.files THEN Cardinality(load.files)
                                   ELSE Cardinality(load.files) + 1
          BY <1>3, LoadIsFinite, FS_AddElement DEF files
        <5>3. Cardinality(load.files) \in Nat /\ asked.limit \in Nat
          BY <1>3, LoadIsFinite, SourceNumbers
        <5>4. Cardinality(load.files) <= asked.limit
          BY <1>3 DEF Limited
        <5> QED
          BY <5>1, <5>2, <5>3, <5>4
      <4> QED
        BY <1>3, <2>1, <4>2, <4>3 DEF Limited
    <3>6. /\ now \in Load /\ Limited(now) /\ now.pc = load.pc /\ now.batch = load.batch
          /\ now.stage = load.stage /\ now.files = files /\ now.partial = load.partial
          /\ now.pending = load.pending /\ now.configs = load.configs
          /\ now.scheduled = load.scheduled /\ now.cached = load.cached \cup {key}
      BY <1>0, <1>2, <2>1, <2>3, <3>5, PerformedPays
    <3> HIDE DEF now, next
    <3>7. Clean(asked) => /\ ~now.partial /\ now.files \subseteq All(asked)
                          /\ now.cached \subseteq Payable(asked)
      BY <1>5, <3>6
    <3> QED
      BY <1>0, <1>1, <1>2, <3>1, <3>2, <3>3, <3>4, <3>6, <3>7, GoesExact
  <2> QED
    BY <2>2, <2>3
<1> QED
  BY <1>6, <1>7

LEMMA RootedMore ==
    ASSUME NEW a, NEW r, NEW configs, NEW more, configs \subseteq more, Rooted(a, r, configs)
    PROVE  Rooted(a, r, more)
  BY DEF Rooted

\* What is included by a file that was expanded may be asked for.
LEMMA NextIsRooted ==
    ASSUME NEW a \in Askable, NEW r \in Requests, NEW configs, Rooted(a, r, configs),
           r.file \in configs, NEW g \in Includes(a, r.file)
    PROVE  LET next == Request(g, r.ancestors \cup {r.file})
           IN Rooted(a, next, configs) /\ Asks(next, <<r.file, g>>) /\ g \in Files
<1> DEFINE next == Request(g, r.ancestors \cup {r.file})
<1>1. next.file = g /\ next.ancestors = r.ancestors \cup {r.file}
  BY DEF Request
<1> HIDE DEF next
<1>2. r.file \in Files /\ r.ancestors \subseteq Files
  BY DEF Requests
<1>3. r.file \in All(a) /\ g \in All(a) /\ g \in Files
  BY <1>2, AllOfALoad, IncludesFiles DEF Rooted
<1>4. ASSUME NEW x \in next.ancestors PROVE g \in Reach(a, Includes(a, x))
  <2>1. CASE x = r.file
    BY <1>2, <2>1, AllOfALoad
  <2>2. CASE x \in r.ancestors
    <3>1. x \in Files /\ r.file \in Reach(a, Includes(a, x))
      BY <1>2, <2>2 DEF Rooted
    <3> QED
      BY <3>1, AllOfALoad
  <2> QED
    BY <1>1, <1>4, <2>1, <2>2
<1>5. /\ r.file \in Pinned => g \in Pinned
      /\ r.file \in Branched => g \in Branched
      /\ Pinned \cap Branched = {}
  BY <1>2, IncludesFiles, CiSourcesAssumption
<1>6. ASSUME r.file \notin External PROVE next.ancestors \cap External = {}
  BY <1>1, <1>6 DEF Rooted
<1>7. g \notin External => next.ancestors \cap External = {}
  BY <1>5, <1>6 DEF External
<1>8. g \in Branched /\ next.ancestors \cap External # {} => next.ancestors \cap Branched # {}
  <2>1. SUFFICES ASSUME g \in Branched, next.ancestors \cap External # {}
                 PROVE  r.file \in Branched
    BY <1>1
  <2> QED
    BY <1>5, <1>6, <2>1 DEF External
<1>9. Rooted(a, next, configs)
  <2>1. next.ancestors \subseteq configs
    BY <1>1 DEF Rooted
  <2>2. \E e \in next.ancestors : next.file \in Includes(a, e)
    BY <1>1
  <2> QED
    BY <1>1, <1>3, <1>4, <1>7, <1>8, <2>1, <2>2 DEF Rooted
<1>10. Asks(next, <<r.file, g>>)
  BY <1>1, <1>6 DEF Asks
<1> QED
  BY <1>3, <1>9, <1>10 DEF next

\* A request that was read answers those who asked for it.
LEMMA ReadAnswers ==
    ASSUME NEW a, NEW r, NEW partial, StageFits(a, r, "read", partial), NEW edge, Asks(r, edge)
    PROVE  edge[2] = r.file /\ ~Hidden(a, edge[1], edge[2])
  BY DEF StageFits, Asks, Hidden, BarredIn, Elsewhere

LEMMA LimitOfEdges == EdgeLimit = EdgesAllowed(asked)
  BY DEF EdgeLimit, EdgesAllowed

LEMMA EdgesAreFinite ==
    ASSUME NEW a \in Askable
    PROVE  IsFiniteSet(Edges(a)) /\ Cardinality(Edges(a)) \in Nat
<1>1. IsFiniteSet(All(a))
  BY AllOfALoad
<1>2. IsFiniteSet(All(a) \X All(a))
  BY <1>1, FS_Product
<1>3. Edges(a) \in SUBSET (All(a) \X All(a))
  BY DEF Edges
<1>4. IsFiniteSet(Edges(a))
  BY <1>2, <1>3, FS_Subset
<1> QED
  BY <1>4, FS_CardinalityType

\* The batch is merged up to i; in its request i, the includes are scheduled up to m.
MergedSoFar(v) ==
    /\ AllFound(asked, v) /\ (load.partial => v.partial)
    /\ Clean(asked) => ~v.partial /\ v.scheduled \subseteq Edges(asked)

MergedTo(i) == { v \in Merging : MergedSoFar(v) /\ Sound(asked, v, i) }

ExpandedTo(i, file, m) == { v \in Merging :
    /\ MergedSoFar(v) /\ file \in v.configs
    /\ ~v.partial => /\ v.configs \cap Hurt(asked) = {} /\ Awaited(asked, v, i)
                     /\ FollowedBy(asked, v, v.configs \ {file}) /\ Listed(file).whole
                     /\ \A k \in 1..m : <<file, Listed(file).files[k]>> \in v.scheduled }

\* One more include is scheduled.
LEMMA ScheduledFits ==
    ASSUME ExactInv, NEW i, NEW r \in Requests, NEW m \in DOMAIN Listed(r.file).files,
           NEW v \in ExpandedTo(i, r.file, m - 1), Rooted(asked, r, v.configs)
    PROVE  Scheduled(v, r, Listed(r.file).files[m]) \in ExpandedTo(i, r.file, m)
<1> DEFINE file == r.file
           files == Listed(file).files
           g == files[m]
           edge == <<file, g>>
           next == Request(g, r.ancestors \cup {file})
           scheduled == v.scheduled \cup {edge}
           pending == Append(v.pending, next)
           now == Scheduled(v, r, g)
<1>0. asked \in Askable /\ SourcesInv /\ file \in Files
  BY DEF ExactInv, SourcesInv, Requests
<1>1. m \in 1..Len(files) /\ g \in Files /\ Len(files) \in Nat
  BY <1>0, ListedFiles
<1>2. g \in Includes(asked, file)
  <2> DEFINE all == asked.includes[file]
             n == IF Len(all) < EdgeLimit THEN Len(all) ELSE EdgeLimit
  <2>1. all \in Seq(Files) /\ EdgeLimit \in Nat
    BY <1>0, IncludesFiles, SourceNumbers
  <2>2. files = SubSeq(all, 1, n)
    BY DEF Listed
  <2>3. n \in 0..Len(all) /\ Len(all) \in Nat
    BY <2>1
  <2> HIDE DEF all, n
  <2>4. m \in DOMAIN all /\ g = all[m]
    BY <1>1, <2>1, <2>2, <2>3
  <2> QED
    BY <2>4 DEF Includes, all
<1>3. /\ v \in Merging /\ MergedSoFar(v) /\ file \in v.configs /\ v \in Load
  BY DEF ExpandedTo, Merging
<1>4. /\ Rooted(asked, next, v.configs) /\ Asks(next, edge)
  BY <1>0, <1>2, <1>3, NextIsRooted
<1>5. now \in Merging
  BY <1>0, <1>1, <1>3, ScheduledMerges
<1>6. \A k \in 1..m : k # m => k \in 1..(m - 1)
  BY <1>1
<1> HIDE DEF file, files, g, next, scheduled, pending
<1>7. ASSUME ~v.partial
      PROVE  /\ v.configs \cap Hurt(asked) = {} /\ Awaited(asked, v, i)
             /\ FollowedBy(asked, v, v.configs \ {file}) /\ Listed(file).whole
             /\ \A k \in 1..(m - 1) : <<file, files[k]>> \in v.scheduled
  BY <1>7 DEF ExpandedTo, file, files
<1>8. CASE edge \in v.scheduled
  <2>1. now = v
    BY <1>8 DEF Scheduled, file
  <2>2. ~v.partial => \A k \in 1..m : <<file, files[k]>> \in v.scheduled
    BY <1>6, <1>7, <1>8 DEF g
  <2> QED
    BY <1>3, <1>7, <2>1, <2>2 DEF ExpandedTo, file, files, g
<1>9. CASE edge \notin v.scheduled /\ Cardinality(v.scheduled) >= EdgeLimit
  <2>1. now = [v EXCEPT !.partial = TRUE]
    BY <1>9 DEF Scheduled, file
  <2>2. /\ now.partial = TRUE /\ now.configs = v.configs /\ now.pending = v.pending
        /\ now.batch = v.batch
    BY <1>3, <2>1 DEF Load
  <2>3. ~Clean(asked)
    <3>1. SUFFICES ASSUME Clean(asked) PROVE FALSE
      OBVIOUS
    <3>2. v.scheduled \subseteq Edges(asked)
      BY <1>3, <3>1 DEF MergedSoFar
    <3>3. edge \in Edges(asked)
      <4>1. file \in All(asked) /\ g \in All(asked)
        BY <1>0, <1>2, <1>3, AllOfALoad DEF MergedSoFar, AllFound
      <4> QED
        BY <1>2, <4>1 DEF Edges
    <3>4. v.scheduled \cup {edge} \subseteq Edges(asked)
      BY <3>2, <3>3
    <3>5. Cardinality(v.scheduled \cup {edge}) = Cardinality(v.scheduled) + 1
      BY <1>3, <1>9, LoadIsFinite, FS_AddElement
    <3>6. Cardinality(v.scheduled \cup {edge}) <= Cardinality(Edges(asked))
      BY <1>0, <3>4, EdgesAreFinite, FS_Subset
    <3>7. Cardinality(Edges(asked)) <= EdgeLimit
      BY <3>1, LimitOfEdges DEF Clean
    <3>8. /\ Cardinality(v.scheduled) \in Nat /\ Cardinality(Edges(asked)) \in Nat
          /\ EdgeLimit \in Nat
      BY <1>0, <1>3, LoadIsFinite, EdgesAreFinite, SourceNumbers
    <3> HIDE DEF edge
    <3> QED
      BY <1>9, <3>5, <3>6, <3>7, <3>8
  <2>4. MergedSoFar(now)
    BY <1>3, <2>2, <2>3 DEF MergedSoFar, AllFound
  <2> HIDE DEF now
  <2>5. now \in ExpandedTo(i, file, m)
    BY <1>3, <1>5, <2>2, <2>4 DEF ExpandedTo
  <2> QED
    BY <2>5 DEF now, file, files, g
<1>10. CASE edge \notin v.scheduled /\ ~(Cardinality(v.scheduled) >= EdgeLimit)
  <2>1. now = [v EXCEPT !.scheduled = scheduled, !.pending = pending]
    BY <1>10 DEF Scheduled, file, scheduled, pending, next
  <2>2. /\ now.partial = v.partial /\ now.configs = v.configs /\ now.pending = pending
        /\ now.batch = v.batch /\ now.scheduled = scheduled
    BY <1>3, <2>1 DEF Load
  <2> HIDE DEF now
  <2>3. v.pending \in Seq(Requests)
    BY <1>3 DEF Load
  <2>4. /\ DOMAIN pending = 1..(Len(v.pending) + 1) /\ Len(v.pending) \in Nat
        /\ DOMAIN v.pending = 1..Len(v.pending)
        /\ \A k \in DOMAIN v.pending : k \in DOMAIN pending /\ pending[k] = v.pending[k]
        /\ pending[Len(v.pending) + 1] = next
    BY <2>3 DEF pending
  <2>5. AllFound(asked, now)
    <3>1. /\ \A k \in DOMAIN v.pending : Rooted(asked, v.pending[k], v.configs)
          /\ \A k \in DOMAIN v.batch : Rooted(asked, v.batch[k], v.configs)
          /\ v.configs \subseteq All(asked)
      BY <1>3 DEF MergedSoFar, AllFound
    <3>2. \A k \in DOMAIN pending : k \notin DOMAIN v.pending => k = Len(v.pending) + 1
      BY <2>4
    <3>3. \A k \in DOMAIN pending : Rooted(asked, pending[k], v.configs)
      BY <1>4, <2>4, <3>1, <3>2
    <3> QED
      BY <2>2, <3>1, <3>3 DEF AllFound
  <2>6. MergedSoFar(now)
    <3>1. ASSUME Clean(asked) PROVE scheduled \subseteq Edges(asked)
      <4>1. v.scheduled \subseteq Edges(asked)
        BY <1>3, <3>1 DEF MergedSoFar
      <4>2. file \in All(asked) /\ g \in All(asked)
        BY <1>0, <1>2, <1>3, AllOfALoad DEF MergedSoFar, AllFound
      <4>3. edge \in Edges(asked)
        BY <1>2, <4>2 DEF Edges
      <4> QED
        BY <4>1, <4>3 DEF scheduled
    <3> QED
      BY <1>3, <2>2, <2>5, <3>1 DEF MergedSoFar
  <2>7. ASSUME ~v.partial PROVE Awaited(asked, now, i)
    <3> SUFFICES ASSUME NEW e \in Wanted(asked, now), ~Answered(asked, now, e)
                 PROVE  Waits(pending, 0, e) \/ Waits(v.batch, i, e)
      BY <2>2 DEF Awaited
    <3>1. CASE e = edge
      <4>1. Len(v.pending) + 1 \in DOMAIN pending /\ Len(v.pending) + 1 > 0
        BY <2>4
      <4> QED
        BY <1>4, <2>4, <3>1, <4>1 DEF Waits
    <3>2. CASE e \in Wanted(asked, v)
      <4>1. Waits(v.pending, 0, e) \/ Waits(v.batch, i, e)
        BY <1>7, <2>2, <2>7, <3>2 DEF Awaited, Answered
      <4>2. Waits(v.pending, 0, e) => Waits(pending, 0, e)
        BY <2>4 DEF Waits
      <4> QED
        BY <4>1, <4>2
    <3> QED
      BY <2>2, <3>1, <3>2 DEF Wanted, scheduled
  <2>8. ASSUME ~v.partial
        PROVE  /\ FollowedBy(asked, now, v.configs \ {file})
               /\ \A k \in 1..m : <<file, files[k]>> \in scheduled
    <3>1. FollowedBy(asked, now, v.configs \ {file})
      BY <1>7, <2>2, <2>8 DEF FollowedBy, scheduled
    <3>2. \A k \in 1..m : <<file, files[k]>> \in scheduled
      BY <1>6, <1>7, <2>8 DEF scheduled, g
    <3> QED
      BY <3>1, <3>2
  <2>9. now \in ExpandedTo(i, file, m)
    BY <1>3, <1>5, <1>7, <2>2, <2>6, <2>7, <2>8 DEF ExpandedTo, files
  <2> QED
    BY <2>9 DEF now, file, files, g
<1> QED
  BY <1>8, <1>9, <1>10

\* Whoever waits for the file of a request that was read is answered.
LEMMA NextAwaited ==
    ASSUME ExactInv, load.pc = "reading", NEW i \in DOMAIN load.batch, load.stage[i] = "read",
           NEW v, NEW w, v.batch = load.batch, w.batch = load.batch, w.pending = v.pending,
           w.scheduled = v.scheduled, v.configs \subseteq w.configs,
           load.batch[i].file \in w.configs, Awaited(asked, v, i - 1)
    PROVE  Awaited(asked, w, i)
<1> SUFFICES ASSUME NEW edge \in Wanted(asked, w), ~Answered(asked, w, edge)
             PROVE  Waits(w.pending, 0, edge) \/ Waits(w.batch, i, edge)
  BY DEF Awaited
<1>1. Wanted(asked, w) = Wanted(asked, v) /\ ~Answered(asked, v, edge)
  BY DEF Wanted, Answered
<1>2. Waits(v.pending, 0, edge) \/ Waits(v.batch, i - 1, edge)
  BY <1>1 DEF Awaited
<1>3. CASE Waits(v.batch, i - 1, edge)
  <2>1. PICK k \in DOMAIN load.batch : k > i - 1 /\ Asks(load.batch[k], edge)
    BY <1>3 DEF Waits
  <2>2. i \in Nat /\ k \in Nat
    <3>1. load.batch \in Seq(Requests)
      BY DEF ExactInv, SourcesInv, Load
    <3> QED
      BY <3>1
  <2>3. StageFits(asked, load.batch[i], "read", load.partial)
    BY BatchRequests DEF ExactInv, StagesFit
  <2>4. k # i
    <3>1. SUFFICES ASSUME k = i PROVE FALSE
      OBVIOUS
    <3>2. edge[2] = load.batch[i].file /\ ~Hidden(asked, edge[1], edge[2])
      BY <2>1, <2>3, <3>1, ReadAnswers
    <3> QED
      BY <3>2 DEF Answered
  <2>5. k > i
    BY <2>1, <2>2, <2>4
  <2> QED
    BY <2>1, <2>5 DEF Waits
<1> QED
  BY <1>2, <1>3

\* What was read is the history's, and nothing of it is denied.
LEMMA ReadIsSound ==
    ASSUME ExactInv, load.pc = "reading", NEW i \in DOMAIN load.batch, load.stage[i] = "read",
           NEW v, v.batch = load.batch, AllFound(asked, v), ~load.partial,
           v.configs \cap Hurt(asked) = {}, load.batch[i].file \notin asked.trouble.odd
    PROVE  load.batch[i].file \notin Hurt(asked)
<1> DEFINE r == load.batch[i]
           file == load.batch[i].file
<1>1. StageFits(asked, r, "read", load.partial)
  BY BatchRequests DEF ExactInv, StagesFit
<1>2. Rooted(asked, r, v.configs)
  BY DEF AllFound
<1>3. file \notin asked.trouble.denied
  BY <1>1 DEF StageFits
<1>4. ASSUME file \in Branched PROVE FALSE
  <2>1. ~Elsewhere(r)
    BY <1>1, <1>4 DEF StageFits
  <2>2. r.ancestors \cap External # {}
    BY <1>4, <2>1 DEF Elsewhere, External
  <2>3. r.ancestors \cap Branched # {} /\ r.ancestors \subseteq v.configs
    BY <1>2, <1>4, <2>2 DEF Rooted
  <2> QED
    BY <2>3 DEF Hurt
<1> QED
  BY <1>3, <1>4 DEF Hurt

\* The file itself is expanded, before its includes.
LEMMA BaseFits ==
    ASSUME ExactInv, load.pc = "reading", NEW i \in DOMAIN load.batch, load.stage[i] = "read",
           NEW v \in MergedTo(i - 1), load.batch[i].file \notin v.configs
    PROVE  LET file == load.batch[i].file
           IN [v EXCEPT !.configs = @ \cup {file}, !.partial = @ \/ ~Listed(file).whole]
                \in ExpandedTo(i, file, 0)
<1> DEFINE r == load.batch[i]
           file == load.batch[i].file
           whole == Listed(file).whole
           base == [v EXCEPT !.configs = @ \cup {file}, !.partial = @ \/ ~Listed(file).whole]
<1>0. SourcesInv /\ asked \in Askable /\ r \in Requests /\ file \in Files /\ file \in load.files
  BY BatchRequests DEF ExactInv, SourcesInv
<1>1. /\ v \in Merging /\ MergedSoFar(v) /\ Sound(asked, v, i - 1) /\ v.batch = load.batch
  BY DEF MergedTo, Merging
<1>2. /\ base \in Merging /\ base.configs = v.configs \cup {file}
      /\ base.partial = (v.partial \/ ~whole)
      /\ base.scheduled = v.scheduled /\ base.pending = v.pending /\ base.batch = v.batch
  BY <1>0, <1>1, BaseMerges
<1>3. Rooted(asked, r, v.configs) /\ file \in All(asked)
  BY <1>1 DEF MergedSoFar, AllFound, Rooted
<1>4. /\ whole => file \notin asked.trouble.odd
      /\ Len(asked.includes[file]) <= EdgeLimit /\ file \notin asked.trouble.odd => whole
  BY DEF Listed
<1> HIDE DEF whole, base
<1>5. AllFound(asked, base)
  <2>1. v.configs \subseteq base.configs
    BY <1>2
  <2>2. /\ \A k \in DOMAIN v.pending : Rooted(asked, v.pending[k], v.configs)
        /\ \A k \in DOMAIN v.batch : Rooted(asked, v.batch[k], v.configs)
        /\ v.configs \subseteq All(asked)
    BY <1>1 DEF MergedSoFar, AllFound
  <2>3. /\ \A k \in DOMAIN v.pending : Rooted(asked, v.pending[k], base.configs)
        /\ \A k \in DOMAIN v.batch : Rooted(asked, v.batch[k], base.configs)
    BY <2>1, <2>2, RootedMore
  <2> QED
    BY <1>2, <1>3, <2>2, <2>3 DEF AllFound
<1>6. MergedSoFar(base)
  <2>1. Clean(asked) => whole
    BY <1>3, <1>4, LimitOfEdges DEF Clean, AllReadable, Hurt
  <2> QED
    BY <1>1, <1>2, <1>5, <2>1 DEF MergedSoFar
<1>7. ASSUME ~base.partial
      PROVE  /\ base.configs \cap Hurt(asked) = {} /\ Awaited(asked, base, i)
             /\ FollowedBy(asked, base, base.configs \ {file}) /\ whole
  <2>1. ~v.partial /\ whole /\ ~load.partial
    BY <1>1, <1>2, <1>7 DEF MergedSoFar
  <2>2. /\ v.configs \cap Hurt(asked) = {} /\ FollowedBy(asked, v, v.configs)
        /\ Awaited(asked, v, i - 1)
    BY <1>1, <2>1 DEF Sound
  <2>3. file \notin Hurt(asked)
    BY <1>1, <1>4, <2>1, <2>2, ReadIsSound DEF MergedSoFar
  <2>4. Awaited(asked, base, i)
    BY <1>1, <1>2, <2>2, NextAwaited
  <2> QED
    BY <1>2, <2>1, <2>2, <2>3, <2>4 DEF FollowedBy
<1>8. \A k \in 1..0 : FALSE
  OBVIOUS
<1>9. base \in ExpandedTo(i, file, 0)
  BY <1>2, <1>6, <1>7, <1>8 DEF ExpandedTo, whole
<1> QED
  BY <1>9 DEF base

\* All that a whole list includes was listed.
LEMMA WholeIsAll ==
    ASSUME asked \in Askable, NEW file \in Files, Listed(file).whole
    PROVE  \A g \in Includes(asked, file) : \E k \in 1..Len(Listed(file).files) : Listed(file).files[k] = g
<1> DEFINE all == asked.includes[file]
           n == IF Len(all) < EdgeLimit THEN Len(all) ELSE EdgeLimit
           files == Listed(file).files
<1>1. all \in Seq(Files) /\ EdgeLimit \in Nat
  BY IncludesFiles, SourceNumbers
<1>2. files = SubSeq(all, 1, n) /\ Len(all) <= EdgeLimit
  BY DEF Listed
<1> HIDE DEF all, files
<1>3. n = Len(all) /\ Len(all) \in Nat /\ DOMAIN all = 1..Len(all)
  BY <1>1, <1>2
<1> HIDE DEF n
<1>4. Len(files) = Len(all) /\ \A k \in 1..Len(all) : files[k] = all[k]
  BY <1>1, <1>2, <1>3
<1> QED
  BY <1>3, <1>4 DEF Includes, all, files

\* One more request of the batch is merged.
LEMMA MergedFits ==
    ASSUME ExactInv, MergeBatch, NEW i \in DOMAIN load.batch, NEW v \in MergedTo(i - 1)
    PROVE  Merged(v, i) \in MergedTo(i)
<1> DEFINE r == load.batch[i]
           file == load.batch[i].file
           noted == [v EXCEPT !.partial = TRUE]
<1>0. /\ SourcesInv /\ asked \in Askable /\ load.pc = "reading"
      /\ \A k \in DOMAIN load.stage : load.stage[k] \in {"read", "denied", "unresolved"}
  BY DEF ExactInv, SourcesInv, MergeBatch
<1>1. r \in Requests /\ file \in Files /\ i \in DOMAIN load.stage
  BY <1>0, BatchRequests
<1>2. v \in Merging /\ MergedSoFar(v) /\ Sound(asked, v, i - 1) /\ v.batch = load.batch /\ v \in Load
  BY DEF MergedTo, Merging
<1>3. Merged(v, i) \in Merging
  BY <1>0, <1>2, MergedMerges
<1>4. CASE load.stage[i] # "read"
  <2>1. Merged(v, i) = noted
    BY <1>4 DEF Merged
  <2>2. /\ noted.partial = TRUE /\ noted.configs = v.configs /\ noted.pending = v.pending
        /\ noted.batch = v.batch
    BY <1>2 DEF Load
  <2>3. ~Clean(asked)
    BY <1>0, <1>1, <1>4 DEF ExactInv, Calm, Untroubled
  <2> HIDE DEF noted
  <2>4. MergedSoFar(noted)
    BY <1>2, <2>2, <2>3 DEF MergedSoFar, AllFound
  <2>5. Sound(asked, noted, i)
    BY <2>2 DEF Sound
  <2> QED
    BY <1>3, <2>1, <2>4, <2>5 DEF MergedTo
<1>5. CASE load.stage[i] = "read" /\ file \in v.configs
  <2>1. Merged(v, i) = v
    BY <1>5 DEF Merged
  <2>2. ASSUME ~v.partial PROVE Awaited(asked, v, i)
    BY <1>0, <1>2, <1>5, <2>2, NextAwaited DEF Sound
  <2>3. Sound(asked, v, i)
    BY <1>2, <2>2 DEF Sound
  <2> QED
    BY <1>2, <2>1, <2>3 DEF MergedTo
<1>6. CASE load.stage[i] = "read" /\ file \notin v.configs
  <2> DEFINE files == Listed(file).files
             L == Len(files)
             W == [m \in 0..L |-> ExpandedTo(i, file, m)]
             now == Expanded(v, r)
  <2>1. Merged(v, i) = now
    BY <1>6 DEF Merged
  <2>2. L \in Nat /\ DOMAIN files = 1..L /\ \A m \in DOMAIN files : files[m] \in Files
    BY SMTT(60), <1>0, <1>1, ListedFiles
  <2>3. [v EXCEPT !.configs = @ \cup {file}, !.partial = @ \/ ~Listed(file).whole]
          \in ExpandedTo(i, file, 0)
    BY <1>0, <1>6, BaseFits
  <2>4. ASSUME NEW m \in DOMAIN files, NEW w \in Merging
        PROVE  /\ Scheduled(w, r, files[m]) \in Merging
               /\ w \in ExpandedTo(i, file, m - 1)
                    => Scheduled(w, r, files[m]) \in ExpandedTo(i, file, m)
    <3>1. Scheduled(w, r, files[m]) \in Merging
      BY <1>0, <1>1, <2>2, ScheduledMerges
    <3>2. ASSUME w \in ExpandedTo(i, file, m - 1)
          PROVE  Scheduled(w, r, files[m]) \in ExpandedTo(i, file, m)
      <4>1. AllFound(asked, w) /\ w.batch = load.batch
        BY <3>2 DEF ExpandedTo, MergedSoFar, Merging
      <4>2. Rooted(asked, r, w.configs)
        BY <4>1 DEF AllFound
      <4> HIDE DEF r
      <4> QED
        BY <1>1, <3>2, <4>2, ScheduledFits DEF r
    <3> QED
      BY <3>1, <3>2
  <2>5. /\ W[0] = ExpandedTo(i, file, 0) /\ W[L] = ExpandedTo(i, file, L)
        /\ \A m \in 1..L : W[m - 1] = ExpandedTo(i, file, m - 1) /\ W[m] = ExpandedTo(i, file, m)
    <3>1. 0 \in 0..L /\ L \in 0..L /\ \A m \in 1..L : m \in 0..L /\ m - 1 \in 0..L
      BY <2>2
    <3> HIDE DEF L
    <3> QED
      BY <3>1
  <2>6. now \in ExpandedTo(i, file, L)
    <3> HIDE DEF W
    <3>1. ExpandedTo(i, file, 0) \subseteq Merging
      BY SMTT(60) DEF ExpandedTo
    <3>2. /\ [v EXCEPT !.configs = @ \cup {r.file}, !.partial = @ \/ ~Listed(r.file).whole]
               \in Merging \cap W[0]
          /\ \A m \in DOMAIN Listed(r.file).files : \A w \in Merging :
               /\ Scheduled(w, r, Listed(r.file).files[m]) \in Merging
               /\ w \in W[m - 1] => Scheduled(w, r, Listed(r.file).files[m]) \in W[m]
      BY <2>2, <2>3, <2>4, <2>5, <3>1
    <3>3. /\ Len(Listed(r.file).files) \in Nat
          /\ DOMAIN Listed(r.file).files = 1..Len(Listed(r.file).files)
      BY SMTT(60), <2>2
    <3>4. Expanded(v, r) \in W[Len(Listed(r.file).files)]
      BY <3>2, <3>3, ExpandedIn
    <3> QED
      BY <2>5, <3>4
  <2> HIDE DEF now
  <2>7. ASSUME ~now.partial PROVE FollowedBy(asked, now, now.configs)
    <3>1. /\ FollowedBy(asked, now, now.configs \ {file}) /\ Listed(file).whole
          /\ \A k \in 1..L : <<file, files[k]>> \in now.scheduled
      BY <2>6, <2>7 DEF ExpandedTo
    <3>2. \A g \in Includes(asked, file) : \E k \in 1..L : files[k] = g
      BY <1>0, <1>1, <3>1, WholeIsAll
    <3> HIDE DEF files, L, file
    <3>3. \A g \in Includes(asked, file) : <<file, g>> \in now.scheduled
      BY <3>1, <3>2
    <3> QED
      BY <3>1, <3>3 DEF FollowedBy
  <2>8. Sound(asked, now, i)
    BY <2>6, <2>7 DEF ExpandedTo, Sound
  <2> QED
    BY <1>3, <2>1, <2>6, <2>8 DEF ExpandedTo, MergedTo
<1> QED
  BY <1>4, <1>5, <1>6

LEMMA ExactMergeBatch == ASSUME ExactInv, MergeBatch PROVE ExactInv'
<1> DEFINE n == Len(load.batch)
           W == [i \in 0..n |-> MergedTo(i)]
<1>0. SourcesInv /\ SourcesInv' /\ load.pc = "reading" /\ UNCHANGED asked /\ load \in Load
  BY MergeBatchKeeps DEF ExactInv, SourcesInv, MergeBatch
<1>1. n \in Nat /\ DOMAIN load.batch = 1..n
  BY <1>0 DEF Load
<1>2. load \in Merging
  BY <1>0 DEF Merging, SourcesInv
<1>3. load \in MergedTo(0)
  BY <1>2 DEF MergedTo, MergedSoFar, ExactInv, Calm
<1>4. \A i \in 1..n : \A v \in Merging :
        Merged(v, i) \in Merging /\ (v \in MergedTo(i - 1) => Merged(v, i) \in MergedTo(i))
  BY <1>0, <1>1, MergedMerges, MergedFits
<1>5. /\ W[0] = MergedTo(0) /\ W[n] = MergedTo(n)
      /\ \A i \in 1..n : W[i - 1] = MergedTo(i - 1) /\ W[i] = MergedTo(i)
  <2>1. 0 \in 0..n /\ n \in 0..n /\ \A i \in 1..n : i \in 0..n /\ i - 1 \in 0..n
    BY <1>1
  <2> HIDE DEF n
  <2> QED
    BY <2>1
<1>6. PICK now \in MergedTo(n) :
        load' = [now EXCEPT !.pc = "batch", !.batch = <<>>, !.stage = <<>>, !.processed = @ + n]
  <2> HIDE DEF W
  <2>1. /\ load \in Merging \cap W[0] /\ Len(load.batch) \in Nat
        /\ \A i \in 1..Len(load.batch) : \A v \in Merging :
             Merged(v, i) \in Merging /\ (v \in W[i - 1] => Merged(v, i) \in W[i])
    BY <1>1, <1>2, <1>3, <1>4, <1>5
  <2>2. \E now \in Merging \cap W[Len(load.batch)] :
          load' = [now EXCEPT !.pc = "batch", !.batch = <<>>, !.stage = <<>>,
                              !.processed = @ + Len(load.batch)]
    BY <2>1, MergedIn
  <2> QED
    BY <1>5, <2>2
<1>7. /\ now \in Load /\ now.batch = load.batch /\ now.files = load.files
      /\ now.cached = load.cached /\ MergedSoFar(now) /\ Sound(asked, now, n)
  BY <1>6 DEF MergedTo, Merging
<1> HIDE DEF n
<1>8. /\ load'.pc = "batch" /\ load'.batch = <<>> /\ load'.stage = <<>>
      /\ load'.pending = now.pending /\ load'.configs = now.configs /\ load'.files = now.files
      /\ load'.cached = now.cached /\ load'.scheduled = now.scheduled
      /\ load'.partial = now.partial
  BY <1>6, <1>7 DEF Load
<1>9. DOMAIN <<>> = {}
  OBVIOUS
<1>10. AllFound(asked, load')
  BY <1>7, <1>8, <1>9 DEF MergedSoFar, AllFound
<1>11. Sound(asked, load', 0)
  <2> SUFFICES ASSUME ~now.partial PROVE Awaited(asked, load', 0)
    BY <1>7, <1>8 DEF Sound, FollowedBy
  <2>1. Awaited(asked, now, n)
    BY <1>7 DEF Sound
  <2>2. \A edge : ~Waits(now.batch, n, edge)
    BY <1>1, <1>7 DEF Waits
  <2> QED
    BY <1>8, <2>1, <2>2 DEF Awaited, Wanted, Answered
<1>12. StagesFit(asked, load')
  BY <1>8, <1>9 DEF StagesFit
<1>13. Calm(asked, load')
  BY <1>7, <1>8, <1>9 DEF MergedSoFar, Calm, ExactInv
<1> QED
  BY <1>0, <1>8, <1>10, <1>11, <1>12, <1>13 DEF ExactInv

LEMMA ExactNext == ASSUME ExactInv, [SourcesNext]_sourceVars PROVE ExactInv'
<1>1. CASE TakeBatch
  BY <1>1, ExactTakeBatch
<1>2. CASE MergeBatch
  BY <1>2, ExactMergeBatch
<1>3. CASE LoadDone
  BY <1>3, ExactLoadDone
<1>4. CASE \E i \in 1..Parallel :
             ReadProject(i) \/ ReadReference(i) \/ ReadCommit(i) \/ ReadFile(i)
  <2>1. PICK i \in 1..Parallel : ReadProject(i) \/ ReadReference(i) \/ ReadCommit(i) \/ ReadFile(i)
    BY <1>4
  <2> QED
    BY <2>1, ExactReadProject, ExactReadReference, ExactReadCommit, ExactReadFile
<1>5. CASE UNCHANGED sourceVars
  <2>1. asked' = asked /\ load' = load
    BY <1>5 DEF sourceVars
  <2>2. SourcesInv'
    BY <1>5, SourcesNextKeeps DEF ExactInv
  <2> QED
    BY <2>1, <2>2 DEF ExactInv
<1> QED
  BY <1>1, <1>2, <1>3, <1>4, <1>5 DEF SourcesNext

\* A report that calls itself complete has everything, at the commit.
LEMMA CompleteHasAll ==
    ASSUME ExactInv, load.pc = "done", ~load.partial PROVE load.configs = All(asked) /\ AllReadable(asked)
<1>1. asked \in Askable /\ load.pending = <<>> /\ load.batch = <<>> /\ DOMAIN <<>> = {}
  BY DEF ExactInv, SourcesInv, BatchInOrder
<1>2. /\ load.configs \cap Hurt(asked) = {} /\ load.configs \subseteq All(asked)
      /\ FollowedBy(asked, load, load.configs) /\ Awaited(asked, load, 0)
  BY DEF ExactInv, Sound, AllFound
<1>3. \A edge \in Wanted(asked, load) : Answered(asked, load, edge)
  BY <1>1, <1>2 DEF Awaited, Waits
<1>4. asked.entry.file \in load.configs /\ ~Hidden(asked, RootFile, asked.entry.file)
  <2>1. <<RootFile, asked.entry.file>> \in Wanted(asked, load)
    BY DEF Wanted
  <2> QED
    BY <1>3, <2>1 DEF Answered
<1>5. ASSUME NEW f \in load.configs, NEW g \in Includes(asked, f)
      PROVE  g \in load.configs /\ ~Hidden(asked, f, g)
  <2>1. <<f, g>> \in Wanted(asked, load)
    BY <1>2 DEF FollowedBy, Wanted
  <2>2. Answered(asked, load, <<f, g>>)
    BY <1>3, <2>1
  <2> QED
    BY <2>2 DEF Answered
<1>6. All(asked) \subseteq load.configs
  <2>1. {asked.entry.file} \in SUBSET Files /\ {asked.entry.file} \subseteq load.configs
    BY <1>1, <1>4, AskedParts
  <2>2. \A f \in load.configs : Includes(asked, f) \subseteq load.configs
    BY <1>5
  <2> QED
    BY <1>1, <2>1, <2>2, ReachIsLeast DEF All
<1>7. load.configs = All(asked)
  BY <1>2, <1>6
<1> QED
  BY <1>2, <1>4, <1>5, <1>7 DEF AllReadable

LEMMA ExactInvImplies == ExactInv => CompleteIsExact
<1> SUFFICES ASSUME ExactInv, load.pc = "done" PROVE CompleteIsExact
  BY DEF CompleteIsExact
<1> DEFINE entry == asked.entry
           all == Reached({entry.file})
           historical == entry.ref = "commit" /\ entry.setting = "default"
           hurt == asked.trouble.odd \cup asked.trouble.denied \cup Branched
           lost == { f \in Barred \cap External :
                       f = entry.file \/ \E e \in all \ External : f \in Included(e) }
           readable == all \cap (hurt \cup lost) = {}
           cyclic == \E f \in all : f \in Reached(Included(f))
           edges == { e \in all \X all : e[2] \in Included(e[1]) }
           lookups == { m \in Misses : m[1] \in all }
           limited == \/ Cardinality(all) > asked.limit
                      \/ Cardinality(all) > MaxIncludeDepth
                      \/ \E f \in all : Len(asked.includes[f]) > EdgeLimit
                      \/ Cardinality(edges) > EdgeLimit
                      \/ Cardinality(lookups) > RefCandidates
<1>1. all = All(asked) /\ hurt = Hurt(asked)
  BY ReachedIs DEF All, Hurt
<1>2. \A f : Included(f) = Includes(asked, f)
  BY DEF Included, Includes
<1>3. \A f : Reached(Included(f)) = Reach(asked, Includes(asked, f))
  BY <1>2, ReachedIs
<1>4. edges = Edges(asked) /\ lookups = Lookups(asked)
  <2> HIDE DEF all
  <2> QED
    BY <1>1, <1>2 DEF Edges, Lookups
<1>5. asked \in Askable /\ All(asked) \subseteq Files /\ IsFiniteSet(All(asked))
  BY AllOfALoad DEF ExactInv, SourcesInv
<1>6. entry.file \in All(asked) /\ RootFile \notin External /\ Barred = BarredIn(asked)
  BY <1>5, AllOfALoad, CiSourcesAssumption DEF Barred, BarredIn
<1> HIDE DEF all, hurt, edges, lookups
<1>7. readable <=> AllReadable(asked)
  <2>1. ASSUME AllReadable(asked) PROVE readable
    BY <1>1, <1>2, <1>6, <2>1 DEF AllReadable, Hidden
  <2>2. ASSUME readable PROVE AllReadable(asked)
    BY <1>1, <1>2, <1>6, <2>2 DEF AllReadable, Hidden
  <2> QED
    BY <2>1, <2>2
<1> HIDE DEF readable
<1>8. /\ load.notes = {} <=> historical
      /\ Enterable = Entered(asked)
  <2>1. load.notes = EntryNotes
    BY DEF ExactInv, SourcesInv, Limited
  <2>2. EntryNotes = {} <=> historical
    BY DEF EntryNotes
  <2> QED
    BY <2>1, <2>2 DEF Enterable, Entered
<1> HIDE DEF historical
<1>9. Complete => historical /\ readable /\ load.configs = all
  BY <1>1, <1>7, <1>8, CompleteHasAll DEF Complete
<1>10. ASSUME Enterable, readable, ~cyclic, ~limited
       PROVE  load.configs = all /\ (historical => Complete)
  <2>1. /\ Cardinality(All(asked)) \in Nat /\ Cardinality(Edges(asked)) \in Nat
        /\ asked.limit \in Nat /\ MaxIncludeDepth \in Nat /\ EdgeLimit \in Nat
        /\ Cardinality(Lookups(asked)) \in Nat /\ RefCandidates \in Nat
    <3>1. IsFiniteSet(Lookups(asked))
      BY CiSourcesAssumption, FS_Subset DEF Lookups
    <3> QED
      BY <1>5, <3>1, EdgesAreFinite, FS_CardinalityType, SourceNumbers
  <2>2. \A f \in All(asked) : Len(asked.includes[f]) \in Nat
    BY <1>5, IncludesFiles
  <2>3. \A f \in All(asked) : f \notin Reach(asked, Includes(asked, f))
    BY <1>1, <1>3, <1>10
  <2>4. /\ Cardinality(All(asked)) <= asked.limit /\ Cardinality(All(asked)) <= MaxIncludeDepth
        /\ Cardinality(Edges(asked)) <= EdgeLimit /\ Cardinality(Lookups(asked)) <= RefCandidates
    BY <1>1, <1>4, <1>10, <2>1
  <2>5. \A f \in All(asked) : Len(asked.includes[f]) <= EdgeLimit
    BY <1>1, <1>10, <2>1, <2>2
  <2>6. Clean(asked)
    BY <1>7, <1>8, <1>10, <2>3, <2>4, <2>5, LimitOfEdges DEF Clean
  <2>7. ~load.partial
    BY <2>6 DEF ExactInv, Calm
  <2> QED
    BY <1>1, <1>8, <2>7, CompleteHasAll DEF Complete
<1> QED
  BY <1>9, <1>10 DEF CompleteIsExact, all, hurt, edges, lookups, readable, historical

\* Whatever the entry point, the includes, the troubles and the limits are: a report that
\* calls itself complete is of the run's commit and the default entry point and has every
\* source that this includes, at the commit, and nothing else; and a partial one has a
\* reason, and if this is only the entry point, every source (_load_ci_sources).
THEOREM SourcesCompleteIsExact == SourcesSpec => []CompleteIsExact
<1>1. SourcesSpec => []ExactInv
  BY ExactInit, ExactNext, PTL DEF SourcesSpec
<1> QED
  BY <1>1, ExactInvImplies, PTL

-----------------------------------------------------------------------------
(* All of them side by side (Composition). *)

\* What is at rest stays at rest: none of its actions is enabled.
LEMMA SupervisorRests == SupervisorIdle /\ [SupervisorNext]_supervisorVars => SupervisorIdle'
<1> SUFFICES ASSUME SupervisorIdle, [SupervisorNext]_supervisorVars PROVE SupervisorIdle'
  OBVIOUS
<1>1. ~Supervise
  BY DEF SupervisorIdle, Supervise, Launch, Started, StartFails, AllStarted, Decide, Wake,
         Terminate, Kill, Return
<1>2. \A s \in Signals : ~RequestStop(s)
  BY DEF SupervisorIdle, RequestStop
<1>3. Children = {}
  BY DEF SupervisorIdle, Children
<1>4. \A i \in Services : ~End(i) /\ ~Reap(i)
  BY <1>3 DEF End, Reap
<1>5. UNCHANGED supervisorVars
  BY <1>1, <1>2, <1>4 DEF SupervisorNext
<1> QED
  BY <1>5 DEF supervisorVars, SupervisorIdle

LEMMA AgentRests == AgentIdle /\ [AgentNext]_agent => AgentIdle'
<1> SUFFICES ASSUME AgentIdle, [AgentNext]_agent PROVE AgentIdle'
  OBVIOUS
<1>1. agent.pc = "off"
  BY DEF AgentIdle, NotAsked
<1>2. ~AgentNext
  BY <1>1 DEF AgentNext, Chat, ReplyWithCalls, ReadEvidence, ToolError, ReadKnownSource,
              FetchSource, FetchNothing, ReplyMalformed, ReplyEmpty, ReplyWithAnswer, AgentStops
<1> QED
  BY <1>2 DEF AgentIdle

LEMMA IncidentsRest == IncidentsIdle /\ [IncidentsNext]_incidentVars => IncidentsIdle'
<1> SUFFICES ASSUME IncidentsIdle, [IncidentsNext]_incidentVars PROVE IncidentsIdle'
  OBVIOUS
<1>1. \A t \in Tasks : analyses[t].pc = "failed"
  BY DEF IncidentsIdle, Begun
<1>2. \A t \in Tasks : ~Analyse(t)
  BY <1>1 DEF Analyse, Fetch, Retrieve, Diagnose, Look, Write, WriteFails, At
<1>3. Deliveries \subseteq IncidentRequests
  BY IncidentsAssumption
<1>4. \A r \in IncidentRequests : ~Conclude(r) /\ ~Crash(r)
  BY DEF IncidentsIdle, Conclude, Crash, Answer, AnswerError, Retry
<1>5. \A i \in Incidents, said \in Feedbacks : ~Feedback(i, said)
  BY DEF IncidentsIdle, Feedback
<1>6. UNCHANGED incidentVars
  BY <1>2, <1>3, <1>4, <1>5 DEF IncidentsNext
<1> QED
  BY <1>6 DEF incidentVars, IncidentsIdle

LEMMA SourcesRest == SourcesIdle /\ [SourcesNext]_sourceVars => SourcesIdle'
<1> SUFFICES ASSUME SourcesIdle, [SourcesNext]_sourceVars PROVE SourcesIdle'
  OBVIOUS
<1>1. load.pc = "off"
  BY DEF SourcesIdle, NotLoading
<1>2. ~SourcesNext
  BY <1>1 DEF SourcesNext, TakeBatch, MergeBatch, LoadDone, ReadProject, ReadReference, ReadCommit,
                ReadFile, Reading
<1> QED
  BY <1>2 DEF sourceVars, SourcesIdle

LEMMA InspectionRests == InspectionIdle /\ [InspectionNext]_inspectionVars => InspectionIdle'
<1> SUFFICES ASSUME InspectionIdle, [InspectionNext]_inspectionVars PROVE InspectionIdle'
  OBVIOUS
<1>1. view.pc = "off"
  BY DEF InspectionIdle, NotInspecting
<1>2. ~JobEnds /\ ~JobRetried
  BY <1>1 DEF JobEnds, JobRetried, Followed
<1>3. ~Inspect
  BY <1>1 DEF Inspect, Stage, Mismatch, ReadProjectMetadata, ReadSelectedJob, ReadBranch, ReadRun,
              ReadJobs, ReadBridges, Choose, ReadSources, ReadContext, ReadTrace, Analyze,
              ChildUnavailable, ChildReadable, AtChild, Report
<1> QED
  BY <1>2, <1>3 DEF InspectionNext, inspectionVars, InspectionIdle

LEMMA RemediationRests == RemediationIdle /\ [RemediationNext]_repairVars => RemediationIdle'
<1> SUFFICES ASSUME RemediationIdle, [RemediationNext]_repairVars PROVE RemediationIdle'
  OBVIOUS
<1>1. repair.pc = "off" /\ repair.waiting = {} /\ repair.reading = {}
  BY DEF RemediationIdle, NotRepairing
<1>2. ~RemediationNext
  BY <1>1 DEF RemediationNext, Remediate, PlanReads, BeginFetch, FetchSucceeds, FetchFails,
              BuildPlans, RepairCancelled
<1> QED
  BY <1>2 DEF repairVars, RemediationIdle

\* A behaviour of all is, for each of them, one of it alone or none.
LEMMA StepsApart ==
    [ServicesNext]_servicesVars =>
      /\ [SupervisorNext]_supervisorVars /\ [AgentNext]_agent /\ [IncidentsNext]_incidentVars
      /\ [SourcesNext]_sourceVars /\ [InspectionNext]_inspectionVars /\ [RemediationNext]_repairVars
  BY DEF ServicesNext, servicesVars

LEMMA RunApart ==
    ServicesSpec =>
      /\ SupervisorSpec \/ []SupervisorIdle
      /\ AgentSpec \/ []AgentIdle
      /\ IncidentsSpec \/ []IncidentsIdle
      /\ SourcesSpec \/ []SourcesIdle
      /\ InspectionSpec \/ []InspectionIdle
      /\ RemediationSpec \/ []RemediationIdle
<1>1. ServicesSpec => SupervisorSpec \/ []SupervisorIdle
  BY StepsApart, SupervisorRests, PTL DEF ServicesSpec, ServicesInit, SupervisorSpec
<1>2. ServicesSpec => AgentSpec \/ []AgentIdle
  BY StepsApart, AgentRests, PTL DEF ServicesSpec, ServicesInit, AgentSpec
<1>3. ServicesSpec => IncidentsSpec \/ []IncidentsIdle
  BY StepsApart, IncidentsRest, PTL DEF ServicesSpec, ServicesInit, IncidentsSpec
<1>4. ServicesSpec => SourcesSpec \/ []SourcesIdle
  BY StepsApart, SourcesRest, PTL DEF ServicesSpec, ServicesInit, SourcesSpec
<1>5. ServicesSpec => InspectionSpec \/ []InspectionIdle
  BY StepsApart, InspectionRests, PTL DEF ServicesSpec, ServicesInit, InspectionSpec
<1>6. ServicesSpec => RemediationSpec \/ []RemediationIdle
  BY StepsApart, RemediationRests, PTL DEF ServicesSpec, ServicesInit, RemediationSpec
<1> QED
  BY <1>1, <1>2, <1>3, <1>4, <1>5, <1>6

\* At rest the types fit, and nothing that is promised is broken.
LEMMA RestTyped ==
    /\ SupervisorIdle => SupervisorTypeOK
    /\ AgentIdle => AgentTypeOK
    /\ IncidentsIdle => IncidentsTypeOK
    /\ SourcesIdle => SourcesTypeOK
    /\ InspectionIdle => InspectionTypeOK
    /\ RemediationIdle => RemediationTypeOK
<1>1. ASSUME SupervisorIdle PROVE SupervisorTypeOK
  BY <1>1, SupervisorAssumption DEF SupervisorIdle, SupervisorTypeOK, Children, Services
<1>2. ASSUME AgentIdle PROVE AgentTypeOK
  <2>1. NotAsked \in Agent
    BY BudgetsAreNumbers DEF NotAsked, Agent
  <2>2. NotAsked.sources = {} /\ NotAsked.calls = 0 /\ NotAsked.pending = 0 /\ NotAsked.reads = 0
    BY DEF NotAsked
  <2>3. Cardinality({} \ BundledPaths) = 0
    BY FS_EmptySet
  <2> QED
    BY <1>2, <2>1, <2>2, <2>3, BudgetsAreNumbers DEF AgentIdle, AgentTypeOK
<1>3. ASSUME IncidentsIdle PROVE IncidentsTypeOK
  <2>1. [Begun EXCEPT !.pc = "failed"] \in
           [pc : {"fetch", "retrieve", "diagnose", "look", "write", "saved", "failed"},
            history : SUBSET Incidents, summary : Diagnoses, seen : Diagnoses \cup {NoRow}]
    BY DEF Begun, Diagnoses
  <2> QED
    BY <1>3, <2>1, IncidentsAssumption DEF IncidentsIdle, IncidentsTypeOK
<1>4. ASSUME SourcesIdle PROVE SourcesTypeOK
  BY <1>4 DEF SourcesIdle, SourcesTypeOK, NotLoading
<1>5. ASSUME InspectionIdle PROVE InspectionTypeOK
  <2>1. ToSet(<<>>) = {}
    BY DEF ToSet
  <2>2. <<>> \in Seq(Jobs) /\ [j \in Jobs |-> "other"] \in [Jobs -> Outcomes]
    BY DEF Outcomes
  <2> QED
    BY <1>5, <2>1, <2>2 DEF InspectionIdle, NotInspecting, InspectionTypeOK
<1>6. ASSUME RemediationIdle PROVE RemediationTypeOK
  <2>1. UNION { repair.keys[i] : i \in DOMAIN repair.keys } = {} /\ repair.reading = {}
        /\ repair.pc = "off"
    BY <1>6 DEF RemediationIdle, NotRepairing
  <2>2. Cardinality({}) <= MaxConcurrentReads /\ Cardinality({}) <= MaxCandidateReads
    BY NoReads
  <2> QED
    BY <2>1, <2>2 DEF RemediationTypeOK
<1> QED
  BY <1>1, <1>2, <1>3, <1>4, <1>5, <1>6

\* Any of the supervisor, the agent, the analyses, a load, an inspection and its
\* proposals, under way at once in any interleaving of their steps, keep their types and
\* the budgets that are part of these (the composition that run services checks).
THEOREM ServicesTypeCorrect == ServicesSpec => []ServicesTypeOK
<1>1. ServicesSpec => []SupervisorTypeOK
  BY RunApart, RestTyped, SupervisorTypeCorrect, PTL
<1>2. ServicesSpec => []AgentTypeOK
  BY RunApart, RestTyped, AgentTypeCorrect, PTL
<1>3. ServicesSpec => []IncidentsTypeOK
  BY RunApart, RestTyped, IncidentsTypeCorrect, PTL
<1>4. ServicesSpec => []SourcesTypeOK
  BY RunApart, RestTyped, SourcesTypeCorrect, PTL
<1>5. ServicesSpec => []InspectionTypeOK
  BY RunApart, RestTyped, InspectionTypeCorrect, PTL
<1>6. ServicesSpec => []RemediationTypeOK
  BY RunApart, RestTyped, RemediationTypeCorrect, PTL
<1> QED
  BY <1>1, <1>2, <1>3, <1>4, <1>5, <1>6, PTL DEF ServicesTypeOK

LEMMA RestSafe ==
    /\ SupervisorIdle => NoServiceLeft /\ NeverSuccess
    /\ AgentIdle => CitesOnlyIssued /\ KeptPatchIsExact
    /\ IncidentsIdle => AnswerMeansSaved
    /\ SourcesIdle => CompleteIsExact
    /\ InspectionIdle => PassedIsProven /\ TracesWellSpent /\ SuccessNotOverridden
    /\ RemediationIdle => ProposalsAreExact /\ LacksAreNamed
<1>1. ASSUME SupervisorIdle PROVE NoServiceLeft /\ NeverSuccess
  BY <1>1 DEF SupervisorIdle, NoServiceLeft, NeverSuccess, Children
<1>2. ASSUME AgentIdle PROVE CitesOnlyIssued /\ KeptPatchIsExact
  BY <1>2 DEF AgentIdle, NotAsked, CitesOnlyIssued, KeptPatchIsExact
<1>3. ASSUME IncidentsIdle PROVE AnswerMeansSaved
  BY <1>3 DEF IncidentsIdle, AnswerMeansSaved
<1>4. ASSUME SourcesIdle PROVE CompleteIsExact
  BY <1>4 DEF SourcesIdle, NotLoading, CompleteIsExact
<1>5. ASSUME InspectionIdle PROVE PassedIsProven /\ TracesWellSpent /\ SuccessNotOverridden
  BY <1>5 DEF InspectionIdle, NotInspecting, PassedIsProven, TracesWellSpent, SuccessNotOverridden
<1>6. ASSUME RemediationIdle PROVE ProposalsAreExact /\ LacksAreNamed
  BY <1>6 DEF RemediationIdle, NotRepairing, ProposalsAreExact, LacksAreNamed
<1> QED
  BY <1>1, <1>2, <1>3, <1>4, <1>5, <1>6

\* Side by side they keep what each of them promises alone: no service is left and no
\* success reported; answers cite what was issued and patches are exact; an answer means
\* saved incidents and feedback stays; complete sources are exact; a pass is proven,
\* traces are well spent and a success stands; diffs are exact and lacks are named.
THEOREM ServicesKeepTheirPromises ==
    ServicesSpec =>
      /\ [](NoServiceLeft /\ NeverSuccess) /\ [](CitesOnlyIssued /\ KeptPatchIsExact)
      /\ []AnswerMeansSaved /\ FeedbackKept /\ []CompleteIsExact
      /\ [](PassedIsProven /\ TracesWellSpent /\ SuccessNotOverridden)
      /\ [](ProposalsAreExact /\ LacksAreNamed)
<1>1. ServicesSpec => [](NoServiceLeft /\ NeverSuccess)
  BY RunApart, RestSafe, SupervisorLeavesNone, SupervisorNeverSucceeds, PTL
<1>2. ServicesSpec => [](CitesOnlyIssued /\ KeptPatchIsExact)
  BY RunApart, RestSafe, AgentCitesOnlyIssued, AgentKeepsExactPatches, PTL
<1>3. ServicesSpec => []AnswerMeansSaved
  BY RunApart, RestSafe, IncidentsAnswerMeansSaved, PTL
<1>4. ServicesSpec => FeedbackKept
  <2>1. IncidentsIdle => (\A i \in Incidents : rows[i] = NoRow)
    BY DEF IncidentsIdle
  <2>2. IncidentsIdle =>
          [ \A i \in Incidents :
              rows[i] # NoRow =>
                /\ rows'[i] # NoRow
                /\ (rows'[i].status # rows[i].status \/ rows'[i].text # rows[i].text) => UNCHANGED analyses
          ]_incidentVars
    BY <2>1
  <2>3. []IncidentsIdle => FeedbackKept
    BY <2>2, PTL DEF FeedbackKept
  <2> QED
    BY <2>3, RunApart, IncidentsKeepFeedback, PTL
<1>5. ServicesSpec => []CompleteIsExact
  BY RunApart, RestSafe, SourcesCompleteIsExact, PTL
<1>6. ServicesSpec => [](PassedIsProven /\ TracesWellSpent /\ SuccessNotOverridden)
  BY RunApart, RestSafe, PassedProven, TracesSpent, SuccessKept, PTL
<1>7. ServicesSpec => [](ProposalsAreExact /\ LacksAreNamed)
  BY RunApart, RestSafe, RemediationProposesExact, RemediationNamesLacks, PTL
<1> QED
  BY <1>1, <1>2, <1>3, <1>4, <1>5, <1>6, <1>7

-----------------------------------------------------------------------------
(* How much the supervisor may still do.                                       *)

Running == { i \in Services : ended[i] = None }
Unreaped == Services \ reaped

SupervisionLeft ==
    CASE pc = "launch" -> 2 * (N - started) + 5
      [] pc = "starting" -> 2 * (N - started) + 4
      [] pc = "wait" -> 4
      [] pc = "terminate" -> 3
      [] pc = "grace" -> 2
      [] pc = "gather" -> 1
      [] OTHER -> 0

\* What is left for the supervisor and its services: the first signal, the end of each
\* service and its reaping, and the steps of the supervision.
SupervisorLeft ==
    (IF requested = None THEN 1 ELSE 0) + Cardinality(Running) + Cardinality(Unreaped)
      + SupervisionLeft

LEMMA ServicesCounted ==
    /\ IsFiniteSet(Services) /\ Cardinality(Services) = N
    /\ \A S \in SUBSET Services : IsFiniteSet(S) /\ Cardinality(S) \in 0..N
<1>1. IsFiniteSet(Services) /\ Cardinality(Services) = N
  BY SupervisorAssumption, FS_Interval DEF Services
<1> QED
  BY <1>1, FS_Subset, FS_CardinalityType, SupervisorAssumption

LEMMA SupervisorParts ==
    ASSUME SupervisorInv
    PROVE  /\ SupervisorLeft = (IF requested = None THEN 1 ELSE 0) + Cardinality(Running)
                                 + Cardinality(Unreaped) + SupervisionLeft
           /\ Cardinality(Running) \in 0..N /\ Cardinality(Unreaped) \in 0..N
           /\ SupervisionLeft \in 0..(2 * N + 5)
<1>1. Running \in SUBSET Services /\ Unreaped \in SUBSET Services
  BY DEF Running, Unreaped
<1>2. Cardinality(Running) \in 0..N /\ Cardinality(Unreaped) \in 0..N
  BY <1>1, ServicesCounted
<1>3. SupervisionLeft \in 0..(2 * N + 5)
  BY SupervisorAssumption DEF SupervisorInv, SupervisorTypeOK, SupervisionLeft
<1> QED
  BY <1>2, <1>3 DEF SupervisorLeft

LEMMA SupervisorLeftBounded == ASSUME SupervisorInv PROVE SupervisorLeft \in 0..(4 * N + 6)
  BY SupervisorParts, SupervisorAssumption

\* Each step leaves less to do, but for a signal after the first.
LEMMA SupervisorGoesOn ==
    ASSUME SupervisorInv, SupervisorInv', [SupervisorNext]_supervisorVars,
           ~UNCHANGED supervisorVars
    PROVE  SupervisorLeft' < SupervisorLeft
<1> DEFINE Unsignalled == IF requested = None THEN 1 ELSE 0
<1>1. /\ SupervisorLeft = Unsignalled + Cardinality(Running) + Cardinality(Unreaped) + SupervisionLeft
      /\ Cardinality(Running) \in 0..N /\ Cardinality(Unreaped) \in 0..N
      /\ SupervisionLeft \in 0..(2 * N + 5)
  BY SupervisorParts
<1>2. /\ SupervisorLeft' = Unsignalled' + Cardinality(Running') + Cardinality(Unreaped') + SupervisionLeft'
      /\ Cardinality(Running') \in 0..N /\ Cardinality(Unreaped') \in 0..N
      /\ SupervisionLeft' \in 0..(2 * N + 5)
  <2>1. (SupervisorInv =>
           /\ SupervisorLeft = Unsignalled + Cardinality(Running) + Cardinality(Unreaped) + SupervisionLeft
           /\ Cardinality(Running) \in 0..N /\ Cardinality(Unreaped) \in 0..N
           /\ SupervisionLeft \in 0..(2 * N + 5))'
    BY SupervisorParts, PTL
  <2> QED
    BY <2>1
<1>3. IsFiniteSet(Running) /\ IsFiniteSet(Unreaped) /\ Unsignalled \in {0, 1} /\ Unsignalled' \in {0, 1}
  BY ServicesCounted DEF Running, Unreaped
<1>4. ASSUME NEW s \in Signals, RequestStop(s) PROVE SupervisorLeft' < SupervisorLeft
  <2>1. UNCHANGED <<pc, status, started, told, ended, reaped>> /\ requested' = First(s)
    BY <1>4 DEF RequestStop
  <2>2. requested = None /\ requested' = s /\ s # None
    BY <2>1, SupervisorAssumption DEF First, supervisorVars
  <2>3. UNCHANGED Running /\ UNCHANGED Unreaped /\ UNCHANGED SupervisionLeft
    BY <2>1 DEF Running, Unreaped, SupervisionLeft
  <2>4. Unsignalled = 1 /\ Unsignalled' = 0
    BY <2>2
  <2> HIDE DEF Unsignalled
  <2> QED
    BY <1>1, <1>2, <2>3, <2>4, SupervisorAssumption
<1>5. ASSUME NEW i \in Services, End(i) PROVE SupervisorLeft' < SupervisorLeft
  <2>1. PICK code \in IF told[i] = "kill" THEN {-SIGKILL} ELSE Codes :
               ended' = [ended EXCEPT ![i] = code]
    BY <1>5 DEF End
  <2>2. code # None /\ ended[i] = None
    BY <1>5, SupervisorAssumption DEF SIGKILL, End
  <2>3. Running' = Running \ {i} /\ i \in Running
    BY <2>1, <2>2 DEF Running, SupervisorInv, SupervisorTypeOK
  <2>4. Cardinality(Running') = Cardinality(Running) - 1
    BY <1>3, <2>3, FS_RemoveElement
  <2>5. UNCHANGED Unreaped /\ UNCHANGED SupervisionLeft /\ UNCHANGED Unsignalled
    BY <1>5 DEF End, Unreaped, SupervisionLeft
  <2> HIDE DEF Unsignalled
  <2> QED
    BY <1>1, <1>2, <1>3, <2>4, <2>5, SupervisorAssumption
<1>6. ASSUME NEW i \in Services, Reap(i) PROVE SupervisorLeft' < SupervisorLeft
  <2>1. Unreaped' = Unreaped \ {i} /\ i \in Unreaped
    BY <1>6 DEF Reap, Unreaped
  <2>2. Cardinality(Unreaped') = Cardinality(Unreaped) - 1
    BY <1>3, <2>1, FS_RemoveElement
  <2>3. UNCHANGED Running /\ UNCHANGED SupervisionLeft /\ UNCHANGED Unsignalled
    BY <1>6 DEF Reap, Running, SupervisionLeft
  <2> HIDE DEF Unsignalled
  <2> QED
    BY <1>1, <1>2, <1>3, <2>2, <2>3, SupervisorAssumption
<1>7. ASSUME Supervise PROVE SupervisorLeft' < SupervisorLeft
  <2>1. UNCHANGED Running /\ UNCHANGED Unreaped /\ UNCHANGED Unsignalled
    BY <1>7 DEF Supervise, Launch, Started, StartFails, AllStarted, Decide, Terminate, Kill, Return,
                Running, Unreaped
  <2>2. SupervisionLeft' < SupervisionLeft
    <3>1. started \in 0..N /\ (pc = "starting" => started < N) /\ N \in Nat
      BY SupervisorAssumption DEF SupervisorInv, SupervisorTypeOK
    <3>2. CASE Launch
      BY <3>1, <3>2 DEF Launch, More, Stop, SupervisionLeft
    <3>3. CASE Started
      BY <3>1, <3>3 DEF Started, SupervisionLeft
    <3>4. CASE StartFails
      BY <3>1, <3>4 DEF StartFails, Stop, SupervisionLeft
    <3>5. CASE AllStarted
      BY <3>1, <3>5 DEF AllStarted, SupervisionLeft
    <3>6. CASE Decide
      BY <3>6 DEF Decide, Wake, Stop, SupervisionLeft
    <3>7. CASE Terminate \/ Kill \/ Return
      BY <3>7 DEF Terminate, Kill, Return, SupervisionLeft
    <3> QED
      BY <1>7, <3>2, <3>3, <3>4, <3>5, <3>6, <3>7 DEF Supervise
  <2> HIDE DEF Unsignalled
  <2> QED
    BY <1>1, <1>2, <1>3, <2>1, <2>2, SupervisorAssumption
<1> QED
  BY <1>4, <1>5, <1>6, <1>7 DEF SupervisorNext

\* For any number of services, however they end and whatever signals come: the supervisor
\* and its services take a bounded number of steps, four for each service and six more, since
\* each leaves less to do (container_runtime.py, _supervise and _stop_children).
THEOREM SupervisorWindsDown ==
    SupervisorSpec => /\ [](SupervisorLeft \in 0..(4 * N + 6))
                      /\ [][SupervisorLeft' < SupervisorLeft]_supervisorVars
<1>1. SupervisorInv /\ SupervisorInv' /\ [SupervisorNext]_supervisorVars
        => [SupervisorLeft' < SupervisorLeft]_supervisorVars
  BY SupervisorGoesOn
<1> QED
  BY <1>1, SupervisorInitKeeps, SupervisorNextKeeps, SupervisorLeftBounded, PTL DEF SupervisorSpec

-----------------------------------------------------------------------------
(* How much the agent and the analyses may still do.                           *)

WithinTurn ==
    CASE agent.pc = "chat" -> 1
      [] agent.pc = "reply" -> CallsPerReply + 2
      [] agent.pc = "tools" -> 1 + agent.pending
      [] OTHER -> 0

\* What is left for the conversation: each turn is a request, its reply and the calls of it.
AgentLeft == (MaxTurns - agent.turns) * (CallsPerReply + 2) + WithinTurn

LEMMA LessTimes ==
    ASSUME NEW a \in Nat, NEW b \in Nat, NEW c \in Nat, a < b
    PROVE  a * c \in Nat /\ b * c \in Nat /\ a * c + c <= b * c
<1>1. PICK d \in Nat : b = a + 1 + d
  <2>1. b - a - 1 \in Nat /\ b = a + 1 + (b - a - 1)
    OBVIOUS
  <2> QED
    BY <2>1
<1>2. a * c \in Nat /\ d * c \in Nat
  OBVIOUS
<1>3. b * c = a * c + c + d * c
  BY <1>1
<1> QED
  BY <1>2, <1>3

LEMMA AgentLeftIs ==
    ASSUME agent \in Agent
    PROVE  /\ (MaxTurns - agent.turns) * (CallsPerReply + 2) \in 0..(MaxTurns * (CallsPerReply + 2))
           /\ WithinTurn \in 0..(CallsPerReply + 2)
           /\ AgentLeft = (MaxTurns - agent.turns) * (CallsPerReply + 2) + WithinTurn
<1> DEFINE left == MaxTurns - agent.turns
           c == CallsPerReply + 2
<1>1. left \in 0..MaxTurns /\ c \in Nat /\ MaxTurns \in Nat /\ CallsPerReply \in Nat
      /\ agent.pending \in 0..CallsPerReply
  BY BudgetsAreNumbers DEF Agent
<1>2. AgentLeft = left * c + WithinTurn
  BY DEF AgentLeft
<1>3. WithinTurn \in 0..(CallsPerReply + 2)
  BY <1>1 DEF WithinTurn
<1> HIDE DEF left, c
<1>4. left * c \in 0..(MaxTurns * c)
  <2>1. CASE left = MaxTurns
    BY <1>1, <2>1
  <2>2. CASE left < MaxTurns
    BY <1>1, <2>2, LessTimes
  <2> QED
    BY <1>1, <2>1, <2>2
<1> QED
  BY <1>2, <1>3, <1>4 DEF left, c

\* A step within a turn.
LEMMA WithinTurnLess ==
    ASSUME agent \in Agent, agent' \in Agent, agent'.turns = agent.turns, WithinTurn' < WithinTurn
    PROVE  AgentLeft' < AgentLeft
<1>1. (agent \in Agent => /\ (MaxTurns - agent.turns) * (CallsPerReply + 2) \in 0..(MaxTurns * (CallsPerReply + 2))
                          /\ WithinTurn \in 0..(CallsPerReply + 2)
                          /\ AgentLeft = (MaxTurns - agent.turns) * (CallsPerReply + 2) + WithinTurn)'
  BY AgentLeftIs, PTL
<1> DEFINE product == (MaxTurns - agent.turns) * (CallsPerReply + 2)
<1>2. /\ product \in Int /\ WithinTurn \in Int /\ AgentLeft = product + WithinTurn
      /\ WithinTurn' \in Int /\ AgentLeft' = product + WithinTurn'
  BY <1>1, AgentLeftIs, BudgetsAreNumbers
<1>3. ASSUME NEW p \in Int, NEW a \in Int, NEW b \in Int, a < b PROVE p + a < p + b
  BY <1>3
<1> HIDE DEF product
<1>4. product + WithinTurn' < product + WithinTurn
  BY <1>2, <1>3
<1> QED
  BY <1>2, <1>4, Zenon

LEMMA AgentGoesOn ==
    ASSUME AgentInv, AgentInv', AgentNext
    PROVE  AgentLeft' < AgentLeft
<1>1. /\ agent \in Agent /\ agent' \in Agent /\ MaxTurns \in Nat /\ CallsPerReply \in Nat
      /\ agent.turns \in 0..MaxTurns /\ agent.pending \in 0..CallsPerReply
  BY BudgetsAreNumbers DEF AgentInv, Agent
<1>2. ASSUME Chat PROVE AgentLeft' < AgentLeft
  <2> DEFINE left == MaxTurns - agent.turns
             c == CallsPerReply + 2
  <2>1. /\ agent.pc = "chat" /\ agent'.pc = "reply" /\ agent'.turns = agent.turns + 1
        /\ agent.turns < MaxTurns
    BY <1>1, <1>2 DEF Chat, Agent, AgentInv, TurnLeft
  <2>2. AgentLeft = left * c + 1 /\ AgentLeft' = (left - 1) * c + c
    BY <2>1, <1>1 DEF AgentLeft, WithinTurn
  <2>3. left \in Nat /\ left - 1 \in Nat /\ c \in Nat
    BY <1>1, <2>1
  <2> HIDE DEF left, c
  <2>4. (left - 1) * c \in Nat /\ left * c \in Nat /\ (left - 1) * c + c <= left * c
    BY <2>3, LessTimes
  <2> QED
    BY <2>2, <2>3, <2>4
<1>3. ASSUME ReplyWithCalls PROVE AgentLeft' < AgentLeft
  <2>1. agent.pc = "reply" /\ agent'.pc = "tools" /\ agent'.turns = agent.turns
        /\ agent'.pending \in 1..CallsPerReply
    BY <1>1, <1>3 DEF ReplyWithCalls, Agent
  <2> QED
    BY <1>1, <2>1, WithinTurnLess DEF WithinTurn
<1>4. ASSUME NEW id, NEW changes \in Agent, CallDone(id, changes), agent.pc = "tools",
             changes.turns = agent.turns, changes.pending = agent.pending
      PROVE  AgentLeft' < AgentLeft
  <2> DEFINE place == IF agent.pending = 1 THEN "chat" ELSE "tools"
  <2>1. PICK length \in 0..1 :
          agent' = [changes EXCEPT !.pc = place, !.pending = @ - 1, !.calls = @ + 1,
                                   !.chars = @ + length, !.evidence = @ \cup id]
    BY <1>4 DEF CallDone
  <2>2. /\ agent'.pc = place /\ agent'.pending = agent.pending - 1 /\ agent'.turns = agent.turns
    BY <1>4, <2>1 DEF Agent
  <2>3. agent.pending > 0
    BY <1>4 DEF AgentInv, CallsLeft
  <2>4. WithinTurn' < WithinTurn
    BY <1>1, <1>4, <2>2, <2>3 DEF WithinTurn
  <2> QED
    BY <1>1, <2>2, <2>4, WithinTurnLess
<1>5. ASSUME ReadEvidence \/ ToolError PROVE AgentLeft' < AgentLeft
  BY <1>1, <1>4, <1>5 DEF ReadEvidence, ToolError
<1>6. ASSUME ReadKnownSource PROVE AgentLeft' < AgentLeft
  <2>1. PICK path \in KnownPaths \cap (agent.sources \cup BundledPaths), shown \in BOOLEAN :
          CallDone(Shown(path, shown), [agent EXCEPT !.sources = @ \cup {path}])
    BY <1>6 DEF ReadKnownSource
  <2> DEFINE changes == [agent EXCEPT !.sources = @ \cup {path}]
  <2>2. path \in Paths
    BY AgentAssumption
  <2>3. changes \in Agent /\ changes.turns = agent.turns /\ changes.pending = agent.pending
    BY <1>1, <2>2 DEF Agent
  <2> QED
    BY <1>4, <1>6, <2>1, <2>3 DEF ReadKnownSource
<1>7. ASSUME FetchSource PROVE AgentLeft' < AgentLeft
  <2>1. PICK path \in Paths, shown \in BOOLEAN :
          /\ MayFetch(path)
          /\ CallDone(Shown(path, shown), [agent EXCEPT !.sources = @ \cup {path}, !.reads = @ + 1])
    BY <1>7 DEF FetchSource
  <2> DEFINE changes == [agent EXCEPT !.sources = @ \cup {path}, !.reads = @ + 1]
  <2>2. agent.reads + 1 \in 0..MaxSourceReads
    BY <1>1, <2>1, BudgetsAreNumbers DEF MayFetch, Agent
  <2>3. changes \in Agent /\ changes.turns = agent.turns /\ changes.pending = agent.pending
    BY <1>1, <2>2 DEF Agent
  <2> QED
    BY <1>4, <1>7, <2>1, <2>3 DEF FetchSource
<1>8. ASSUME FetchNothing PROVE AgentLeft' < AgentLeft
  <2> DEFINE changes == [agent EXCEPT !.reads = @ + 1]
  <2>1. CallDone({}, changes) /\ agent.pc = "tools" /\ \E path \in Paths : MayFetch(path)
    BY <1>8 DEF FetchNothing
  <2>2. agent.reads + 1 \in 0..MaxSourceReads
    BY <1>1, <2>1, BudgetsAreNumbers DEF MayFetch, Agent
  <2>3. changes \in Agent /\ changes.turns = agent.turns /\ changes.pending = agent.pending
    BY <1>1, <2>2 DEF Agent
  <2> QED
    BY <1>4, <2>1, <2>3
<1>9. ASSUME agent.pc \in {"reply", "tools"}, agent'.pc \in {"chat", "answered", "none"},
             agent'.turns = agent.turns
      PROVE  AgentLeft' < AgentLeft
  <2>1. agent.pc = "tools" => agent.pending > 0
    BY DEF AgentInv, CallsLeft
  <2>2. CallsPerReply > 0
    BY BudgetsAreNumbers
  <2>3. WithinTurn' < WithinTurn
    BY <1>1, <1>9, <2>1, <2>2 DEF WithinTurn
  <2> QED
    BY <1>1, <1>9, <2>3, WithinTurnLess
<1>10. ASSUME Fails PROVE agent'.pc = "none" /\ agent'.turns = agent.turns
  BY <1>1, <1>10 DEF Fails, Agent
<1>11. ASSUME Repair PROVE agent'.pc \in {"chat", "none"} /\ agent'.turns = agent.turns
  BY <1>1, <1>10, <1>11 DEF Repair, Agent
<1>12. ASSUME ReplyMalformed \/ ReplyEmpty \/ AgentStops PROVE AgentLeft' < AgentLeft
  BY <1>9, <1>10, <1>11, <1>12 DEF ReplyMalformed, ReplyEmpty, AgentStops
<1>13. ASSUME ReplyWithAnswer PROVE AgentLeft' < AgentLeft
  <2>1. agent.pc = "reply" /\ (Repair \/ (agent'.pc = "answered" /\ agent'.turns = agent.turns))
    BY <1>1, <1>13 DEF ReplyWithAnswer, Agent
  <2> QED
    BY <1>9, <1>11, <2>1
<1> QED
  BY <1>2, <1>3, <1>5, <1>6, <1>7, <1>8, <1>12, <1>13 DEF AgentNext

\* Whatever the model replies, the conversation takes a bounded number of steps, one for
\* each call and two for each turn, repairs included, since each leaves less to do
\* (services/agent.py, _Loop.run). With its timeouts it therefore ends.
THEOREM AgentWindsDown ==
    AgentSpec => /\ [](AgentLeft \in 0..(MaxTurns * (CallsPerReply + 2) + 1))
                 /\ [][AgentLeft' < AgentLeft]_agent
<1> DEFINE bound == MaxTurns * (CallsPerReply + 2) + 1
           Bounded1 == AgentLeft <= bound
<1>1. bound \in Nat
  BY BudgetsAreNumbers, LessTimes
<1>2. AgentInit => Bounded1
  <2> SUFFICES ASSUME AgentInit PROVE AgentLeft <= bound
    OBVIOUS
  <2>1. agent.pc = "chat" /\ agent.turns = 0
    BY DEF AgentInit, NotAsked
  <2>2. AgentLeft = MaxTurns * (CallsPerReply + 2) + 1
    BY <2>1, BudgetsAreNumbers DEF AgentLeft, WithinTurn
  <2> QED
    BY <1>1, <2>2
<1>3. AgentInv => AgentLeft \in Nat
  <2> SUFFICES ASSUME AgentInv PROVE AgentLeft \in Nat
    OBVIOUS
  <2> DEFINE product == (MaxTurns - agent.turns) * (CallsPerReply + 2)
             most == MaxTurns * (CallsPerReply + 2)
  <2>1. product \in 0..most /\ WithinTurn \in Nat /\ AgentLeft = product + WithinTurn
    BY AgentLeftIs, BudgetsAreNumbers DEF AgentInv
  <2> HIDE DEF product, most
  <2> QED
    BY <2>1
<1>4. AgentInv /\ AgentInv' /\ [AgentNext]_agent => [AgentLeft' < AgentLeft]_agent
  BY AgentGoesOn
<1>5. (AgentLeft \in Nat) /\ (AgentLeft \in Nat)' /\ Bounded1 /\ [AgentLeft' < AgentLeft]_agent => Bounded1'
  <2> SUFFICES ASSUME AgentLeft \in Nat, AgentLeft' \in Nat, AgentLeft <= bound,
                      [AgentLeft' < AgentLeft]_agent
               PROVE  AgentLeft' <= bound
    OBVIOUS
  <2>1. UNCHANGED agent => AgentLeft' = AgentLeft
    BY DEF AgentLeft, WithinTurn
  <2> HIDE DEF bound
  <2> QED
    BY <1>1, <2>1
<1>6. AgentLeft \in Nat /\ Bounded1 => AgentLeft \in 0..bound
  <2> HIDE DEF bound
  <2> QED
    BY <1>1
<1> HIDE DEF Bounded1
<1>7. AgentSpec => [](AgentLeft \in Nat)
  BY <1>3, AgentInvariant, PTL
<1>8. AgentSpec => [][AgentLeft' < AgentLeft]_agent
  BY <1>4, AgentInvariant, PTL DEF AgentSpec
<1>9. AgentSpec => []Bounded1
  BY <1>2, <1>5, <1>7, <1>8, PTL DEF AgentSpec
<1> QED
  BY <1>6, <1>7, <1>8, <1>9, PTL

-----------------------------------------------------------------------------
\* How far an analysis is from its end, and what its delivery may still be begun for.
Distance(place) ==
    CASE place = "fetch" -> 5
      [] place = "retrieve" -> 4
      [] place = "diagnose" -> 3
      [] place = "look" -> 2
      [] place = "write" -> 1
      [] OTHER -> 0

RestartsLeft(t) ==
    IF InApi(t) THEN 0 ELSE MaxRetries + 1 - tries[t[1]] + MaxCrashes - crashes

AnalysisLeft(t) == 6 * RestartsLeft(t) + Distance(analyses[t].pc)

LEMMA DistanceRange == \A place : Distance(place) \in 0..5
  BY DEF Distance

LEMMA RestartsRange ==
    ASSUME HistoryTyped, NEW t \in Tasks
    PROVE  RestartsLeft(t) \in 0..(MaxRetries + 1 + MaxCrashes)
<1>1. MaxRetries \in Nat /\ MaxCrashes \in Nat
  BY IncidentsAssumption
<1>2. crashes \in 0..MaxCrashes
  BY DEF HistoryTyped
<1>3. CASE InApi(t)
  BY <1>1, <1>3 DEF RestartsLeft
<1>4. CASE ~InApi(t)
  <2>1. tries[t[1]] \in 0..(MaxRetries + 1)
    BY <1>4 DEF InApi, HistoryTyped
  <2> QED
    BY <1>1, <1>2, <1>4, <2>1 DEF RestartsLeft
<1> QED
  BY <1>3, <1>4

\* An analysis is restarted only for a failed attempt or a crash.
LEMMA AnalysisGoesOn ==
    ASSUME IncidentsInv, HistoryTyped, HistoryTyped', NEW t \in Tasks, IncidentsNext,
           analyses'[t] # analyses[t]
    PROVE  AnalysisLeft(t)' < AnalysisLeft(t)
<1> DEFINE here == RestartsLeft(t)
           there == RestartsLeft(t)'
           near == Distance(analyses[t].pc)
           far == Distance(analyses'[t].pc)
<1>1. /\ AnalysisLeft(t) = 6 * here + near /\ AnalysisLeft(t)' = 6 * there + far
      /\ near \in 0..5 /\ far \in 0..5
  BY DistanceRange DEF AnalysisLeft
<1>2. here \in Nat /\ there \in Nat /\ MaxRetries \in Nat /\ MaxCrashes \in Nat
  <2>1. MaxRetries \in Nat /\ MaxCrashes \in Nat
    BY IncidentsAssumption
  <2>2. here \in 0..(MaxRetries + 1 + MaxCrashes)
    BY RestartsRange
  <2>3. (HistoryTyped => RestartsLeft(t) \in 0..(MaxRetries + 1 + MaxCrashes))'
    BY RestartsRange, PTL
  <2> QED
    BY <2>1, <2>2, <2>3
<1>3. AnalysesTyped /\ analyses[t] \in Analysis
  BY DEF IncidentsInv, AnalysesTyped
<1>4. ASSUME there = here, far < near PROVE AnalysisLeft(t)' < AnalysisLeft(t)
  <2> HIDE DEF here, there, near, far
  <2> QED
    BY <1>1, <1>2, <1>4
<1>5. ASSUME there < here PROVE AnalysisLeft(t)' < AnalysisLeft(t)
  <2> HIDE DEF here, there, near, far
  <2> QED
    BY <1>1, <1>2, <1>5
<1>6. ASSUME NEW u \in Tasks, Analyse(u) PROVE AnalysisLeft(t)' < AnalysisLeft(t)
  <2>1. PICK changes : Becomes(u, changes)
    BY <1>6, Zenon DEF Analyse, Fetch, Retrieve, Diagnose, Look, Write, WriteFails
  <2>2. u = t /\ UNCHANGED <<tries, crashes>>
    BY <1>3, <2>1 DEF Becomes, AnalysesTyped
  <2>3. there = here
    BY <2>2 DEF RestartsLeft
  <2>4. far < near
    <3>1. CASE Fetch(t)
      <4>1. PICK place \in {"retrieve", "failed"} : Becomes(t, [analyses[t] EXCEPT !.pc = place])
        BY <3>1 DEF Fetch
      <4>4. analyses'[t].pc = place /\ analyses[t].pc = "fetch"
        BY <1>3, <3>1, <4>1 DEF Fetch, At, Becomes, AnalysesTyped, Analysis
      <4> QED
        BY <4>4 DEF Distance
    <3>2. CASE Retrieve(t)
      <4>1. analyses'[t].pc = "diagnose" /\ analyses[t].pc = "retrieve"
        BY <1>3, <3>2 DEF Retrieve, At, Becomes, AnalysesTyped, Analysis
      <4> QED
        BY <4>1 DEF Distance
    <3>3. CASE Diagnose(t)
      <4>1. PICK cited :
              Becomes(t, IF Grounded(cited, analyses[t].history)
                         THEN [Begun EXCEPT !.pc = "look", !.summary = <<"model", t>>]
                         ELSE [Begun EXCEPT !.pc = "look"])
        BY <3>3 DEF Diagnose
      <4> DEFINE drawn == IF Grounded(cited, analyses[t].history)
                          THEN [Begun EXCEPT !.pc = "look", !.summary = <<"model", t>>]
                          ELSE [Begun EXCEPT !.pc = "look"]
      <4>2. <<"model", t>> \in Diagnoses /\ "look" \in Pcs
        BY DEF Diagnoses, Pcs
      <4>3. Becomes(t, drawn) /\ drawn.pc = "look"
        BY <4>1, <4>2, FreshIsTyped, BegunIsTyped
      <4> HIDE DEF drawn
      <4>4. analyses'[t].pc = "look" /\ analyses[t].pc = "diagnose"
        BY <1>3, <3>3, <4>3 DEF Diagnose, At, Becomes, AnalysesTyped
      <4> QED
        BY <4>4 DEF Distance
    <3>4. CASE Look(t)
      <4> DEFINE seen == IF rows[t[2]] = NoRow THEN NoRow ELSE rows[t[2]].summary
      <4>1. Becomes(t, [analyses[t] EXCEPT !.pc = "write", !.seen = seen])
        BY <3>4 DEF Look
      <4> HIDE DEF seen
      <4>4. analyses'[t].pc = "write" /\ analyses[t].pc = "look"
        BY <1>3, <3>4, <4>1 DEF Look, At, Becomes, AnalysesTyped, Analysis
      <4> QED
        BY <4>4 DEF Distance
    <3>5. CASE Write(t) \/ WriteFails(t)
      <4>1. analyses'[t].pc \in {"saved", "failed"} /\ analyses[t].pc = "write"
        BY <1>3, <3>5 DEF Write, WriteFails, Begun, At, Becomes, AnalysesTyped
      <4> QED
        BY <4>1 DEF Distance
    <3> QED
      BY <1>6, <2>2, <3>1, <3>2, <3>3, <3>4, <3>5 DEF Analyse
  <2> HIDE DEF here, there, near, far
  <2> QED
    BY <1>4, <2>3, <2>4
<1>7. ASSUME NEW r \in Deliveries, Retry(r) PROVE AnalysisLeft(t)' < AnalysisLeft(t)
  <2>1. /\ tries' = [tries EXCEPT ![r] = @ + 1] /\ UNCHANGED crashes
        /\ analyses' = Restarted(r) /\ tries[r] < MaxRetries
    BY <1>7 DEF Retry
  <2>2. t[1] = r /\ ~InApi(t)
    BY <1>3, <1>7, <2>1 DEF Restarted, AnalysesTyped, InApi
  <2>3. tries[r] \in Nat /\ crashes \in Nat /\ tries'[r] = tries[r] + 1
    BY <1>2, <2>1 DEF HistoryTyped
  <2>4. there < here
    BY <1>2, <2>1, <2>2, <2>3 DEF RestartsLeft, InApi
  <2> QED
    BY <1>5, <2>4
<1>8. ASSUME NEW r \in Deliveries, Crash(r) PROVE AnalysisLeft(t)' < AnalysisLeft(t)
  <2>1. /\ UNCHANGED tries /\ crashes' = crashes + 1 /\ analyses' = Restarted(r)
    BY <1>8 DEF Crash
  <2>2. t[1] = r /\ ~InApi(t)
    BY <1>3, <1>8, <2>1 DEF Restarted, AnalysesTyped, InApi
  <2>3. tries[r] \in Nat /\ crashes \in Nat
    BY <1>2 DEF HistoryTyped
  <2>4. there < here
    BY <1>2, <2>1, <2>2, <2>3 DEF RestartsLeft, InApi
  <2> QED
    BY <1>5, <2>4
<1>9. ASSUME NEW r \in IncidentRequests, Answer(r) \/ AnswerError(r) PROVE FALSE
  BY <1>9 DEF Answer, AnswerError
<1>10. ASSUME NEW i \in Incidents, NEW said \in Feedbacks, Feedback(i, said) PROVE FALSE
  BY <1>10 DEF Feedback
<1> QED
  BY <1>6, <1>7, <1>8, <1>9, <1>10 DEF IncidentsNext, Conclude

\* Whatever fails, dies or is delivered again: an analysis takes at most five steps of an
\* attempt, and is begun again only while its delivery has a retry or the worker a crash
\* left, since each of its steps leaves it less to do (workers/tasks.py, orchestrator.py).
THEOREM AnalysesWindDown ==
    ASSUME NEW t \in Tasks
    PROVE  IncidentsSpec =>
             /\ [](AnalysisLeft(t) \in 0..(6 * (MaxRetries + MaxCrashes + 1) + 5))
             /\ [][AnalysisLeft(t)' < AnalysisLeft(t)]_(analyses[t])
<1>1. HistoryTyped => AnalysisLeft(t) \in 0..(6 * (MaxRetries + MaxCrashes + 1) + 5)
  <2>1. MaxRetries \in Nat /\ MaxCrashes \in Nat
    BY IncidentsAssumption
  <2> QED
    BY <2>1, RestartsRange, DistanceRange DEF AnalysisLeft
<1>2. IncidentsInv /\ HistoryTyped /\ HistoryTyped' /\ [IncidentsNext]_incidentVars
        => [AnalysisLeft(t)' < AnalysisLeft(t)]_(analyses[t])
  <2>1. UNCHANGED incidentVars => UNCHANGED analyses
    BY DEF incidentVars
  <2> QED
    BY <2>1, AnalysisGoesOn
<1>3. IncidentsSpec => []HistoryTyped
  BY IncidentsInvariant, HistoryInit, HistoryNext, PTL DEF IncidentsSpec
<1> QED
  BY <1>1, <1>2, <1>3, IncidentsInvariant, PTL DEF IncidentsSpec

-----------------------------------------------------------------------------
\* What the operations and the reads of a batch may still be, four for each request.
StageLeft(stage) ==
    CASE stage = "project" -> 1..4
      [] stage = "reference" -> 1..3
      [] stage = "commit" -> 1..2
      [] stage = "file" -> {1}
      [] OTHER -> {}

ReadsLeft ==
    { e \in (1..Parallel) \X (1..4) : e[1] \in DOMAIN load.stage /\ e[2] \in StageLeft(load.stage[e[1]]) }

\* The requests that the edges leave room for, and what is left of the batch.
RoomLeft == EdgeLimit + 1 - load.processed - Len(load.batch)

WithinBatch == IF load.pc = "batch" THEN 1 ELSE 2 + Cardinality(ReadsLeft)

\* A lookup of a prefix that is no ref leaves its request where it is, but it costs one
\* of the operations.
LoadLeft ==
    IF load.pc \in {"done", "off"} THEN 0
    ELSE RoomLeft * (4 * Parallel + 2) + WithinBatch + load.budget

\* What a load is bounded by.
LoadBound == 402 * (4 * Parallel + 2) + 3 * asked.limit + RefCandidates

LEMMA ReadsLeftRange ==
    /\ IsFiniteSet(ReadsLeft) /\ Cardinality(ReadsLeft) \in 0..(4 * Parallel)
    /\ (IsFiniteSet(ReadsLeft) /\ Cardinality(ReadsLeft) \in 0..(4 * Parallel))'
<1> DEFINE all == (1..Parallel) \X (1..4)
<1>1. Parallel \in Nat
  BY SourceNumbers
<1>2. IsFiniteSet(all) /\ Cardinality(all) = 4 * Parallel
  <2>1. /\ IsFiniteSet(1..Parallel) /\ Cardinality(1..Parallel) = Parallel
        /\ IsFiniteSet(1..4) /\ Cardinality(1..4) = 4
    <3>1. ASSUME NEW m \in Nat \ {0} PROVE IsFiniteSet(1..m) /\ Cardinality(1..m) = m
      <4>1. ~(1 > m) /\ m - 1 + 1 = m
        OBVIOUS
      <4>2. IsFiniteSet(1..m) /\ Cardinality(1..m) = IF 1 > m THEN 0 ELSE m - 1 + 1
        BY FS_Interval
      <4> QED
        BY <4>1, <4>2
    <3>2. Parallel \in Nat \ {0} /\ 4 \in Nat \ {0}
      BY SourceNumbers
    <3> QED
      BY <3>1, <3>2
  <2>2. IsFiniteSet(all) /\ Cardinality(all) = Parallel * 4
    BY ZenonT(60), <2>1, FS_Product
  <2> QED
    BY <1>1, <2>2
<1>3. ReadsLeft \subseteq all /\ (ReadsLeft \subseteq all)'
  BY DEF ReadsLeft
<1> HIDE DEF all
<1>4. ASSUME NEW S, S \subseteq all PROVE IsFiniteSet(S) /\ Cardinality(S) \in 0..(4 * Parallel)
  <2>1. IsFiniteSet(S) /\ Cardinality(S) <= Cardinality(all)
    BY <1>2, <1>4, FS_Subset
  <2>2. Cardinality(S) \in Nat
    BY <2>1, FS_CardinalityType
  <2> QED
    BY <1>1, <1>2, <2>1, <2>2
<1>5. IsFiniteSet(ReadsLeft) /\ Cardinality(ReadsLeft) \in 0..(4 * Parallel)
  BY <1>3, <1>4
<1>6. (IsFiniteSet(ReadsLeft) /\ Cardinality(ReadsLeft) \in 0..(4 * Parallel))'
  BY <1>3, <1>4
<1> QED
  BY <1>5, <1>6

LEMMA RoomRange == SourcesInv => RoomLeft \in 0..401
<1> SUFFICES ASSUME SourcesInv PROVE RoomLeft \in 0..401
  OBVIOUS
<1>1. /\ load.processed \in Nat /\ Len(load.batch) \in Nat /\ Len(load.pending) \in Nat
      /\ Cardinality(load.scheduled) \in Nat
  BY LoadIsFinite DEF SourcesInv, Load
<1>2. /\ load.processed + Len(load.batch) + Len(load.pending) <= 1 + Cardinality(load.scheduled)
      /\ Cardinality(load.scheduled) <= EdgeLimit
  BY DEF SourcesInv, Limited
<1>3. EdgeLimit \in Nat /\ EdgeLimit <= 400
  <2>1. asked.limit \in Nat /\ EdgeLimit \in Nat
    BY SourceNumbers DEF SourcesInv
  <2> QED
    BY <2>1 DEF EdgeLimit
<1> DEFINE processed == load.processed
           batch == Len(load.batch)
           pending == Len(load.pending)
           edges == Cardinality(load.scheduled)
           limit == EdgeLimit
<1>4. RoomLeft = limit + 1 - processed - batch
  BY DEF RoomLeft
<1> HIDE DEF processed, batch, pending, edges, limit
<1>5. /\ processed \in Nat /\ batch \in Nat /\ pending \in Nat /\ edges \in Nat /\ limit \in Nat
      /\ processed + batch + pending <= 1 + edges /\ edges <= limit /\ limit <= 400
  BY <1>1, <1>2, <1>3 DEF processed, batch, pending, edges, limit
<1> QED
  BY <1>4, <1>5

LEMMA LoadLeftRange == SourcesInv => LoadLeft \in 0..LoadBound
<1> SUFFICES ASSUME SourcesInv PROVE LoadLeft \in 0..LoadBound
  OBVIOUS
<1> DEFINE c == 4 * Parallel + 2
           room == RoomLeft
<1>1. Parallel \in Nat /\ c \in Nat /\ 402 * c \in Nat
  BY SourceNumbers
<1>2. WithinBatch \in 0..c
  BY <1>1, ReadsLeftRange DEF WithinBatch
<1>3. room \in Nat /\ room < 402
  BY RoomRange
<1> HIDE DEF room, c
<1>4. room * c \in Nat /\ room * c + c <= 402 * c
  BY <1>1, <1>3, LessTimes
<1> DEFINE top == 3 * asked.limit + RefCandidates
<1>5. load.budget \in Nat /\ load.budget <= top /\ top \in Nat
  <2>1. asked.limit \in Nat /\ RefCandidates \in Nat
    BY SourceNumbers DEF SourcesInv
  <2>2. load.budget \in Nat /\ Cardinality(load.cached) \in Nat
    BY LoadIsFinite DEF SourcesInv, Load
  <2>3. load.budget + Cardinality(load.cached) = top
    BY DEF SourcesInv, Limited
  <2>4. top \in Nat
    BY <2>1
  <2> HIDE DEF top
  <2> QED
    BY <2>2, <2>3, <2>4
<1>6. LoadLeft = 0 \/ LoadLeft = room * c + WithinBatch + load.budget
  BY DEF LoadLeft, room, c
<1>7. LoadBound = 402 * c + top
  BY <1>1, SourceNumbers DEF LoadBound, c, SourcesInv
<1> HIDE DEF top
<1>8. LoadLeft \in 0..(402 * c + top)
  BY <1>1, <1>2, <1>4, <1>5, <1>6
<1> QED
  BY <1>7, <1>8

\* A batch is begun with at least one request, which takes the room of one edge.
LEMMA TakenIsLess == ASSUME SourcesInv, SourcesInv', TakeBatch PROVE LoadLeft' < LoadLeft
<1> DEFINE all == load.pending
           n == IF Len(all) < Parallel THEN Len(all) ELSE Parallel
           batch == SubSeq(all, 1, n)
           stage == [i \in 1..n |-> IF Elsewhere(batch[i]) THEN "project" ELSE "file"]
           c == 4 * Parallel + 2
           room == RoomLeft
           room2 == RoomLeft'
<1>1. /\ load' = [load EXCEPT !.pc = "reading", !.batch = batch,
                              !.pending = SubSeq(@, n + 1, Len(@)), !.stage = stage]
      /\ load.pc = "batch" /\ load.pending # <<>> /\ UNCHANGED asked
  BY SMTT(60) DEF TakeBatch
<1>2. load \in Load /\ load.batch = <<>> /\ all \in Seq(Requests)
  BY <1>1 DEF SourcesInv, BatchInOrder, Load
<1>3. n \in 1..Len(all) /\ Len(all) \in Nat /\ Parallel \in Nat
  <2>1. Len(all) \in Nat /\ Len(all) # 0
    BY <1>1, <1>2
  <2> QED
    BY <2>1, SourceNumbers
<1> HIDE DEF n, stage
<1>4. Len(batch) = n
  BY <1>2, <1>3
<1> HIDE DEF batch, all
<1>5. /\ load'.pc = "reading" /\ load'.batch = batch /\ load'.processed = load.processed
      /\ load'.budget = load.budget /\ load.budget \in Nat
  BY <1>1, <1>2 DEF Load
<1>6. /\ room = EdgeLimit + 1 - load.processed
      /\ room2 = EdgeLimit + 1 - load.processed - n
      /\ EdgeLimit \in Nat /\ load.processed \in Nat
  <2>1. Len(load.batch) = 0 /\ load.processed \in Nat
    BY <1>2 DEF Load
  <2>2. EdgeLimit' = EdgeLimit
    BY <1>1 DEF EdgeLimit
  <2>3. EdgeLimit \in Nat
    BY SourceNumbers DEF SourcesInv
  <2> HIDE DEF EdgeLimit
  <2> QED
    BY <1>4, <1>5, <2>1, <2>2, <2>3 DEF RoomLeft
<1>7. room \in Nat /\ room2 \in Nat
  <2>1. (SourcesInv => RoomLeft \in 0..401)'
    BY RoomRange, PTL
  <2> QED
    BY <2>1, RoomRange
<1>8. room2 < room
  BY <1>3, <1>6
<1>9. /\ LoadLeft = room * c + 1 + load.budget
      /\ LoadLeft' = room2 * c + (2 + Cardinality(ReadsLeft')) + load.budget
  BY <1>1, <1>5 DEF LoadLeft, WithinBatch
<1>10. Cardinality(ReadsLeft') \in 0..(4 * Parallel)
  BY ReadsLeftRange
<1>11. c \in Nat /\ 2 + Cardinality(ReadsLeft') <= c /\ 2 + Cardinality(ReadsLeft') \in Nat
  BY <1>3, <1>10
<1> DEFINE reads == 2 + Cardinality(ReadsLeft')
<1> HIDE DEF c, room, room2, reads
<1>12. room2 * c \in Nat /\ room * c \in Nat /\ room2 * c + c <= room * c
  BY <1>7, <1>8, <1>11, LessTimes
<1>13. reads \in Nat /\ reads <= c /\ LoadLeft' = room2 * c + reads + load.budget
  BY <1>9, <1>11 DEF reads
<1> QED
  BY <1>5, <1>9, <1>11, <1>12, <1>13

\* A read takes its request on, and nothing else of the batch changes.
LEMMA ReadIsLess ==
    ASSUME SourcesInv, UNCHANGED asked, NEW i \in 1..Parallel, NEW from, Reading(i, from),
           NEW changes \in Load, changes.pc = load.pc, changes.batch = load.batch,
           changes.stage = load.stage, changes.processed = load.processed,
           NEW to \in Stages, Goes(i, changes, to), StageLeft(to) \subseteq StageLeft(from),
           \/ /\ changes.budget <= load.budget
              /\ \E k \in 1..4 : k \in StageLeft(from) /\ k \notin StageLeft(to)
           \/ changes.budget < load.budget
    PROVE  LoadLeft' < LoadLeft
<1> DEFINE stages == [load.stage EXCEPT ![i] = to]
<1>1. load.pc = "reading" /\ i \in DOMAIN load.stage /\ load.stage[i] = from
  BY DEF Reading
<1>2. load' = [changes EXCEPT !.stage = stages]
  <2>1. load' = [changes EXCEPT !.stage[i] = to]
    BY DEF Goes
  <2>2. [changes EXCEPT !.stage[i] = to] = [changes EXCEPT !.stage = [changes.stage EXCEPT ![i] = to]]
    OBVIOUS
  <2> QED
    BY <2>1, <2>2
<1>3. load.stage \in Seq(Stages)
  BY DEF SourcesInv, Load
<1>4. /\ DOMAIN stages = DOMAIN load.stage /\ stages[i] = to
      /\ \A j \in DOMAIN load.stage : j # i => stages[j] = load.stage[j]
  BY <1>1, <1>3
<1> HIDE DEF stages
<1>5. /\ load'.pc = "reading" /\ load'.batch = load.batch /\ load'.stage = stages
      /\ load'.processed = load.processed /\ load'.budget = changes.budget
      /\ load.budget \in Nat /\ changes.budget \in Nat
  BY <1>1, <1>2 DEF Load, SourcesInv
<1>6. /\ ReadsLeft' \subseteq ReadsLeft
      /\ \A k \in 1..4 : k \in StageLeft(from) /\ k \notin StageLeft(to) =>
           <<i, k>> \in ReadsLeft /\ <<i, k>> \notin ReadsLeft'
  <2>1. ASSUME NEW e \in ReadsLeft' PROVE e \in ReadsLeft
    <3>1. /\ e \in (1..Parallel) \X (1..4) /\ e[1] \in DOMAIN load.stage
          /\ e[2] \in StageLeft(stages[e[1]])
      BY <1>4, <1>5, <2>1 DEF ReadsLeft
    <3>2. e[2] \in StageLeft(load.stage[e[1]])
      BY <1>1, <1>4, <3>1
    <3> QED
      BY <3>1, <3>2 DEF ReadsLeft
  <2>2. ASSUME NEW k \in 1..4, k \in StageLeft(from) PROVE <<i, k>> \in ReadsLeft
    BY <1>1, <2>2 DEF ReadsLeft
  <2>3. ASSUME NEW k \in 1..4, k \notin StageLeft(to) PROVE <<i, k>> \notin ReadsLeft'
    BY <1>4, <1>5, <2>3 DEF ReadsLeft
  <2> QED
    BY <2>1, <2>2, <2>3
<1>7. /\ Cardinality(ReadsLeft') <= Cardinality(ReadsLeft)
      /\ (\E k \in 1..4 : k \in StageLeft(from) /\ k \notin StageLeft(to)) =>
           Cardinality(ReadsLeft') < Cardinality(ReadsLeft)
  <2>1. IsFiniteSet(ReadsLeft)
    BY ReadsLeftRange
  <2> QED
    BY <1>6, <2>1, FS_Subset, FS_CardinalityType
<1> DEFINE rooms == RoomLeft * (4 * Parallel + 2)
           reads == Cardinality(ReadsLeft)
           reads2 == Cardinality(ReadsLeft')
           budget == load.budget
           budget2 == changes.budget
<1>8. RoomLeft' = RoomLeft
  BY <1>5 DEF RoomLeft, EdgeLimit
<1>9. LoadLeft = rooms + (2 + reads) + budget /\ LoadLeft' = rooms + (2 + reads2) + budget2
  BY <1>1, <1>5, <1>8 DEF LoadLeft, WithinBatch
<1>10. rooms \in Nat
  <2>1. RoomLeft \in Nat /\ 4 * Parallel + 2 \in Nat
    BY RoomRange, SourceNumbers
  <2> QED
    BY <2>1
<1>11. reads \in Nat /\ reads2 \in Nat
  <2>1. Parallel \in Nat
    BY SourceNumbers
  <2> QED
    BY <2>1, ReadsLeftRange
<1>12. /\ budget \in Nat /\ budget2 \in Nat
       /\ \/ reads2 < reads /\ budget2 <= budget
          \/ reads2 <= reads /\ budget2 < budget
  BY <1>5, <1>7
<1> HIDE DEF rooms, reads, reads2, budget, budget2
<1> QED
  BY <1>9, <1>10, <1>11, <1>12

\* What an operation costs is not counted as a request.
LEMMA PerformedCounts ==
    ASSUME NEW key \in Operations, NEW changes \in Load, key \in load.cached \/ changes.budget # 0
    PROVE  LET now == Performed(key, changes)
           IN /\ now \in Load /\ now.pc = changes.pc /\ now.batch = changes.batch
              /\ now.stage = changes.stage /\ now.processed = changes.processed
              /\ now.budget <= changes.budget
              /\ key \notin load.cached => now.budget < changes.budget
<1>1. CASE key \in load.cached
  <2>1. changes.budget \in Nat
    BY DEF Load
  <2> QED
    BY <1>1, <2>1 DEF Performed
<1>2. CASE key \notin load.cached
  <2> DEFINE cached == changes.cached \cup {key}
             budget == changes.budget - 1
  <2>1. Performed(key, changes) = [changes EXCEPT !.cached = cached, !.budget = budget]
    BY <1>2 DEF Performed
  <2>2. cached \subseteq Operations /\ budget \in Nat /\ budget < changes.budget
    BY <1>2 DEF Load
  <2>3. budget <= changes.budget
    BY <2>2 DEF Load
  <2> HIDE DEF cached, budget
  <2> QED
    BY ZenonT(60), <2>1, <2>2, <2>3 DEF Load
<1> QED
  BY <1>1, <1>2

LEMMA StagesShrink ==
    /\ \A to \in {"denied", "unresolved", "read"} : StageLeft(to) = {}
    /\ StageLeft("file") = {1} /\ StageLeft("commit") = 1..2
    /\ StageLeft("reference") = 1..3 /\ StageLeft("project") = 1..4
    /\ {"denied", "unresolved", "read", "file", "commit", "reference", "project"} = Stages
  BY DEF StageLeft, Stages

LEMMA ProjectIsLess ==
    ASSUME SourcesInv, NEW i \in 1..Parallel, ReadProject(i) PROVE LoadLeft' < LoadLeft
<1> DEFINE file == load.batch[i].file
           key == <<"project", file>>
<1>1. Reading(i, "project") /\ UNCHANGED asked
  BY DEF ReadProject
<1>2. load.pc = "reading" /\ i \in DOMAIN load.stage /\ key \in Operations
  BY <1>1, RequestsOfBatch
<1>3. load \in Load /\ Limited(load)
  BY DEF SourcesInv
<1> HIDE DEF file, key
<1>4. PICK changes \in Load, to \in {"denied", "unresolved", "file", "commit", "reference"} :
        /\ Goes(i, changes, to) /\ changes.pc = load.pc /\ changes.batch = load.batch
        /\ changes.stage = load.stage /\ changes.processed = load.processed
        /\ changes.budget <= load.budget
  <2> DEFINE barred == TooDeep(i) \/ file \in asked.trouble.foreign \/ Unaffordable(key)
  <2>1. CASE barred
    <3>1. Goes(i, load, "unresolved")
      BY <2>1 DEF ReadProject, file, key
    <3>2. load.budget <= load.budget
      BY <1>3 DEF Load
    <3> QED
      BY <1>3, <3>1, <3>2
  <2>2. CASE ~barred
    <3> DEFINE next == IF file \in asked.trouble.hidden THEN "denied"
                       ELSE IF file \in Remote THEN "reference" ELSE Resolved(file)
               now == Performed(key, load)
    <3>1. Goes(i, now, next) /\ next \in {"denied", "file", "commit", "reference"}
      BY <2>2 DEF ReadProject, file, key, Resolved
    <3>2. /\ now \in Load /\ now.pc = load.pc /\ now.batch = load.batch
          /\ now.stage = load.stage /\ now.processed = load.processed
          /\ now.budget <= load.budget
      BY <1>2, <1>3, <2>2, PerformedCounts DEF Unaffordable
    <3> HIDE DEF next, now
    <3> QED
      BY <3>1, <3>2
  <2> QED
    BY <2>1, <2>2
<1>5. /\ to \in Stages /\ StageLeft(to) \subseteq StageLeft("project")
      /\ 4 \in StageLeft("project") /\ 4 \notin StageLeft(to) /\ 4 \in 1..4
  BY StagesShrink
<1> QED
  BY <1>1, <1>4, <1>5, ReadIsLess

\* A lookup that fails costs an operation; the one that succeeds takes the request on.
LEMMA ReferenceIsLess ==
    ASSUME SourcesInv, NEW i \in 1..Parallel, ReadReference(i) PROVE LoadLeft' < LoadLeft
<1> DEFINE file == load.batch[i].file
           found == <<"commit", file>>
<1>1. Reading(i, "reference") /\ UNCHANGED asked
  BY DEF ReadReference
<1>2. load.pc = "reading" /\ i \in DOMAIN load.stage /\ found \in Operations
  BY <1>1, RequestsOfBatch
<1>3. load \in Load /\ load.budget <= load.budget
  BY DEF SourcesInv, Load
<1> HIDE DEF file, found
<1>4. CASE Goes(i, load, "unresolved")
  <2>1. /\ "unresolved" \in Stages /\ StageLeft("unresolved") \subseteq StageLeft("reference")
        /\ 3 \in StageLeft("reference") /\ 3 \notin StageLeft("unresolved") /\ 3 \in 1..4
    BY StagesShrink
  <2> QED
    BY <1>1, <1>3, <1>4, <2>1, ReadIsLess
<1>5. ASSUME NEW miss \in Untried(file), load.budget # 0,
             Goes(i, Performed(<<"ref", miss>>, load), "reference")
      PROVE  LoadLeft' < LoadLeft
  <2> DEFINE key == <<"ref", miss>>
             now == Performed(key, load)
  <2>1. key \in Operations /\ key \notin load.cached /\ "reference" \in Stages
    BY <1>5 DEF Untried, Operations, Stages
  <2>2. Goes(i, now, "reference")
    BY <1>5
  <2> HIDE DEF key
  <2>3. /\ now \in Load /\ now.pc = load.pc /\ now.batch = load.batch
        /\ now.stage = load.stage /\ now.processed = load.processed
        /\ now.budget < load.budget
    BY <1>3, <1>5, <2>1, PerformedCounts
  <2> HIDE DEF now
  <2> QED
    BY <1>1, <2>1, <2>2, <2>3, ReadIsLess
<1>6. CASE ~Unaffordable(found) /\ Goes(i, Performed(found, load),
                    IF file \in asked.trouble.gone THEN "unresolved" ELSE Resolved(file))
  <2> DEFINE next == IF file \in asked.trouble.gone THEN "unresolved" ELSE Resolved(file)
             now == Performed(found, load)
  <2>1. Goes(i, now, next)
    BY <1>6
  <2>2. next \in {"unresolved", "file", "commit"}
    BY DEF Resolved
  <2>3. /\ now \in Load /\ now.pc = load.pc /\ now.batch = load.batch
        /\ now.stage = load.stage /\ now.processed = load.processed
        /\ now.budget <= load.budget
    BY <1>2, <1>3, <1>6, PerformedCounts DEF Unaffordable
  <2> HIDE DEF next, now
  <2>4. /\ next \in Stages /\ StageLeft(next) \subseteq StageLeft("reference")
        /\ 3 \in StageLeft("reference") /\ 3 \notin StageLeft(next) /\ 3 \in 1..4
    BY <2>2, StagesShrink
  <2> QED
    BY <1>1, <2>1, <2>3, <2>4, ReadIsLess
<1> QED
  BY <1>4, <1>5, <1>6 DEF ReadReference, file, found

LEMMA CommitIsLess ==
    ASSUME SourcesInv, NEW i \in 1..Parallel, ReadCommit(i) PROVE LoadLeft' < LoadLeft
<1> DEFINE file == load.batch[i].file
           key == <<"commit", file>>
           noted == [load EXCEPT !.partial = TRUE]
<1>1. Reading(i, "commit") /\ UNCHANGED asked
  BY DEF ReadCommit
<1>2. load.pc = "reading" /\ i \in DOMAIN load.stage /\ key \in Operations
  BY <1>1, RequestsOfBatch
<1>3. load \in Load /\ Limited(load)
  BY DEF SourcesInv
<1>4. /\ noted \in Load /\ noted.pc = load.pc /\ noted.batch = load.batch
      /\ noted.stage = load.stage /\ noted.files = load.files
      /\ noted.cached = load.cached /\ noted.budget = load.budget
      /\ noted.configs = load.configs /\ noted.scheduled = load.scheduled
      /\ noted.processed = load.processed /\ noted.pending = load.pending
  BY <1>3 DEF Load
<1> HIDE DEF file, key
<1>5. PICK changes \in Load, to \in {"unresolved", "file"} :
        /\ Goes(i, changes, to) /\ changes.pc = load.pc /\ changes.batch = load.batch
        /\ changes.stage = load.stage /\ changes.processed = load.processed
        /\ changes.budget <= load.budget
  <2>0. load.budget <= load.budget
    BY <1>3 DEF Load
  <2>1. CASE Unaffordable(key)
    <3>1. Goes(i, noted, "unresolved")
      BY <2>1 DEF ReadCommit, file, key
    <3> HIDE DEF noted
    <3> QED
      BY <1>4, <2>0, <3>1
  <2>2. CASE ~Unaffordable(key)
    <3> DEFINE now == Performed(key, noted)
    <3>1. Goes(i, now, "file")
      BY <2>2 DEF ReadCommit, file, key
    <3> HIDE DEF noted
    <3>2. /\ now \in Load /\ now.pc = load.pc /\ now.batch = load.batch
          /\ now.stage = load.stage /\ now.processed = load.processed
          /\ now.budget <= load.budget
      BY <1>2, <1>4, <2>2, PerformedCounts DEF Unaffordable
    <3> HIDE DEF now
    <3> QED
      BY <3>1, <3>2
  <2> QED
    BY <2>1, <2>2
<1>6. /\ to \in Stages /\ StageLeft(to) \subseteq StageLeft("commit")
      /\ 2 \in StageLeft("commit") /\ 2 \notin StageLeft(to) /\ 2 \in 1..4
  BY StagesShrink
<1> QED
  BY <1>1, <1>5, <1>6, ReadIsLess

LEMMA FileIsLess ==
    ASSUME SourcesInv, NEW i \in 1..Parallel, ReadFile(i) PROVE LoadLeft' < LoadLeft
<1> DEFINE file == load.batch[i].file
           key == <<"file", file>>
           files == load.files \cup {file}
           attempt == [load EXCEPT !.files = files]
<1>1. Reading(i, "file") /\ UNCHANGED asked
  BY DEF ReadFile
<1>2. load.pc = "reading" /\ i \in DOMAIN load.stage /\ file \in Files
  BY <1>1, RequestsOfBatch
<1>3. load \in Load
  BY DEF SourcesInv
<1> HIDE DEF file, key
<1>4. files \subseteq Files
  BY <1>2, <1>3 DEF Load
<1> HIDE DEF files
<1>5. /\ attempt \in Load /\ attempt.pc = load.pc /\ attempt.batch = load.batch
      /\ attempt.stage = load.stage /\ attempt.processed = load.processed
      /\ attempt.budget = load.budget
  BY <1>3, <1>4 DEF Load
<1>6. PICK changes \in Load, to \in {"denied", "unresolved", "read"} :
        /\ Goes(i, changes, to) /\ changes.pc = load.pc /\ changes.batch = load.batch
        /\ changes.stage = load.stage /\ changes.processed = load.processed
        /\ changes.budget <= load.budget
  <2>0. load.budget <= load.budget
    BY <1>3 DEF Load
  <2>1. CASE ~Readable(i)
    <3>1. Goes(i, load, "unresolved")
      BY <2>1 DEF ReadFile
    <3> QED
      BY <1>3, <2>0, <3>1
  <2>2. CASE Readable(i) /\ Unaffordable(key)
    <3>1. Goes(i, attempt, "unresolved")
      BY <2>2 DEF ReadFile, file, key, files
    <3> HIDE DEF attempt
    <3> QED
      BY <1>5, <2>0, <3>1
  <2>3. CASE Readable(i) /\ ~Unaffordable(key)
    <3> DEFINE next == IF file \in asked.trouble.denied THEN "denied" ELSE "read"
               now == Performed(key, attempt)
    <3>1. Goes(i, now, next) /\ next \in {"denied", "read"}
      BY <2>3 DEF ReadFile, file, key, files
    <3> HIDE DEF attempt
    <3>2. key \in Operations
      BY <1>1, RequestsOfBatch DEF key, file
    <3>3. /\ now \in Load /\ now.pc = load.pc /\ now.batch = load.batch
          /\ now.stage = load.stage /\ now.processed = load.processed
          /\ now.budget <= load.budget
      BY <1>5, <2>3, <3>2, PerformedCounts DEF Unaffordable
    <3> HIDE DEF next, now
    <3> QED
      BY <3>1, <3>3
  <2> QED
    BY <2>1, <2>2, <2>3
<1>7. /\ to \in Stages /\ StageLeft(to) \subseteq StageLeft("file")
      /\ 1 \in StageLeft("file") /\ 1 \notin StageLeft(to) /\ 1 \in 1..4
  BY StagesShrink
<1> QED
  BY <1>1, <1>6, <1>7, ReadIsLess

\* A merged batch leaves the room it took.
LEMMA MergedIsLess == ASSUME SourcesInv, MergeBatch PROVE LoadLeft' < LoadLeft
<1> DEFINE n == Len(load.batch)
<1>1. load.pc = "reading" /\ UNCHANGED asked /\ load \in Load /\ Limited(load)
  BY DEF MergeBatch, SourcesInv
<1>2. n \in Nat /\ DOMAIN load.batch = 1..n
  BY <1>1 DEF Load
<1>3. load \in Merging
  BY <1>1 DEF Merging
<1>4. \A i \in 1..n : \A v \in Merging : Merged(v, i) \in Merging
  BY <1>1, <1>2, MergedMerges
<1>5. PICK now \in Merging :
        load' = [now EXCEPT !.pc = "batch", !.batch = <<>>, !.stage = <<>>, !.processed = @ + n]
  <2> DEFINE W == [i \in Nat |-> Merging]
  <2>1. W[0] = Merging /\ W[n] = Merging /\ \A i \in 1..n : W[i] = Merging
    BY <1>2
  <2> HIDE DEF W
  <2> QED
    BY <1>2, <1>3, <1>4, <2>1, MergedIn
<1>6. now \in Load /\ now.processed = load.processed /\ now.budget = load.budget
  <2>1. now \in Load /\ now.processed = load.processed /\ now.cached = load.cached
    BY <1>5 DEF Merging
  <2>2. now.budget \in Nat /\ load.budget \in Nat /\ Cardinality(load.cached) \in Nat
    BY <1>1, <2>1, LoadIsFinite DEF Load
  <2>3. now.budget + Cardinality(load.cached) = load.budget + Cardinality(load.cached)
    BY <1>1, <1>5, <2>1 DEF Merging, Limited
  <2> QED
    BY <2>1, <2>2, <2>3
<1> HIDE DEF n
<1>7. /\ load'.pc = "batch" /\ load'.batch = <<>> /\ load'.processed = load.processed + n
      /\ load'.budget = load.budget /\ load.budget \in Nat
  BY <1>1, <1>5, <1>6 DEF Load
<1>8. RoomLeft' = RoomLeft
  <2>1. EdgeLimit' = EdgeLimit /\ EdgeLimit \in Nat /\ load.processed \in Nat /\ Len(<<>>) = 0
    BY <1>1, SourceNumbers DEF EdgeLimit, Load, SourcesInv
  <2> HIDE DEF EdgeLimit
  <2> QED
    BY <1>2, <1>7, <2>1 DEF RoomLeft, n
<1> DEFINE rooms == RoomLeft * (4 * Parallel + 2)
           reads == Cardinality(ReadsLeft)
           budget == load.budget
<1>9. LoadLeft = rooms + (2 + reads) + budget /\ LoadLeft' = rooms + 1 + budget
  BY <1>1, <1>7, <1>8 DEF LoadLeft, WithinBatch
<1>10. rooms \in Nat
  <2>1. RoomLeft \in Nat /\ 4 * Parallel + 2 \in Nat
    BY RoomRange, SourceNumbers
  <2> QED
    BY <2>1
<1>11. reads \in Nat
  <2>1. Parallel \in Nat
    BY SourceNumbers
  <2> QED
    BY <2>1, ReadsLeftRange
<1>12. budget \in Nat
  BY <1>7
<1> HIDE DEF rooms, reads, budget
<1> QED
  BY <1>9, <1>10, <1>11, <1>12

LEMMA DoneIsLess == ASSUME SourcesInv, LoadDone PROVE LoadLeft' < LoadLeft
<1>1. load.pc = "batch" /\ load'.pc = "done"
  BY DEF LoadDone, SourcesInv, Load
<1> DEFINE rooms == RoomLeft * (4 * Parallel + 2)
           budget == load.budget
<1>2. LoadLeft = rooms + 1 + budget /\ LoadLeft' = 0
  BY <1>1 DEF LoadLeft, WithinBatch
<1>3. rooms \in Nat
  <2>1. RoomLeft \in Nat /\ 4 * Parallel + 2 \in Nat
    BY RoomRange, SourceNumbers
  <2> QED
    BY <2>1
<1>4. budget \in Nat
  BY DEF SourcesInv, Load
<1> HIDE DEF rooms, budget
<1> QED
  BY <1>2, <1>3, <1>4

\* Whatever the includes are, cycles and all: a load of CI sources ends, since a batch
\* takes the room of its edges, which are at most 400, each request of it goes through at
\* most four stages, and a URL's failed lookups are paid out of the budget of operations
\* (providers/gitlab.py, _load_ci_sources).
THEOREM LoadWindsDown ==
    SourcesSpec => /\ [](LoadLeft \in 0..LoadBound)
                   /\ [][LoadLeft' < LoadLeft]_sourceVars
<1>1. SourcesInv /\ SourcesInv' /\ SourcesNext => LoadLeft' < LoadLeft
  <2> SUFFICES ASSUME SourcesInv, SourcesInv', SourcesNext PROVE LoadLeft' < LoadLeft
    OBVIOUS
  <2>1. ASSUME NEW i \in 1..Parallel,
               ReadProject(i) \/ ReadReference(i) \/ ReadCommit(i) \/ ReadFile(i)
        PROVE  LoadLeft' < LoadLeft
    BY <2>1, ProjectIsLess, ReferenceIsLess, CommitIsLess, FileIsLess
  <2> QED
    BY <2>1, TakenIsLess, MergedIsLess, DoneIsLess DEF SourcesNext
<1> QED
  BY <1>1, LoadLeftRange, SourcesInitKeeps, SourcesNextKeeps, PTL DEF SourcesSpec

-----------------------------------------------------------------------------
(* Side by side all of them wind down.                                         *)

LEMMA RestIsStill ==
    /\ SupervisorIdle /\ SupervisorIdle' => UNCHANGED supervisorVars
    /\ AgentIdle /\ AgentIdle' => UNCHANGED agent
    /\ IncidentsIdle /\ IncidentsIdle' => UNCHANGED analyses
    /\ SourcesIdle /\ SourcesIdle' => UNCHANGED sourceVars
    /\ InspectionIdle /\ InspectionIdle' => UNCHANGED view
    /\ RemediationIdle /\ RemediationIdle' => UNCHANGED repair
  BY DEF SupervisorIdle, supervisorVars, AgentIdle, IncidentsIdle, SourcesIdle, sourceVars,
         InspectionIdle, RemediationIdle

\* No step of one of them gives another more to do: side by side, in any interleaving,
\* each step leaves the one that takes it less to do, and what is left is a number.
THEOREM ServicesWindDown ==
    ASSUME NEW t \in Tasks
    PROVE  ServicesSpec =>
             /\ [][SupervisorLeft' \in Nat /\ SupervisorLeft' < SupervisorLeft]_supervisorVars
             /\ [][AgentLeft' \in Nat /\ AgentLeft' < AgentLeft]_agent
             /\ [][AnalysisLeft(t)' \in Nat /\ AnalysisLeft(t)' < AnalysisLeft(t)]_(analyses[t])
             /\ [][LoadLeft' \in Nat /\ LoadLeft' < LoadLeft]_sourceVars
             /\ [][InspectionLeft' \in Nat /\ InspectionLeft' < InspectionLeft]_view
             /\ [][RepairLeft' \in Nat /\ RepairLeft' < RepairLeft]_repair
<1>1. ServicesSpec => [][SupervisorLeft' \in Nat /\ SupervisorLeft' < SupervisorLeft]_supervisorVars
  <2>1. SupervisorIdle /\ SupervisorIdle' =>
          [SupervisorLeft' \in Nat /\ SupervisorLeft' < SupervisorLeft]_supervisorVars
    BY RestIsStill
  <2>2. (SupervisorLeft \in 0..(4 * N + 6))' /\ [SupervisorLeft' < SupervisorLeft]_supervisorVars =>
          [SupervisorLeft' \in Nat /\ SupervisorLeft' < SupervisorLeft]_supervisorVars
    BY SupervisorAssumption
  <2> QED
    BY <2>1, <2>2, RunApart, SupervisorWindsDown, PTL
<1>2. ServicesSpec => [][AgentLeft' \in Nat /\ AgentLeft' < AgentLeft]_agent
  <2>1. AgentIdle /\ AgentIdle' => [AgentLeft' \in Nat /\ AgentLeft' < AgentLeft]_agent
    BY RestIsStill
  <2>2. (AgentLeft \in 0..(MaxTurns * (CallsPerReply + 2) + 1))' /\ [AgentLeft' < AgentLeft]_agent =>
          [AgentLeft' \in Nat /\ AgentLeft' < AgentLeft]_agent
    <3> DEFINE bound == MaxTurns * (CallsPerReply + 2) + 1
    <3>1. \A n \in 0..bound : n \in Nat
      OBVIOUS
    <3> QED
      BY <3>1
  <2> QED
    BY <2>1, <2>2, RunApart, AgentWindsDown, PTL
<1>3. ServicesSpec => [][AnalysisLeft(t)' \in Nat /\ AnalysisLeft(t)' < AnalysisLeft(t)]_(analyses[t])
  <2> DEFINE left == AnalysisLeft(t)
             bound == 6 * (MaxRetries + MaxCrashes + 1) + 5
  <2>1. IncidentsIdle /\ IncidentsIdle' => [left' \in Nat /\ left' < left]_(analyses[t])
    BY RestIsStill
  <2>2. (left \in 0..bound)' /\ [left' < left]_(analyses[t]) =>
          [left' \in Nat /\ left' < left]_(analyses[t])
    <3>1. \A n \in 0..bound : n \in Nat
      OBVIOUS
    <3> QED
      BY <3>1
  <2>3. IncidentsSpec => [](left \in 0..bound) /\ [][left' < left]_(analyses[t])
    BY AnalysesWindDown
  <2> QED
    BY <2>1, <2>2, <2>3, RunApart, PTL
<1>4. ServicesSpec => [][LoadLeft' \in Nat /\ LoadLeft' < LoadLeft]_sourceVars
  <2>1. SourcesIdle /\ SourcesIdle' => [LoadLeft' \in Nat /\ LoadLeft' < LoadLeft]_sourceVars
    BY RestIsStill
  <2>2. (LoadLeft \in 0..LoadBound)' /\ [LoadLeft' < LoadLeft]_sourceVars =>
          [LoadLeft' \in Nat /\ LoadLeft' < LoadLeft]_sourceVars
    <3>1. \A n \in 0..LoadBound' : n \in Nat
      OBVIOUS
    <3> QED
      BY <3>1
  <2> QED
    BY <2>1, <2>2, RunApart, LoadWindsDown, PTL
<1>5. ServicesSpec => [][InspectionLeft' \in Nat /\ InspectionLeft' < InspectionLeft]_view
  <2>1. InspectionIdle /\ InspectionIdle' =>
          [InspectionLeft' \in Nat /\ InspectionLeft' < InspectionLeft]_view
    BY RestIsStill
  <2>2. (InspectionLeft \in 0..20)' /\ [InspectionLeft' < InspectionLeft]_view =>
          [InspectionLeft' \in Nat /\ InspectionLeft' < InspectionLeft]_view
    OBVIOUS
  <2> QED
    BY <2>1, <2>2, RunApart, InspectionWindsDown, PTL
<1>6. ServicesSpec => [][RepairLeft' \in Nat /\ RepairLeft' < RepairLeft]_repair
  <2>1. RemediationIdle /\ RemediationIdle' => [RepairLeft' \in Nat /\ RepairLeft' < RepairLeft]_repair
    BY RestIsStill
  <2>2. (RepairLeft \in 0..(2 * MaxCandidateReads + 2))' /\ [RepairLeft' < RepairLeft]_repairVars =>
          [RepairLeft' \in Nat /\ RepairLeft' < RepairLeft]_repair
    BY RepairLimits DEF repairVars
  <2> QED
    BY <2>1, <2>2, RunApart, RemediationWindsDown, PTL
<1> QED
  BY <1>1, <1>2, <1>3, <1>4, <1>5, <1>6
=============================================================================

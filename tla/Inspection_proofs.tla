-------------------------- MODULE Inspection_proofs --------------------------
(****************************************************************************)
(* Proofs about an inspection, for any pipeline, budget and answers: a status *)
(* of passed is proven by what was read, a trace is spent where it tells most, *)
(* a success is not contradicted, and a diff is proposed for an exact source *)
(* only, whatever the order in which the candidate files are read; the plan *)
(* names what it lacks, also where a read was shared or the limit was met;  *)
(* and every step of either leaves fewer steps to take.                     *)
(****************************************************************************)
EXTENDS PipelineInspection, Remediation, Selection_proofs

-----------------------------------------------------------------------------
(* The inspection of a pipeline (PipelineInspection). *)

Partial(S, T) == UNION { [D -> T] : D \in SUBSET S }

\* A function from some of S to T.
LEMMA PartialFunction == \A S, T, f :
    f \in Partial(S, T) <=> DOMAIN f \subseteq S /\ f \in [DOMAIN f -> T]
BY DEF Partial

Places == {"off", "project", "selected", "branch", "run", "list", "choose",
           "evidence", "child", "done", "raised"}
Finding == [rule : {"job", "pipeline", "sources", "risk", "unanalyzed", "downstream", "child"},
            severity : {"error", "warning", "info"}, job : Jobs \cup {NoJob}]
Reads == {"jobs", "bridges", "sources", "context"} \cup Jobs
Statuses == {"none", "configuration_only", "failed", "in_progress", "passed", "warning"}
Marks == {"signals", "clean"}
ReferenceType == [kind : {"job", "pipeline", "branch"}, job : Jobs \cup {NoJob}]

Views ==
    [pc : Places, reference : ReferenceType, budget : Nat \ {0},
     selected : Jobs \cup {NoJob}, run : Outcomes \cup {NoRun}, sha : BOOLEAN,
     partial : BOOLEAN, reads : SUBSET Reads, listed : Seq(Jobs), outcome : Partial(Jobs, Outcomes),
     bridges : Seq(Bridge), chosen : Seq(Jobs), complete : BOOLEAN,
     traces : Partial(Jobs, Marks), candidates : Seq(Bridge), children : Nat,
     childRead : BOOLEAN, childLeft : BOOLEAN, findings : SUBSET Finding, status : Statuses]

PipelineFits ==
    pipeline \in [listed : Seq(Jobs), outcome : [Jobs -> Outcomes], bridges : Seq(Bridge)]

FailingIn(listed, outcome, selected) ==
    Selected(listed, FailingOf(ToSet(listed), outcome) \ {selected})
PrimaryIn(listed, outcome, selected) ==
    (IF selected = NoJob THEN <<>> ELSE <<selected>>) \o FailingIn(listed, outcome, selected)
TroubledIn(bridges) == Selected(bridges, { b \in ToSet(bridges) : b.trouble /\ ~b.self })
UnanalyzedIn(listed, outcome, chosen) == FailingOf(ToSet(listed), outcome) \ ToSet(chosen)

LEMMA OfTheView ==
    /\ Failing = FailingIn(view.listed, view.outcome, view.selected)
    /\ Primary = PrimaryIn(view.listed, view.outcome, view.selected)
    /\ Troubled = TroubledIn(view.bridges)
    /\ Unanalyzed = UnanalyzedIn(view.listed, view.outcome, view.chosen)
BY DEF Failing, FailingIn, Primary, PrimaryIn, Troubled, TroubledIn, Unanalyzed, UnanalyzedIn

Beginning == {"project", "selected", "branch", "run"}
Gathering == Beginning \cup {"list", "choose"}
Judging == {"child", "done"}

\* What is known of the jobs that are listed, and of the one that was asked for.
OutcomesKnown(v) ==
    /\ ToSet(v.listed) \subseteq DOMAIN v.outcome
    /\ v.selected # NoJob => v.selected \in DOMAIN v.outcome
    /\ v.reference.kind = "job" => v.reference.job \in Jobs
    /\ v.pc = "selected" => v.reference.kind = "job"

\* Nothing is chosen, traced or judged before everything is listed.
InOrder(v) ==
    /\ v.pc \in Gathering =>
         /\ v.chosen = <<>> /\ v.candidates = <<>> /\ v.children = 0 /\ DOMAIN v.traces = {}
         /\ ~v.childRead /\ ~v.childLeft
    /\ v.pc \in Beginning => v.findings = {} /\ v.listed = <<>>
    /\ v.pc = "evidence" => v.candidates = <<>> /\ v.children = 0 /\ ~v.childRead /\ ~v.childLeft
    /\ v.pc \in {"off", "raised"} => v.chosen = <<>> /\ v.children = 0 /\ v.run = NoRun /\ v.findings = {} /\ DOMAIN v.traces = {}
    /\ v.status \in {"none", "configuration_only"} \/ v.pc = "done"

Excusable(run, findings) == run = "success" => \A f \in findings : f.severity # "error"

\* What was chosen for a trace.
Chosen(v) ==
    v.pc \in Judging \cup {"evidence"} =>
      /\ ToSet(v.chosen) \subseteq ToSet(v.listed)
      /\ v.run = NoRun => v.chosen = <<>>
      /\ v.run # NoRun =>
           /\ Len(v.chosen) <= v.budget
           /\ v.selected # NoJob => v.selected \in ToSet(v.chosen)
           /\ \A j \in ToSet(v.chosen) \ {v.selected} : v.outcome[j] = "success" =>
                UnanalyzedIn(v.listed, v.outcome, v.chosen) = {}
           /\ (\E i \in DOMAIN v.bridges : v.bridges[i].trouble) =>
                Len(PrimaryIn(v.listed, v.outcome, v.selected)) >= v.budget
                  \/ Len(v.chosen) < v.budget

\* The traces are read one after the other.
Traced(v) ==
    /\ v.pc = "evidence" =>
         /\ v.reads \subseteq {"sources", "context"} \cup ToSet(v.chosen)
         /\ DOMAIN v.traces \subseteq ToSet(v.chosen)
         /\ \A j \in ToSet(v.chosen) : j \in v.reads \/ j \in DOMAIN v.traces
    /\ v.pc \in Judging => DOMAIN v.traces = ToSet(v.chosen)

AllQuiet(v) == \A f \in v.findings : f.severity = "info"

\* What is judged when nothing but notes is found.
Judged(v) ==
    v.pc \in Judging =>
      /\ AllQuiet(v) =>
           /\ v.complete /\ v.children = 0
           /\ v.run # NoRun => UnanalyzedIn(v.listed, v.outcome, v.chosen) = {}
           /\ \A j \in ToSet(v.chosen) : v.outcome[j] # "failed" /\ v.traces[j] = "clean"
      /\ v.run # NoRun /\ v.candidates = <<>> => TroubledIn(v.bridges) = <<>>
      /\ v.run = NoRun => v.candidates = <<>>
      /\ v.candidates # <<>> => \E i \in DOMAIN v.bridges : v.bridges[i].trouble
      /\ v.children <= Len(v.candidates) /\ Len(v.candidates) <= 2
      /\ v.childRead => Len(v.chosen) < v.budget
      /\ v.childLeft /\ ~v.childRead => v.candidates # <<>> /\ Len(v.chosen) >= v.budget

\* The status is the last word.
Told(v) ==
    v.status = "passed" =>
      v.run = "success" /\ ~v.partial /\ AllQuiet(v) /\ v.children = Len(v.candidates)

ViewInv(v) ==
    /\ v \in Views /\ OutcomesKnown(v) /\ InOrder(v) /\ Excusable(v.run, v.findings)
    /\ Chosen(v) /\ Traced(v) /\ Judged(v) /\ Told(v)

InspectionInv == PipelineFits /\ ViewInv(view)

-----------------------------------------------------------------------------
\* The elements of a sequence.
LEMMA Members == ASSUME NEW X, NEW s \in Seq(X) PROVE ToSet(s) \subseteq X
<1>1. \A i \in DOMAIN s : s[i] \in X
  OBVIOUS
<1> QED
  BY <1>1 DEF ToSet

\* An inspection that has not begun, or that has been given up, keeps the invariant.
LEMMA NothingSeen == NotInspecting \in Views /\ \A p \in {"off", "raised"} : ViewInv([NotInspecting EXCEPT !.pc = p])
<1> DEFINE none == [j \in {} |-> "other"]
           bare == [j \in {} |-> "clean"]
<1>1. none \in Partial(Jobs, Outcomes) /\ bare \in Partial(Jobs, Marks) /\ DOMAIN none = {} /\ DOMAIN bare = {}
  <2>1. DOMAIN none = {} /\ DOMAIN bare = {} /\ none \in [{} -> Outcomes] /\ bare \in [{} -> Marks]
    OBVIOUS
  <2> HIDE DEF none, bare
  <2>2. none \in Partial(Jobs, Outcomes)
    BY <2>1 DEF Partial
  <2>3. bare \in Partial(Jobs, Marks)
    BY <2>1 DEF Partial
  <2> QED
    BY <2>1, <2>2, <2>3
<1>3. NotInspecting \in Views
  <2>1. 1 \in Nat \ {0} /\ 0 \in Nat
    OBVIOUS
  <2>2. <<>> \in Seq(Jobs) /\ <<>> \in Seq(Bridge)
    OBVIOUS
  <2>3. [kind |-> "pipeline", job |-> NoJob] \in ReferenceType
    BY DEF ReferenceType
  <2> HIDE DEF none, bare
  <2> QED
    BY <1>1, <2>1, <2>2, <2>3 DEF NotInspecting, Views, Places, Statuses, Reads, none, bare
<1> SUFFICES ASSUME NEW p \in {"off", "raised"} PROVE ViewInv([NotInspecting EXCEPT !.pc = p])
  BY <1>3
<1> DEFINE w == [NotInspecting EXCEPT !.pc = p]
<1>4. w \in Views
  BY <1>3 DEF Views, Places
<1>5. /\ w.pc = p /\ w.listed = <<>> /\ w.selected = NoJob /\ w.reference.kind = "pipeline"
      /\ w.chosen = <<>> /\ w.children = 0 /\ w.run = NoRun /\ w.findings = {}
      /\ w.status = "none" /\ w.traces = bare
  BY DEF NotInspecting
<1> HIDE DEF w, bare
<1>6. ToSet(<<>>) = {}
  BY DEF ToSet
<1>7. OutcomesKnown(w)
  BY <1>5, <1>6 DEF OutcomesKnown
<1>8. InOrder(w) /\ Excusable(w.run, w.findings) /\ Chosen(w) /\ Traced(w) /\ Judged(w) /\ Told(w)
  BY <1>1, <1>5 DEF InOrder, Gathering, Beginning, Judging, Excusable, Chosen, Traced, Judged, Told
<1>9. ViewInv(w)
  BY <1>4, <1>7, <1>8 DEF ViewInv
<1> QED
  BY <1>9 DEF w

-----------------------------------------------------------------------------
(* The steps that only gather.                                                 *)

\* A step of gathering that keeps what is known, and finds nothing or one note.
Retained(v, w) ==
    /\ w.chosen = v.chosen /\ w.candidates = v.candidates /\ w.children = v.children
    /\ w.traces = v.traces /\ w.childRead = v.childRead /\ w.childLeft = v.childLeft

\* A step that reads on before the jobs are chosen keeps what holds of the choice.
LEMMA GatheringGoesOn ==
    ASSUME NEW v, NEW w, ViewInv(v), w \in Views, v.pc \in Gathering, w.pc \in Gathering,
           Retained(v, w), OutcomesKnown(w), Excusable(w.run, w.findings),
           w.status \in {"none", "configuration_only"},
           w.pc \in Beginning => w.findings = {} /\ w.listed = <<>>
    PROVE  ViewInv(w)
<1>1. InOrder(w)
  BY DEF ViewInv, InOrder, Retained, Gathering, Beginning
<1>2. Chosen(w) /\ Traced(w) /\ Judged(w) /\ Told(w)
  BY DEF Chosen, Traced, Judged, Told, Gathering, Beginning, Judging
<1> QED
  BY <1>1, <1>2 DEF ViewInv

LEMMA MismatchStep == ASSUME InspectionInv, Mismatch PROVE InspectionInv'
<1>1. view' = [NotInspecting EXCEPT !.pc = "raised"] /\ pipeline' = pipeline
  BY DEF Mismatch
<1>2. ViewInv(view')
  BY <1>1, NothingSeen
<1> QED
  BY <1>1, <1>2 DEF InspectionInv, PipelineFits

LEMMA ProjectStep == ASSUME InspectionInv, ReadProjectMetadata PROVE InspectionInv'
<1> DEFINE v == view
<1>1. v \in Views /\ ViewInv(v) /\ pipeline' = pipeline /\ v.pc = "project"
  BY DEF InspectionInv, ViewInv, ReadProjectMetadata, Stage
<1>2. PICK ok \in BOOLEAN : view' = [v EXCEPT !.pc = CASE v.reference.kind = "job" -> "selected"
                                         [] v.reference.kind = "branch" -> "branch"
                                         [] OTHER -> "run", !.partial = v.partial \/ ~ok]
  BY <1>1 DEF ReadProjectMetadata, Read, Views
<1> DEFINE place == CASE v.reference.kind = "job" -> "selected"
                                         [] v.reference.kind = "branch" -> "branch"
                                         [] OTHER -> "run"
           w == [v EXCEPT !.pc = place, !.partial = v.partial \/ ~ok]
<1>3. place \in {"selected", "branch", "run"} /\ (place = "selected" => v.reference.kind = "job")
  OBVIOUS
<1> HIDE DEF v, place
<1>4. w \in Views
  BY ZenonT(60), <1>1, <1>3 DEF Views, Places
<1>5. /\ w.pc = place /\ w.listed = v.listed /\ w.selected = v.selected /\ w.reference = v.reference
      /\ w.outcome = v.outcome /\ w.run = v.run /\ w.findings = v.findings /\ w.status = v.status
      /\ Retained(v, w)
  BY <1>1 DEF Views, Retained
<1> HIDE DEF w
<1>6. OutcomesKnown(w) /\ Excusable(w.run, w.findings)
  BY <1>1, <1>3, <1>5 DEF ViewInv, OutcomesKnown
<1>7. ViewInv(w)
  <2>1. w.pc \in Gathering /\ v.pc \in Gathering /\ w.findings = {} /\ w.listed = <<>>
    BY <1>1, <1>3, <1>5 DEF ViewInv, InOrder, Gathering, Beginning
  <2>2. w.status \in {"none", "configuration_only"}
    BY <1>1, <1>5 DEF ViewInv, InOrder
  <2> QED
    BY <1>1, <1>4, <1>5, <1>6, <2>1, <2>2, GatheringGoesOn
<1> QED
  BY <1>1, <1>2, <1>7 DEF InspectionInv, PipelineFits, w, place, v

LEMMA SelectedJobStep ==
    ASSUME InspectionInv, ReadSelectedJob PROVE InspectionInv'
<1> DEFINE v == view
           job == v.reference.job
           known == [j \in {job} |-> pipeline.outcome[j]]
<1>1. /\ v \in Views /\ ViewInv(v) /\ pipeline' = pipeline /\ v.pc = "selected" /\ job \in Jobs
      /\ v.partial \in BOOLEAN /\ v.run \in Outcomes \cup {NoRun}
  BY DEF InspectionInv, ViewInv, OutcomesKnown, ReadSelectedJob, Stage, Views
<1>2. known \in Partial(Jobs, Outcomes) /\ DOMAIN known = {job}
  <2>1. pipeline.outcome[job] \in Outcomes
    BY <1>1 DEF InspectionInv, PipelineFits
  <2> HIDE DEF job
  <2>3. known \in [{job} -> Outcomes] /\ {job} \in SUBSET Jobs /\ DOMAIN known = {job}
    BY <1>1, <2>1
  <2> HIDE DEF known
  <2> QED
    BY <2>3 DEF Partial
<1>3. \/ \E parent \in BOOLEAN : view' = [v EXCEPT !.pc = IF parent THEN "run" ELSE "choose",
             !.selected = job, !.outcome = known, !.partial = v.partial \/ FALSE]
      \/ view' = [v EXCEPT !.pc = "choose", !.partial = v.partial \/ TRUE]
  <2>1. view' = [v EXCEPT !.pc = "choose", !.partial = v.partial \/ TRUE]
          <=> view' = [[v EXCEPT !.pc = "choose"] EXCEPT !.partial = @ \/ TRUE]
    BY <1>1 DEF Views
  <2> QED
    BY <1>1, <2>1 DEF ReadSelectedJob, Read, Views
<1> HIDE DEF v, job, known
<1>4. ASSUME NEW parent \in BOOLEAN,
             view' = [v EXCEPT !.pc = IF parent THEN "run" ELSE "choose",
                        !.selected = job, !.outcome = known, !.partial = v.partial \/ FALSE]
      PROVE  ViewInv(view')
  <2> DEFINE place == IF parent THEN "run" ELSE "choose"
             w == [v EXCEPT !.pc = place, !.selected = job, !.outcome = known, !.partial = v.partial]
  <2>1. place \in {"run", "choose"}
    OBVIOUS
  <2> HIDE DEF place
  <2>2. w \in Views
    BY <1>1, <1>2, <2>1 DEF Views, Places
  <2>3. /\ w.pc = place /\ w.listed = v.listed /\ w.selected = job /\ w.reference = v.reference
        /\ w.outcome = known /\ w.run = v.run /\ w.findings = v.findings /\ w.status = v.status
        /\ Retained(v, w)
    BY <1>1 DEF Views, Retained
  <2>4. view' = w
    BY <1>1, <1>4 DEF place
  <2> HIDE DEF w
  <2>5. v.listed = <<>> /\ v.findings = {} /\ ToSet(<<>>) = {}
    BY <1>1 DEF ViewInv, InOrder, Beginning, ToSet
  <2>6. OutcomesKnown(w) /\ Excusable(w.run, w.findings)
    BY <1>1, <1>2, <2>1, <2>3, <2>5 DEF ViewInv, OutcomesKnown
  <2>7. w.pc \in Gathering /\ v.pc \in Gathering /\ w.status \in {"none", "configuration_only"}
    BY <1>1, <2>1, <2>3 DEF ViewInv, InOrder, Gathering, Beginning
  <2> QED
    BY <1>1, <2>2, <2>3, <2>4, <2>5, <2>6, <2>7, GatheringGoesOn
<1>5. ASSUME view' = [v EXCEPT !.pc = "choose", !.partial = v.partial \/ TRUE]
      PROVE  ViewInv(view')
  <2> DEFINE w == [v EXCEPT !.pc = "choose", !.partial = TRUE]
  <2>1. w \in Views
    BY <1>1 DEF Views, Places
  <2>2. /\ w.pc = "choose" /\ w.listed = v.listed /\ w.selected = v.selected
        /\ w.reference = v.reference /\ w.outcome = v.outcome /\ w.run = v.run
        /\ w.findings = v.findings /\ w.status = v.status /\ Retained(v, w)
    BY <1>1 DEF Views, Retained
  <2>3. view' = w
    BY <1>1, <1>5
  <2> HIDE DEF w
  <2>4. OutcomesKnown(w) /\ Excusable(w.run, w.findings)
    BY <1>1, <2>2 DEF ViewInv, OutcomesKnown
  <2>5. /\ w.pc \in Gathering /\ w.pc \notin Beginning /\ v.pc \in Gathering
        /\ w.status \in {"none", "configuration_only"}
    BY <1>1, <2>2 DEF ViewInv, InOrder, Gathering, Beginning
  <2> QED
    BY <1>1, <2>1, <2>2, <2>3, <2>4, <2>5, GatheringGoesOn
<1>6. ViewInv(view')
  BY <1>3, <1>4, <1>5
<1> QED
  BY <1>1, <1>6 DEF InspectionInv, PipelineFits

LEMMA BranchStep == ASSUME InspectionInv, ReadBranch PROVE InspectionInv'
<1> DEFINE v == view
<1>1. /\ v \in Views /\ ViewInv(v) /\ pipeline' = pipeline /\ v.pc = "branch"
  BY DEF InspectionInv, ViewInv, ReadBranch, Stage
<1>2. RunOf(pipeline) \in Outcomes
  BY DEF RunOf, Outcomes
<1>3. \/ view' = [v EXCEPT !.pc = "choose", !.partial = TRUE]
      \/ \E head \in BOOLEAN, latest \in {"found", "none", "denied"} :
           view' = [v EXCEPT
              !.pc = IF latest = "found" THEN "run" ELSE "choose",
              !.run = IF latest = "found" THEN RunOf(pipeline) ELSE NoRun,
              !.sha = head /\ latest = "none",
              !.status = IF head /\ latest = "none" THEN "configuration_only" ELSE "none",
              !.partial = v.partial \/ ~(head /\ latest # "denied")]
  <2>1. /\ [[v EXCEPT !.pc = "choose"] EXCEPT !.partial = @ \/ ~FALSE]
             = [v EXCEPT !.pc = "choose", !.partial = TRUE]
    BY <1>1 DEF Views
  <2> QED
    BY ZenonT(60), <1>1, <2>1 DEF ReadBranch, Read, Views
<1> HIDE DEF v
<1>4. ASSUME view' = [v EXCEPT !.pc = "choose", !.partial = TRUE]
      PROVE  ViewInv(view')
  <2> DEFINE w == [v EXCEPT !.pc = "choose", !.partial = TRUE]
  <2>1. w \in Views
    BY <1>1 DEF Views, Places
  <2>2. /\ w.pc = "choose" /\ w.listed = v.listed /\ w.selected = v.selected
        /\ w.reference = v.reference /\ w.outcome = v.outcome /\ w.run = v.run
        /\ w.findings = v.findings /\ w.status = v.status /\ Retained(v, w)
    BY <1>1 DEF Views, Retained
  <2> HIDE DEF w
  <2>4. OutcomesKnown(w) /\ Excusable(w.run, w.findings)
    BY <1>1, <2>2 DEF ViewInv, OutcomesKnown
  <2>5. /\ w.pc \in Gathering /\ w.pc \notin Beginning /\ v.pc \in Gathering
        /\ w.status \in {"none", "configuration_only"}
    BY <1>1, <2>2 DEF ViewInv, InOrder, Gathering, Beginning
  <2>6. ViewInv(w)
    BY <1>1, <2>1, <2>2, <2>4, <2>5, GatheringGoesOn
  <2> QED
    BY <1>4, <2>6 DEF w
<1>5. ASSUME NEW head \in BOOLEAN, NEW latest \in {"found", "none", "denied"},
           view' = [v EXCEPT
              !.pc = IF latest = "found" THEN "run" ELSE "choose",
              !.run = IF latest = "found" THEN RunOf(pipeline) ELSE NoRun,
              !.sha = head /\ latest = "none",
              !.status = IF head /\ latest = "none" THEN "configuration_only" ELSE "none",
              !.partial = v.partial \/ ~(head /\ latest # "denied")]
      PROVE  ViewInv(view')
  <2> DEFINE place == IF latest = "found" THEN "run" ELSE "choose"
             run == IF latest = "found" THEN RunOf(pipeline) ELSE NoRun
             sha == head /\ latest = "none"
             status == IF head /\ latest = "none" THEN "configuration_only" ELSE "none"
             partial == v.partial \/ ~(head /\ latest # "denied")
             w == [v EXCEPT !.pc = place, !.run = run, !.sha = sha, !.status = status,
                            !.partial = partial]
  <2>1. /\ place \in {"run", "choose"} /\ run \in Outcomes \cup {NoRun} /\ sha \in BOOLEAN
        /\ status \in {"none", "configuration_only"} /\ partial \in BOOLEAN
    BY <1>2
  <2>2. view' = w
    BY <1>5
  <2> HIDE DEF place, run, sha, status, partial
  <2>3. w \in Views
    BY ZenonT(60), <1>1, <2>1 DEF Views, Places, Statuses
  <2>4. /\ w.pc = place /\ w.listed = v.listed /\ w.selected = v.selected
        /\ w.reference = v.reference /\ w.outcome = v.outcome /\ w.run = run
        /\ w.findings = v.findings /\ w.status = status /\ Retained(v, w)
    BY <1>1 DEF Views, Retained
  <2> HIDE DEF w
  <2>5. v.findings = {} /\ v.listed = <<>> /\ v.pc \in Gathering /\ w.pc \in Gathering
    BY <1>1, <2>1, <2>4 DEF ViewInv, InOrder, Gathering, Beginning
  <2>6. OutcomesKnown(w) /\ Excusable(w.run, w.findings)
    BY <1>1, <2>1, <2>4, <2>5 DEF ViewInv, OutcomesKnown, Excusable
  <2>7. ViewInv(w)
    BY <1>1, <2>1, <2>3, <2>4, <2>5, <2>6, GatheringGoesOn
  <2> QED
    BY <2>2, <2>7
<1>6. ViewInv(view')
  BY <1>3, <1>4, <1>5
<1> QED
  BY <1>1, <1>6 DEF InspectionInv, PipelineFits

LEMMA RunStep == ASSUME InspectionInv, ReadRun PROVE InspectionInv'
<1> DEFINE v == view
<1>1. /\ v \in Views /\ ViewInv(v) /\ pipeline' = pipeline /\ v.pc = "run"
  BY DEF InspectionInv, ViewInv, ReadRun, Stage
<1>2. RunOf(pipeline) \in Outcomes
  BY DEF RunOf, Outcomes
<1>3. PICK ok \in BOOLEAN :
          LET run == IF ok THEN RunOf(pipeline) ELSE v.run
              severity == IF run = "failed" THEN "error" ELSE "info"
          IN view' = [v EXCEPT !.pc = "list", !.reads = {"jobs", "bridges"},
                 !.run = run, !.sha = run # NoRun,
                 !.findings = IF run \in {"success", NoRun} THEN v.findings
                              ELSE v.findings \cup {Found("pipeline", severity, NoJob)},
                 !.partial = v.partial \/ ~ok]
  BY <1>1 DEF ReadRun, Read, Views
<1> DEFINE run == IF ok THEN RunOf(pipeline) ELSE v.run
           severity == IF run = "failed" THEN "error" ELSE "info"
           found == Found("pipeline", severity, NoJob)
           findings == IF run \in {"success", NoRun} THEN v.findings
                       ELSE v.findings \cup {found}
           sha == run # NoRun
           partial == v.partial \/ ~ok
           reads == {"jobs", "bridges"}
           w == [v EXCEPT !.pc = "list", !.reads = reads, !.run = run, !.sha = sha,
                          !.findings = findings, !.partial = partial]
<1>4. view' = w
  BY <1>3
<1>5. run \in Outcomes \cup {NoRun} /\ severity \in {"error", "info"} /\ v.findings = {}
  BY <1>1, <1>2 DEF Views, ViewInv, InOrder, Beginning
<1>6. found \in Finding /\ partial \in BOOLEAN /\ sha \in BOOLEAN /\ reads \subseteq Reads
  BY <1>5 DEF Found, Finding, Reads
<1> HIDE DEF v, run, found, partial, sha, reads
<1>7. findings \subseteq Finding /\ (run = "success" => findings = {})
  BY <1>5, <1>6
<1> HIDE DEF findings
<1>8. w \in Views
  BY <1>1, <1>5, <1>6, <1>7 DEF Views, Places
<1>9. /\ w.pc = "list" /\ w.listed = v.listed /\ w.selected = v.selected
      /\ w.reference = v.reference /\ w.outcome = v.outcome /\ w.run = run
      /\ w.findings = findings /\ w.status = v.status /\ Retained(v, w)
  BY <1>1 DEF Views, Retained
<1> HIDE DEF w
<1>10. OutcomesKnown(w) /\ Excusable(w.run, w.findings)
  BY <1>1, <1>7, <1>9 DEF ViewInv, OutcomesKnown, Excusable
<1>11. /\ w.pc \in Gathering /\ w.pc \notin Beginning /\ v.pc \in Gathering
       /\ w.status \in {"none", "configuration_only"}
  BY <1>1, <1>9 DEF ViewInv, InOrder, Gathering, Beginning
<1>12. ViewInv(w)
  BY <1>1, <1>8, <1>9, <1>10, <1>11, GatheringGoesOn
<1> QED
  BY <1>1, <1>4, <1>12 DEF InspectionInv, PipelineFits

LEMMA JobsStep == ASSUME InspectionInv, ReadJobs PROVE InspectionInv'
<1> DEFINE v == view
           all == ToSet(pipeline.listed) \cup DOMAIN v.outcome
           known == [j \in all |-> IF j \in DOMAIN v.outcome THEN v.outcome[j] ELSE pipeline.outcome[j]]
<1>1. /\ v \in Views /\ ViewInv(v) /\ pipeline' = pipeline /\ v.pc = "list"
  BY SMTT(60) DEF InspectionInv, ViewInv, ReadJobs, Stage
<1>2. PICK ok \in BOOLEAN :
        view' = [v EXCEPT !.reads = v.reads \ {"jobs"},
                   !.listed = IF ok THEN pipeline.listed ELSE <<>>,
                   !.outcome = IF ~ok THEN v.outcome ELSE known,
                   !.partial = v.partial \/ ~ok]
  BY <1>1 DEF ReadJobs, Read, Views
<1> DEFINE listed == IF ok THEN pipeline.listed ELSE <<>>
           outcome == IF ~ok THEN v.outcome ELSE known
           partial == v.partial \/ ~ok
           reads == v.reads \ {"jobs"}
           w == [v EXCEPT !.reads = reads, !.listed = listed, !.outcome = outcome, !.partial = partial]
<1>3. view' = w
  BY <1>2
<1>4. v.outcome \in Partial(Jobs, Outcomes) /\ ToSet(pipeline.listed) \subseteq Jobs
      /\ pipeline.listed \in Seq(Jobs) /\ <<>> \in Seq(Jobs) /\ pipeline.outcome \in [Jobs -> Outcomes]
  BY <1>1, Members DEF Views, InspectionInv, PipelineFits
<1>5. DOMAIN v.outcome \subseteq Jobs /\ v.outcome \in [DOMAIN v.outcome -> Outcomes]
  BY <1>4, PartialFunction
<1>6. known \in Partial(Jobs, Outcomes) /\ DOMAIN known = all
  <2>1. all \in SUBSET Jobs
    BY <1>4, <1>5
  <2>2. known \in [all -> Outcomes]
    BY <1>4, <1>5
  <2>3. DOMAIN known = all
    OBVIOUS
  <2> HIDE DEF known, all
  <2> QED
    BY <2>1, <2>2, <2>3 DEF Partial
<1>7. /\ listed \in Seq(Jobs) /\ outcome \in Partial(Jobs, Outcomes) /\ partial \in BOOLEAN
      /\ reads \subseteq Reads /\ ToSet(listed) \subseteq DOMAIN outcome
      /\ DOMAIN v.outcome \subseteq DOMAIN outcome
  <2>1. ToSet(<<>>) = {}
    BY DEF ToSet
  <2>2. v.reads \subseteq Reads
    BY <1>1 DEF Views
  <2>3. listed \in Seq(Jobs)
    BY <1>4
  <2> HIDE DEF known
  <2>4. outcome \in Partial(Jobs, Outcomes) /\ ToSet(listed) \subseteq DOMAIN outcome
        /\ DOMAIN v.outcome \subseteq DOMAIN outcome
    BY <1>4, <1>6, <2>1
  <2> QED
    BY <2>2, <2>3, <2>4
<1> HIDE DEF v, known, listed, outcome, partial, reads
<1>8. w \in Views
  BY <1>1, <1>7 DEF Views
<1>9. /\ w.pc = "list" /\ w.listed = listed /\ w.selected = v.selected
      /\ w.reference = v.reference /\ w.outcome = outcome /\ w.run = v.run
      /\ w.findings = v.findings /\ w.status = v.status /\ Retained(v, w)
  BY <1>1 DEF Views, Retained
<1> HIDE DEF w
<1>10. OutcomesKnown(w) /\ Excusable(w.run, w.findings)
  BY <1>1, <1>7, <1>9 DEF ViewInv, OutcomesKnown
<1>11. /\ w.pc \in Gathering /\ w.pc \notin Beginning /\ v.pc \in Gathering
       /\ w.status \in {"none", "configuration_only"}
  BY <1>1, <1>9 DEF ViewInv, InOrder, Gathering, Beginning
<1>12. ViewInv(w)
  BY <1>1, <1>8, <1>9, <1>10, <1>11, GatheringGoesOn
<1> QED
  BY <1>1, <1>3, <1>12 DEF InspectionInv, PipelineFits

LEMMA BridgesStep == ASSUME InspectionInv, ReadBridges PROVE InspectionInv'
<1> DEFINE v == view
<1>1. /\ v \in Views /\ ViewInv(v) /\ pipeline' = pipeline /\ v.pc = "list"
      /\ pipeline.bridges \in Seq(Bridge) /\ v.reads \subseteq Reads /\ v.partial \in BOOLEAN
  BY DEF InspectionInv, ViewInv, ReadBridges, Stage, PipelineFits, Views
<1>2. PICK ok \in BOOLEAN :
        view' = [v EXCEPT !.reads = v.reads \ {"bridges"},
                   !.bridges = IF ok THEN pipeline.bridges ELSE <<>>,
                   !.partial = v.partial \/ ~ok]
  BY <1>1 DEF ReadBridges, Read, Views
<1> DEFINE bridges == IF ok THEN pipeline.bridges ELSE <<>>
           partial == v.partial \/ ~ok
           reads == v.reads \ {"bridges"}
           w == [v EXCEPT !.reads = reads, !.bridges = bridges, !.partial = partial]
<1>3. view' = w
  BY <1>2
<1>4. bridges \in Seq(Bridge) /\ partial \in BOOLEAN /\ reads \subseteq Reads
  BY <1>1
<1> HIDE DEF v, bridges, partial, reads
<1>5. w \in Views
  BY <1>1, <1>4 DEF Views
<1>6. /\ w.pc = "list" /\ w.listed = v.listed /\ w.selected = v.selected
      /\ w.reference = v.reference /\ w.outcome = v.outcome /\ w.run = v.run
      /\ w.findings = v.findings /\ w.status = v.status /\ Retained(v, w)
  BY <1>1 DEF Views, Retained
<1> HIDE DEF w
<1>7. OutcomesKnown(w) /\ Excusable(w.run, w.findings)
  BY <1>1, <1>6 DEF ViewInv, OutcomesKnown
<1>8. /\ w.pc \in Gathering /\ w.pc \notin Beginning /\ v.pc \in Gathering
      /\ w.status \in {"none", "configuration_only"}
  BY <1>1, <1>6 DEF ViewInv, InOrder, Gathering, Beginning
<1>9. ViewInv(w)
  BY <1>1, <1>5, <1>6, <1>7, <1>8, GatheringGoesOn
<1> QED
  BY <1>1, <1>3, <1>9 DEF InspectionInv, PipelineFits

-----------------------------------------------------------------------------
(* Who gets a trace.                                                           *)

\* The failed jobs among those that are listed.
LEMMA FailingJobs ==
    ASSUME NEW listed \in Seq(Jobs), NEW outcome, NEW selected
    PROVE  /\ FailingIn(listed, outcome, selected) \in Seq(Jobs)
           /\ ToSet(FailingIn(listed, outcome, selected))
                 = FailingOf(ToSet(listed), outcome) \ {selected}
<1> DEFINE S == FailingOf(ToSet(listed), outcome) \ {selected}
           r == Selected(listed, S)
<1>1. S \subseteq ToSet(listed)
  BY DEF FailingOf
<1> HIDE DEF S
<1>2. /\ r \in Seq(Jobs)
      /\ \A i \in DOMAIN listed : listed[i] \in S => \E j \in DOMAIN r : r[j] = listed[i]
  BY SelectedElements
<1>3. \A j \in DOMAIN r : r[j] \in S
  BY SelectedElements
<1> HIDE DEF r
<1>5. ToSet(r) = S
  BY <1>1, <1>2, <1>3 DEF ToSet
<1> QED
  BY <1>2, <1>5 DEF r, S, FailingIn

\* The selected job first, then the failed ones.
LEMMA PrimaryJobs ==
    ASSUME NEW listed \in Seq(Jobs), NEW outcome, NEW selected \in Jobs \cup {NoJob}
    PROVE  LET P == PrimaryIn(listed, outcome, selected)
           IN /\ P \in Seq(Jobs)
              /\ ToSet(P) = (FailingOf(ToSet(listed), outcome) \ {selected})
                              \cup ({selected} \ {NoJob})
              /\ selected # NoJob => Len(P) >= 1 /\ P[1] = selected
<1> DEFINE F == FailingIn(listed, outcome, selected)
           P == PrimaryIn(listed, outcome, selected)
           S == FailingOf(ToSet(listed), outcome) \ {selected}
<1>1. F \in Seq(Jobs) /\ ToSet(F) = S
  BY FailingJobs
<1>2. P = (IF selected = NoJob THEN <<>> ELSE <<selected>>) \o F
  BY DEF PrimaryIn
<1> HIDE DEF F, P, S
<1>3. CASE selected = NoJob
  <2>1. P = F
    BY <1>1, <1>2, <1>3
  <2> QED
    BY <1>1, <1>3, <2>1 DEF P, S
<1>4. CASE selected # NoJob
  <2>1. selected \in Jobs
    BY <1>4
  <2>2. P = <<selected>> \o F
    BY <1>2, <1>4
  <2>3. /\ P \in Seq(Jobs) /\ Len(P) = Len(F) + 1 /\ P[1] = selected
        /\ \A i \in 1..Len(F) : P[i + 1] = F[i]
    BY <1>1, <2>1, <2>2
  <2>4. DOMAIN P = 1..(Len(F) + 1) /\ DOMAIN F = 1..Len(F) /\ Len(F) \in Nat
    BY <1>1, <2>3
  <2>5. ToSet(P) \subseteq S \cup {selected}
    <3> SUFFICES ASSUME NEW i \in DOMAIN P PROVE P[i] \in S \cup {selected}
      BY DEF ToSet
    <3>1. CASE i = 1
      BY <2>3, <3>1
    <3>2. CASE i # 1
      <4>1. i - 1 \in 1..Len(F) /\ (i - 1) + 1 = i
        BY <2>4, <3>2
      <4>2. P[i] = F[i - 1]
        BY <2>3, <4>1
      <4>3. F[i - 1] \in ToSet(F)
        BY <2>4, <4>1 DEF ToSet
      <4> QED
        BY <1>1, <4>2, <4>3
    <3> QED
      BY <3>1, <3>2
  <2>6. S \cup {selected} \subseteq ToSet(P)
    <3>1. selected \in ToSet(P)
      <4>1. 1 \in DOMAIN P
        BY <2>4
      <4> QED
        BY <2>3, <4>1 DEF ToSet
    <3>2. ASSUME NEW j \in S PROVE j \in ToSet(P)
      <4>1. PICK i \in DOMAIN F : F[i] = j
        BY <1>1, <3>2 DEF ToSet
      <4>2. i \in 1..Len(F) /\ i + 1 \in DOMAIN P
        BY <2>4
      <4>3. P[i + 1] = j
        BY <2>3, <4>1, <4>2
      <4> QED
        BY <4>2, <4>3 DEF ToSet
    <3> QED
      BY <3>1, <3>2
  <2>7. ToSet(P) = S \cup ({selected} \ {NoJob})
    BY <1>4, <2>5, <2>6
  <2> QED
    BY <2>3, <2>4, <2>7 DEF P, S
<1> QED
  BY <1>3, <1>4

JobsFor(P, listed, outcome, budget) ==
    LET succeeded == { j \in ToSet(listed) : outcome[j] = "success" }
        sampled == Selected(ByInterest, succeeded \ ToSet(P))
        all == P \o SubSeq(sampled, 1, Bounded(3, Len(sampled)))
    IN SubSeq(all, 1, Bounded(budget, Len(all)))

\* The jobs that SelectJobs chooses, and in which order.
LEMMA JobsSelected ==
    ASSUME NEW P \in Seq(Jobs), NEW listed \in Seq(Jobs), NEW outcome, NEW budget \in Nat
    PROVE  LET chosen == JobsFor(P, listed, outcome, budget)
           IN /\ chosen \in Seq(Jobs) /\ Len(chosen) <= budget
              /\ ToSet(chosen) \subseteq ToSet(P) \cup ToSet(listed)
              /\ budget >= 1 /\ Len(P) >= 1 => P[1] \in ToSet(chosen)
              /\ ToSet(P) \subseteq ToSet(chosen) \/ ToSet(chosen) \subseteq ToSet(P)
<1> DEFINE succeeded == { j \in ToSet(listed) : outcome[j] = "success" }
           S == succeeded \ ToSet(P)
           sampled == Selected(ByInterest, S)
           few == SubSeq(sampled, 1, Bounded(3, Len(sampled)))
           all == P \o few
           n == Bounded(budget, Len(all))
           chosen == JobsFor(P, listed, outcome, budget)
<1>1. ByInterest \in Seq(Jobs) /\ S \subseteq ToSet(listed)
  BY PipelineInspectionAssumption
<1>2. chosen = SubSeq(all, 1, n)
  BY DEF JobsFor
<1> HIDE DEF S
<1>3. sampled \in Seq(Jobs) /\ \A j \in DOMAIN sampled : sampled[j] \in S
  BY <1>1, SelectedElements
<1> HIDE DEF sampled
<1>4. few \in Seq(Jobs) /\ \A j \in DOMAIN few : few[j] \in S
  <2>1. Bounded(3, Len(sampled)) \in 0..Len(sampled)
    BY <1>3 DEF Bounded
  <2> DEFINE m == Bounded(3, Len(sampled))
  <2> HIDE DEF m
  <2>2. /\ few \in Seq(Jobs) /\ Len(few) = m
        /\ \A j \in 1..m : few[j] = sampled[j] /\ j \in DOMAIN sampled
    BY <1>3, <2>1 DEF m
  <2> QED
    BY <1>3, <2>1, <2>2 DEF m
<1> HIDE DEF few
<1>5. /\ all \in Seq(Jobs) /\ Len(all) = Len(P) + Len(few)
      /\ \A i \in 1..Len(P) : all[i] = P[i]
      /\ \A i \in DOMAIN all : i > Len(P) => i - Len(P) \in DOMAIN few /\ all[i] = few[i - Len(P)]
  BY <1>4
<1> HIDE DEF all
<1>6. n \in 0..Len(all) /\ n <= budget /\ (n = budget \/ n = Len(all))
  BY <1>5 DEF Bounded
<1> HIDE DEF n
<1>7. /\ chosen \in Seq(Jobs) /\ Len(chosen) = n /\ DOMAIN chosen = 1..n
      /\ \A i \in 1..n : chosen[i] = all[i] /\ i \in DOMAIN all
  BY <1>2, <1>5, <1>6
<1> HIDE DEF chosen
<1>8. ASSUME NEW i \in DOMAIN chosen
      PROVE  chosen[i] \in (IF i <= Len(P) THEN ToSet(P) ELSE ToSet(listed))
  <2>1. CASE i <= Len(P)
    <3>1. i \in 1..Len(P) /\ i \in DOMAIN P /\ chosen[i] = P[i]
      BY <1>5, <1>7, <2>1
    <3> QED
      BY <2>1, <3>1 DEF ToSet
  <2>2. CASE ~ (i <= Len(P))
    <3>1. i > Len(P) /\ chosen[i] = all[i] /\ i \in DOMAIN all
      BY <1>7, <2>2
    <3>2. all[i] \in S
      BY <1>4, <1>5, <3>1
    <3> QED
      BY <1>1, <2>2, <3>1, <3>2
  <2> QED
    BY <2>1, <2>2
<1>9. ToSet(chosen) \subseteq ToSet(P) \cup ToSet(listed)
  BY <1>8 DEF ToSet
<1>10. ASSUME budget >= 1, Len(P) >= 1 PROVE P[1] \in ToSet(chosen)
  <2>1. 1 \in 1..n /\ 1 \in 1..Len(P)
    BY <1>4, <1>5, <1>6, <1>10
  <2>2. chosen[1] = P[1] /\ 1 \in DOMAIN chosen
    BY <1>5, <1>7, <2>1
  <2> QED
    BY <2>2 DEF ToSet
<1>11. ToSet(P) \subseteq ToSet(chosen) \/ ToSet(chosen) \subseteq ToSet(P)
  <2>1. CASE n <= Len(P)
    <3>1. \A i \in DOMAIN chosen : i <= Len(P)
      BY <1>7, <2>1
    <3>2. \A i \in DOMAIN chosen : chosen[i] \in ToSet(P)
      BY <1>8, <3>1
    <3> QED
      BY <3>2 DEF ToSet
  <2>2. CASE n > Len(P)
    <3>1. ASSUME NEW i \in DOMAIN P PROVE P[i] \in ToSet(chosen)
      <4>1. i \in 1..Len(P) /\ i \in 1..n
        BY <1>6, <2>2
      <4>2. chosen[i] = P[i] /\ i \in DOMAIN chosen
        BY <1>5, <1>7, <4>1
      <4> QED
        BY <4>2 DEF ToSet
    <3> QED
      BY <3>1 DEF ToSet
  <2> QED
    BY <1>5, <1>6, <2>1, <2>2
<1> QED
  BY <1>6, <1>7, <1>9, <1>10, <1>11 DEF chosen

\* The selected job joins the list when it is not on it; that makes no difference.
WithSelected(listed, selected) ==
    IF selected \in ToSet(listed) \cup {NoJob} THEN listed ELSE Append(listed, selected)

\* The selected job joins those that are listed.
LEMMA SelectedJoins ==
    ASSUME NEW listed \in Seq(Jobs), NEW outcome, NEW selected \in Jobs \cup {NoJob}
    PROVE  LET after == WithSelected(listed, selected)
           IN /\ after \in Seq(Jobs) /\ ToSet(after) = ToSet(listed) \cup ({selected} \ {NoJob})
              /\ FailingOf(ToSet(after), outcome) \ {selected}
                    = FailingOf(ToSet(listed), outcome) \ {selected}
              /\ PrimaryIn(after, outcome, selected) = PrimaryIn(listed, outcome, selected)
<1> DEFINE after == WithSelected(listed, selected)
<1>1. CASE selected \in ToSet(listed) \cup {NoJob}
  <2>1. after = listed
    BY <1>1 DEF WithSelected
  <2> HIDE DEF after
  <2>2. NoJob \notin ToSet(listed)
    BY Members, PipelineInspectionAssumption
  <2> QED
    BY <1>1, <2>1, <2>2 DEF after
<1>2. CASE selected \notin ToSet(listed) \cup {NoJob}
  <2>1. after = Append(listed, selected) /\ selected \in Jobs
    BY <1>2 DEF WithSelected
  <2>2. /\ after \in Seq(Jobs) /\ DOMAIN listed = 1..Len(listed) /\ DOMAIN after = 1..(Len(listed) + 1)
        /\ \A i \in 1..Len(listed) : after[i] = listed[i]
        /\ after[Len(listed) + 1] = selected /\ Len(listed) \in Nat
    BY <2>1
  <2>3. ToSet(after) = ToSet(listed) \cup {selected}
    <3>1. \A i \in DOMAIN after : i = Len(listed) + 1 \/ i \in DOMAIN listed
      BY <2>2
    <3>2. \A i \in DOMAIN listed : i \in DOMAIN after
      BY <2>2
    <3>3. Len(listed) + 1 \in DOMAIN after
      BY <2>2
    <3> QED
      BY <2>2, <3>1, <3>2, <3>3 DEF ToSet
  <2>4. FailingOf(ToSet(after), outcome) \ {selected} = FailingOf(ToSet(listed), outcome) \ {selected}
    BY <2>3 DEF FailingOf
  <2> DEFINE S == FailingOf(ToSet(listed), outcome) \ {selected}
  <2>5. selected \notin S
    OBVIOUS
  <2> HIDE DEF S
  <2>6. Selected(after, S) = Selected(listed, S)
    BY <2>1, <2>5, SelectedUnlessLast
  <2>7. FailingIn(after, outcome, selected) = FailingIn(listed, outcome, selected)
    BY <2>4, <2>6 DEF FailingIn, S
  <2>8. PrimaryIn(after, outcome, selected) = PrimaryIn(listed, outcome, selected)
    BY <2>7 DEF PrimaryIn
  <2>9. ToSet(listed) \cup ({selected} \ {NoJob}) = ToSet(listed) \cup {selected}
    BY <1>2
  <2> HIDE DEF after
  <2> QED
    BY <2>2, <2>3, <2>4, <2>8, <2>9 DEF after
<1> QED
  BY <1>1, <1>2

LEMMA ChooseStep == ASSUME InspectionInv, Choose PROVE InspectionInv'
<1> DEFINE v == view
           P == PrimaryIn(v.listed, v.outcome, v.selected)
           reserved == /\ v.run # NoRun /\ Len(P) < v.budget
                       /\ \E i \in DOMAIN v.bridges : v.bridges[i].trouble
           left == v.budget - (IF reserved THEN 1 ELSE 0)
           chosen == IF v.run = NoRun THEN <<>> ELSE JobsFor(P, v.listed, v.outcome, left)
           listed == WithSelected(v.listed, v.selected)
           reads == (IF v.sha THEN {"sources", "context"} ELSE {}) \cup ToSet(chosen)
           w == [v EXCEPT !.pc = "evidence", !.chosen = chosen, !.listed = listed, !.reads = reads]
<1>1. /\ v \in Views /\ ViewInv(v) /\ pipeline' = pipeline /\ v.pc \in {"choose", "list"}
      /\ v.pc \in Gathering /\ v.pc \notin Beginning
  BY DEF InspectionInv, ViewInv, Choose, Stage, Gathering, Beginning
<1>2. /\ v.listed \in Seq(Jobs) /\ v.selected \in Jobs \cup {NoJob} /\ v.budget \in Nat \ {0}
      /\ ToSet(v.listed) \subseteq DOMAIN v.outcome /\ v.run \in Outcomes \cup {NoRun}
      /\ v.selected # NoJob => v.selected \in DOMAIN v.outcome
  BY <1>1 DEF Views, ViewInv, OutcomesKnown
<1>3. view' = w
  <2>1. Primary = P /\ ReserveChild = reserved
    BY OfTheView DEF ReserveChild
  <2>2. \A b : SelectJobs(b) = JobsFor(P, v.listed, v.outcome, b)
    BY <2>1 DEF SelectJobs, JobsFor
  <2> HIDE DEF P, reserved
  <2> QED
    BY <1>1, <2>1, <2>2 DEF Choose, WithSelected, Views
<1> HIDE DEF v
<1>4. /\ P \in Seq(Jobs)
      /\ ToSet(P) = (FailingOf(ToSet(v.listed), v.outcome) \ {v.selected}) \cup ({v.selected} \ {NoJob})
      /\ v.selected # NoJob => Len(P) >= 1 /\ P[1] = v.selected
  BY <1>2, PrimaryJobs
<1>5. /\ listed \in Seq(Jobs) /\ ToSet(listed) = ToSet(v.listed) \cup ({v.selected} \ {NoJob})
      /\ FailingOf(ToSet(listed), v.outcome) \ {v.selected}
                    = FailingOf(ToSet(v.listed), v.outcome) \ {v.selected}
      /\ PrimaryIn(listed, v.outcome, v.selected) = P
  <2> HIDE DEF P
  <2>1. PrimaryIn(v.listed, v.outcome, v.selected) = P
    BY DEF P
  <2> QED
    BY <1>2, <2>1, SelectedJoins
<1> HIDE DEF P, listed
<1>6. left \in Nat /\ left <= v.budget /\ (v.selected # NoJob => left >= 1)
      /\ (reserved => left < v.budget)
  BY <1>2, <1>4
<1> HIDE DEF left
<1>7. v.run # NoRun =>
        /\ chosen \in Seq(Jobs) /\ Len(chosen) <= left
        /\ ToSet(chosen) \subseteq ToSet(P) \cup ToSet(v.listed)
        /\ v.selected # NoJob => v.selected \in ToSet(chosen)
        /\ ToSet(P) \subseteq ToSet(chosen) \/ ToSet(chosen) \subseteq ToSet(P)
  <2> HAVE v.run # NoRun
  <2>1. chosen = JobsFor(P, v.listed, v.outcome, left)
    OBVIOUS
  <2> HIDE DEF chosen
  <2> QED
    BY <1>2, <1>4, <1>6, <2>1, JobsSelected
<1>8. v.run = NoRun => chosen = <<>>
  OBVIOUS
<1>9. ToSet(<<>>) = {} /\ <<>> \in Seq(Jobs)
  BY DEF ToSet
<1> HIDE DEF chosen
<1>10. chosen \in Seq(Jobs) /\ ToSet(chosen) \subseteq ToSet(listed)
  <2>1. ToSet(P) \subseteq ToSet(listed)
    BY <1>4, <1>5 DEF FailingOf
  <2> QED
    BY <1>5, <1>7, <1>8, <1>9, <2>1
<1>11. ASSUME v.run # NoRun, NEW j \in ToSet(chosen) \ {v.selected}, v.outcome[j] = "success"
       PROVE  UnanalyzedIn(listed, v.outcome, chosen) = {}
  <2>1. j \notin ToSet(P)
    BY <1>4, <1>11 DEF FailingOf
  <2>2. ToSet(P) \subseteq ToSet(chosen)
    BY <1>7, <1>11, <2>1
  <2>3. NoJob \notin ToSet(listed)
    BY <1>5, Members, PipelineInspectionAssumption
  <2>4. FailingOf(ToSet(listed), v.outcome) \subseteq ToSet(P)
    BY <1>4, <1>5, <2>3 DEF FailingOf
  <2> QED
    BY <2>2, <2>4 DEF UnanalyzedIn
<1>12. reads \subseteq Reads /\ reads \subseteq {"sources", "context"} \cup ToSet(chosen)
       /\ ToSet(chosen) \subseteq reads
  <2>1. ToSet(chosen) \subseteq Jobs
    BY <1>10, Members
  <2> QED
    BY <2>1 DEF Reads
<1> HIDE DEF reads
<1>13. w \in Views
  BY <1>1, <1>5, <1>10, <1>12 DEF Views, Places
<1>14. /\ w.pc = "evidence" /\ w.listed = listed /\ w.selected = v.selected
       /\ w.reference = v.reference /\ w.outcome = v.outcome /\ w.run = v.run
       /\ w.findings = v.findings /\ w.status = v.status /\ w.bridges = v.bridges
       /\ w.chosen = chosen /\ w.reads = reads /\ w.budget = v.budget
       /\ w.candidates = v.candidates /\ w.children = v.children /\ w.traces = v.traces
       /\ w.childRead = v.childRead /\ w.childLeft = v.childLeft
  BY <1>1 DEF Views
<1> HIDE DEF w
<1>15. OutcomesKnown(w) /\ InOrder(w) /\ Excusable(w.run, w.findings)
  <2>1. OutcomesKnown(w)
    BY <1>1, <1>2, <1>5, <1>14 DEF ViewInv, OutcomesKnown
  <2>2. InOrder(w)
    BY <1>1, <1>14 DEF ViewInv, InOrder, Gathering, Beginning
  <2> QED
    BY <1>1, <1>14, <2>1, <2>2 DEF ViewInv
<1>16. Chosen(w)
  <2>1. v.run # NoRun => Len(chosen) <= v.budget
    <3>1. chosen \in Seq(Jobs) => Len(chosen) \in Nat
      OBVIOUS
    <3> QED
      BY <1>2, <1>6, <1>7, <1>10, <3>1
  <2>2. v.run # NoRun /\ (\E i \in DOMAIN v.bridges : v.bridges[i].trouble) =>
          Len(P) >= v.budget \/ Len(chosen) < v.budget
    <3>1. v.run # NoRun /\ (\E i \in DOMAIN v.bridges : v.bridges[i].trouble) =>
            reserved \/ ~ (Len(P) < v.budget)
      OBVIOUS
    <3>2. Len(P) \in Nat /\ Len(chosen) \in Nat
      BY <1>4, <1>10
    <3> HIDE DEF reserved
    <3> QED
      BY <1>2, <1>6, <1>7, <3>1, <3>2
  <2> QED
    BY <1>5, <1>7, <1>8, <1>10, <1>11, <1>14, <2>1, <2>2 DEF Chosen
<1>17. Traced(w) /\ Judged(w)
  <2>1. DOMAIN v.traces = {}
    BY <1>1 DEF ViewInv, InOrder
  <2> QED
    BY <1>12, <1>14, <2>1 DEF Traced, Judged, Judging
<1>18. Told(w)
  BY <1>1, <1>14 DEF ViewInv, InOrder, Told
<1>19. ViewInv(w)
  BY <1>13, <1>15, <1>16, <1>17, <1>18 DEF ViewInv
<1> QED
  BY <1>1, <1>3, <1>19 DEF InspectionInv, PipelineFits

-----------------------------------------------------------------------------
(* The evidence, and what is made of it.                                       *)

SameChoice(v, w) ==
    /\ w.listed = v.listed /\ w.selected = v.selected /\ w.reference = v.reference
    /\ w.outcome = v.outcome /\ w.run = v.run /\ w.bridges = v.bridges
    /\ w.chosen = v.chosen /\ w.budget = v.budget

\* A step that reads evidence keeps what was chosen.
LEMMA EvidenceGoesOn ==
    ASSUME NEW v, NEW w, ViewInv(v), w \in Views, v.pc = "evidence", w.pc = "evidence",
           SameChoice(v, w), w.findings = v.findings, w.status = v.status,
           w.candidates = v.candidates, w.children = v.children,
           w.childRead = v.childRead, w.childLeft = v.childLeft, Traced(w)
    PROVE  ViewInv(w)
<1>1. OutcomesKnown(w) /\ InOrder(w) /\ Excusable(w.run, w.findings)
  BY DEF ViewInv, OutcomesKnown, InOrder, SameChoice, Gathering, Beginning
<1>2. Chosen(w)
  BY DEF ViewInv, Chosen, SameChoice
<1>3. Judged(w) /\ Told(w)
  BY DEF ViewInv, InOrder, Judged, Judging, Told
<1> QED
  BY <1>1, <1>2, <1>3 DEF ViewInv

LEMMA SourcesStep == ASSUME InspectionInv, ReadSources PROVE InspectionInv'
<1> DEFINE v == view
<1>1. /\ v \in Views /\ ViewInv(v) /\ pipeline' = pipeline /\ v.pc = "evidence"
      /\ v.reads \subseteq Reads /\ v.partial \in BOOLEAN /\ v.chosen \in Seq(Jobs)
  BY DEF InspectionInv, ViewInv, ReadSources, Stage, Views
<1>2. PICK ok \in BOOLEAN, complete \in BOOLEAN :
        view' = [v EXCEPT !.reads = v.reads \ {"sources"}, !.complete = complete,
                          !.partial = v.partial \/ ~ok]
  BY <1>1 DEF ReadSources, Read, Views
<1> DEFINE reads == v.reads \ {"sources"}
           partial == v.partial \/ ~ok
           w == [v EXCEPT !.reads = reads, !.complete = complete, !.partial = partial]
<1>3. view' = w
  BY <1>2
<1>4. reads \subseteq Reads /\ partial \in BOOLEAN
  BY <1>1
<1>5. "sources" \notin ToSet(v.chosen)
  BY <1>1, Members, PipelineInspectionAssumption
<1> HIDE DEF v, partial
<1>6. w \in Views
  BY <1>1, <1>4 DEF Views
<1>7. /\ w.pc = "evidence" /\ SameChoice(v, w) /\ w.findings = v.findings /\ w.status = v.status
      /\ w.candidates = v.candidates /\ w.children = v.children
      /\ w.childRead = v.childRead /\ w.childLeft = v.childLeft
      /\ w.reads = reads /\ w.traces = v.traces
  BY <1>1 DEF Views, SameChoice
<1> HIDE DEF w
<1>8. Traced(w)
  BY <1>1, <1>5, <1>7 DEF ViewInv, Traced, SameChoice, Judging
<1>9. ViewInv(w)
  BY <1>1, <1>6, <1>7, <1>8, EvidenceGoesOn
<1> QED
  BY <1>1, <1>3, <1>9 DEF InspectionInv, PipelineFits

LEMMA ContextStep == ASSUME InspectionInv, ReadContext PROVE InspectionInv'
<1> DEFINE v == view
<1>1. /\ v \in Views /\ ViewInv(v) /\ pipeline' = pipeline /\ v.pc = "evidence"
      /\ v.reads \subseteq Reads /\ v.partial \in BOOLEAN /\ v.chosen \in Seq(Jobs)
  BY DEF InspectionInv, ViewInv, ReadContext, Stage, Views
<1>2. PICK ok \in BOOLEAN :
        view' = [v EXCEPT !.reads = v.reads \ {"context"}, !.partial = v.partial \/ ~ok]
  BY <1>1 DEF ReadContext, Read, Views
<1> DEFINE reads == v.reads \ {"context"}
           partial == v.partial \/ ~ok
           w == [v EXCEPT !.reads = reads, !.partial = partial]
<1>3. view' = w
  BY <1>2
<1>4. reads \subseteq Reads /\ partial \in BOOLEAN
  BY <1>1
<1>5. "context" \notin ToSet(v.chosen)
  BY <1>1, Members, PipelineInspectionAssumption
<1> HIDE DEF v, partial
<1>6. w \in Views
  BY <1>1, <1>4 DEF Views
<1>7. /\ w.pc = "evidence" /\ SameChoice(v, w) /\ w.findings = v.findings /\ w.status = v.status
      /\ w.candidates = v.candidates /\ w.children = v.children
      /\ w.childRead = v.childRead /\ w.childLeft = v.childLeft
      /\ w.reads = reads /\ w.traces = v.traces
  BY <1>1 DEF Views, SameChoice
<1> HIDE DEF w
<1>8. Traced(w)
  BY <1>1, <1>5, <1>7 DEF ViewInv, Traced, SameChoice, Judging
<1>9. ViewInv(w)
  BY <1>1, <1>6, <1>7, <1>8, EvidenceGoesOn
<1> QED
  BY <1>1, <1>3, <1>9 DEF InspectionInv, PipelineFits

LEMMA TraceStep == ASSUME InspectionInv, ReadTrace PROVE InspectionInv'
<1> DEFINE v == view
<1>1. /\ v \in Views /\ ViewInv(v) /\ pipeline' = pipeline /\ v.pc = "evidence"
      /\ v.reads \subseteq Reads /\ v.partial \in BOOLEAN /\ v.chosen \in Seq(Jobs)
      /\ v.traces \in Partial(Jobs, Marks)
  BY DEF InspectionInv, ViewInv, ReadTrace, Stage, Views
<1>2. PICK j \in v.reads \cap Jobs, signals \in BOOLEAN, ok \in BOOLEAN :
        view' = [v EXCEPT !.reads = v.reads \ {j},
                   !.traces = WithTrace(j, IF signals THEN "signals" ELSE "clean"),
                   !.partial = v.partial \/ ~ok]
  BY <1>1 DEF ReadTrace, Read, Views
<1> DEFINE reads == v.reads \ {j}
           partial == v.partial \/ ~ok
           mark == IF signals THEN "signals" ELSE "clean"
           traces == WithTrace(j, mark)
           w == [v EXCEPT !.reads = reads, !.traces = traces, !.partial = partial]
<1>3. view' = w
  BY <1>2
<1>4. reads \subseteq Reads /\ partial \in BOOLEAN /\ mark \in Marks
  BY <1>1 DEF Marks
<1>10. traces = [i \in DOMAIN v.traces \cup {j} |-> IF i \in DOMAIN v.traces THEN v.traces[i] ELSE mark]
  BY DEF WithTrace
<1> HIDE DEF v, partial, mark, traces
<1>5. traces \in Partial(Jobs, Marks) /\ DOMAIN traces = DOMAIN v.traces \cup {j}
  <2>1. DOMAIN v.traces \subseteq Jobs /\ v.traces \in [DOMAIN v.traces -> Marks]
    BY <1>1, PartialFunction
  <2>2. DOMAIN v.traces \cup {j} \in SUBSET Jobs
    BY <2>1
  <2>3. traces \in [DOMAIN v.traces \cup {j} -> Marks] /\ DOMAIN traces = DOMAIN v.traces \cup {j}
    BY <1>4, <1>10, <2>1
  <2> QED
    BY <2>2, <2>3 DEF Partial
<1>6. w \in Views
  BY <1>1, <1>4, <1>5 DEF Views
<1>7. /\ w.pc = "evidence" /\ SameChoice(v, w) /\ w.findings = v.findings /\ w.status = v.status
      /\ w.candidates = v.candidates /\ w.children = v.children
      /\ w.childRead = v.childRead /\ w.childLeft = v.childLeft
      /\ w.reads = reads /\ w.traces = traces
  BY <1>1 DEF Views, SameChoice
<1> HIDE DEF w
<1>8. Traced(w)
  <2>1. j \in ToSet(v.chosen)
    BY <1>1, <1>2, PipelineInspectionAssumption DEF ViewInv, Traced
  <2> QED
    BY <1>1, <1>5, <1>7, <2>1 DEF ViewInv, Traced, SameChoice, Judging
<1>9. ViewInv(w)
  BY <1>1, <1>6, <1>7, <1>8, EvidenceGoesOn
<1> QED
  BY <1>1, <1>3, <1>9 DEF InspectionInv, PipelineFits

\* What a job's outcome and trace make of it.
LEMMA Severities ==
    ASSUME NEW outcome \in Outcomes, NEW trace \in Marks, NEW allowed \in BOOLEAN, NEW succeeded \in BOOLEAN
    PROVE  LET severity == JobSeverity(outcome, trace, allowed, succeeded)
           IN /\ severity \in {"error", "warning", "info"}
              /\ succeeded => severity # "error"
              /\ severity = "info" => outcome # "failed" /\ trace = "clean"
BY DEF JobSeverity, Marks, Outcomes

LEMMA Founds ==
    ASSUME NEW rule \in {"job", "pipeline", "sources", "risk", "unanalyzed", "downstream", "child"},
           NEW severity \in {"error", "warning", "info"}, NEW job \in Jobs \cup {NoJob}
    PROVE  Found(rule, severity, job) \in Finding /\ Found(rule, severity, job).severity = severity
BY DEF Found, Finding

\* What the analyses of the chosen jobs say.
LEMMA JobsJudged ==
    ASSUME view \in Views, ViewInv(view),
           view.pc = "evidence", view.reads = {}
    PROVE  /\ JobFindings \subseteq Finding
           /\ view.run = "success" => \A f \in JobFindings : f.severity # "error"
           /\ (\A f \in JobFindings : f.severity = "info") =>
                \A j \in ToSet(view.chosen) : view.outcome[j] # "failed" /\ view.traces[j] = "clean"
           /\ DOMAIN view.traces = ToSet(view.chosen)
<1> DEFINE severity(j) == JobSeverity(view.outcome[j], view.traces[j], j \in AllowedToFail, view.run = "success")
<1>1. ToSet(view.chosen) \subseteq ToSet(view.listed) /\ ToSet(view.listed) \subseteq DOMAIN view.outcome
      /\ DOMAIN view.traces = ToSet(view.chosen)
  BY DEF ViewInv, Chosen, OutcomesKnown, Traced
<1>2. /\ DOMAIN view.outcome \subseteq Jobs /\ view.outcome \in [DOMAIN view.outcome -> Outcomes]
      /\ view.traces \in [DOMAIN view.traces -> Marks]
  <2>1. view.outcome \in Partial(Jobs, Outcomes) /\ view.traces \in Partial(Jobs, Marks)
    BY DEF Views
  <2> QED
    BY <2>1, PartialFunction
<1>3. ASSUME NEW j \in ToSet(view.chosen)
      PROVE  /\ severity(j) \in {"error", "warning", "info"}
             /\ view.run = "success" => severity(j) # "error"
             /\ severity(j) = "info" => view.outcome[j] # "failed" /\ view.traces[j] = "clean"
             /\ Found("job", severity(j), j) \in Finding
             /\ Found("job", severity(j), j).severity = severity(j)
  <2>1. view.outcome[j] \in Outcomes /\ view.traces[j] \in Marks /\ j \in Jobs
    BY <1>1, <1>2
  <2> DEFINE allowed == j \in AllowedToFail
             succeeded == view.run = "success"
  <2>2. allowed \in BOOLEAN /\ succeeded \in BOOLEAN
    OBVIOUS
  <2> HIDE DEF allowed
  <2>3. /\ severity(j) \in {"error", "warning", "info"}
        /\ succeeded => severity(j) # "error"
        /\ severity(j) = "info" => view.outcome[j] # "failed" /\ view.traces[j] = "clean"
    <3> HIDE DEF succeeded
    <3>1. JobSeverity(view.outcome[j], view.traces[j], allowed, succeeded) = severity(j)
      BY DEF allowed, succeeded
    <3> HIDE DEF severity
    <3> QED
      BY <2>1, <2>2, <3>1, Severities
  <2> HIDE DEF severity
  <2> QED
    BY <2>1, <2>3, Founds
<1>4. JobFindings = { Found("job", severity(j), j) : j \in ToSet(view.chosen) }
  BY DEF JobFindings
<1> HIDE DEF severity
<1> QED
  BY <1>1, <1>3, <1>4

\* The trigger jobs that are followed.
LEMMA FollowedBridges ==
    ASSUME NEW bridges \in Seq(Bridge)
    PROVE  LET troubled == TroubledIn(bridges)
               candidates == SubSeq(troubled, 1, Bounded(2, Len(troubled)))
           IN /\ candidates \in Seq(Bridge) /\ Len(candidates) <= 2
              /\ candidates = <<>> => troubled = <<>>
              /\ candidates # <<>> => \E i \in DOMAIN bridges : bridges[i].trouble
<1> DEFINE S == { b \in ToSet(bridges) : b.trouble /\ ~b.self }
           troubled == TroubledIn(bridges)
           n == Bounded(2, Len(troubled))
           candidates == SubSeq(troubled, 1, n)
<1>1. troubled = Selected(bridges, S)
  BY DEF TroubledIn
<1>2. \A b \in S : b.trouble
  OBVIOUS
<1> HIDE DEF S, troubled
<1>3. /\ troubled \in Seq(Bridge)
      /\ \A j \in DOMAIN troubled : troubled[j] \in S /\ \E i \in DOMAIN bridges : bridges[i] = troubled[j]
  BY <1>1, SelectedElements
<1>4. n \in 0..Len(troubled) /\ n <= 2 /\ (n = 0 => Len(troubled) = 0)
  BY <1>3 DEF Bounded
<1> HIDE DEF n
<1>5. candidates \in Seq(Bridge) /\ Len(candidates) = n
  BY <1>3, <1>4
<1>6. candidates = <<>> => troubled = <<>>
  <2>1. candidates = <<>> => Len(troubled) = 0
    BY <1>4, <1>5
  <2> QED
    BY <1>3, <2>1
<1>7. ASSUME candidates # <<>> PROVE \E i \in DOMAIN bridges : bridges[i].trouble
  <2>1. Len(candidates) # 0
    BY <1>5, <1>7
  <2>2. 1 \in DOMAIN troubled
    BY <1>3, <1>4, <1>5, <2>1
  <2> QED
    BY <1>2, <1>3, <2>2
<1> QED
  BY <1>4, <1>5, <1>6, <1>7 DEF n, troubled

LEMMA AnalyzeStep == ASSUME InspectionInv, Analyze PROVE InspectionInv'
<1> DEFINE v == view
           unread == UnanalyzedIn(v.listed, v.outcome, v.chosen)
           candidates == IF v.run = NoRun THEN <<>>
                         ELSE SubSeq(TroubledIn(v.bridges), 1, Bounded(2, Len(TroubledIn(v.bridges))))
           missing == Found("sources", "warning", NoJob)
           danger == Found("risk", "warning", NoJob)
           severity == Excused("error", v.run = "success" \/ unread \subseteq AllowedToFail)
           left == Found("unanalyzed", severity, NoJob)
<1>1. /\ v \in Views /\ ViewInv(v) /\ pipeline' = pipeline /\ v.pc = "evidence" /\ v.reads = {}
      /\ v.complete \in BOOLEAN /\ v.bridges \in Seq(Bridge) /\ v.findings \subseteq Finding
  BY SMTT(60) DEF InspectionInv, ViewInv, Analyze, Stage, Views
<1>2. PICK parsed \in BOOLEAN, risky \in BOOLEAN :
        view' = [v EXCEPT !.pc = "child", !.complete = v.complete /\ parsed, !.candidates = candidates,
                   !.findings = v.findings \cup JobFindings
                      \cup (IF v.complete /\ parsed THEN {} ELSE {missing})
                      \cup (IF risky THEN {danger} ELSE {})
                      \cup (IF v.run = NoRun \/ unread = {} THEN {} ELSE {left})]
  <2>1. Unanalyzed = unread /\ Troubled = TroubledIn(v.bridges)
    BY OfTheView
  <2> HIDE DEF unread
  <2> QED
    BY <1>1, <2>1 DEF Analyze, Views
<1>3. /\ JobFindings \subseteq Finding
      /\ v.run = "success" => \A f \in JobFindings : f.severity # "error"
      /\ (\A f \in JobFindings : f.severity = "info") =>
            \A j \in ToSet(v.chosen) : v.outcome[j] # "failed" /\ v.traces[j] = "clean"
      /\ DOMAIN v.traces = ToSet(v.chosen)
  BY <1>1, JobsJudged
<1> DEFINE complete == v.complete /\ parsed
           findings == v.findings \cup JobFindings
                      \cup (IF complete THEN {} ELSE {missing})
                      \cup (IF risky THEN {danger} ELSE {})
                      \cup (IF v.run = NoRun \/ unread = {} THEN {} ELSE {left})
           w == [v EXCEPT !.pc = "child", !.complete = complete, !.candidates = candidates,
                          !.findings = findings]
<1>4. view' = w /\ complete \in BOOLEAN
  BY <1>1, <1>2
<1>5. severity \in {"error", "warning"} /\ (v.run = "success" => severity = "warning")
  BY DEF Excused
<1> HIDE DEF severity
<1>6. /\ missing \in Finding /\ missing.severity = "warning"
      /\ danger \in Finding /\ danger.severity = "warning"
      /\ left \in Finding /\ left.severity = severity
  BY <1>5, Founds
<1>7. /\ v.run = NoRun => candidates = <<>>
      /\ candidates \in Seq(Bridge) /\ Len(candidates) <= 2
      /\ v.run # NoRun /\ candidates = <<>> => TroubledIn(v.bridges) = <<>>
      /\ candidates # <<>> => \E i \in DOMAIN v.bridges : v.bridges[i].trouble
  <2>1. CASE v.run = NoRun
    <3>1. candidates = <<>>
      BY <2>1
    <3>2. <<>> \in Seq(Bridge) /\ Len(<<>>) = 0
      OBVIOUS
    <3> HIDE DEF candidates
    <3> QED
      BY <2>1, <3>1, <3>2
  <2>2. CASE v.run # NoRun
    <3> DEFINE followed == SubSeq(TroubledIn(v.bridges), 1, Bounded(2, Len(TroubledIn(v.bridges))))
    <3>1. /\ followed \in Seq(Bridge) /\ Len(followed) <= 2
          /\ followed = <<>> => TroubledIn(v.bridges) = <<>>
          /\ followed # <<>> => \E i \in DOMAIN v.bridges : v.bridges[i].trouble
      BY <1>1, FollowedBridges
    <3>2. candidates = followed
      BY <2>2
    <3> HIDE DEF candidates, followed
    <3> QED
      BY <2>2, <3>1, <3>2
  <2> QED
    BY <2>1, <2>2
<1> HIDE DEF v, missing, danger, left, candidates, unread, complete
<1>8. /\ findings \subseteq Finding /\ v.findings \subseteq findings /\ JobFindings \subseteq findings
      /\ ~complete => missing \in findings
      /\ v.run # NoRun /\ unread # {} => left \in findings
  BY <1>1, <1>3, <1>6
<1>9. v.run = "success" => \A f \in findings : f.severity # "error"
  BY <1>1, <1>3, <1>5, <1>6 DEF ViewInv, Excusable
<1> HIDE DEF findings
<1>10. w \in Views
  BY <1>1, <1>4, <1>7, <1>8 DEF Views, Places
<1>11. /\ w.pc = "child" /\ SameChoice(v, w) /\ w.findings = findings /\ w.status = v.status
       /\ w.candidates = candidates /\ w.children = v.children /\ w.complete = complete
       /\ w.childRead = v.childRead /\ w.childLeft = v.childLeft
       /\ w.reads = v.reads /\ w.traces = v.traces
  BY <1>1 DEF Views, SameChoice
<1> HIDE DEF w
<1>12. OutcomesKnown(w) /\ InOrder(w) /\ Excusable(w.run, w.findings)
  BY <1>1, <1>9, <1>11 DEF ViewInv, OutcomesKnown, InOrder, SameChoice, Gathering, Beginning, Excusable
<1>13. Chosen(w) /\ Traced(w)
  BY <1>1, <1>3, <1>11 DEF ViewInv, Chosen, Traced, SameChoice, Judging
<1>14. Judged(w)
  <2>1. v.children = 0 /\ ~v.childRead /\ ~v.childLeft
    BY <1>1 DEF ViewInv, InOrder
  <2>2. AllQuiet(w) =>
           /\ complete
           /\ v.run # NoRun => unread = {}
           /\ \A j \in ToSet(v.chosen) : v.outcome[j] # "failed" /\ v.traces[j] = "clean"
    BY <1>3, <1>5, <1>6, <1>8, <1>11 DEF AllQuiet
  <2>3. Len(candidates) \in Nat
    BY <1>7
  <2> QED
    BY <1>7, <1>11, <2>1, <2>2, <2>3 DEF Judged, SameChoice, unread
<1>15. Told(w)
  BY <1>1, <1>11 DEF ViewInv, InOrder, Told
<1>16. ViewInv(w)
  BY <1>10, <1>12, <1>13, <1>14, <1>15 DEF ViewInv
<1> QED
  BY <1>1, <1>4, <1>16 DEF InspectionInv, PipelineFits

\* A step from child to child: what is found of it is more than a note.
LEMMA ChildGoesOn ==
    ASSUME NEW v, NEW w, ViewInv(v), w \in Views, v.pc = "child", w.pc = "child",
           v.children < Len(v.candidates), w.children = v.children + 1,
           SameChoice(v, w), w.status = v.status, w.complete = v.complete, w.traces = v.traces,
           w.candidates = v.candidates, v.findings \subseteq w.findings,
           Excusable(w.run, w.findings), ~ AllQuiet(w),
           w.childRead => v.childRead \/ Len(v.chosen) < v.budget,
           w.childLeft /\ ~w.childRead =>
              ~v.childRead /\ (v.childLeft \/ Len(v.chosen) >= v.budget)
    PROVE  ViewInv(w)
<1>1. OutcomesKnown(w) /\ InOrder(w)
  BY DEF ViewInv, OutcomesKnown, InOrder, SameChoice, Gathering, Beginning
<1>2. Chosen(w) /\ Traced(w)
  BY DEF ViewInv, Chosen, Traced, SameChoice, Judging
<1>3. Told(w)
  BY DEF ViewInv, InOrder, Told
<1>4. Judged(w)
  <2>1. /\ v \in Views /\ v.children \in Nat /\ v.candidates \in Seq(Bridge)
        /\ Judged(v) /\ v.pc \in Judging
    BY DEF ViewInv, Views, Judging
  <2>2. Len(v.candidates) \in Nat /\ (v.candidates = <<>> => Len(v.candidates) = 0)
    BY <2>1
  <2> HIDE DEF AllQuiet
  <2>3. w.children <= Len(w.candidates) /\ v.candidates # <<>>
    BY <2>1, <2>2
  <2> QED
    BY <2>1, <2>3 DEF Judged, SameChoice
<1> QED
  BY <1>1, <1>2, <1>3, <1>4 DEF ViewInv

LEMMA UnavailableStep == ASSUME InspectionInv, ChildUnavailable PROVE InspectionInv'
<1> DEFINE v == view
           severity == Excused("error", Child.allowed \/ v.run = "success")
           found == Found("downstream", severity, NoJob)
           partial == v.partial \/ ~(~Child.known)
           findings == v.findings \cup {found}
           children == v.children + 1
           w == [v EXCEPT !.children = children, !.findings = findings, !.partial = partial]
<1>1. /\ v \in Views /\ ViewInv(v) /\ pipeline' = pipeline /\ v.pc = "child"
      /\ v.children < Len(v.candidates) /\ v.findings \subseteq Finding
      /\ v.partial \in BOOLEAN /\ v.children \in Nat
  BY DEF InspectionInv, ViewInv, ChildUnavailable, AtChild, Stage, Views
<1>2. view' = w
  BY <1>1 DEF ChildUnavailable, Read, Pardoned, Views
<1>3. severity \in {"error", "warning"} /\ (v.run = "success" => severity = "warning")
  BY DEF Excused
<1>4. partial \in BOOLEAN /\ children \in Nat
  BY <1>1
<1> HIDE DEF v, severity, partial
<1>5. found \in Finding /\ found.severity = severity
  BY <1>3, Founds
<1> HIDE DEF found
<1>6. findings \subseteq Finding /\ (v.run = "success" => \A f \in findings : f.severity # "error")
  BY <1>1, <1>3, <1>5 DEF ViewInv, Excusable
<1>7. found \in findings /\ v.findings \subseteq findings
  OBVIOUS
<1> HIDE DEF findings, children
<1>8. w \in Views
  BY <1>1, <1>4, <1>6 DEF Views
<1>9. /\ w.pc = "child" /\ w.children = children /\ SameChoice(v, w) /\ w.status = v.status
      /\ w.complete = v.complete /\ w.traces = v.traces /\ w.candidates = v.candidates
      /\ w.findings = findings /\ w.childRead = v.childRead /\ w.childLeft = v.childLeft
  BY <1>1 DEF Views, SameChoice
<1> HIDE DEF w
<1>10. Excusable(w.run, w.findings) /\ ~ AllQuiet(w)
  BY <1>3, <1>5, <1>6, <1>7, <1>9 DEF Excusable, AllQuiet, SameChoice
<1>11. v.childRead => Len(v.chosen) < v.budget
  BY <1>1 DEF ViewInv, Judged, Judging
<1>12. ViewInv(w)
  BY <1>1, <1>7, <1>8, <1>9, <1>10, <1>11, ChildGoesOn DEF children
<1> QED
  BY <1>1, <1>2, <1>12 DEF InspectionInv, PipelineFits

LEMMA ReadableStep == ASSUME InspectionInv, ChildReadable PROVE InspectionInv'
<1> DEFINE v == view
           trouble == Excused("error", Child.allowed \/ v.run = "success")
           downstream == Found("downstream", trouble, NoJob)
           children == v.children + 1
           missing == Found("sources", "warning", NoJob)
           pardoned == v.run = "success" \/ Child.run = "success"
<1>1. /\ v \in Views /\ ViewInv(v) /\ pipeline' = pipeline /\ v.pc = "child"
      /\ v.children < Len(v.candidates) /\ v.findings \subseteq Finding
      /\ v.partial \in BOOLEAN /\ v.children \in Nat /\ v.candidates \in Seq(Bridge)
      /\ v.childRead \in BOOLEAN /\ v.childLeft \in BOOLEAN
      /\ v.budget \in Nat /\ v.chosen \in Seq(Jobs)
  BY DEF InspectionInv, ViewInv, ChildReadable, AtChild, Stage, Views
<1>2. PICK jobs \in BOOLEAN, ok \in BOOLEAN, signals \in BOOLEAN, complete \in BOOLEAN :
        ReadChild(jobs, ok, signals, complete)
  BY DEF ChildReadable
<1> DEFINE failed == jobs /\ \E i \in DOMAIN Child.jobs : Child.jobs[i] = "failed"
           analysed == failed /\ Len(v.chosen) < v.budget /\ ~v.childRead
           mark == IF signals THEN "signals" ELSE "clean"
           severity == JobSeverity("failed", mark, Child.allowed, pardoned)
           found == Found("child", severity, NoJob)
           read == v.childRead \/ analysed
           omitted == v.childLeft \/ (failed /\ ~analysed)
           findings == v.findings \cup {downstream} \cup (IF analysed THEN {found} ELSE {})
                         \cup (IF analysed /\ ~complete THEN {missing} ELSE {})
           partial == v.partial \/ ~(jobs /\ ok)
           w == [v EXCEPT !.children = children, !.childRead = read, !.childLeft = omitted,
                          !.findings = findings, !.partial = partial]
<1>3. view' = w
  <2>1. Read(jobs /\ ok, [v EXCEPT !.children = children, !.childRead = read, !.childLeft = omitted,
                                   !.findings = findings])
    BY <1>2 DEF ReadChild, Pardoned
  <2> HIDE DEF children, read, omitted, findings
  <2> QED
    BY <1>1, <2>1 DEF Read, Views
<1>4. trouble \in {"error", "warning"} /\ (v.run = "success" => trouble = "warning")
  BY DEF Excused
<1>5. severity \in {"error", "warning", "info"} /\ (v.run = "success" => severity # "error")
  <2>1. Child.allowed \in BOOLEAN
    <3>1. v.children + 1 \in DOMAIN v.candidates
      BY <1>1
    <3>2. Child \in Bridge
      BY <1>1, <3>1 DEF Child
    <3> QED
      BY <3>2 DEF Bridge
  <2> DEFINE allowed == Child.allowed
  <2>2. mark \in Marks /\ pardoned \in BOOLEAN /\ "failed" \in Outcomes /\ (v.run = "success" => pardoned)
    BY DEF Marks, Outcomes
  <2>3. severity = JobSeverity("failed", mark, allowed, pardoned)
    OBVIOUS
  <2> HIDE DEF mark, pardoned, allowed, severity
  <2>4. allowed \in BOOLEAN
    BY <2>1 DEF allowed
  <2> QED
    BY <2>2, <2>3, <2>4, Severities
<1>6. /\ partial \in BOOLEAN /\ children \in Nat /\ read \in BOOLEAN /\ omitted \in BOOLEAN
      /\ read => v.childRead \/ Len(v.chosen) < v.budget
      /\ omitted /\ ~read => ~v.childRead /\ (v.childLeft \/ Len(v.chosen) >= v.budget)
  BY <1>1
<1> HIDE DEF v, trouble, severity, partial, read, omitted, analysed, missing
<1>7. /\ downstream \in Finding /\ downstream.severity = trouble
      /\ found \in Finding /\ found.severity = severity
      /\ missing \in Finding /\ missing.severity = "warning"
  BY <1>4, <1>5, Founds DEF missing
<1> HIDE DEF downstream, found
<1>8. findings \subseteq Finding /\ (v.run = "success" => \A f \in findings : f.severity # "error")
  BY <1>1, <1>4, <1>5, <1>7 DEF ViewInv, Excusable
<1>9. downstream \in findings /\ v.findings \subseteq findings
  OBVIOUS
<1> HIDE DEF findings, children
<1>10. w \in Views
  BY <1>1, <1>6, <1>8 DEF Views
<1>11. /\ w.pc = "child" /\ w.children = children /\ SameChoice(v, w) /\ w.status = v.status
       /\ w.complete = v.complete /\ w.traces = v.traces /\ w.candidates = v.candidates
       /\ w.findings = findings /\ w.childRead = read /\ w.childLeft = omitted
  BY <1>1 DEF Views, SameChoice
<1> HIDE DEF w
<1>12. Excusable(w.run, w.findings) /\ ~ AllQuiet(w)
  BY <1>4, <1>7, <1>8, <1>9, <1>11 DEF Excusable, AllQuiet, SameChoice
<1>13. ViewInv(w)
  BY <1>1, <1>6, <1>9, <1>10, <1>11, <1>12, ChildGoesOn DEF children
<1> QED
  BY <1>1, <1>3, <1>13 DEF InspectionInv, PipelineFits

LEMMA ReportStep == ASSUME InspectionInv, Report PROVE InspectionInv'
<1> DEFINE v == view
           told == CASE v.status = "configuration_only" -> v.status
                       [] v.run = "failed" -> "failed"
                       [] v.run = "active" -> "in_progress"
                       [] v.run = "success" /\ ~v.partial /\ AllQuiet(v) -> "passed"
                       [] OTHER -> "warning"
           w == [v EXCEPT !.pc = "done", !.status = told]
<1>1. /\ v \in Views /\ ViewInv(v) /\ pipeline' = pipeline /\ v.pc = "child"
      /\ v.children = Len(v.candidates) /\ v.status \in {"none", "configuration_only"}
  BY DEF InspectionInv, ViewInv, InOrder, Report, Stage
<1>2. view' = w
  BY <1>1 DEF Report, AllQuiet, Views
<1>3. /\ told \in Statuses
      /\ told = "passed" => v.run = "success" /\ ~v.partial /\ AllQuiet(v)
  BY DEF Statuses
<1> HIDE DEF v, told
<1>4. w \in Views
  BY <1>1, <1>3 DEF Views, Places
<1>5. /\ w.pc = "done" /\ w.status = told /\ SameChoice(v, w) /\ w.children = v.children
      /\ w.complete = v.complete /\ w.traces = v.traces /\ w.candidates = v.candidates
      /\ w.findings = v.findings /\ w.childRead = v.childRead /\ w.childLeft = v.childLeft
      /\ w.partial = v.partial
  BY <1>1 DEF Views, SameChoice
<1> HIDE DEF w
<1>6. OutcomesKnown(w) /\ InOrder(w) /\ Excusable(w.run, w.findings)
  BY <1>1, <1>5 DEF ViewInv, OutcomesKnown, InOrder, SameChoice, Gathering, Beginning
<1>7. Chosen(w) /\ Traced(w)
  BY <1>1, <1>5 DEF ViewInv, Chosen, Traced, SameChoice, Judging
<1>8. Judged(w)
  BY <1>1, <1>5 DEF ViewInv, Judged, SameChoice, Judging, AllQuiet
<1>9. Told(w)
  BY <1>1, <1>3, <1>5 DEF Told, SameChoice, AllQuiet
<1>10. ViewInv(w)
  BY <1>4, <1>6, <1>7, <1>8, <1>9 DEF ViewInv
<1> QED
  BY <1>1, <1>2, <1>10 DEF InspectionInv, PipelineFits

-----------------------------------------------------------------------------
(* The pipeline meanwhile, and the theorems.                                   *)

LEMMA JobEndsStep == ASSUME InspectionInv, JobEnds PROVE InspectionInv'
<1>1. PICK j \in ToSet(pipeline.listed), o \in {"success", "failed"} :
        pipeline' = [pipeline EXCEPT !.outcome[j] = o] /\ view' = view
  BY DEF JobEnds
<1> DEFINE outcome == [pipeline.outcome EXCEPT ![j] = o]
<1>2. PipelineFits /\ o \in Outcomes
  BY DEF InspectionInv, Outcomes
<1>3. outcome \in [Jobs -> Outcomes]
  BY <1>2 DEF PipelineFits
<1>4. pipeline' = [pipeline EXCEPT !.outcome = outcome]
  BY <1>1, <1>2 DEF PipelineFits
<1> HIDE DEF outcome
<1>5. PipelineFits'
  BY <1>2, <1>3, <1>4 DEF PipelineFits
<1> QED
  BY <1>1, <1>5 DEF InspectionInv

\* GitLab retries a job.
LEMMA RetriedStep ==
    ASSUME InspectionInv, JobRetried PROVE InspectionInv'
<1>1. PICK j \in ToSet(pipeline.listed) \cap DOMAIN RetryOf :
        /\ pipeline' = [pipeline EXCEPT
             !.listed = [i \in DOMAIN pipeline.listed |->
                           IF pipeline.listed[i] = j THEN RetryOf[j] ELSE pipeline.listed[i]],
             !.outcome[RetryOf[j]] = "active"]
        /\ view' = view
  BY DEF JobRetried
<1> DEFINE listed == [i \in DOMAIN pipeline.listed |->
                        IF pipeline.listed[i] = j THEN RetryOf[j] ELSE pipeline.listed[i]]
<1>2. RetryOf[j] \in Jobs /\ pipeline.listed \in Seq(Jobs) /\ pipeline.outcome \in [Jobs -> Outcomes]
      /\ "active" \in Outcomes /\ pipeline.bridges \in Seq(Bridge)
  BY PipelineInspectionAssumption DEF InspectionInv, PipelineFits, Outcomes
<1>3. listed \in Seq(Jobs)
  <2>1. listed \in [1..Len(pipeline.listed) -> Jobs] /\ Len(pipeline.listed) \in Nat
    BY <1>2
  <2> HIDE DEF listed
  <2> QED
    BY <2>1
<1> DEFINE outcome == [pipeline.outcome EXCEPT ![RetryOf[j]] = "active"]
<1>4. outcome \in [Jobs -> Outcomes] /\ PipelineFits
  BY <1>2 DEF InspectionInv
<1>5. pipeline' = [pipeline EXCEPT !.listed = listed, !.outcome = outcome]
  <2>1. pipeline' = [pipeline EXCEPT !.listed = listed, !.outcome[RetryOf[j]] = "active"]
    BY <1>1
  <2> HIDE DEF listed
  <2> QED
    BY <1>4, <2>1 DEF PipelineFits
<1> HIDE DEF listed, outcome
<1>6. PipelineFits'
  BY <1>3, <1>4, <1>5 DEF PipelineFits
<1> QED
  BY SMTT(60), <1>1, <1>6 DEF InspectionInv

LEMMA InspectionBegins == InspectionInit => InspectionInv
<1> SUFFICES ASSUME InspectionInit PROVE InspectionInv
  OBVIOUS
<1>1. PICK p \in Pipelines :
        pipeline = [listed |-> Listing, outcome |-> p.outcome, bridges |-> p.bridges]
  BY DEF InspectionInit
<1>2. PipelineFits
  BY <1>1, PipelineInspectionAssumption DEF PipelineFits
<1>3. PICK reference \in References, max_jobs \in MaxJobs :
        view = [NotInspecting EXCEPT !.pc = "project", !.reference = reference,
                                     !.budget = AtLeastOne(Bounded(max_jobs, 8))]
  BY DEF InspectionInit
<1> DEFINE budget == AtLeastOne(Bounded(max_jobs, 8))
           w == [NotInspecting EXCEPT !.pc = "project", !.reference = reference, !.budget = budget]
<1>4. budget \in Nat \ {0} /\ reference \in ReferenceType
      /\ (reference.kind = "job" => reference.job \in Jobs)
  BY PipelineInspectionAssumption DEF AtLeastOne, Bounded, ReferenceType
<1> HIDE DEF budget
<1>5. w \in Views
  BY <1>4, NothingSeen DEF Views, Places
<1>6. /\ w.pc = "project" /\ w.reference = reference /\ w.chosen = <<>> /\ w.candidates = <<>>
      /\ w.children = 0 /\ DOMAIN w.traces = {} /\ w.childRead = FALSE /\ w.childLeft = FALSE
      /\ w.findings = {} /\ w.listed = <<>> /\ w.status = "none" /\ w.selected = NoJob
  BY DEF NotInspecting
<1> HIDE DEF w
<1>7. ToSet(<<>>) = {}
  BY DEF ToSet
<1>8. ViewInv(w)
  BY <1>4, <1>5, <1>6, <1>7 DEF ViewInv, OutcomesKnown, InOrder, Excusable, Chosen, Traced, Judged,
     Told, Beginning, Gathering, Judging
<1> QED
  BY <1>2, <1>3, <1>8 DEF InspectionInv, w, budget

LEMMA InspectionSteps ==
    InspectionInv /\ [InspectionNext]_inspectionVars => InspectionInv'
<1> SUFFICES ASSUME InspectionInv, [InspectionNext]_inspectionVars
             PROVE  InspectionInv'
  OBVIOUS
<1>1. CASE UNCHANGED inspectionVars
  BY <1>1 DEF inspectionVars, InspectionInv, PipelineFits
<1>2. CASE InspectionNext
  BY <1>2, JobEndsStep, RetriedStep, MismatchStep, ProjectStep, SelectedJobStep, BranchStep, RunStep,
     JobsStep, BridgesStep, ChooseStep, SourcesStep, ContextStep, TraceStep, AnalyzeStep,
     UnavailableStep, ReadableStep, ReportStep DEF InspectionNext, Inspect
<1> QED
  BY <1>1, <1>2

\* The inductive invariant of one inspection: what was read of the pipeline at each
\* place, how the traces were chosen, and what the findings say.
THEOREM InspectionInvariant == InspectionSpec => []InspectionInv
<1>1. InspectionInit => InspectionInv
  BY InspectionBegins
<1>2. InspectionInv /\ [InspectionNext]_inspectionVars => InspectionInv'
  BY InspectionSteps
<1> QED
  BY <1>1, <1>2, PTL DEF InspectionSpec

\* The types of the pipeline and of what the inspection holds of it.
THEOREM InspectionTypeCorrect == InspectionSpec => []InspectionTypeOK
<1>1. InspectionInv => InspectionTypeOK
  <2> SUFFICES ASSUME InspectionInv PROVE InspectionTypeOK
    OBVIOUS
  <2>1. /\ view \in Views /\ OutcomesKnown(view) /\ InOrder(view) /\ Chosen(view)
        /\ Traced(view) /\ Judged(view)
    BY DEF InspectionInv, ViewInv
  <2>2. ToSet(<<>>) = {}
    BY DEF ToSet
  <2>3. view.listed \in Seq(Jobs) /\ view.children \in Nat /\ view.candidates \in Seq(Bridge)
        /\ view.pc \in Places /\ view.status \in Statuses /\ view.reads \subseteq Reads
    BY <2>1 DEF Views
  <2>4. ToSet(view.listed) \subseteq Jobs
    BY <2>3, Members
  <2>5. ToSet(view.chosen) \subseteq ToSet(view.listed) /\ DOMAIN view.traces \subseteq ToSet(view.chosen)
    BY <2>1, <2>2, <2>3 DEF Chosen, Traced, InOrder, Places, Gathering, Beginning, Judging
  <2>6. view.children \in 0..2
    <3>1. Len(view.candidates) \in Nat
      BY <2>3
    <3> QED
      BY <2>1, <2>3, <3>1 DEF Judged, InOrder, Places, Gathering, Beginning, Judging
  <2> QED
    BY <2>3, <2>4, <2>5, <2>6 DEF InspectionTypeOK, InspectionInv, PipelineFits, Places, Statuses, Reads
<1> QED
  BY <1>1, InspectionInvariant, PTL

\* "passed" is proven.
THEOREM PassedProven == InspectionSpec => []PassedIsProven
<1>1. InspectionInv => PassedIsProven
  <2> SUFFICES ASSUME InspectionInv, view.status = "passed"
               PROVE  /\ view.run = "success" /\ ~view.partial /\ view.complete
                      /\ FailingOf(ToSet(view.listed), view.outcome) = {} /\ Troubled = <<>>
                      /\ \A j \in ToSet(view.chosen) : view.traces[j] = "clean"
    BY DEF PassedIsProven
  <2>1. view \in Views /\ InOrder(view) /\ Judged(view) /\ Told(view)
    BY DEF InspectionInv, ViewInv
  <2>2. /\ view.pc = "done" /\ view.run = "success" /\ ~view.partial /\ AllQuiet(view)
        /\ view.children = Len(view.candidates) /\ view.run # NoRun
    BY <2>1, PipelineInspectionAssumption DEF InOrder, Told, Outcomes
  <2>3. /\ view.complete /\ view.children = 0
        /\ UnanalyzedIn(view.listed, view.outcome, view.chosen) = {}
        /\ \A j \in ToSet(view.chosen) : view.outcome[j] # "failed" /\ view.traces[j] = "clean"
        /\ view.candidates = <<>> => TroubledIn(view.bridges) = <<>>
    BY <2>1, <2>2 DEF Judged, Judging
  <2>4. view.candidates = <<>>
    <3>1. view.candidates \in Seq(Bridge) /\ Len(view.candidates) = 0
      BY <2>1, <2>2, <2>3 DEF Views
    <3> QED
      BY <3>1
  <2>5. FailingOf(ToSet(view.listed), view.outcome) = {}
    BY <2>3 DEF UnanalyzedIn, FailingOf
  <2> QED
    BY <2>2, <2>3, <2>4, <2>5, OfTheView
<1> QED
  BY <1>1, InspectionInvariant, PTL

\* The budget of traces is kept, with the child's; the job that was asked for gets one,
\* a successful job only when every failed one has, and a failed child is left out only
\* when the selected and the failed jobs take the whole budget.
THEOREM TracesSpent == InspectionSpec => []TracesWellSpent
<1>1. InspectionInv => TracesWellSpent
  <2> SUFFICES ASSUME InspectionInv, view.pc = "done", view.run # NoRun
               PROVE  /\ Analyses <= view.budget
                      /\ view.selected # NoJob => view.selected \in ToSet(view.chosen)
                      /\ \A j \in ToSet(view.chosen) \ {view.selected} :
                             view.outcome[j] = "success" => Unanalyzed = {}
                      /\ view.childLeft /\ ~view.childRead => Len(Primary) >= view.budget
    BY DEF TracesWellSpent
  <2>1. view \in Views /\ Chosen(view) /\ Judged(view)
    BY DEF InspectionInv, ViewInv
  <2>2. Len(view.chosen) \in Nat /\ view.budget \in Nat
    BY <2>1 DEF Views
  <2>3. Len(view.chosen) <= view.budget /\ (view.childRead => Len(view.chosen) < view.budget)
    BY <2>1 DEF Chosen, Judged, Judging
  <2>4. Analyses <= view.budget
    <3>1. CASE view.childRead
      <4>1. Analyses = Len(view.chosen) + 1
        BY <3>1 DEF Analyses
      <4> QED
        BY <2>2, <2>3, <3>1, <4>1
    <3>2. CASE ~view.childRead
      <4>1. Analyses = Len(view.chosen) + 0
        BY <3>2 DEF Analyses
      <4> QED
        BY <2>2, <2>3, <4>1
    <3> QED
      BY <3>1, <3>2
  <2>5. ASSUME view.childLeft, ~view.childRead PROVE Len(Primary) >= view.budget
    <3>1. /\ \E i \in DOMAIN view.bridges : view.bridges[i].trouble
          /\ Len(view.chosen) >= view.budget
      BY <2>1, <2>5 DEF Judged, Judging
    <3>2. Len(PrimaryIn(view.listed, view.outcome, view.selected)) >= view.budget
      BY <2>1, <2>2, <3>1 DEF Chosen, Judging
    <3> QED
      BY <3>2, OfTheView
  <2>6. /\ view.selected # NoJob => view.selected \in ToSet(view.chosen)
        /\ \A j \in ToSet(view.chosen) \ {view.selected} : view.outcome[j] = "success" =>
                UnanalyzedIn(view.listed, view.outcome, view.chosen) = {}
    BY <2>1 DEF Chosen, Judging
  <2> QED
    BY <2>4, <2>5, <2>6, OfTheView
<1> QED
  BY <1>1, InspectionInvariant, PTL

\* No finding of severity error contradicts a pipeline whose metadata says success.
THEOREM SuccessKept == InspectionSpec => []SuccessNotOverridden
<1>1. InspectionInv => SuccessNotOverridden
  BY DEF InspectionInv, ViewInv, Excusable, SuccessNotOverridden
<1> QED
  BY <1>1, InspectionInvariant, PTL

-----------------------------------------------------------------------------
(* The proposals (Remediation): what the plans lack. *)

\* The fields of enrich_remediations's state that the plans depend on.
RepairFields == DOMAIN repair = {"pc", "keys", "limited", "waiting", "reading",
                                 "sources", "originals", "failures", "plans"}

\* A sequence of paths, and one of those that are selected from it or rank best in it.
LEMMA SortedIsFiles == ASSUME NEW paths PROVE Sorted(paths) \in Seq(RepairPaths)
<1>1. PathOrder \in Seq(RepairPaths)
  BY RemediationAssumption
<1> QED
  BY <1>1, SelectionKeeps DEF Sorted

LEMMA Joined == ASSUME NEW A, NEW s \in Seq(A), NEW t \in Seq(A) PROVE s \o t \in Seq(A)
  OBVIOUS

LEMMA PreferringIsFiles ==
    ASSUME NEW paths, NEW one, NEW other
    PROVE  Preferring(paths, one, other) \in Seq(RepairPaths)
<1> DEFINE a == Sorted(paths \cap one \cap other)
           b == Sorted((paths \cap one) \ other)
           c == Sorted((paths \ one) \cap other)
           d == Sorted(paths \ (one \cup other))
<1>1. a \in Seq(RepairPaths) /\ b \in Seq(RepairPaths) /\ c \in Seq(RepairPaths) /\ d \in Seq(RepairPaths)
  BY SortedIsFiles
<1>2. Preferring(paths, one, other) = a \o b \o c \o d
  BY DEF Preferring
<1> HIDE DEF a, b, c, d
<1>3. a \o b \in Seq(RepairPaths)
  BY <1>1, Joined
<1>4. (a \o b) \o c \in Seq(RepairPaths)
  BY <1>1, <1>3, Joined
<1>5. ((a \o b) \o c) \o d \in Seq(RepairPaths)
  BY <1>1, <1>4, Joined
<1> QED
  BY <1>2, <1>5

LEMMA RankingIsFiles == ASSUME NEW finding PROVE Ranking(finding) \in Seq(RepairPaths)
<1> DEFINE changed == Changed(finding)
           scripts == Scripts \cap (Known(finding) \cup changed \cup finding.cited
                                      \cup ({ s.path : s \in Own(finding) } \cap Yamls))
           csv == Sorted(changed \cap DataConfigs) \o Preferring(scripts, finding.cited, changed)
           manifests == Sorted(changed \cap Manifests)
           sharp == Sorted(finding.cited \cap Sharp)
           yamls == Preferring(changed \cap Yamls, finding.cited, {})
<1>1. csv \in Seq(RepairPaths)
  <2>1. Sorted(changed \cap DataConfigs) \in Seq(RepairPaths)
    BY SortedIsFiles
  <2>2. Preferring(scripts, finding.cited, changed) \in Seq(RepairPaths)
    BY PreferringIsFiles
  <2> HIDE DEF scripts, changed
  <2> QED
    BY <2>1, <2>2, Joined
<1>2. manifests \in Seq(RepairPaths) /\ sharp \in Seq(RepairPaths) /\ yamls \in Seq(RepairPaths)
  BY SortedIsFiles, PreferringIsFiles
<1>3. <<>> \in Seq(RepairPaths)
  OBVIOUS
<1>4. Ranking(finding) = CASE finding.rule = "csv" -> csv
                           [] finding.rule = "metadata" -> manifests
                           [] finding.rule = "sharp" -> sharp
                           [] finding.rule = "case" -> yamls
                           [] OTHER -> <<>>
  BY DEF Ranking
<1> HIDE DEF csv, manifests, sharp, yamls
<1> QED
  BY <1>1, <1>2, <1>3, <1>4

LEMMA BestAreFirst ==
    ASSUME NEW r \in Seq(RepairPaths)
    PROVE  /\ Best(r) \in Seq(RepairPaths)
           /\ \A k \in DOMAIN r : k <= MaxResults => k \in DOMAIN Best(r) /\ Best(r)[k] = r[k]
<1> DEFINE m == IF Len(r) < MaxResults THEN Len(r) ELSE MaxResults
<1>1. m \in 0..Len(r) /\ MaxResults \in Nat /\ Len(r) \in Nat /\ DOMAIN r = 1..Len(r)
  BY RemediationAssumption
<1>2. Best(r) = SubSeq(r, 1, m)
  BY DEF Best
<1>3. \A k \in DOMAIN r : k <= MaxResults => k \in 1..m
  BY <1>1
<1> HIDE DEF m
<1>4. /\ SubSeq(r, 1, m) \in Seq(RepairPaths) /\ DOMAIN SubSeq(r, 1, m) = 1..m
      /\ \A k \in 1..m : SubSeq(r, 1, m)[k] = r[k]
  BY <1>1
<1> QED
  BY <1>2, <1>3, <1>4

LEMMA CandidatesAreFiles == ASSUME NEW finding PROVE Candidates(finding) \in Seq(RepairPaths)
<1>1. Best(Ranking(finding)) \in Seq(RepairPaths)
  BY RankingIsFiles, BestAreFirst
<1>2. <<>> \in Seq(RepairPaths)
  OBVIOUS
<1> QED
  BY <1>1, <1>2 DEF Candidates

-----------------------------------------------------------------------------
\* The repositories that the considered findings have, and what may be read in them.
Repositories == { Findings[i].repository : i \in DOMAIN Findings } \ {"none"}
ReadKeys == Repositories \X RepairPaths

LEMMA RepairLimits ==
    /\ IsFiniteSet(RepairPaths) /\ MaxRemediations \in Nat /\ MaxResults \in Nat
    /\ MaxCandidateReads \in Nat /\ MaxConcurrentReads \in Nat \ {0}
  BY RemediationAssumption

LEMMA NoReads == Cardinality({}) <= MaxConcurrentReads /\ Cardinality({}) <= MaxCandidateReads
  BY RepairLimits, FS_EmptySet

\* The findings that are considered are the first ones.
LEMMA FindingsShape == ASSUME result \in RepairResults PROVE \E n \in Nat : DOMAIN Findings = 1..n
<1> DEFINE all == result.findings
           m == IF Len(all) < MaxRemediations THEN Len(all) ELSE MaxRemediations
<1>1. all \in Seq([rule : STRING, repository : STRING, cited : SUBSET RepairPaths])
  BY RemediationAssumption
<1>2. m \in 0..Len(all)
  BY <1>1, RepairLimits
<1>3. Findings = SubSeq(all, 1, m)
  BY DEF Findings
<1> HIDE DEF m, all
<1>4. DOMAIN SubSeq(all, 1, m) = 1..m
  BY <1>1, <1>2
<1>5. m \in Nat
  BY <1>1, <1>2
<1> QED
  BY <1>3, <1>4, <1>5

LEMMA FewKeys == ASSUME result \in RepairResults PROVE IsFiniteSet(ReadKeys)
<1>1. PICK n \in Nat : DOMAIN Findings = 1..n
  BY FindingsShape
<1> DEFINE f == [i \in 1..n |-> Findings[i].repository]
           T == { Findings[i].repository : i \in DOMAIN Findings }
<1>2. f \in Surjection(1..n, T)
  BY <1>1 DEF Surjection
<1>3. IsFiniteSet(1..n)
  BY FS_Interval
<1> HIDE DEF f, T
<1>4. IsFiniteSet(T)
  BY <1>2, <1>3, FS_Surjection
<1>5. IsFiniteSet(Repositories)
  <2>1. Repositories \subseteq T
    BY DEF Repositories, T
  <2> QED
    BY <1>4, <2>1, FS_Subset
<1> QED
  BY <1>5, RepairLimits, FS_Product DEF ReadKeys

\* What is to be read for a finding are its candidates that are not there.
Sought(finding, reads) ==
    \A k \in DOMAIN Candidates(finding) :
       \/ Candidates(finding)[k] \in Loaded(finding)
       \/ \E j \in DOMAIN reads : reads[j] = <<finding.repository, Candidates(finding)[k]>>

LEMMA ToReadIsSought ==
    ASSUME NEW i \in DOMAIN Findings
    PROVE  ToRead(Findings[i]) \in Seq(ReadKeys) /\ Sought(Findings[i], ToRead(Findings[i]))
<1> DEFINE finding == Findings[i]
           all == Candidates(finding)
           new == RepairPaths \ Loaded(finding)
           paths == Selected(all, new)
           reads == ToRead(finding)
<1>1. all \in Seq(RepairPaths)
  BY CandidatesAreFiles
<1>2. reads = [k \in DOMAIN paths |-> <<finding.repository, paths[k]>>]
  BY DEF ToRead
<1>3. finding.repository = "none" => all = <<>>
  BY DEF Candidates
<1>4. finding.repository # "none" => finding.repository \in Repositories
  BY DEF Repositories
<1> HIDE DEF finding, all, new, reads
<1>5. /\ paths \in Seq(RepairPaths) /\ Len(paths) <= Len(all)
      /\ \A k \in DOMAIN all : all[k] \in new => \E j \in DOMAIN paths : paths[j] = all[k]
  BY <1>1, SelectedElements
<1> HIDE DEF paths
<1>6. Len(paths) \in Nat /\ DOMAIN paths = 1..Len(paths) /\ \A k \in DOMAIN paths : paths[k] \in RepairPaths
  BY <1>5
<1>7. finding.repository = "none" => Len(paths) = 0
  BY <1>3, <1>5, <1>6
<1>8. \A k \in DOMAIN paths : <<finding.repository, paths[k]>> \in ReadKeys
  BY <1>4, <1>6, <1>7 DEF ReadKeys
<1>9. reads \in Seq(ReadKeys)
  <2> DEFINE K == ReadKeys
  <2> HIDE DEF K
  <2>1. \A k \in DOMAIN paths : <<finding.repository, paths[k]>> \in K
    BY <1>8 DEF K
  <2>2. reads \in Seq(K)
    BY <1>2, <1>6, <2>1
  <2> QED
    BY <2>2 DEF K
<1>10. ASSUME NEW k \in DOMAIN all, all[k] \notin Loaded(finding)
       PROVE  \E j \in DOMAIN reads : reads[j] = <<finding.repository, all[k]>>
  <2>1. all[k] \in new
    BY <1>1, <1>10 DEF new
  <2> QED
    BY <1>2, <1>5, <2>1
<1>11. Sought(finding, reads)
  BY <1>10 DEF Sought, all
<1> QED
  BY <1>9, <1>11 DEF finding, reads

-----------------------------------------------------------------------------
\* Each read that is wanted for a finding is asked for.
EachWanted(order, wanted, N) ==
    \A i \in 1..N : \A k \in DOMAIN wanted[i] : \E m \in DOMAIN order : order[m] = <<i, wanted[i][k]>>

LEMMA OrderedHasEachWanted ==
    ASSUME NEW K, NEW N \in Nat, NEW wanted, DOMAIN wanted = 1..N, \A i \in 1..N : wanted[i] \in Seq(K)
    PROVE  Ordered(wanted) \in Seq((1..N) \X K) /\ EachWanted(Ordered(wanted), wanted, N)
<1> DEFINE X == (1..N) \X K
           s == [i \in 1..N |-> [k \in DOMAIN wanted[i] |-> <<i, wanted[i][k]>>]]
<1>1. Ordered(wanted) = FlattenSeq(s)
  BY DEF Ordered
<1>2. ASSUME NEW i \in 1..N
      PROVE  /\ s[i] \in Seq(X) /\ DOMAIN s[i] = DOMAIN wanted[i]
             /\ \A k \in DOMAIN wanted[i] : s[i][k] = <<i, wanted[i][k]>>
  <2>1. s[i] = [k \in DOMAIN wanted[i] |-> <<i, wanted[i][k]>>]
    OBVIOUS
  <2>2. /\ Len(wanted[i]) \in Nat /\ DOMAIN wanted[i] = 1..Len(wanted[i])
        /\ \A k \in DOMAIN wanted[i] : wanted[i][k] \in K
    OBVIOUS
  <2>3. \A k \in DOMAIN wanted[i] : <<i, wanted[i][k]>> \in X
    BY <2>2
  <2> HIDE DEF s, X
  <2> QED
    BY <2>1, <2>2, <2>3
<1>3. s \in Seq(Seq(X)) /\ Len(s) = N
  <2>1. DOMAIN s = 1..N
    OBVIOUS
  <2>2. s = [i \in 1..N |-> s[i]]
    OBVIOUS
  <2> HIDE DEF s, X
  <2> QED
    BY <1>2, <2>1, <2>2
<1> HIDE DEF s, X
<1>4. FlattenSeq(s) \in Seq(X) /\ HasEach(FlattenSeq(s), s, N)
  BY <1>3, FlattenHasEach
<1>5. EachWanted(FlattenSeq(s), wanted, N)
  <2> SUFFICES ASSUME NEW i \in 1..N, NEW k \in DOMAIN wanted[i]
               PROVE  \E m \in DOMAIN FlattenSeq(s) : FlattenSeq(s)[m] = <<i, wanted[i][k]>>
    BY DEF EachWanted
  <2>1. k \in DOMAIN s[i] /\ s[i][k] = <<i, wanted[i][k]>>
    BY <1>2
  <2> QED
    BY <1>4, <2>1 DEF HasEach
<1> QED
  BY <1>1, <1>4, <1>5 DEF X

-----------------------------------------------------------------------------
\* What the reads are planned with, and what one more wanted read makes of it.
AskedSoFar(N, K) == [requests : SUBSET K, keys : [1..N -> SUBSET K], limited : SUBSET (1..N)]

AskedNext(was, i, key) ==
    IF key \notin was.requests /\ Cardinality(was.requests) >= MaxCandidateReads
    THEN [was EXCEPT !.limited = @ \cup {i}]
    ELSE [was EXCEPT !.requests = @ \cup {key}, !.keys[i] = @ \cup {key}]

\* Of the first n of order, each is asked for or says that the limit was met, which it was.
Accounted(asked, order, n) ==
    /\ asked.requests = UNION { asked.keys[i] : i \in DOMAIN asked.keys }
    /\ Cardinality(asked.requests) <= MaxCandidateReads
    /\ asked.limited # {} => Cardinality(asked.requests) >= MaxCandidateReads
    /\ \A k \in 1..n : order[k][2] \in asked.keys[order[k][1]] \/ order[k][1] \in asked.limited

AskedMore(was, now, i, key, N) ==
    \/ /\ key \notin was.requests /\ Cardinality(was.requests) >= MaxCandidateReads
       /\ now.requests = was.requests /\ now.keys = was.keys
       /\ now.limited = was.limited \cup {i}
    \/ /\ key \in was.requests \/ ~ (Cardinality(was.requests) >= MaxCandidateReads)
       /\ now.requests = was.requests \cup {key} /\ now.limited = was.limited
       /\ now.keys[i] = was.keys[i] \cup {key}
       /\ \A j \in 1..N : j # i => now.keys[j] = was.keys[j]

LEMMA AskedNextFields ==
    ASSUME NEW K, NEW N \in Nat, NEW was \in AskedSoFar(N, K), NEW i \in 1..N, NEW key \in K
    PROVE  /\ AskedNext(was, i, key) \in AskedSoFar(N, K)
           /\ AskedMore(was, AskedNext(was, i, key), i, key, N)
<1> DEFINE now == AskedNext(was, i, key)
<1>1. /\ was.requests \subseteq K /\ was.keys \in [1..N -> SUBSET K]
      /\ was.limited \subseteq 1..N
      /\ was = [requests |-> was.requests, keys |-> was.keys, limited |-> was.limited]
  BY DEF AskedSoFar
<1>2. CASE key \notin was.requests /\ Cardinality(was.requests) >= MaxCandidateReads
  <2>1. now = [was EXCEPT !.limited = @ \cup {i}]
    BY <1>2 DEF AskedNext
  <2> HIDE DEF now
  <2>2. now = [requests |-> was.requests, keys |-> was.keys, limited |-> was.limited \cup {i}]
    BY <1>1, <2>1
  <2>3. now \in AskedSoFar(N, K)
    BY <1>1, <2>2 DEF AskedSoFar
  <2> QED
    BY <1>2, <2>2, <2>3 DEF now, AskedMore
<1>3. CASE ~ (key \notin was.requests /\ Cardinality(was.requests) >= MaxCandidateReads)
  <2> DEFINE keys == [was.keys EXCEPT ![i] = @ \cup {key}]
  <2>1. now = [was EXCEPT !.requests = @ \cup {key}, !.keys[i] = @ \cup {key}]
    BY <1>3 DEF AskedNext
  <2>2. keys \in [1..N -> SUBSET K] /\ keys[i] = was.keys[i] \cup {key}
    BY <1>1
  <2>3. \A j \in 1..N : j # i => keys[j] = was.keys[j]
    BY <1>1
  <2> HIDE DEF now
  <2>4. now = [requests |-> was.requests \cup {key}, keys |-> keys, limited |-> was.limited]
    BY <1>1, <2>1
  <2> HIDE DEF keys
  <2>5. now \in AskedSoFar(N, K)
    BY <1>1, <2>2, <2>4 DEF AskedSoFar
  <2> QED
    BY <1>3, <2>2, <2>3, <2>4, <2>5 DEF now, AskedMore
<1> QED
  BY <1>2, <1>3

LEMMA AccountedNext ==
    ASSUME NEW K, IsFiniteSet(K), NEW N \in Nat, NEW was \in AskedSoFar(N, K),
           NEW order \in Seq((1..N) \X K), NEW n \in 1..Len(order), Accounted(was, order, n - 1)
    PROVE  /\ AskedNext(was, order[n][1], order[n][2]) \in AskedSoFar(N, K)
           /\ Accounted(AskedNext(was, order[n][1], order[n][2]), order, n)
<1> DEFINE i == order[n][1]
           key == order[n][2]
           now == AskedNext(was, i, key)
<1>1. ASSUME NEW k \in 1..Len(order) PROVE order[k][1] \in 1..N /\ order[k][2] \in K
  <2> DEFINE o == order[k]
  <2>1. o \in (1..N) \X K
    OBVIOUS
  <2> HIDE DEF o
  <2>2. o[1] \in 1..N /\ o[2] \in K
    BY <2>1
  <2> QED
    BY <2>2 DEF o
<1>2. i \in 1..N /\ key \in K
  BY <1>1
<1> HIDE DEF i, key
<1>0. now \in AskedSoFar(N, K) /\ AskedMore(was, now, i, key, N)
  BY <1>2, AskedNextFields
<1> HIDE DEF now
<1>3. /\ now \in AskedSoFar(N, K)
      /\ \/ /\ key \notin was.requests /\ Cardinality(was.requests) >= MaxCandidateReads
            /\ now.requests = was.requests /\ now.keys = was.keys
            /\ now.limited = was.limited \cup {i}
         \/ /\ key \in was.requests \/ ~ (Cardinality(was.requests) >= MaxCandidateReads)
            /\ now.requests = was.requests \cup {key} /\ now.limited = was.limited
            /\ now.keys[i] = was.keys[i] \cup {key}
            /\ \A j \in 1..N : j # i => now.keys[j] = was.keys[j]
  BY <1>0 DEF AskedMore
<1>4. /\ DOMAIN was.keys = 1..N /\ DOMAIN now.keys = 1..N
      /\ was.requests \subseteq K /\ IsFiniteSet(was.requests)
  <2>1. was.requests \subseteq K /\ DOMAIN was.keys = 1..N /\ DOMAIN now.keys = 1..N
    BY <1>3 DEF AskedSoFar
  <2>2. IsFiniteSet(was.requests)
    BY <2>1, FS_Subset
  <2> QED
    BY <2>1, <2>2
<1>5. Cardinality(was.requests) \in Nat /\ MaxCandidateReads \in Nat
  BY <1>4, FS_CardinalityType, RemediationAssumption
<1>6. /\ Cardinality(was.requests) <= MaxCandidateReads
      /\ was.requests = UNION { was.keys[j] : j \in 1..N }
      /\ was.limited # {} => Cardinality(was.requests) >= MaxCandidateReads
  BY <1>4 DEF Accounted
<1>7. /\ Cardinality(now.requests) <= MaxCandidateReads
      /\ now.limited # {} => Cardinality(now.requests) >= MaxCandidateReads
  <2>1. Cardinality(was.requests \cup {key})
          = IF key \in was.requests THEN Cardinality(was.requests) ELSE Cardinality(was.requests) + 1
    BY <1>4, FS_AddElement
  <2>2. CASE /\ Cardinality(was.requests) >= MaxCandidateReads
             /\ now.requests = was.requests
    BY <1>6, <2>2
  <2>3. CASE /\ now.requests = was.requests \cup {key} /\ now.limited = was.limited
             /\ key \in was.requests \/ ~ (Cardinality(was.requests) >= MaxCandidateReads)
    BY <1>5, <1>6, <2>1, <2>3
  <2> QED
    BY <1>3, <2>2, <2>3
<1>8. /\ now.requests = UNION { now.keys[j] : j \in 1..N }
      /\ \A j \in 1..N : was.keys[j] \subseteq now.keys[j] /\ was.limited \subseteq now.limited
  <2>1. CASE now.requests = was.requests /\ now.keys = was.keys /\ now.limited = was.limited \cup {i}
    BY <1>6, <2>1
  <2>2. CASE /\ now.requests = was.requests \cup {key} /\ now.limited = was.limited
             /\ now.keys[i] = was.keys[i] \cup {key}
             /\ \A j \in 1..N : j # i => now.keys[j] = was.keys[j]
    <3>1. \A j \in 1..N : was.keys[j] \subseteq now.keys[j] /\ now.keys[j] \subseteq was.keys[j] \cup {key}
      BY <2>2
    <3>2. ASSUME NEW x
          PROVE  x \in was.requests \cup {key} <=> \E j \in 1..N : x \in now.keys[j]
      <4>1. x \in was.requests <=> \E j \in 1..N : x \in was.keys[j]
        BY <1>6
      <4>2. CASE x = key
        BY <1>2, <2>2, <4>2
      <4>3. CASE x # key
        BY <3>1, <4>1, <4>3
      <4> QED
        BY <4>2, <4>3
    <3>3. now.requests = UNION { now.keys[j] : j \in 1..N }
      <4>1. now.requests = was.requests \cup {key}
        BY <2>2
      <4>2. \A x : x \in now.requests <=> \E j \in 1..N : x \in now.keys[j]
        BY <3>2, <4>1
      <4> QED
        BY Zenon, <4>2
    <3> QED
      BY <2>2, <3>1, <3>3
  <2> QED
    BY <1>3, <2>1, <2>2
<1>9. key \in now.keys[i] \/ i \in now.limited
  BY <1>3
<1>10. ASSUME NEW k \in 1..n
       PROVE  order[k][2] \in now.keys[order[k][1]] \/ order[k][1] \in now.limited
  <2>1. CASE k = n
    BY <1>9, <2>1 DEF i, key
  <2>2. CASE k # n
    <3>1. k \in 1..(n - 1) /\ order[k][1] \in 1..N
      BY <1>1, <2>2
    <3>2. order[k][2] \in was.keys[order[k][1]] \/ order[k][1] \in was.limited
      BY <3>1 DEF Accounted
    <3> QED
      BY <1>8, <3>1, <3>2
  <2> QED
    BY <2>1, <2>2
<1>11. Accounted(now, order, n)
  BY <1>4, <1>7, <1>8, <1>10 DEF Accounted
<1> QED
  BY <1>3, <1>11 DEF now, i, key

NoneAsked(wanted) == [requests |-> {}, keys |-> [i \in DOMAIN wanted |-> {}], limited |-> {}]

\* The recursion of Asked.
Asking(f, wanted, order) ==
    f = [n \in 0..Len(order) |->
           IF n = 0 THEN NoneAsked(wanted)
           ELSE AskedNext(f[n - 1], order[n][1], order[n][2])]

LEMMA AskedIsLast ==
    ASSUME NEW wanted, NEW order
    PROVE  Asked(wanted, order) = (CHOOSE f : Asking(f, wanted, order))[Len(order)]
  BY DEF Asked, Asking, NoneAsked, AskedNext

LEMMA AskedAccounts ==
    ASSUME NEW K, IsFiniteSet(K), NEW N \in Nat, NEW wanted, DOMAIN wanted = 1..N,
           NEW order \in Seq((1..N) \X K)
    PROVE  /\ Asked(wanted, order) \in AskedSoFar(N, K)
           /\ Accounted(Asked(wanted, order), order, Len(order))
<1> DEFINE L == Len(order)
           V == AskedSoFar(N, K)
           base == NoneAsked(wanted)
           step == [n \in 1..L |-> [v \in V |-> AskedNext(v, order[n][1], order[n][2])]]
<1>1. L \in Nat
  OBVIOUS
<1>2. base \in V /\ Accounted(base, order, 0)
  <2>1. base = [requests |-> {}, keys |-> [i \in 1..N |-> {}], limited |-> {}]
    BY DEF NoneAsked
  <2>2. [i \in 1..N |-> {}] \in [1..N -> SUBSET K]
    OBVIOUS
  <2> HIDE DEF base
  <2>3. base \in V
    BY <2>1, <2>2 DEF AskedSoFar
  <2>4. Cardinality(base.requests) <= MaxCandidateReads
    BY <2>1, FS_EmptySet, RemediationAssumption
  <2>5. base.requests = UNION { base.keys[i] : i \in DOMAIN base.keys } /\ base.limited = {}
    BY <2>1
  <2> QED
    BY <2>3, <2>4, <2>5 DEF Accounted
<1>3. ASSUME NEW n \in 1..L PROVE order[n][1] \in 1..N /\ order[n][2] \in K
  <2> DEFINE o == order[n]
  <2>1. o \in (1..N) \X K
    OBVIOUS
  <2> HIDE DEF o
  <2>2. o[1] \in 1..N /\ o[2] \in K
    BY <2>1
  <2> QED
    BY <2>2 DEF o
<1>4. \A n \in 1..L : \A v \in V : AskedNext(v, order[n][1], order[n][2]) \in V
  BY <1>3, AskedNextFields
<1>5. step \in [1..L -> [V -> V]]
  <2> HIDE DEF V, L
  <2> QED
    BY <1>4
<1>6. \A n \in 1..L : \A v \in V : step[n][v] = AskedNext(v, order[n][1], order[n][2])
  OBVIOUS
<1> HIDE DEF L, V, base, step
<1>7. PICK g : Steps(g, L, V, base, step)
  BY <1>1, <1>2, <1>5, StepByStep
<1>8. g \in [0..L -> V] /\ g[0] = base /\ \A n \in 1..L : g[n] = step[n][g[n - 1]]
  BY <1>7 DEF Steps
<1>9. ASSUME NEW n \in 1..L PROVE g[n] = AskedNext(g[n - 1], order[n][1], order[n][2])
  <2>1. n - 1 \in 0..L
    BY <1>1
  <2>2. g[n - 1] \in V
    BY <1>8, <2>1
  <2> QED
    BY <1>6, <1>8, <2>2
<1>10. Asking(g, wanted, order)
  <2>1. \A n \in 0..L : n # 0 => n \in 1..L
    BY <1>1
  <2>2. \A n \in 0..L : g[n] = IF n = 0 THEN base
                               ELSE AskedNext(g[n - 1], order[n][1], order[n][2])
    BY <1>8, <1>9, <2>1
  <2>3. g = [n \in 0..L |-> g[n]]
    BY <1>8
  <2>4. [n \in 0..L |-> g[n]]
          = [n \in 0..L |-> IF n = 0 THEN base
                            ELSE AskedNext(g[n - 1], order[n][1], order[n][2])]
    BY <2>2, Zenon
  <2>5. g = [n \in 0..L |-> IF n = 0 THEN base
                            ELSE AskedNext(g[n - 1], order[n][1], order[n][2])]
    BY <2>3, <2>4
  <2> QED
    BY <2>5 DEF Asking, base, L
<1> DEFINE f == CHOOSE any : Asking(any, wanted, order)
<1>11. Asking(f, wanted, order)
  BY <1>10
<1>12. Asked(wanted, order) = f[L]
  BY AskedIsLast DEF L
<1> HIDE DEF f
<1>13. /\ f[0] = base
       /\ \A n \in 1..L : f[n] = AskedNext(f[n - 1], order[n][1], order[n][2])
  <2>1. 0 \in 0..L /\ \A n \in 1..L : n \in 0..L /\ n # 0
    BY <1>1
  <2>2. f = [n \in 0..L |-> IF n = 0 THEN base
                            ELSE AskedNext(f[n - 1], order[n][1], order[n][2])]
    BY <1>11 DEF Asking, base, L
  <2> QED
    BY <2>1, <2>2
<1> DEFINE T == { n \in 0..L : f[n] \in V /\ Accounted(f[n], order, n) }
<1>14. 0 \in T
  BY <1>1, <1>2, <1>13
<1>15. ASSUME NEW n \in 0..(L - 1), n \in T PROVE n + 1 \in T
  <2>1. n + 1 \in 1..L /\ n + 1 \in 0..L /\ (n + 1) - 1 = n /\ n + 1 \in 1..Len(order)
    BY <1>1 DEF L
  <2>2. f[n + 1] = AskedNext(f[n], order[n + 1][1], order[n + 1][2])
    BY <1>13, <2>1
  <2>3. f[n] \in AskedSoFar(N, K) /\ Accounted(f[n], order, (n + 1) - 1)
    BY <1>15, <2>1 DEF V
  <2>4. /\ AskedNext(f[n], order[n + 1][1], order[n + 1][2]) \in AskedSoFar(N, K)
        /\ Accounted(AskedNext(f[n], order[n + 1][1], order[n + 1][2]), order, n + 1)
    BY <2>1, <2>3, AccountedNext
  <2> QED
    BY <2>1, <2>2, <2>4 DEF V
<1> HIDE DEF T
<1>16. L \in T
  <2>1. \A n \in 0..L : n \in T
    BY <1>1, <1>14, <1>15, UpTo
  <2> QED
    BY <1>1, <2>1
<1> QED
  BY <1>12, <1>16 DEF T, V, L

-----------------------------------------------------------------------------
\* All reads that were asked for, and what was read at the commit.
AllKeys == UNION { repair.keys[i] : i \in DOMAIN repair.keys }
Supplied == { Key(s) : s \in { c \in repair.sources : c.ref = "commit" } }

\* What the reads of enrich_remediations are at: no more of them than allowed, and
\* none before they are planned or after the plans.
ReadsBounded ==
    /\ repair.pc \in {"plan", "read", "done", "cancelled"}
    /\ repair.pc # "read" => repair.waiting = {} /\ repair.reading = {}
    /\ repair.reading \subseteq ReadKeys /\ Cardinality(repair.reading) <= MaxConcurrentReads
    /\ repair.waiting \subseteq ReadKeys
    /\ Cardinality(AllKeys) <= MaxCandidateReads
    /\ repair.limited # {} => Cardinality(AllKeys) = MaxCandidateReads
    /\ repair.pc \in {"done", "cancelled"} => repair.originals = {}

\* Each read a finding asked for is waited for, under way, done or failed, and each of its
\* candidates was there, was asked for, or met the limit.
ReadsAccounted ==
    /\ DOMAIN repair.keys = DOMAIN Findings
    /\ \A i \in DOMAIN Findings :
         /\ repair.keys[i] \subseteq repair.waiting \cup repair.reading \cup repair.failures \cup Supplied
         /\ \A k \in DOMAIN Candidates(Findings[i]) :
              \/ Candidates(Findings[i])[k] \in Loaded(Findings[i])
              \/ <<Findings[i].repository, Candidates(Findings[i])[k]>> \in repair.keys[i]
              \/ i \in repair.limited

LackInv ==
    /\ result \in RepairResults /\ RepairFields /\ ReadsBounded
    /\ repair.pc = "read" => ReadsAccounted
    /\ LacksAreNamed

LEMMA NoKeys == ASSUME repair.keys = <<>> PROVE AllKeys = {}
<1>1. DOMAIN <<>> = {}
  OBVIOUS
<1> QED
  BY <1>1 DEF AllKeys

LEMMA LackInit == RemediationInit => LackInv
<1> SUFFICES ASSUME RemediationInit PROVE LackInv
  OBVIOUS
<1>1. repair = [pc |-> "plan", keys |-> <<>>, limited |-> {}, waiting |-> {}, reading |-> {},
                sources |-> {}, originals |-> {}, failures |-> {}, plans |-> <<>>]
  BY DEF RemediationInit, NotRepairing
<1>2. /\ repair.pc = "plan" /\ repair.keys = <<>> /\ repair.waiting = {} /\ repair.reading = {}
      /\ repair.limited = {} /\ RepairFields
  BY <1>1 DEF RepairFields
<1>3. ReadsBounded
  BY <1>2, NoKeys, NoReads DEF ReadsBounded
<1> QED
  BY <1>2, <1>3 DEF RemediationInit, LackInv, LacksAreNamed

\* What stays as long as the result does.
LEMMA FindingsStay ==
    ASSUME UNCHANGED result
    PROVE  /\ Findings' = Findings /\ ReadKeys' = ReadKeys
           /\ \A i : /\ Loaded(Findings[i])' = Loaded(Findings[i])
                     /\ Ranking(Findings[i])' = Ranking(Findings[i])
                     /\ Candidates(Findings[i])' = Candidates(Findings[i])
<1>1. Findings' = Findings
  BY DEF Findings
<1>2. ReadKeys' = ReadKeys
  BY <1>1 DEF ReadKeys, Repositories
<1>3. ASSUME NEW i
      PROVE  /\ Own(Findings[i])' = Own(Findings[i])
             /\ Changed(Findings[i])' = Changed(Findings[i])
             /\ Known(Findings[i])' = Known(Findings[i])
  BY <1>1 DEF Own, BundleOf, Changed, Known
<1>4. ASSUME NEW i PROVE Loaded(Findings[i])' = Loaded(Findings[i])
  BY <1>1 DEF Loaded, BundleOf
<1>5. ASSUME NEW i PROVE Ranking(Findings[i])' = Ranking(Findings[i])
  BY <1>1, <1>3 DEF Ranking
<1>6. ASSUME NEW i PROVE Candidates(Findings[i])' = Candidates(Findings[i])
  BY <1>1, <1>5 DEF Candidates
<1> QED
  BY <1>1, <1>2, <1>4, <1>5, <1>6

\* The plan of the reads: what is asked for, and of what is wanted.
PlannedReads(asked) ==
    /\ repair.pc = "plan" /\ UNCHANGED result
    /\ repair' = [repair EXCEPT !.pc = "read", !.keys = asked.keys,
                                !.limited = asked.limited, !.waiting = asked.requests]
    /\ DOMAIN asked.keys = DOMAIN Findings /\ asked.requests \subseteq ReadKeys
    /\ asked.requests = UNION { asked.keys[i] : i \in DOMAIN asked.keys }
    /\ Cardinality(asked.requests) <= MaxCandidateReads
    /\ asked.limited # {} => Cardinality(asked.requests) = MaxCandidateReads

ReadsFit(asked) ==
    \A i \in DOMAIN Findings : \A k \in DOMAIN Candidates(Findings[i]) :
       \/ Candidates(Findings[i])[k] \in Loaded(Findings[i])
       \/ <<Findings[i].repository, Candidates(Findings[i])[k]>> \in asked.keys[i]
       \/ i \in asked.limited

LEMMA ReadsArePlanned ==
    ASSUME LackInv, PlanReads
    PROVE  \E asked : PlannedReads(asked) /\ ReadsFit(asked)
<1> DEFINE wanted == [i \in DOMAIN Findings |-> ToRead(Findings[i])]
           order == Ordered(wanted)
           asked == Asked(wanted, order)
           K == ReadKeys
<1>1. /\ repair' = [repair EXCEPT !.pc = "read", !.keys = asked.keys,
                                  !.limited = asked.limited, !.waiting = asked.requests]
      /\ repair.pc = "plan" /\ UNCHANGED result
  BY DEF PlanReads
<1>2. PICK n \in Nat : DOMAIN Findings = 1..n
  BY FindingsShape DEF LackInv
<1>3. /\ DOMAIN wanted = 1..n /\ \A i \in 1..n : wanted[i] = ToRead(Findings[i])
      /\ \A i \in 1..n : wanted[i] \in Seq(K)
  BY <1>2, ToReadIsSought
<1> HIDE DEF wanted
<1>4. IsFiniteSet(K)
  BY FewKeys DEF LackInv
<1> HIDE DEF K
<1>5. order \in Seq((1..n) \X K) /\ EachWanted(order, wanted, n)
  BY <1>3, OrderedHasEachWanted
<1> HIDE DEF order
<1>6. asked \in AskedSoFar(n, K) /\ Accounted(asked, order, Len(order))
  BY <1>3, <1>4, <1>5, AskedAccounts
<1> HIDE DEF asked
<1>7. /\ asked.requests \subseteq K /\ DOMAIN asked.keys = 1..n
      /\ asked.requests = UNION { asked.keys[i] : i \in DOMAIN asked.keys }
      /\ Cardinality(asked.requests) <= MaxCandidateReads
      /\ asked.limited # {} => Cardinality(asked.requests) >= MaxCandidateReads
  BY <1>6 DEF AskedSoFar, Accounted
<1>8. Cardinality(asked.requests) \in Nat
  BY <1>4, <1>7, FS_Subset, FS_CardinalityType
<1>9. PlannedReads(asked)
  BY <1>1, <1>2, <1>7, <1>8, RepairLimits DEF PlannedReads, K
<1>10. ASSUME NEW i \in 1..n, NEW j \in DOMAIN wanted[i]
       PROVE  wanted[i][j] \in asked.keys[i] \/ i \in asked.limited
  <2>1. PICK m \in DOMAIN order : order[m] = <<i, wanted[i][j]>>
    BY <1>5 DEF EachWanted
  <2>2. m \in 1..Len(order) /\ order[m][1] = i /\ order[m][2] = wanted[i][j]
    BY <1>5, <2>1
  <2> QED
    BY <1>6, <2>2 DEF Accounted
<1>11. ASSUME NEW i \in 1..n, NEW k \in DOMAIN Candidates(Findings[i]),
              Candidates(Findings[i])[k] \notin Loaded(Findings[i])
       PROVE  <<Findings[i].repository, Candidates(Findings[i])[k]>> \in asked.keys[i] \/ i \in asked.limited
  <2>1. Sought(Findings[i], wanted[i])
    BY <1>2, <1>3, ToReadIsSought
  <2>2. PICK j \in DOMAIN wanted[i] : wanted[i][j] = <<Findings[i].repository, Candidates(Findings[i])[k]>>
    BY <1>11, <2>1 DEF Sought
  <2> QED
    BY <1>10, <2>2
<1>12. ReadsFit(asked)
  BY <1>2, <1>11 DEF ReadsFit
<1> QED
  BY <1>9, <1>12

LEMMA PlanReadsLacks == ASSUME LackInv, PlanReads PROVE LackInv'
<1>1. PICK asked : PlannedReads(asked) /\ ReadsFit(asked)
  BY ReadsArePlanned
<1>2. /\ RepairFields' /\ repair'.pc = "read" /\ repair'.keys = asked.keys
      /\ repair'.limited = asked.limited /\ repair'.waiting = asked.requests
      /\ repair'.reading = repair.reading /\ repair.reading = {}
  BY <1>1 DEF LackInv, RepairFields, ReadsBounded, PlannedReads
<1>3. AllKeys' = asked.requests
  BY <1>1, <1>2 DEF AllKeys, PlannedReads
<1>4. /\ Findings' = Findings /\ ReadKeys' = ReadKeys /\ UNCHANGED result
      /\ \A i \in DOMAIN Findings : /\ Loaded(Findings[i])' = Loaded(Findings[i])
                                    /\ Candidates(Findings[i])' = Candidates(Findings[i])
  BY <1>1, FindingsStay DEF PlannedReads
<1>5. ReadsBounded'
  BY <1>1, <1>2, <1>3, <1>4, NoReads DEF ReadsBounded, PlannedReads
<1>6. ReadsAccounted'
  <2>1. DOMAIN repair'.keys = DOMAIN Findings'
    BY <1>1, <1>2, <1>4 DEF PlannedReads
  <2>2. ASSUME NEW i \in DOMAIN Findings
        PROVE  /\ repair'.keys[i] \subseteq repair'.waiting
               /\ \A k \in DOMAIN Candidates(Findings[i]) :
                    \/ Candidates(Findings[i])[k] \in Loaded(Findings[i])
                    \/ <<Findings[i].repository, Candidates(Findings[i])[k]>> \in repair'.keys[i]
                    \/ i \in repair'.limited
    <3>1. repair'.keys[i] \subseteq repair'.waiting
      BY <1>1, <1>2 DEF PlannedReads
    <3> QED
      BY <1>1, <1>2, <3>1 DEF ReadsFit
  <2>3. ASSUME NEW i \in DOMAIN Findings'
        PROVE  /\ repair'.keys[i] \subseteq repair'.waiting
               /\ \A k \in DOMAIN Candidates(Findings[i])' :
                    \/ Candidates(Findings[i])'[k] \in Loaded(Findings[i])'
                    \/ <<Findings'[i].repository, Candidates(Findings[i])'[k]>> \in repair'.keys[i]
                    \/ i \in repair'.limited
    BY <1>4, <2>2
  <2> QED
    BY <2>1, <2>3 DEF ReadsAccounted
<1> QED
  BY <1>2, <1>4, <1>5, <1>6 DEF LackInv, LacksAreNamed

\* A read that begins or ends keeps what was asked for accounted.
LEMMA ReadsKeep ==
    ASSUME LackInv, UNCHANGED result, RepairFields',
           repair.pc = "read", repair'.pc = "read",
           repair'.keys = repair.keys, repair'.limited = repair.limited,
           repair'.reading \subseteq ReadKeys, Cardinality(repair'.reading) <= MaxConcurrentReads,
           repair'.waiting \subseteq ReadKeys,
           repair.waiting \cup repair.reading \cup repair.failures \cup Supplied
             \subseteq repair'.waiting \cup repair'.reading \cup repair'.failures \cup Supplied'
    PROVE  LackInv'
<1>1. ReadsAccounted
  BY DEF LackInv
<1> DEFINE was == repair.waiting \cup repair.reading \cup repair.failures \cup Supplied
           now == repair'.waiting \cup repair'.reading \cup repair'.failures \cup Supplied'
<1>2. was \subseteq now
  OBVIOUS
<1>3. /\ Findings' = Findings /\ ReadKeys' = ReadKeys
      /\ \A i \in DOMAIN Findings : /\ Loaded(Findings[i])' = Loaded(Findings[i])
                                    /\ Candidates(Findings[i])' = Candidates(Findings[i])
  BY FindingsStay
<1>4. AllKeys' = AllKeys
  BY DEF AllKeys
<1>5. ReadsBounded'
  BY <1>3, <1>4 DEF LackInv, ReadsBounded
<1>6. DOMAIN repair'.keys = DOMAIN Findings'
  BY <1>1, <1>3 DEF ReadsAccounted
<1>7. ASSUME NEW i \in DOMAIN Findings'
      PROVE  /\ repair'.keys[i] \subseteq now
             /\ \A k \in DOMAIN Candidates(Findings[i])' :
                  \/ Candidates(Findings[i])'[k] \in Loaded(Findings[i])'
                  \/ <<Findings'[i].repository, Candidates(Findings[i])'[k]>> \in repair'.keys[i]
                  \/ i \in repair'.limited
  <2>1. i \in DOMAIN Findings
    BY <1>3
  <2>2. repair.keys[i] \subseteq was
    BY <1>1, <2>1 DEF ReadsAccounted
  <2>3. repair'.keys[i] \subseteq now
    <3> HIDE DEF was, now
    <3> QED
      BY <1>2, <2>2
  <2>4. \A k \in DOMAIN Candidates(Findings[i]) :
                  \/ Candidates(Findings[i])[k] \in Loaded(Findings[i])
                  \/ <<Findings[i].repository, Candidates(Findings[i])[k]>> \in repair.keys[i]
                  \/ i \in repair.limited
    BY <1>1, <2>1 DEF ReadsAccounted
  <2> HIDE DEF now
  <2> QED
    BY <1>3, <2>1, <2>3, <2>4
<1>8. ReadsAccounted'
  BY <1>6, <1>7 DEF ReadsAccounted
<1> QED
  BY <1>5, <1>8 DEF LackInv, LacksAreNamed

LEMMA BeginFetchLacks == ASSUME LackInv, BeginFetch PROVE LackInv'
<1>1. PICK key \in repair.waiting :
        /\ repair.pc = "read" /\ Cardinality(repair.reading) < MaxConcurrentReads
        /\ repair' = [repair EXCEPT !.waiting = @ \ {key}, !.reading = @ \cup {key}]
        /\ UNCHANGED result
  BY DEF BeginFetch
<1>2. /\ RepairFields' /\ repair'.pc = "read" /\ repair'.keys = repair.keys
      /\ repair'.limited = repair.limited /\ repair'.waiting = repair.waiting \ {key}
      /\ repair'.reading = repair.reading \cup {key} /\ repair'.sources = repair.sources
      /\ repair'.failures = repair.failures
  BY <1>1 DEF LackInv, RepairFields
<1>3. repair.waiting \subseteq ReadKeys /\ repair.reading \subseteq ReadKeys /\ key \in ReadKeys
  BY DEF LackInv, ReadsBounded
<1>4. Cardinality(repair'.reading) <= MaxConcurrentReads
  <2>1. IsFiniteSet(repair.reading)
    BY <1>3, FewKeys, FS_Subset DEF LackInv
  <2>2. Cardinality(repair.reading \cup {key})
          = IF key \in repair.reading THEN Cardinality(repair.reading)
            ELSE Cardinality(repair.reading) + 1
    BY <2>1, FS_AddElement
  <2>3. Cardinality(repair.reading) \in Nat
    BY <2>1, FS_CardinalityType
  <2> QED
    BY <1>1, <1>2, <2>2, <2>3, RepairLimits
<1>5. Supplied' = Supplied
  BY <1>2 DEF Supplied
<1> QED
  BY <1>1, <1>2, <1>3, <1>4, <1>5, ReadsKeep

\* Fewer reads go on.
LEMMA OneLess ==
    ASSUME LackInv, NEW key \in repair.reading
    PROVE  /\ repair.reading \ {key} \subseteq ReadKeys /\ repair.waiting \subseteq ReadKeys
           /\ key \in ReadKeys /\ repair.pc = "read"
           /\ Cardinality(repair.reading \ {key}) <= MaxConcurrentReads
<1>1. /\ repair.reading \subseteq ReadKeys /\ repair.waiting \subseteq ReadKeys /\ repair.pc = "read"
      /\ Cardinality(repair.reading) <= MaxConcurrentReads
  BY DEF LackInv, ReadsBounded
<1>2. IsFiniteSet(repair.reading)
  BY <1>1, FewKeys, FS_Subset DEF LackInv
<1>3. /\ Cardinality(repair.reading \ {key}) <= Cardinality(repair.reading)
      /\ Cardinality(repair.reading) \in Nat /\ Cardinality(repair.reading \ {key}) \in Nat
  <2>1. repair.reading \ {key} \subseteq repair.reading
    OBVIOUS
  <2> QED
    BY <1>2, <2>1, FS_Subset, FS_CardinalityType
<1> QED
  BY <1>1, <1>3, RepairLimits

LEMMA FetchFailsLacks == ASSUME LackInv, FetchFails PROVE LackInv'
<1>1. PICK key \in repair.reading :
        /\ repair' = [repair EXCEPT !.reading = @ \ {key}, !.failures = @ \cup {key}]
        /\ UNCHANGED result
  BY DEF FetchFails
<1>2. /\ RepairFields' /\ repair'.pc = repair.pc /\ repair'.keys = repair.keys
      /\ repair'.limited = repair.limited /\ repair'.waiting = repair.waiting
      /\ repair'.reading = repair.reading \ {key} /\ repair'.sources = repair.sources
      /\ repair'.failures = repair.failures \cup {key}
  BY <1>1 DEF LackInv, RepairFields
<1>3. Supplied' = Supplied
  BY <1>2 DEF Supplied
<1> QED
  BY <1>1, <1>2, <1>3, OneLess, ReadsKeep

\* What a read yields: a source of what was asked for, and maybe an original.
LEMMA FetchYields ==
    ASSUME FetchSucceeds
    PROVE  \E key \in repair.reading : \E source, originals :
              /\ repair' = [repair EXCEPT !.reading = @ \ {key}, !.sources = @ \cup {source},
                                          !.originals = originals]
              /\ UNCHANGED result
              /\ source.repository = key[1] /\ source.path = key[2] /\ source.ref = "commit"
              /\ source.modified \/ source.text = Text(source.repository, source.ref, source.path)
              /\ \A s \in originals :
                   \/ s \in repair.originals
                   \/ s.repository = key[1] /\ s.text = Text(s.repository, s.ref, s.path)
<1> DEFINE text(key) == Text(key[1], "commit", key[2])
           kept(key) == IF Secrets[key[2]] \in {"none", "diff"} THEN text(key) ELSE Scrubbed(key[2])
           read(key) == Source(key[1], "commit", key[2], kept(key))
           original(key) == Source(key[1], "commit", key[2], text(key))
           originals(key) == IF key[2] \in DataConfigs THEN repair.originals \cup {original(key)}
                             ELSE repair.originals
<1>1. PICK key \in repair.reading :
        /\ repair' = [repair EXCEPT !.reading = @ \ {key}, !.sources = @ \cup {read(key)},
                                    !.originals = originals(key)]
        /\ UNCHANGED result
  BY DEF FetchSucceeds
<1>2. /\ read(key).repository = key[1] /\ read(key).ref = "commit" /\ read(key).path = key[2]
      /\ read(key).text = kept(key) /\ read(key).modified = (kept(key) = Scrubbed(key[2]))
  BY DEF Source
<1>3. /\ original(key).repository = key[1] /\ original(key).ref = "commit"
      /\ original(key).path = key[2] /\ original(key).text = text(key)
  BY DEF Source
<1>4. kept(key) = Scrubbed(key[2]) \/ kept(key) = text(key)
  OBVIOUS
<1>5. originals(key) \subseteq repair.originals \cup {original(key)}
  OBVIOUS
<1> HIDE DEF read, original, originals, kept
<1>6. read(key).modified \/ read(key).text = Text(read(key).repository, read(key).ref, read(key).path)
  BY <1>2, <1>4
<1>7. ASSUME NEW s \in originals(key), s \notin repair.originals
      PROVE  s.repository = key[1] /\ s.text = Text(s.repository, s.ref, s.path)
  BY <1>3, <1>5, <1>7
<1> QED
  BY <1>1, <1>2, <1>6, <1>7

LEMMA FetchSucceedsLacks == ASSUME LackInv, FetchSucceeds PROVE LackInv'
<1>1. PICK key, source, originals :
        /\ key \in repair.reading
        /\ repair' = [repair EXCEPT !.reading = @ \ {key}, !.sources = @ \cup {source},
                                    !.originals = originals]
        /\ UNCHANGED result
        /\ source.repository = key[1] /\ source.path = key[2] /\ source.ref = "commit"
  BY FetchYields
<1>2. /\ RepairFields' /\ repair'.pc = repair.pc /\ repair'.keys = repair.keys
      /\ repair'.limited = repair.limited /\ repair'.waiting = repair.waiting
      /\ repair'.reading = repair.reading \ {key}
      /\ repair'.sources = repair.sources \cup {source}
      /\ repair'.failures = repair.failures
  BY <1>1 DEF LackInv, RepairFields
<1>3. /\ repair.reading \ {key} \subseteq ReadKeys /\ repair.waiting \subseteq ReadKeys
      /\ key \in ReadKeys /\ repair.pc = "read"
      /\ Cardinality(repair.reading \ {key}) <= MaxConcurrentReads
  BY <1>1, OneLess
<1>4. Key(source) = key
  <2>1. key = <<key[1], key[2]>>
    BY <1>3 DEF ReadKeys
  <2> QED
    BY <1>1, <2>1 DEF Key
<1>5. key \in Supplied' /\ Supplied \subseteq Supplied'
  BY <1>1, <1>2, <1>4 DEF Supplied
<1> QED
  BY <1>1, <1>2, <1>3, <1>5, ReadsKeep

-----------------------------------------------------------------------------
\* The plan of a finding whose reads are all done names what it lacks.
LEMMA PlanNamesLacks ==
    ASSUME ReadsAccounted, repair.waiting = {}, repair.reading = {},
           NEW i \in DOMAIN Findings, Findings[i].repository # "none", ~ PlanOf(i).limited,
           NEW k \in DOMAIN Ranking(Findings[i]), k <= MaxResults
    PROVE  Ranking(Findings[i])[k] \in PlanOf(i).supplied \cup PlanOf(i).missing
<1> DEFINE finding == Findings[i]
           keys == repair.keys[i]
           sources == BundleOf(finding) \cup { s \in repair.sources : Key(s) \in keys }
           supplied == { s.path : s \in { c \in sources : c.ref = "commit" } }
           missing == { failed[2] : failed \in repair.failures \cap keys }
           path == Ranking(finding)[k]
           key == <<finding.repository, path>>
<1>1. /\ PlanOf(i).supplied = supplied
      /\ PlanOf(i).missing = missing
      /\ PlanOf(i).limited = (i \in repair.limited)
  BY DEF PlanOf
<1>2. path \in Loaded(finding) \/ key \in keys
  <2>1. Candidates(finding) = Best(Ranking(finding))
    BY DEF Candidates
  <2>2. Ranking(finding) \in Seq(RepairPaths)
    BY RankingIsFiles
  <2>3. k \in DOMAIN Candidates(finding) /\ Candidates(finding)[k] = path
    BY <2>1, <2>2, BestAreFirst
  <2> QED
    BY <1>1, <2>3 DEF ReadsAccounted
<1>3. ASSUME path \in Loaded(finding) PROVE path \in supplied
  <2>1. PICK s \in BundleOf(finding) : s.ref = "commit" /\ s.path = path
    BY <1>3 DEF Loaded
  <2>2. s \in sources
    OBVIOUS
  <2> HIDE DEF sources, path
  <2> QED
    BY <2>1, <2>2
<1>4. ASSUME key \in keys PROVE path \in supplied \/ path \in missing
  <2>1. key \in repair.failures \/ key \in Supplied
    BY <1>4 DEF ReadsAccounted
  <2>2. ASSUME key \in repair.failures PROVE path \in missing
    <3>1. key \in repair.failures \cap keys /\ key[2] = path
      BY <1>4, <2>2
    <3> HIDE DEF key, path, keys
    <3> QED
      BY <3>1
  <2>3. ASSUME key \in Supplied PROVE path \in supplied
    <3>1. PICK s \in repair.sources : s.ref = "commit" /\ Key(s) = key
      BY <2>3 DEF Supplied
    <3>2. s \in sources /\ s.path = path
      BY <1>4, <3>1 DEF Key
    <3> HIDE DEF sources, path
    <3> QED
      BY <3>1, <3>2
  <2> HIDE DEF supplied, missing, path
  <2> QED
    BY <2>1, <2>2, <2>3
<1> HIDE DEF supplied, missing, keys, key
<1>5. path \in PlanOf(i).supplied \cup PlanOf(i).missing
  BY <1>1, <1>2, <1>3, <1>4
<1> QED
  BY <1>5

LEMMA BuildPlansLacks == ASSUME LackInv, BuildPlans PROVE LackInv'
<1> DEFINE plans == [i \in DOMAIN Findings |-> PlanOf(i)]
<1>1. /\ repair.pc = "read" /\ repair.waiting = {} /\ repair.reading = {}
      /\ repair' = [repair EXCEPT !.pc = "done", !.originals = {}, !.plans = plans]
      /\ UNCHANGED result
  BY DEF BuildPlans
<1>2. DOMAIN plans = DOMAIN Findings /\ \A i \in DOMAIN Findings : plans[i] = PlanOf(i)
  OBVIOUS
<1> HIDE DEF plans
<1>3. /\ RepairFields' /\ repair'.pc = "done" /\ repair'.plans = plans /\ repair'.originals = {}
      /\ repair'.keys = repair.keys /\ repair'.waiting = {} /\ repair'.reading = {}
      /\ repair'.limited = repair.limited
  BY <1>1 DEF LackInv, RepairFields
<1>4. /\ Findings' = Findings /\ ReadKeys' = ReadKeys /\ AllKeys' = AllKeys
      /\ \A i \in DOMAIN Findings : Ranking(Findings[i])' = Ranking(Findings[i])
  BY <1>1, <1>3, FindingsStay DEF AllKeys
<1>5. ReadsBounded'
  BY <1>3, <1>4, NoReads DEF LackInv, ReadsBounded
<1>6. ReadsAccounted /\ ReadsBounded
  BY <1>1 DEF LackInv
<1>7. ASSUME NEW i \in DOMAIN Findings, Findings[i].repository # "none", ~ plans[i].limited,
             NEW k \in DOMAIN Ranking(Findings[i])
      PROVE  k > MaxResults \/ Ranking(Findings[i])[k] \in plans[i].supplied \cup plans[i].missing
  <2>1. k \in Nat
    BY RankingIsFiles
  <2>2. k > MaxResults \/ k <= MaxResults
    BY <2>1, RepairLimits
  <2> QED
    BY <1>1, <1>2, <1>6, <1>7, <2>2, PlanNamesLacks
<1>8. ASSUME NEW i \in DOMAIN plans, plans[i].limited
      PROVE  Cardinality(AllKeys) = MaxCandidateReads
  <2>1. plans[i].limited = (i \in repair.limited)
    <3>1. plans[i] = PlanOf(i)
      BY <1>2
    <3>2. PlanOf(i).limited = (i \in repair.limited)
      BY DEF PlanOf
    <3> QED
      BY <3>1, <3>2
  <2> QED
    BY <1>6, <1>8, <2>1 DEF ReadsBounded
<1>9. ASSUME NEW i \in DOMAIN plans, Findings'[i].repository # "none", ~ plans[i].limited,
             NEW k \in DOMAIN Ranking(Findings[i])'
      PROVE  k > MaxResults \/ Ranking(Findings[i])'[k] \in plans[i].supplied \cup plans[i].missing
  BY <1>2, <1>4, <1>7, <1>9
<1>10. LacksAreNamed'
  <2>1. (\E i \in DOMAIN plans : plans[i].limited) => Cardinality(AllKeys') = MaxCandidateReads
    BY <1>4, <1>8
  <2> QED
    BY <1>3, <1>9, <2>1 DEF LacksAreNamed, AllKeys
<1> QED
  BY <1>1, <1>3, <1>5, <1>10 DEF LackInv

LEMMA RepairCancelledLacks == ASSUME LackInv, RepairCancelled PROVE LackInv'
<1>1. /\ repair' = [pc |-> "cancelled", keys |-> <<>>, limited |-> {}, waiting |-> {}, reading |-> {},
                    sources |-> {}, originals |-> {}, failures |-> {}, plans |-> <<>>]
      /\ UNCHANGED result
  BY DEF RepairCancelled, NotRepairing
<1>2. /\ repair'.pc = "cancelled" /\ repair'.keys = <<>> /\ repair'.waiting = {}
      /\ repair'.reading = {} /\ repair'.originals = {} /\ repair'.limited = {} /\ RepairFields'
  BY <1>1 DEF RepairFields
<1>3. DOMAIN <<>> = {}
  OBVIOUS
<1>4. AllKeys' = {}
  BY <1>2, <1>3 DEF AllKeys
<1>5. ReadsBounded'
  BY <1>2, <1>4, NoReads DEF ReadsBounded
<1> QED
  BY <1>1, <1>2, <1>5 DEF LackInv, LacksAreNamed

LEMMA RemediationNextLacks == ASSUME LackInv, [RemediationNext]_repairVars PROVE LackInv'
<1>1. ASSUME UNCHANGED repairVars PROVE LackInv'
  <2>1. UNCHANGED result /\ UNCHANGED repair
    BY <1>1 DEF repairVars
  <2>2. /\ AllKeys' = AllKeys /\ Supplied' = Supplied /\ Findings' = Findings /\ ReadKeys' = ReadKeys
        /\ \A i : Ranking(Findings[i])' = Ranking(Findings[i])
    BY <2>1, FindingsStay DEF AllKeys, Supplied
  <2>3. RepairFields' /\ ReadsBounded'
    BY <2>1, <2>2 DEF LackInv, RepairFields, ReadsBounded
  <2>4. CASE repair.pc = "read"
    BY <2>1, <2>2, <2>3, <2>4, ReadsKeep DEF LackInv, ReadsBounded
  <2>5. CASE repair.pc # "read"
    <3>1. LacksAreNamed'
      BY <2>1, <2>2 DEF LackInv, LacksAreNamed
    <3> QED
      BY <2>1, <2>3, <2>5, <3>1 DEF LackInv
  <2> QED
    BY <2>4, <2>5
<1> QED
  BY <1>1, PlanReadsLacks, BeginFetchLacks, FetchSucceedsLacks, FetchFailsLacks, BuildPlansLacks,
     RepairCancelledLacks DEF RemediationNext, Remediate

LEMMA LackInvariant == RemediationSpec => []LackInv
  BY LackInit, RemediationNextLacks, PTL DEF RemediationSpec

\* However many findings and candidate files there are, no more reads than allowed run at
\* once or in all, and no original outlives the plans (repair_context.py, the semaphore
\* and the limit of enrich_remediations).
THEOREM RemediationTypeCorrect == RemediationSpec => []RemediationTypeOK
<1>1. LackInv => RemediationTypeOK
  BY DEF LackInv, ReadsBounded, AllKeys, RemediationTypeOK
<1> QED
  BY <1>1, LackInvariant, PTL

\* However many findings and files there are, and however findings share their reads: each
\* file that ranks among the best for a finding was supplied at the commit, or its plan
\* names the failed read, or says that the limit was met, which it says only when as many
\* reads as there may be were asked for (repair_context.py, enrich_remediations;
\* remediation.py, candidate_source_paths with its cut to _MAX_RESULTS).
THEOREM RemediationNamesLacks == RemediationSpec => []LacksAreNamed
<1>1. LackInv => LacksAreNamed
  BY DEF LackInv
<1> QED
  BY <1>1, LackInvariant, PTL

-----------------------------------------------------------------------------
(* The proposals (Remediation): what is proposed. *)

Genuine(s) == s.modified \/ s.text = Text(s.repository, s.ref, s.path)

\* What is read is of the repository of a job and, where redaction left it alone, what is
\* there; an original is always what is there.
ReadsAreGenuine ==
    /\ \A s \in repair.sources : s.repository # "none" /\ Genuine(s)
    /\ \A s \in repair.originals :
         s.repository # "none" /\ s.text = Text(s.repository, s.ref, s.path)

RepairInv == /\ result \in RepairResults
             /\ RepairFields /\ ReadsAreGenuine /\ ProposalsAreExact

LEMMA RemediationInitKeeps == RemediationInit => RepairInv
<1> SUFFICES ASSUME RemediationInit PROVE RepairInv
  OBVIOUS
<1>1. repair = [pc |-> "plan", keys |-> <<>>, limited |-> {}, waiting |-> {}, reading |-> {},
                sources |-> {}, originals |-> {}, failures |-> {}, plans |-> <<>>]
  BY DEF RemediationInit, NotRepairing
<1>2. repair.sources = {} /\ repair.originals = {} /\ repair.plans = <<>> /\ RepairFields
  BY <1>1 DEF RepairFields
<1>3. DOMAIN <<>> = {}
  OBVIOUS
<1> QED
  BY <1>2, <1>3 DEF RemediationInit, RepairInv, ReadsAreGenuine, ProposalsAreExact

\* A step that makes no plan is harmless if what was read is genuine.
LEMMA PlansKept ==
    ASSUME RepairInv, UNCHANGED result, repair'.plans = repair.plans,
           RepairFields', ReadsAreGenuine'
    PROVE  RepairInv'
<1>1. Findings' = Findings
  BY DEF Findings
<1> QED
  BY <1>1 DEF RepairInv, ProposalsAreExact

LEMMA PlanReadsKeeps == ASSUME RepairInv, PlanReads PROVE RepairInv'
<1>1. PICK keys, limited, requests :
        repair' = [repair EXCEPT !.pc = "read", !.keys = keys,
                                 !.limited = limited, !.waiting = requests]
  BY DEF PlanReads
<1>2. /\ RepairFields' /\ repair'.plans = repair.plans
      /\ repair'.sources = repair.sources /\ repair'.originals = repair.originals
  BY <1>1 DEF RepairInv, RepairFields
<1>3. UNCHANGED result
  BY DEF PlanReads
<1>4. ReadsAreGenuine'
  BY <1>2 DEF RepairInv, ReadsAreGenuine
<1> QED
  BY SMTT(60), <1>2, <1>3, <1>4, PlansKept

LEMMA BeginFetchKeeps == ASSUME RepairInv, BeginFetch PROVE RepairInv'
<1>1. PICK key \in repair.waiting :
        /\ repair' = [repair EXCEPT !.waiting = @ \ {key}, !.reading = @ \cup {key}]
        /\ UNCHANGED result
  BY DEF BeginFetch
<1>2. /\ RepairFields' /\ repair'.plans = repair.plans
      /\ repair'.sources = repair.sources /\ repair'.originals = repair.originals
  BY <1>1 DEF RepairInv, RepairFields
<1>3. ReadsAreGenuine'
  BY <1>2 DEF RepairInv, ReadsAreGenuine
<1> QED
  BY <1>1, <1>2, <1>3, PlansKept

LEMMA FetchFailsKeeps == ASSUME RepairInv, FetchFails PROVE RepairInv'
<1>1. PICK key \in repair.reading :
        /\ repair' = [repair EXCEPT !.reading = @ \ {key}, !.failures = @ \cup {key}]
        /\ UNCHANGED result
  BY DEF FetchFails
<1>2. /\ RepairFields' /\ repair'.plans = repair.plans
      /\ repair'.sources = repair.sources /\ repair'.originals = repair.originals
  BY <1>1 DEF RepairInv, RepairFields
<1>3. ReadsAreGenuine'
  BY <1>2 DEF RepairInv, ReadsAreGenuine
<1> QED
  BY <1>1, <1>2, <1>3, PlansKept

LEMMA FetchSucceedsKeeps == ASSUME RepairInv, LackInv, FetchSucceeds PROVE RepairInv'
<1>1. PICK key, source, originals :
        /\ key \in repair.reading
        /\ repair' = [repair EXCEPT !.reading = @ \ {key}, !.sources = @ \cup {source},
                                    !.originals = originals]
        /\ UNCHANGED result
        /\ source.repository = key[1]
        /\ source.modified \/ source.text = Text(source.repository, source.ref, source.path)
        /\ \A s \in originals :
             \/ s \in repair.originals
             \/ s.repository = key[1] /\ s.text = Text(s.repository, s.ref, s.path)
  BY FetchYields
<1>2. key[1] # "none"
  <2>1. key \in ReadKeys
    BY <1>1, OneLess
  <2> QED
    BY <2>1 DEF ReadKeys, Repositories
<1>3. /\ RepairFields' /\ repair'.plans = repair.plans
      /\ repair'.sources = repair.sources \cup {source}
      /\ repair'.originals = originals
  BY <1>1 DEF RepairInv, RepairFields
<1>4. ReadsAreGenuine'
  BY <1>1, <1>2, <1>3 DEF RepairInv, ReadsAreGenuine, Genuine
<1> QED
  BY <1>1, <1>3, <1>4, PlansKept

LEMMA RepairCancelledKeeps == ASSUME RepairInv, RepairCancelled PROVE RepairInv'
<1>1. repair' = [pc |-> "cancelled", keys |-> <<>>, limited |-> {}, waiting |-> {}, reading |-> {},
                 sources |-> {}, originals |-> {}, failures |-> {}, plans |-> <<>>]
  BY DEF RepairCancelled, NotRepairing
<1>2. repair'.sources = {} /\ repair'.originals = {} /\ repair'.plans = <<>> /\ RepairFields'
  BY <1>1 DEF RepairFields
<1>3. DOMAIN <<>> = {} /\ UNCHANGED result
  BY DEF RepairCancelled
<1> QED
  BY <1>2, <1>3 DEF RepairInv, ReadsAreGenuine, ProposalsAreExact

-----------------------------------------------------------------------------
\* What _source takes is the text at the commit in the finding's own repository.
LEMMA ExactIsTheCommit ==
    ASSUME NEW finding, NEW s, Exact(s, finding), Genuine(s)
    PROVE  s.repository = finding.repository /\ s.text = Text(finding.repository, "commit", s.path)
  BY DEF Exact, Genuine

LEMMA BundlesAreGenuine ==
    ASSUME RepairInv, NEW finding, NEW s \in BundleOf(finding)
    PROVE  Genuine(s) /\ finding.repository # "none"
<1>1. s \in result.bundle \cup result.childBundle
  BY DEF BundleOf
<1>2. Genuine(s)
  BY <1>1, RemediationAssumption DEF RepairInv, Genuine
<1> QED
  BY <1>2 DEF BundleOf

LEMMA PlansAreExact ==
    ASSUME RepairInv, NEW i \in DOMAIN Findings, NEW s \in PlanOf(i).proposals
    PROVE  /\ Findings[i].repository # "none"
           /\ s.text = Text(Findings[i].repository, "commit", s.path)
           /\ Secrets[s.path] \notin {"hunk", "diff"}
<1> DEFINE finding == Findings[i]
           keys == repair.keys[i]
           sources == BundleOf(finding) \cup { c \in repair.sources : Key(c) \in keys }
           diffs == Diffs(finding, sources)
           chosen == IF Hunks(finding, keys) = {} THEN diffs
                     ELSE {CHOOSE c \in Hunks(finding, keys) : TRUE}
<1>1. PlanOf(i).proposals = IF Withheld(chosen) THEN {} ELSE chosen
  BY DEF PlanOf
<1>2. s \in chosen /\ ~Withheld(chosen)
  BY <1>1
<1>3. Secrets[s.path] \notin {"hunk", "diff"}
  BY <1>2 DEF Withheld
<1>4. CASE s \in Hunks(finding, keys)
  <2>1. s \in repair.originals /\ Exact(s, finding)
    BY <1>4 DEF Hunks
  <2>2. Genuine(s) /\ s.repository # "none"
    BY <2>1 DEF RepairInv, ReadsAreGenuine, Genuine
  <2> QED
    BY <1>3, <2>1, <2>2, ExactIsTheCommit
<1>5. CASE s \in diffs
  <2>1. s \in sources /\ Exact(s, finding)
    BY <1>5 DEF Diffs
  <2>2. Genuine(s) /\ (s \in repair.sources => s.repository # "none")
    BY <2>1, BundlesAreGenuine DEF RepairInv, ReadsAreGenuine
  <2>3. s.repository = finding.repository /\ s.text = Text(finding.repository, "commit", s.path)
    BY <2>1, <2>2, ExactIsTheCommit
  <2>4. finding.repository # "none"
    BY <2>1, <2>2, <2>3, BundlesAreGenuine
  <2> QED
    BY <1>3, <2>3, <2>4
<1> QED
  BY <1>2, <1>4, <1>5

LEMMA BuildPlansKeeps == ASSUME RepairInv, BuildPlans PROVE RepairInv'
<1> DEFINE plans == [i \in DOMAIN Findings |-> PlanOf(i)]
<1>1. repair' = [repair EXCEPT !.pc = "done", !.originals = {}, !.plans = plans] /\ UNCHANGED result
  BY DEF BuildPlans
<1>2. \A i \in DOMAIN plans : plans[i] = PlanOf(i) /\ i \in DOMAIN Findings
  OBVIOUS
<1> HIDE DEF plans
<1>3. /\ RepairFields' /\ repair'.plans = plans
      /\ repair'.sources = repair.sources /\ repair'.originals = {}
  BY <1>1 DEF RepairInv, RepairFields
<1>4. Findings' = Findings
  BY <1>1 DEF Findings
<1>5. ReadsAreGenuine'
  BY <1>3 DEF RepairInv, ReadsAreGenuine
<1>6. ProposalsAreExact'
  BY <1>2, <1>3, <1>4, PlansAreExact DEF ProposalsAreExact
<1> QED
  BY <1>1, <1>3, <1>5, <1>6 DEF RepairInv

LEMMA RemediationNextKeeps ==
    ASSUME RepairInv, LackInv, [RemediationNext]_repairVars PROVE RepairInv'
<1>1. ASSUME UNCHANGED repairVars PROVE RepairInv'
  <2>1. repair' = repair /\ UNCHANGED result
    BY <1>1 DEF repairVars
  <2>2. RepairFields' /\ ReadsAreGenuine' /\ repair'.plans = repair.plans
    BY <2>1 DEF RepairInv, RepairFields, ReadsAreGenuine
  <2> QED
    BY <2>1, <2>2, PlansKept
<1> QED
  BY <1>1, PlanReadsKeeps, BeginFetchKeeps, FetchSucceedsKeeps, FetchFailsKeeps, BuildPlansKeeps,
     RepairCancelledKeeps DEF RemediationNext, Remediate

\* For any findings, bundles, secrets, limits and order of the reads, a diff is of a file of
\* the finding's own repository as it is at the commit of its job's pipeline, and shows
\* nothing that redaction would have changed (services/remediation.py, _source and the last
\* redaction of a plan; repair_context.py).
THEOREM RemediationProposesExact == RemediationSpec => []ProposalsAreExact
<1>1. RemediationInit => RepairInv
  BY RemediationInitKeeps
<1>2. RepairInv /\ LackInv /\ [RemediationNext]_repairVars => RepairInv'
  BY RemediationNextKeeps
<1>3. RepairInv => ProposalsAreExact
  BY DEF RepairInv
<1> QED
  BY <1>1, <1>2, <1>3, LackInvariant, PTL DEF RemediationSpec


-----------------------------------------------------------------------------
(* How much an inspection may still do.                                        *)

\* What is left for an inspection to do: a number that its places, the reads it has
\* under way and the children it has followed determine.
InspectionLeft ==
    CASE view.pc = "project" -> 20
      [] view.pc \in {"selected", "branch"} -> 19
      [] view.pc = "run" -> 18
      [] view.pc = "list" -> 15 + Cardinality(view.reads)
      [] view.pc = "choose" -> 15
      [] view.pc = "evidence" -> 4 + Cardinality(view.reads)
      [] view.pc = "child" -> 3 - view.children
      [] OTHER -> 0

\* The caller's max_jobs is cut down to eight, and the listing is two reads.
FewReads(v) ==
    /\ v.budget \in 1..8
    /\ v.pc = "list" => v.reads \subseteq {"jobs", "bridges"}

\* A sequence has no more elements than its length.
LEMMA ElementsAtMost ==
    ASSUME NEW X, NEW s \in Seq(X)
    PROVE  IsFiniteSet(ToSet(s)) /\ Cardinality(ToSet(s)) <= Len(s)
<1> DEFINE f == [i \in 1..Len(s) |-> s[i]]
           T == ToSet(s)
<1>1. T = { s[i] : i \in 1..Len(s) }
  BY DEF ToSet
<1>2. f \in Surjection(1..Len(s), T)
  BY <1>1 DEF Surjection
<1>3. IsFiniteSet(1..Len(s)) /\ Cardinality(1..Len(s)) = Len(s)
  <2>1. Len(s) \in Nat
    OBVIOUS
  <2> QED
    BY SMTT(60), <2>1, FS_Interval
<1> HIDE DEF f, T
<1>4. IsFiniteSet(T) /\ Cardinality(T) <= Cardinality(1..Len(s))
  BY <1>2, <1>3, FS_Surjection
<1> QED
  BY <1>3, <1>4 DEF T

\* The reads that run together are at most two and one for each trace.
LEMMA ReadsAreFew ==
    ASSUME NEW v, ViewInv(v), FewReads(v)
    PROVE  /\ v.pc = "list" => /\ IsFiniteSet(v.reads)
                                  /\ Cardinality(v.reads) \in 0..2
           /\ v.pc = "evidence" => /\ IsFiniteSet(v.reads)
                                      /\ Cardinality(v.reads) \in 0..10
<1>1. ASSUME NEW a, NEW b, a # b
      PROVE  IsFiniteSet({a, b}) /\ Cardinality({a, b}) = 2
  <2>1. IsFiniteSet({a}) /\ Cardinality({a}) = 1
    BY FS_Singleton
  <2>2. {a, b} = {a} \cup {b} /\ b \notin {a}
    BY <1>1
  <2> QED
    BY <2>1, <2>2, FS_AddElement
<1>2. ASSUME v.pc = "list"
      PROVE  IsFiniteSet(v.reads) /\ Cardinality(v.reads) \in 0..2
  <2>1. IsFiniteSet({"jobs", "bridges"}) /\ Cardinality({"jobs", "bridges"}) = 2
    BY <1>1
  <2>2. v.reads \subseteq {"jobs", "bridges"}
    BY <1>2 DEF FewReads
  <2> QED
    BY <2>1, <2>2, FS_Subset, FS_CardinalityType
<1>3. ASSUME v.pc = "evidence"
      PROVE  IsFiniteSet(v.reads) /\ Cardinality(v.reads) \in 0..10
  <2> DEFINE chosen == ToSet(v.chosen)
             two == {"sources", "context"}
  <2>1. v.chosen \in Seq(Jobs) /\ Len(v.chosen) \in Nat
    BY DEF ViewInv, Views
  <2>2. Len(v.chosen) <= 8
    <3>1. v.run # NoRun => Len(v.chosen) <= v.budget
      BY <1>3 DEF ViewInv, Chosen
    <3>2. v.run = NoRun => Len(v.chosen) = 0
      BY <1>3 DEF ViewInv, Chosen
    <3> QED
      BY <2>1, <3>1, <3>2 DEF FewReads
  <2>3. IsFiniteSet(chosen) /\ Cardinality(chosen) <= Len(v.chosen)
    BY <2>1, ElementsAtMost
  <2>4. IsFiniteSet(two) /\ Cardinality(two) = 2
    BY <1>1
  <2>5. v.reads \subseteq two \cup chosen
    BY <1>3 DEF ViewInv, Traced
  <2> HIDE DEF chosen, two
  <2>6. /\ IsFiniteSet(two \cup chosen)
        /\ Cardinality(two \cup chosen) = Cardinality(two) + Cardinality(chosen) - Cardinality(two \cap chosen)
    BY <2>3, <2>4, FS_Union
  <2>7. Cardinality(two \cap chosen) \in Nat
    BY <2>4, FS_Intersection, FS_CardinalityType
  <2>8. Cardinality(two \cup chosen) <= 10 /\ Cardinality(two \cup chosen) \in Nat
    BY <2>1, <2>2, <2>3, <2>4, <2>6, <2>7, FS_CardinalityType
  <2>9. IsFiniteSet(v.reads) /\ Cardinality(v.reads) <= Cardinality(two \cup chosen)
    BY <2>5, <2>6, FS_Subset
  <2> QED
    BY <2>8, <2>9, FS_CardinalityType
<1> QED
  BY <1>2, <1>3

LEMMA InspectionLeftBounded ==
    ASSUME InspectionInv, FewReads(view) PROVE InspectionLeft \in 0..20
<1>1. view.pc = "child" => view.children \in 0..2
  <2>1. view.children \in Nat /\ Len(view.candidates) \in Nat
    BY DEF InspectionInv, ViewInv, Views
  <2> QED
    BY <2>1 DEF InspectionInv, ViewInv, Judged, Judging
<1> QED
  BY <1>1, ReadsAreFew DEF InspectionInv, InspectionLeft

\* A read that runs with others is done once.
LEMMA OneReadLess ==
    ASSUME InspectionInv, FewReads(view), NEW read \in view.reads, view.pc \in {"list", "evidence"},
           view'.pc = view.pc, view'.reads = view.reads \ {read}, view'.budget = view.budget
    PROVE  InspectionLeft' < InspectionLeft /\ FewReads(view')
<1>1. IsFiniteSet(view.reads) /\ Cardinality(view.reads) \in Nat
  BY ReadsAreFew, FS_CardinalityType DEF InspectionInv
<1>2. Cardinality(view'.reads) = Cardinality(view.reads) - 1
  BY <1>1, FS_RemoveElement
<1>3. FewReads(view')
  BY DEF FewReads
<1> QED
  BY <1>1, <1>2, <1>3 DEF InspectionLeft

\* Each step of an inspection leaves it less to do.
LEMMA InspectionGoesOn ==
    ASSUME InspectionInv, InspectionInv', FewReads(view), Inspect
    PROVE  InspectionLeft' < InspectionLeft /\ FewReads(view')
<1>1. view \in Views /\ view.budget \in 1..8 /\ view.children \in Nat
      /\ view.reads \subseteq Reads
  BY DEF InspectionInv, ViewInv, Views, FewReads
<1>2. view.pc = "child" => view.children \in 0..2
  <2>1. Len(view.candidates) \in Nat
    BY DEF InspectionInv, ViewInv, Views
  <2> QED
    BY <1>1, <2>1 DEF InspectionInv, ViewInv, Judged, Judging
<1>3. AtChild => view.pc = "child" /\ view.children \in 0..1
  <2>1. Len(view.candidates) \in Nat
    BY DEF InspectionInv, ViewInv, Views
  <2>2. view.pc = "child" => Len(view.candidates) <= 2
    BY DEF InspectionInv, ViewInv, Judged, Judging
  <2> QED
    BY <1>1, <2>1, <2>2 DEF AtChild, Stage
<1>18. ViewInv(view')
  BY DEF InspectionInv
<1>4. CASE Mismatch
  <2>1. view'.pc = "raised" /\ view'.budget = 1
    BY <1>4 DEF Mismatch, NotInspecting
  <2>2. view.pc \in {"project", "selected", "run"} \/ (view.pc = "child" /\ view.children \in 0..1)
    BY <1>3, <1>4 DEF Mismatch
  <2> QED
    BY <2>1, <2>2 DEF InspectionLeft, FewReads
<1>5. CASE ReadProjectMetadata
  <2>1. view.pc = "project" /\ view'.pc \in {"selected", "branch", "run"} /\ view'.budget = view.budget
    BY <1>1, <1>5 DEF ReadProjectMetadata, Stage, Read, Views
  <2> QED
    BY <1>1, <2>1 DEF InspectionLeft, FewReads
<1>6. CASE ReadSelectedJob
  <2>1. view.pc = "selected" /\ view'.pc \in {"run", "choose"} /\ view'.budget = view.budget
    BY ZenonT(60), <1>1, <1>6 DEF ReadSelectedJob, Stage, Read, Views
  <2> QED
    BY <1>1, <2>1 DEF InspectionLeft, FewReads
<1>7. CASE ReadBranch
  <2>1. view.pc = "branch" /\ view'.pc \in {"run", "choose"} /\ view'.budget = view.budget
    <3>1. CASE Read(FALSE, [view EXCEPT !.pc = "choose"])
      BY <1>1, <1>7, <3>1 DEF ReadBranch, Stage, Read, Views
    <3>2. ASSUME NEW head \in BOOLEAN, NEW latest \in {"found", "none", "denied"}, NEW run, NEW status,
                 Read(head /\ latest # "denied",
                      [view EXCEPT !.pc = IF latest = "found" THEN "run" ELSE "choose", !.run = run,
                                   !.sha = head /\ latest = "none", !.status = status])
          PROVE  view'.pc \in {"run", "choose"} /\ view'.budget = view.budget
      BY <1>1, <3>2 DEF Read, Views
    <3> QED
      BY ZenonT(60), <1>7, <3>1, <3>2 DEF ReadBranch, Stage
  <2> QED
    BY <1>1, <2>1 DEF InspectionLeft, FewReads
<1>8. CASE ReadRun
  <2>1. view.pc = "run" /\ view'.pc = "list" /\ view'.budget = view.budget
        /\ view'.reads = {"jobs", "bridges"}
    BY <1>1, <1>8 DEF ReadRun, Stage, Read, Views
  <2>2. FewReads(view')
    BY <1>1, <2>1 DEF FewReads
  <2>3. Cardinality(view'.reads) \in 0..2
    BY <1>18, <2>1, <2>2, ReadsAreFew
  <2> QED
    BY <2>1, <2>2, <2>3 DEF InspectionLeft
<1>9. CASE ReadJobs
  <2>1. view.pc = "list" /\ "jobs" \in view.reads /\ view'.pc = "list"
        /\ view'.reads = view.reads \ {"jobs"} /\ view'.budget = view.budget
    BY <1>1, <1>9 DEF ReadJobs, Stage, Read, Views
  <2> QED
    BY <2>1, OneReadLess
<1>10. CASE ReadBridges
  <2>1. view.pc = "list" /\ "bridges" \in view.reads /\ view'.pc = "list"
        /\ view'.reads = view.reads \ {"bridges"} /\ view'.budget = view.budget
    BY <1>1, <1>10 DEF ReadBridges, Stage, Read, Views
  <2> QED
    BY <2>1, OneReadLess
<1>11. CASE Choose
  <2>1. view.pc = "choose" \/ (view.pc = "list" /\ view.reads = {})
    BY <1>11 DEF Choose, Stage
  <2>2. view'.pc = "evidence" /\ view'.budget = view.budget
    BY <1>1, <1>11 DEF Choose, Views
  <2>3. FewReads(view')
    BY <1>1, <2>2 DEF FewReads
  <2>4. Cardinality(view'.reads) \in 0..10
    BY <1>18, <2>2, <2>3, ReadsAreFew
  <2>5. Cardinality({}) = 0
    BY FS_EmptySet
  <2> QED
    BY <2>1, <2>2, <2>3, <2>4, <2>5 DEF InspectionLeft
<1>12. CASE ReadSources
  <2>1. view.pc = "evidence" /\ "sources" \in view.reads /\ view'.pc = "evidence"
        /\ view'.reads = view.reads \ {"sources"} /\ view'.budget = view.budget
    BY <1>1, <1>12 DEF ReadSources, Stage, Read, Views
  <2> QED
    BY <2>1, OneReadLess
<1>13. CASE ReadContext
  <2>1. view.pc = "evidence" /\ "context" \in view.reads /\ view'.pc = "evidence"
        /\ view'.reads = view.reads \ {"context"} /\ view'.budget = view.budget
    BY <1>1, <1>13 DEF ReadContext, Stage, Read, Views
  <2> QED
    BY <2>1, OneReadLess
<1>14. CASE ReadTrace
  <2>1. PICK j \in view.reads \cap Jobs : view.pc = "evidence" /\ view'.pc = "evidence"
        /\ view'.reads = view.reads \ {j} /\ view'.budget = view.budget
    BY <1>1, <1>14 DEF ReadTrace, Stage, Read, Views
  <2> QED
    BY <2>1, OneReadLess
<1>15. CASE Analyze
  <2>1. view.pc = "evidence" /\ view.reads = {} /\ view'.pc = "child" /\ view'.budget = view.budget
        /\ view'.children = view.children
    BY <1>1, <1>15 DEF Analyze, Stage, Views
  <2>2. Cardinality({}) = 0
    BY FS_EmptySet
  <2>3. view.children = 0
    BY <2>1 DEF InspectionInv, ViewInv, InOrder
  <2> QED
    BY <1>1, <2>1, <2>2, <2>3 DEF InspectionLeft, FewReads
<1>16. CASE ChildUnavailable \/ ChildReadable
  <2>1. AtChild
    BY <1>16 DEF ChildUnavailable, ChildReadable
  <2>2. view'.pc = view.pc /\ view'.budget = view.budget /\ view'.children = view.children + 1
    <3>1. CASE ChildUnavailable
      BY <1>1, <3>1 DEF ChildUnavailable, Read, Views
    <3>2. ASSUME NEW jobs \in BOOLEAN, NEW ok \in BOOLEAN, NEW signals \in BOOLEAN,
                 NEW complete \in BOOLEAN, ReadChild(jobs, ok, signals, complete)
          PROVE  view'.pc = view.pc /\ view'.budget = view.budget /\ view'.children = view.children + 1
      <4> DEFINE failed == jobs /\ \E i \in DOMAIN Child.jobs : Child.jobs[i] = "failed"
                 analysed == failed /\ Len(view.chosen) < view.budget /\ ~view.childRead
                 severity == JobSeverity("failed", IF signals THEN "signals" ELSE "clean",
                               Child.allowed, view.run = "success" \/ Child.run = "success")
                 read == view.childRead \/ analysed
                 leftOut == view.childLeft \/ (failed /\ ~analysed)
                 findings == view.findings
                    \cup {Found("downstream", Excused("error", Pardoned), NoJob)}
                    \cup (IF analysed THEN {Found("child", severity, NoJob)} ELSE {})
                    \cup (IF analysed /\ ~complete THEN {Found("sources", "warning", NoJob)} ELSE {})
      <4>1. Read(jobs /\ ok, [view EXCEPT !.children = @ + 1, !.childRead = read,
                                          !.childLeft = leftOut, !.findings = findings])
        BY <3>2 DEF ReadChild
      <4> HIDE DEF read, leftOut, findings
      <4> QED
        BY <1>1, <4>1 DEF Read, Views
    <3> QED
      BY <1>16, <3>1, <3>2 DEF ChildReadable
  <2> QED
    BY <1>1, <1>3, <2>1, <2>2 DEF InspectionLeft, FewReads
<1>17. CASE Report
  <2>1. view.pc = "child" /\ view'.pc = "done" /\ view'.budget = view.budget
    BY <1>1, <1>17 DEF Report, Stage, Views
  <2> QED
    BY <1>1, <1>2, <2>1 DEF InspectionLeft, FewReads
<1> QED
  BY <1>4, <1>5, <1>6, <1>7, <1>8, <1>9, <1>10, <1>11, <1>12, <1>13, <1>14, <1>15, <1>16, <1>17 DEF Inspect

\* Whatever the pipeline does meanwhile and whatever is denied, an inspection takes at most
\* twenty steps, reads included: each leaves it less to do (services/inspection.py,
\* inspect_gitlab). With the fairness of its reads it therefore ends.
THEOREM InspectionWindsDown ==
    InspectionSpec => [](InspectionLeft \in 0..20) /\ [][InspectionLeft' < InspectionLeft]_view
<1>1. InspectionInit => FewReads(view)
  BY PipelineInspectionAssumption DEF InspectionInit, FewReads, NotInspecting, AtLeastOne, Bounded
<1>2. InspectionInv /\ InspectionInv' /\ FewReads(view) /\ [InspectionNext]_inspectionVars
        => FewReads(view)' /\ [InspectionLeft' < InspectionLeft]_view
  <2> SUFFICES ASSUME InspectionInv, InspectionInv', FewReads(view), [InspectionNext]_inspectionVars
               PROVE  FewReads(view)' /\ (InspectionLeft' < InspectionLeft \/ UNCHANGED view)
    OBVIOUS
  <2>1. CASE UNCHANGED view
    BY <2>1 DEF FewReads
  <2>2. CASE Inspect
    BY <2>2, InspectionGoesOn
  <2> QED
    BY <2>1, <2>2 DEF InspectionNext, JobEnds, JobRetried, inspectionVars
<1> QED
  BY <1>1, <1>2, InspectionInvariant, InspectionLeftBounded, PTL DEF InspectionSpec
-----------------------------------------------------------------------------
(* How much the proposals may still do.                                        *)

\* What is left to do: each read that is asked for begins and ends.
RepairLeft ==
    CASE repair.pc = "plan" -> 2 * MaxCandidateReads + 2
      [] repair.pc = "read" -> 2 * Cardinality(repair.waiting) + Cardinality(repair.reading) + 1
      [] OTHER -> 0

LEMMA ReadsAreCounted ==
    ASSUME LackInv
    PROVE  /\ IsFiniteSet(repair.waiting) /\ IsFiniteSet(repair.reading)
           /\ Cardinality(repair.waiting) \in Nat /\ Cardinality(repair.reading) \in Nat
           /\ RepairLeft \in Nat
<1>1. IsFiniteSet(repair.waiting) /\ IsFiniteSet(repair.reading)
  BY FewKeys, FS_Subset DEF LackInv, ReadsBounded
<1>2. Cardinality(repair.waiting) \in Nat /\ Cardinality(repair.reading) \in Nat
  BY <1>1, FS_CardinalityType
<1> QED
  BY <1>1, <1>2, RepairLimits DEF RepairLeft

\* No more reads are asked for than may be.
LEMMA FewAreAsked ==
    ASSUME LackInv, PlanReads
    PROVE  /\ repair.pc = "plan" /\ repair'.pc = "read" /\ repair'.reading = {}
           /\ IsFiniteSet(repair'.waiting) /\ Cardinality(repair'.waiting) <= MaxCandidateReads
<1>1. PICK asked : PlannedReads(asked)
  BY ReadsArePlanned
<1>2. repair'.waiting = asked.requests /\ repair'.pc = "read" /\ repair'.reading = repair.reading
  BY <1>1 DEF LackInv, RepairFields, PlannedReads
<1>3. IsFiniteSet(asked.requests)
  BY <1>1, FewKeys, FS_Subset DEF LackInv, PlannedReads
<1> QED
  BY <1>1, <1>2, <1>3 DEF LackInv, ReadsBounded, PlannedReads

\* Each step leaves less to do.
LEMMA RepairGoesOn ==
    ASSUME LackInv, LackInv', RemediationNext
    PROVE  RepairLeft' < RepairLeft
<1>1. /\ Cardinality(repair.waiting) \in Nat /\ Cardinality(repair.reading) \in Nat
      /\ IsFiniteSet(repair.waiting) /\ IsFiniteSet(repair.reading)
  BY ReadsAreCounted
<1>2. RepairFields /\ ReadsBounded
  BY DEF LackInv
<1>3. CASE PlanReads
  <2>1. IsFiniteSet(repair'.waiting)
    BY <1>3, FewAreAsked
  <2>2. Cardinality(repair'.waiting) \in Nat
    BY <2>1, FS_CardinalityType
  <2>3. Cardinality({}) = 0
    BY FS_EmptySet
  <2> QED
    <3>1. /\ repair.pc = "plan" /\ repair'.pc = "read" /\ repair'.reading = {}
          /\ Cardinality(repair'.waiting) <= MaxCandidateReads
      BY <1>3, FewAreAsked
    <3>2. RepairLeft = 2 * MaxCandidateReads + 2
      BY <3>1 DEF RepairLeft
    <3>3. RepairLeft' = 2 * Cardinality(repair'.waiting) + 0 + 1
      BY <2>3, <3>1 DEF RepairLeft
    <3> QED
      BY <2>2, <3>1, <3>2, <3>3, RepairLimits
<1>4. CASE BeginFetch
  <2>1. PICK key \in repair.waiting :
          /\ repair.pc = "read"
          /\ repair' = [repair EXCEPT !.waiting = @ \ {key}, !.reading = @ \cup {key}]
    BY <1>4 DEF BeginFetch
  <2>2. /\ repair'.pc = "read" /\ repair'.waiting = repair.waiting \ {key}
        /\ repair'.reading = repair.reading \cup {key}
    BY <1>2, <2>1 DEF RepairFields
  <2>3. /\ Cardinality(repair'.waiting) = Cardinality(repair.waiting) - 1
        /\ Cardinality(repair'.reading) <= Cardinality(repair.reading) + 1
        /\ Cardinality(repair'.reading) \in Nat
    <3>1. Cardinality(repair.waiting \ {key}) = Cardinality(repair.waiting) - 1
      BY <1>1, <2>1, FS_RemoveElement
    <3>2. /\ IsFiniteSet(repair.reading \cup {key})
          /\ Cardinality(repair.reading \cup {key}) <= Cardinality(repair.reading) + 1
      <4>1. /\ IsFiniteSet(repair.reading \cup {key})
            /\ Cardinality(repair.reading \cup {key}) =
                 IF key \in repair.reading THEN Cardinality(repair.reading) ELSE Cardinality(repair.reading) + 1
        BY <1>1, FS_AddElement
      <4> QED
        BY <1>1, <4>1
    <3>3. Cardinality(repair.reading \cup {key}) \in Nat
      BY <3>2, FS_CardinalityType
    <3> QED
      BY <2>2, <3>1, <3>2, <3>3
  <2> QED
    BY <1>1, <2>1, <2>2, <2>3 DEF RepairLeft
<1>5. CASE FetchSucceeds \/ FetchFails
  <2>1. PICK key \in repair.reading :
          repair'.reading = repair.reading \ {key} /\ repair'.waiting = repair.waiting
            /\ repair'.pc = repair.pc
    <3>1. CASE FetchFails
      BY <1>2, <3>1 DEF FetchFails, RepairFields
    <3>2. CASE FetchSucceeds
      <4>1. \E key \in repair.reading : \E source, originals :
              repair' = [repair EXCEPT !.reading = @ \ {key}, !.sources = @ \cup {source},
                                       !.originals = originals]
        BY <3>2, FetchYields
      <4> QED
        BY <1>2, <4>1 DEF RepairFields
    <3> QED
      BY <1>5, <3>1, <3>2
  <2>2. repair.pc = "read"
    BY <1>2 DEF ReadsBounded
  <2>3. Cardinality(repair'.reading) = Cardinality(repair.reading) - 1
    BY <1>1, <2>1, FS_RemoveElement
  <2> QED
    BY <1>1, <2>1, <2>2, <2>3 DEF RepairLeft
<1>6. CASE BuildPlans \/ RepairCancelled
  <2>1. repair.pc = "read" /\ repair'.pc \in {"done", "cancelled"}
    BY <1>2, <1>6 DEF BuildPlans, RepairCancelled, RepairFields, NotRepairing
  <2> QED
    BY <1>1, <2>1 DEF RepairLeft
<1> QED
  BY <1>3, <1>4, <1>5, <1>6 DEF RemediationNext, Remediate

\* However many findings ask for files, the proposals take at most two steps for each read
\* that is allowed, and two more: each leaves less to do (repair_context.py,
\* enrich_remediations). With the fairness of the reads they therefore end.
THEOREM RemediationWindsDown ==
    RemediationSpec => /\ [](RepairLeft \in 0..(2 * MaxCandidateReads + 2))
                       /\ [][RepairLeft' < RepairLeft]_repairVars
<1> DEFINE Bound == RepairLeft <= 2 * MaxCandidateReads + 2
<1>1. RemediationInit => Bound
  BY RepairLimits DEF RemediationInit, NotRepairing, RepairLeft
<1>2. LackInv => RepairLeft \in Nat
  BY ReadsAreCounted
<1>3. LackInv /\ LackInv' /\ [RemediationNext]_repairVars => [RepairLeft' < RepairLeft]_repairVars
  BY RepairGoesOn
<1>4. LackInv /\ LackInv' /\ Bound /\ [RepairLeft' < RepairLeft]_repairVars => Bound'
  <2> SUFFICES ASSUME LackInv, LackInv', Bound, [RepairLeft' < RepairLeft]_repairVars PROVE Bound'
    OBVIOUS
  <2>1. RepairLeft \in Nat /\ (RepairLeft \in Nat)'
    <3>1. (LackInv => RepairLeft \in Nat)'
      BY <1>2, PTL
    <3> QED
      BY <1>2, <3>1
  <2>2. CASE UNCHANGED repairVars
    <3>1. RepairLeft' = RepairLeft
      BY <2>2 DEF RepairLeft, repairVars
    <3> QED
      BY <2>1, <3>1
  <2>3. CASE RepairLeft' < RepairLeft
    BY <2>1, <2>3, RepairLimits
  <2> QED
    BY <2>2, <2>3
<1>5. RepairLeft \in Nat /\ Bound => RepairLeft \in 0..(2 * MaxCandidateReads + 2)
  BY RepairLimits
<1> HIDE DEF Bound
<1> QED
  BY <1>1, <1>2, <1>3, <1>4, <1>5, LackInvariant, PTL DEF RemediationSpec
=============================================================================

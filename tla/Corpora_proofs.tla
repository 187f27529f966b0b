---------------------------- MODULE Corpora_proofs ----------------------------
(***************************************************************************)
(* What the processes that share one SQLite file without a lease keep true *)
(* of it, however many they are: the store of public failures (its files   *)
(* stay valid under harvests, nothing is evicted, provenance is never      *)
(* overstated, "complete" means retained) and the dataset store (an import *)
(* accounts for its rows, the counts keep up with them).                   *)
(***************************************************************************)
EXTENDS PublicCorpus, DatasetCorpus, FiniteSetTheorems, TLAPS

-----------------------------------------------------------------------------
(* The store of public failures.                                             *)

\* _validate_runs and _validate_jobs, the class of a job and the rest apart: a
\* reevaluation may leave the class of a job that was recorded again meanwhile.
ClassFits(row) ==
    row.job # NoJob =>
         IF row.log = "captured" THEN row.class \in {"classified", "unknown", "analysis_error"}
                                 ELSE row.class = "no_log"
RowFits(row) == /\ row.truncated => row.modified # "no"
                /\ (row.job # NoJob) <=> (row.jobState = "captured")

StoreFits(file) ==
    /\ IsPublicFile(file) /\ IsFiniteSet(DOMAIN file.rows)
    /\ file.schema \notin {"v1", "v2"} => DOMAIN file.rows = {}
    /\ \A key \in DOMAIN file.rows :
         /\ RowFits(file.rows[key]) /\ Honest(file.rows[key])
         /\ (file.schema = "v2") <=> (file.rows[key].modified # "unrecorded")
    /\ file.schema \in {"v1", "v2"} =>
         /\ Cardinality(RepositoriesOf(file.rows)) <= MaxRepositories
         /\ Cardinality(DOMAIN file.rows) <= MaxRetainedRuns

ClassesFit(file) == \A key \in DOMAIN file.rows : ClassFits(file.rows[key])

LEMMA RowByParts == \A row : RowValidates(row) <=> RowFits(row) /\ ClassFits(row)
  BY DEF RowValidates, RowFits, ClassFits

LEMMA StoreByParts ==
    ASSUME NEW file, StoreFits(file), ClassesFit(file), file.schema \in {"v1", "v2"}
    PROVE  Validates(file)
  BY RowByParts DEF StoreFits, ClassesFit, Validates

LEMMA FilesFit == \A file \in PublicInitialFiles : StoreFits(file) /\ ClassesFit(file)
<1> TAKE file \in PublicInitialFiles
<1>1. /\ IsPublicFile(file) /\ IsFiniteSet(DOMAIN file.rows)
      /\ \A key \in DOMAIN file.rows : Honest(file.rows[key])
  BY PublicAssumption, PublicFilesAssumption
<1>2. CASE file.schema \in {"v1", "v2"}
  <2>1. Validates(file)
    BY <1>2, PublicFilesAssumption
  <2> QED
    BY <1>1, <1>2, <2>1, RowByParts DEF StoreFits, ClassesFit, Validates
<1>3. CASE file.schema \notin {"v1", "v2"}
  <2>1. DOMAIN file.rows = {}
    BY <1>3, PublicFilesAssumption
  <2> QED
    BY <1>1, <1>3, <2>1 DEF StoreFits, ClassesFit
<1> QED
  BY <1>2, <1>3

LEMMA RepositoriesFinite ==
    ASSUME NEW rows, IsFiniteSet(DOMAIN rows) PROVE IsFiniteSet(RepositoriesOf(rows))
<1> DEFINE f == [key \in DOMAIN rows |-> key[1]]
<1>1. f \in Surjection(DOMAIN rows, RepositoriesOf(rows))
  BY DEF Surjection, RepositoriesOf
<1> QED
  BY <1>1, FS_Surjection

LEMMA PublicRowFields ==
    ASSUME NEW row \in PublicRow
    PROVE  /\ row.jobState \in JobStates /\ row.job \in JobIds \cup {NoJob}
           /\ row.log \in LogStates /\ row.class \in ClassificationStates
           /\ row.config \in ConfigStates /\ row.truncated \in BOOLEAN /\ row.exact \in BOOLEAN
           /\ row.modified \in {"yes", "no", "unrecorded"}
  BY DEF PublicRow

\* The migration makes a store of version 2, with the same runs.
LEMMA MigratedFits ==
    ASSUME NEW file, StoreFits(file), file.schema \in {"v1", "v2"}
    PROVE  LET new == Migrated(file)
           IN /\ StoreFits(new) /\ new.schema = "v2" /\ DOMAIN new.rows = DOMAIN file.rows
              /\ ClassesFit(file) => ClassesFit(new)
<1>1. CASE file.schema = "v2"
  BY <1>1 DEF Migrated
<1>2. CASE file.schema = "v1"
  <2> DEFINE rows == [key \in DOMAIN file.rows |-> [file.rows[key] EXCEPT !.modified = "yes"]]
             new == [schema |-> "v2", rows |-> rows]
  <2>1. Migrated(file) = new /\ new.schema = "v2" /\ new.rows = rows
    BY <1>2 DEF Migrated
  <2>2. DOMAIN rows = DOMAIN file.rows /\ DOMAIN file.rows \subseteq PublicKeys
    BY DEF StoreFits, IsPublicFile
  <2>3. ASSUME NEW key \in DOMAIN file.rows
        PROVE  /\ rows[key] \in PublicRow /\ RowFits(rows[key]) /\ Honest(rows[key])
               /\ rows[key].modified # "unrecorded"
               /\ ClassFits(file.rows[key]) => ClassFits(rows[key])
    <3> DEFINE row == file.rows[key]
               migrated == [row EXCEPT !.modified = "yes"]
    <3>1. row \in PublicRow /\ RowFits(row) /\ rows[key] = migrated
      BY DEF StoreFits, IsPublicFile
    <3> HIDE DEF row, rows
    <3>2. /\ migrated \in PublicRow /\ migrated.modified = "yes" /\ migrated.job = row.job
          /\ migrated.jobState = row.jobState /\ migrated.log = row.log
          /\ migrated.class = row.class
      BY <3>1 DEF PublicRow
    <3> HIDE DEF migrated
    <3>3. /\ RowFits(migrated) /\ Honest(migrated) /\ migrated.modified # "unrecorded"
          /\ ClassFits(row) => ClassFits(migrated)
      BY <3>1, <3>2 DEF RowFits, ClassFits, Honest
    <3> QED
      BY <3>1, <3>2, <3>3 DEF row
  <2>4. RepositoriesOf(rows) = RepositoriesOf(file.rows)
    BY <2>2 DEF RepositoriesOf
  <2>5. rows \in [DOMAIN rows -> PublicRow]
    BY <2>2, <2>3
  <2>6. IsFiniteSet(DOMAIN rows) /\ Cardinality(DOMAIN rows) <= MaxRetainedRuns
        /\ Cardinality(RepositoriesOf(rows)) <= MaxRepositories
    BY <1>2, <2>2, <2>4 DEF StoreFits
  <2>7. ClassesFit(file) => \A key \in DOMAIN rows : ClassFits(rows[key])
    BY <2>2, <2>3 DEF ClassesFit
  <2> HIDE DEF rows
  <2>8. new = [schema |-> new.schema, rows |-> new.rows]
    BY <2>1
  <2>9. new.schema = "v2" /\ new.rows = rows
    OBVIOUS
  <2> HIDE DEF new
  <2>10. StoreFits(new)
    BY <2>2, <2>3, <2>5, <2>6, <2>8, <2>9 DEF StoreFits, IsPublicFile
  <2>11. ClassesFit(file) => ClassesFit(new)
    BY <2>7, <2>9 DEF ClassesFit
  <2> QED
    BY <2>1, <2>2, <2>9, <2>10, <2>11
<1> QED
  BY <1>1, <1>2

\* What is written to a store of version 2 keeps it one.
LEMMA RowsFit ==
    ASSUME NEW file, StoreFits(file), file.schema = "v2", NEW rows,
           DOMAIN rows \subseteq PublicKeys, rows \in [DOMAIN rows -> PublicRow],
           IsFiniteSet(DOMAIN rows),
           \A key \in DOMAIN rows : /\ RowFits(rows[key]) /\ Honest(rows[key])
                                    /\ rows[key].modified # "unrecorded",
           Cardinality(RepositoriesOf(rows)) <= MaxRepositories,
           Cardinality(DOMAIN rows) <= MaxRetainedRuns
    PROVE  LET new == [file EXCEPT !.rows = rows]
           IN StoreFits(new) /\ new.rows = rows /\ new.schema = "v2"
<1> DEFINE new == [file EXCEPT !.rows = rows]
<1>1. file = [schema |-> "v2", rows |-> file.rows]
  BY DEF StoreFits, IsPublicFile
<1>2. new = [schema |-> "v2", rows |-> rows]
  BY <1>1
<1>3. new.schema = "v2" /\ new.rows = rows /\ new = [schema |-> new.schema, rows |-> new.rows]
  BY <1>2
<1> HIDE DEF new
<1> QED
  BY <1>3 DEF StoreFits, IsPublicFile, new

DraftFits(d) == /\ (d.job # NoJob) <=> (d.jobState = "captured")
                /\ d.config.truncated => ~d.config.exact

\* What record_run writes.
LEMMA RowOfDraft ==
    ASSUME NEW d \in Draft, DraftFits(d), d.class \in Classes(d)
    PROVE  /\ Row(d) \in PublicRow /\ RowFits(Row(d)) /\ Honest(Row(d)) /\ ClassFits(Row(d))
           /\ Row(d).modified # "unrecorded"
<1>1. /\ d.jobState \in JobStates /\ d.job \in JobIds \cup {NoJob} /\ d.log \in LogStates
      /\ d.class \in ClassificationStates /\ d.config \in ConfigCapture
  BY DEF Draft
<1>2. /\ d.config.state \in ConfigStates /\ d.config.truncated \in BOOLEAN
      /\ d.config.exact \in BOOLEAN
  BY <1>1 DEF ConfigCapture
<1>3. /\ d.job # NoJob /\ d.log = "captured" =>
           d.class \in {"classified", "unknown", "analysis_error"}
      /\ d.job = NoJob \/ d.log # "captured" => d.class = "no_log"
  BY PublicAssumption DEF Classes
<1> DEFINE captured == d.config.state = "captured"
           log == IF d.job = NoJob THEN "unavailable" ELSE d.log
           class == IF d.job = NoJob THEN "no_log" ELSE KeptClass(d.log, d.class)
           truncated == captured /\ d.config.truncated
           exact == captured /\ d.config.exact
           modified == IF captured /\ ~d.config.exact THEN "yes" ELSE "no"
<1>4. Row(d) = [jobState |-> d.jobState, job |-> d.job, log |-> log, class |-> class,
                config |-> d.config.state, truncated |-> truncated, exact |-> exact,
                modified |-> modified]
  BY DEF Row
<1>5. /\ log \in LogStates /\ class \in ClassificationStates /\ truncated \in BOOLEAN
      /\ exact \in BOOLEAN /\ modified \in {"yes", "no"}
  BY <1>1, <1>2 DEF KeptClass, LogStates, ClassificationStates
<1>6. /\ truncated => modified # "no"
      /\ d.config.state = "captured" /\ modified = "no" => exact
  BY <1>2 DEF DraftFits
<1>7. d.job # NoJob => IF log = "captured" THEN class \in {"classified", "unknown", "analysis_error"}
                                           ELSE class = "no_log"
  BY <1>3 DEF KeptClass
<1> HIDE DEF captured, log, class, truncated, exact, modified
<1>8. Row(d) \in PublicRow
  BY <1>1, <1>2, <1>4, <1>5 DEF PublicRow
<1>9. /\ Row(d).jobState = d.jobState /\ Row(d).job = d.job /\ Row(d).log = log
      /\ Row(d).class = class /\ Row(d).config = d.config.state
      /\ Row(d).truncated = truncated /\ Row(d).exact = exact /\ Row(d).modified = modified
  BY <1>4
<1>10. RowFits(Row(d)) /\ Honest(Row(d)) /\ ClassFits(Row(d))
  BY <1>6, <1>7, <1>9 DEF RowFits, Honest, ClassFits, DraftFits
<1> QED
  BY <1>5, <1>8, <1>9, <1>10

\* What is in the store after it.
LEMMA UpsertFits ==
    ASSUME NEW file, StoreFits(file), file.schema = "v2", NEW key \in PublicKeys,
           NEW row \in PublicRow, RowFits(row), Honest(row), ClassFits(row),
           row.modified # "unrecorded", RoomForRun(file.rows, key)
    PROVE  LET new == [file EXCEPT !.rows = Upserted(@, key, row)]
           IN /\ StoreFits(new) /\ new.schema = "v2"
              /\ DOMAIN new.rows = DOMAIN file.rows \cup {key}
              /\ ClassesFit(file) => ClassesFit(new)
<1> DEFINE rows == Upserted(file.rows, key, row)
<1>1. /\ DOMAIN file.rows \subseteq PublicKeys /\ IsFiniteSet(DOMAIN file.rows)
      /\ file.rows \in [DOMAIN file.rows -> PublicRow]
      /\ Cardinality(RepositoriesOf(file.rows)) <= MaxRepositories
      /\ Cardinality(DOMAIN file.rows) <= MaxRetainedRuns
  BY DEF StoreFits, IsPublicFile
<1>2. /\ DOMAIN rows = DOMAIN file.rows \cup {key} /\ rows[key] = row
      /\ \A k \in DOMAIN rows \ {key} : k \in DOMAIN file.rows /\ rows[k] = file.rows[k]
      /\ rows = [k \in DOMAIN rows |-> rows[k]]
  BY DEF Upserted
<1>3. IsFiniteSet(DOMAIN rows) /\ Cardinality(DOMAIN rows) <= MaxRetainedRuns
  <2>1. Cardinality(DOMAIN file.rows) \in Nat /\ MaxRetainedRuns \in Nat
    BY <1>1, FS_CardinalityType, PublicAssumption
  <2>2. /\ IsFiniteSet(DOMAIN rows)
        /\ Cardinality(DOMAIN rows) = IF key \in DOMAIN file.rows THEN Cardinality(DOMAIN file.rows)
                                      ELSE Cardinality(DOMAIN file.rows) + 1
    BY <1>1, <1>2, FS_AddElement
  <2> QED
    BY <1>1, <2>1, <2>2 DEF RoomForRun
<1>4. Cardinality(RepositoriesOf(rows)) <= MaxRepositories
  <2>1. RepositoriesOf(rows) = RepositoriesOf(file.rows) \cup {key[1]}
    BY <1>2 DEF RepositoriesOf
  <2>2. IsFiniteSet(RepositoriesOf(file.rows))
    BY <1>1, RepositoriesFinite
  <2>3. Cardinality(RepositoriesOf(file.rows)) \in Nat /\ MaxRepositories \in Nat
    BY <2>2, FS_CardinalityType, PublicAssumption
  <2>4. Cardinality(RepositoriesOf(rows)) =
          IF key[1] \in RepositoriesOf(file.rows) THEN Cardinality(RepositoriesOf(file.rows))
          ELSE Cardinality(RepositoriesOf(file.rows)) + 1
    BY <2>1, <2>2, FS_AddElement
  <2> QED
    BY <1>1, <2>3, <2>4 DEF RoomForRun
<1>5. ASSUME NEW k \in DOMAIN rows
      PROVE  /\ rows[k] \in PublicRow /\ RowFits(rows[k]) /\ Honest(rows[k])
             /\ rows[k].modified # "unrecorded"
             /\ ClassesFit(file) => ClassFits(rows[k])
  BY <1>1, <1>2 DEF StoreFits, ClassesFit
<1>6. rows \in [DOMAIN rows -> PublicRow] /\ DOMAIN rows \subseteq PublicKeys
  BY <1>1, <1>2, <1>5
<1> HIDE DEF rows
<1>7. LET new == [file EXCEPT !.rows = rows]
      IN StoreFits(new) /\ new.rows = rows /\ new.schema = "v2"
  BY <1>3, <1>4, <1>5, <1>6, RowsFit
<1> QED
  BY <1>2, <1>5, <1>7 DEF rows, ClassesFit

LEMMA ReclassifyFits ==
    ASSUME NEW file, StoreFits(file), file.schema = "v2", NEW key, NEW job,
           NEW class \in ClassificationStates
    PROVE  LET new == [file EXCEPT !.rows = Reclassified(@, key, job, class)]
           IN StoreFits(new) /\ new.schema = "v2" /\ DOMAIN new.rows = DOMAIN file.rows
<1> DEFINE rows == Reclassified(file.rows, key, job, class)
<1>1. /\ DOMAIN file.rows \subseteq PublicKeys /\ IsFiniteSet(DOMAIN file.rows)
      /\ file.rows \in [DOMAIN file.rows -> PublicRow]
      /\ Cardinality(RepositoriesOf(file.rows)) <= MaxRepositories
      /\ Cardinality(DOMAIN file.rows) <= MaxRetainedRuns
  BY DEF StoreFits, IsPublicFile
<1>2. ASSUME NEW k \in DOMAIN file.rows
      PROVE  LET row == file.rows[k]
                 new == [row EXCEPT !.class = class]
             IN /\ row \in PublicRow /\ RowFits(row) /\ Honest(row) /\ row.modified # "unrecorded"
                /\ new \in PublicRow /\ RowFits(new) /\ Honest(new) /\ new.modified # "unrecorded"
  <2> DEFINE row == file.rows[k]
             new == [row EXCEPT !.class = class]
  <2>1. row \in PublicRow /\ RowFits(row) /\ Honest(row) /\ row.modified # "unrecorded"
    BY DEF StoreFits, IsPublicFile
  <2> HIDE DEF row
  <2>2. /\ new \in PublicRow /\ new.truncated = row.truncated /\ new.modified = row.modified
        /\ new.job = row.job /\ new.jobState = row.jobState /\ new.config = row.config
        /\ new.exact = row.exact
    BY <2>1 DEF PublicRow
  <2> HIDE DEF new
  <2>3. RowFits(new) /\ Honest(new) /\ new.modified # "unrecorded"
    BY <2>1, <2>2 DEF RowFits, Honest
  <2> QED
    BY <2>1, <2>2, <2>3 DEF row, new
<1>3. /\ DOMAIN rows = DOMAIN file.rows /\ rows \in [DOMAIN rows -> PublicRow]
      /\ \A k \in DOMAIN rows : RowFits(rows[k]) /\ Honest(rows[k]) /\ rows[k].modified # "unrecorded"
  <2>1. CASE key \in DOMAIN file.rows /\ file.rows[key].job = job /\ job # NoJob
    <3>1. rows = [file.rows EXCEPT ![key] = [file.rows[key] EXCEPT !.class = class]]
      BY <2>1 DEF Reclassified
    <3> HIDE DEF rows
    <3>2. DOMAIN rows = DOMAIN file.rows
      BY <3>1
    <3>3. \A k \in DOMAIN file.rows :
            rows[k] = IF k = key THEN [file.rows[key] EXCEPT !.class = class] ELSE file.rows[k]
      BY <3>1
    <3>4. \A k \in DOMAIN file.rows :
            rows[k] \in PublicRow /\ RowFits(rows[k]) /\ Honest(rows[k]) /\ rows[k].modified # "unrecorded"
      BY <1>2, <2>1, <3>3
    <3> QED
      BY <3>1, <3>2, <3>4
  <2>2. CASE ~(key \in DOMAIN file.rows /\ file.rows[key].job = job /\ job # NoJob)
    <3>1. rows = file.rows
      BY <2>2 DEF Reclassified
    <3> QED
      BY <1>1, <1>2, <3>1
  <2> QED
    BY <2>1, <2>2
<1>4. RepositoriesOf(rows) = RepositoriesOf(file.rows)
  BY <1>3 DEF RepositoriesOf
<1> HIDE DEF rows
<1>5. LET new == [file EXCEPT !.rows = rows]
      IN StoreFits(new) /\ new.rows = rows /\ new.schema = "v2"
  BY <1>1, <1>3, <1>4, RowsFit
<1> QED
  BY <1>3, <1>5 DEF rows

-----------------------------------------------------------------------------
(* The processes.                                                            *)

Writing == {"open", "connect", "script", "transaction"}
Capturing == {"job", "log", "config", "workflow", "contents"}

\* The run of which nothing is retained yet, and those still to come.
InHand(i) == IF i.pc \in Capturing \/ (i.pc \in Writing /\ i.op = "record") THEN {i.key} ELSE {}
ToCome(i) == { <<i.key[1], run>> : run \in i.runs }

\* What the phase of a process says of the store and of its draft.
PhaseFits(schema, i) ==
    /\ i.pc = "transaction" => schema \in {"v1", "v2"}
    /\ i.pc \in {"repository", "runs"} \cup Requests \cup {"config"} => i.mode = "harvest"
    /\ i.pc \in {"observe", "observed"} => i.mode = "reevaluate"
    /\ IF i.mode = "harvest" THEN i.op # "classify" /\ DraftFits(i.draft) ELSE i.op # "record"
    /\ i.pc = "job" => i.draft.job = NoJob
    /\ i.pc \in Writing /\ i.op = "record" => i.draft.class \in Classes(i.draft)
    /\ i.limited => i.pc = "ended"

\* Of the runs a harvest has selected, each is retained, in hand or to come, unless
\* the harvest has already to report that it is partial.
SelectionFits(retained, i) ==
    /\ i.pc \in {"repository", "verify"} => i.runs = {}
    /\ i.pc \in Writing /\ i.op = "initialize" => i.runs = {} /\ i.selected = {}
    /\ i.mode = "harvest" /\ i.pc # "ended" /\ ~i.partial =>
          i.selected \subseteq retained \cup InHand(i) \cup ToCome(i)
    /\ i.result = "complete" => i.pc = "ended" /\ i.selected \subseteq retained

ProcessFits(schema, retained, i) ==
    i \in PublicProcess /\ PhaseFits(schema, i) /\ SelectionFits(retained, i)

PublicInv == /\ PublicTypeOK /\ StoreFits(publicFile)
             /\ \A p \in PublicProcesses :
                  ProcessFits(publicFile.schema, DOMAIN publicFile.rows, public[p])

LEMMA NoDraftFits ==
    /\ NoDraft \in Draft /\ DraftFits(NoDraft) /\ NoDraft.job = NoJob
    /\ \A state \in ConfigStates : /\ NoConfig(state) \in ConfigCapture
                                   /\ ~NoConfig(state).truncated
  BY DEF NoDraft, Draft, DraftFits, NoConfig, JobStates, LogStates, ClassificationStates,
         ConfigStates, ConfigCapture

LEMMA FirstPage == 1 \in 1..2 /\ 2 \in 1..2
  OBVIOUS

LEMMA EndedFields ==
    ASSUME NEW result \in {"not started", "running", "complete", "partial", "rate_limited",
                           "error", "reevaluated"}
    PROVE  LET i == Ended(result)
           IN /\ i \in PublicProcess /\ i.pc = "ended" /\ i.mode = "harvest" /\ i.plan = {}
              /\ i.runs = {} /\ i.todo = {} /\ i.draft = NoDraft /\ i.op = "initialize"
              /\ i.limited = (result = "rate_limited") /\ ~i.partial /\ i.selected = {}
              /\ i.result = result
<1> DEFINE limited == result = "rate_limited"
           partial == FALSE
           page == 1
           key == NoKey
           draft == NoDraft
           i == [pc |-> "ended", mode |-> "harvest", plan |-> {}, page |-> page, runs |-> {},
                 todo |-> {}, key |-> key, draft |-> draft, op |-> "initialize",
                 limited |-> limited, partial |-> partial, selected |-> {}, result |-> result]
<1>1. /\ key \in PublicKeys /\ draft \in Draft /\ limited \in BOOLEAN /\ partial \in BOOLEAN
      /\ page \in 1..2
  <2>1. key \in PublicKeys
    BY PublicAssumption DEF NoKey
  <2>2. draft \in Draft
    BY NoDraftFits
  <2>3. limited \in BOOLEAN
    OBVIOUS
  <2>4. partial \in BOOLEAN
    OBVIOUS
  <2>5. page \in 1..2
    BY FirstPage
  <2> HIDE DEF key, draft, limited, partial, page
  <2> QED
    BY <2>1, <2>2, <2>3, <2>4, <2>5
<1>2. Ended(result) = i
  BY DEF Ended
<1> HIDE DEF key, draft, limited, partial, page
<1>3. i \in PublicProcess
  BY <1>1 DEF PublicProcess
<1>4. /\ i.pc = "ended" /\ i.mode = "harvest" /\ i.plan = {} /\ i.page = page /\ i.runs = {}
      /\ i.todo = {} /\ i.draft = draft /\ i.op = "initialize" /\ i.limited = limited
      /\ i.partial = partial /\ i.selected = {} /\ i.result = result
  OBVIOUS
<1> HIDE DEF i
<1> QED
  BY <1>2, <1>3, <1>4 DEF draft, limited, partial

LEMMA ProcessFields ==
    ASSUME NEW i \in PublicProcess
    PROVE  /\ i.pc \in {"ended", "open", "connect", "script", "transaction", "repository", "runs",
                        "config", "observe", "observed"} \cup Requests
           /\ i.mode \in {"harvest", "reevaluate"} /\ i.plan \in SUBSET Repositories
           /\ i.page \in 1..2 /\ i.runs \in SUBSET RunIds /\ i.todo \in SUBSET Observation
           /\ i.key \in PublicKeys /\ i.draft \in Draft
           /\ i.op \in {"initialize", "record", "classify"} /\ i.limited \in BOOLEAN
           /\ i.partial \in BOOLEAN /\ i.selected \in SUBSET PublicKeys
           /\ i.result \in {"not started", "running", "complete", "partial", "rate_limited",
                            "error", "reevaluated"}
  BY DEF PublicProcess

LEMMA DraftFields ==
    ASSUME NEW d \in Draft
    PROVE  /\ d.jobState \in JobStates /\ d.job \in JobIds \cup {NoJob} /\ d.log \in LogStates
           /\ d.class \in ClassificationStates /\ d.config \in ConfigCapture
  BY DEF Draft

\* A process that has ended, whatever the store holds.
LEMMA EndedFits ==
    ASSUME NEW result \in {"not started", "running", "complete", "partial", "rate_limited",
                           "error", "reevaluated"}, NEW schema, NEW retained,
           NEW selected \in SUBSET PublicKeys,
           result = "complete" => selected \subseteq retained
    PROVE  ProcessFits(schema, retained, [Ended(result) EXCEPT !.selected = selected])
<1> DEFINE i == Ended(result)
           j == [i EXCEPT !.selected = selected]
<1>1. /\ i \in PublicProcess /\ i.pc = "ended" /\ i.mode = "harvest" /\ i.runs = {}
      /\ i.draft = NoDraft /\ i.op = "initialize" /\ i.result = result
  BY ZenonT(60), EndedFields
<1> HIDE DEF i
<1>2. /\ j \in PublicProcess /\ j.pc = "ended" /\ j.mode = "harvest"
      /\ j.draft = NoDraft /\ j.op = "initialize" /\ j.selected = selected /\ j.result = result
  BY <1>1 DEF PublicProcess
<1> HIDE DEF j
<1>3. PhaseFits(schema, j)
  BY <1>2, NoDraftFits DEF PhaseFits, Writing, Requests
<1>4. SelectionFits(retained, j)
  BY <1>2 DEF SelectionFits, Writing
<1> QED
  BY <1>2, <1>3, <1>4 DEF ProcessFits, i, j

LEMMA PublicInitKeeps == PublicInit => PublicInv /\ ClassesFit(publicFile)
<1> SUFFICES ASSUME PublicInit PROVE PublicInv /\ ClassesFit(publicFile)
  OBVIOUS
<1>1. /\ publicFile \in PublicInitialFiles /\ StoreFits(publicFile) /\ IsPublicFile(publicFile)
      /\ ClassesFit(publicFile)
  BY FilesFit DEF PublicInit, StoreFits
<1> DEFINE i == Ended("not started")
<1>2. /\ i \in PublicProcess /\ i.pc = "ended" /\ i.mode = "harvest" /\ i.runs = {}
      /\ i.draft = NoDraft /\ i.op = "initialize" /\ i.result = "not started"
  BY EndedFields
<1>3. public = [p \in PublicProcesses |-> i]
  BY DEF PublicInit
<1> HIDE DEF i
<1>4. PublicTypeOK
  <2>1. public \in [PublicProcesses -> PublicProcess]
    BY <1>2, <1>3
  <2>2. publicStarted = 0 /\ PublicStarts \in Nat
    BY PublicAssumption DEF PublicInit
  <2>3. publicStarted \in 0..PublicStarts
    BY <2>2
  <2> QED
    BY <1>1, <2>1, <2>3 DEF PublicTypeOK
<1>5. ASSUME NEW schema, NEW retained PROVE ProcessFits(schema, retained, i)
  BY <1>2, NoDraftFits DEF ProcessFits, PhaseFits, SelectionFits, Writing, Requests
<1> QED
  BY <1>1, <1>3, <1>4, <1>5 DEF PublicInv

\* What the others do keeps a process fit: runs are only added, and a schema is kept.
LEMMA FitsOnward ==
    ASSUME NEW schema, NEW retained, NEW i, ProcessFits(schema, retained, i),
           NEW schema2, NEW retained2, retained \subseteq retained2,
           schema \in {"v1", "v2"} => schema2 \in {"v1", "v2"}
    PROVE  ProcessFits(schema2, retained2, i)
<1>1. PhaseFits(schema2, i)
  BY DEF ProcessFits, PhaseFits
<1>2. SelectionFits(retained2, i)
  BY DEF ProcessFits, SelectionFits
<1> QED
  BY <1>1, <1>2 DEF ProcessFits

\* What a step of p must do: the invariant, the runs it keeps, and the classes
\* when p is a harvest; a limited process writes nothing.
StepKeeps(p) ==
    /\ PublicInv'
    /\ DOMAIN publicFile.rows \subseteq DOMAIN publicFile'.rows
    /\ public[p].limited => publicFile' = publicFile
    /\ public[p].mode = "harvest" /\ ClassesFit(publicFile) => ClassesFit(publicFile')
    /\ \A q \in PublicProcesses \ {p} : public'[q] = public[q]

LEMMA PublicMoves ==
    ASSUME PublicInv, NEW p \in PublicProcesses, NEW j, public' = [public EXCEPT ![p] = j],
           StoreFits(publicFile'), publicStarted' \in 0..PublicStarts,
           DOMAIN publicFile.rows \subseteq DOMAIN publicFile'.rows,
           publicFile.schema \in {"v1", "v2"} => publicFile'.schema \in {"v1", "v2"},
           public[p].limited => publicFile' = publicFile,
           public[p].mode = "harvest" /\ ClassesFit(publicFile) => ClassesFit(publicFile'),
           ProcessFits(publicFile'.schema, DOMAIN publicFile'.rows, j)
    PROVE  StepKeeps(p)
<1>1. public \in [PublicProcesses -> PublicProcess] /\ j \in PublicProcess
  BY DEF PublicInv, PublicTypeOK, ProcessFits
<1>2. /\ public' \in [PublicProcesses -> PublicProcess] /\ public'[p] = j
      /\ \A q \in PublicProcesses \ {p} : public'[q] = public[q]
  BY <1>1
<1>3. PublicTypeOK'
  BY <1>2 DEF PublicTypeOK, StoreFits
<1>4. ASSUME NEW q \in PublicProcesses
      PROVE  ProcessFits(publicFile'.schema, DOMAIN publicFile'.rows, public'[q])
  <2>1. CASE q = p
    BY <1>2, <2>1
  <2>2. CASE q # p
    <3>1. ProcessFits(publicFile.schema, DOMAIN publicFile.rows, public[q])
      BY DEF PublicInv
    <3>2. ProcessFits(publicFile'.schema, DOMAIN publicFile'.rows, public[q])
      BY <3>1, FitsOnward
    <3> QED
      BY <1>2, <2>2, <3>2
  <2> QED
    BY <2>1, <2>2
<1>5. PublicInv'
  BY <1>3, <1>4 DEF PublicInv
<1> QED
  BY <1>2, <1>5 DEF StepKeeps

\* A step that writes nothing to the store.
LEMMA PublicThinks ==
    ASSUME PublicInv, NEW p \in PublicProcesses, NEW j, public' = [public EXCEPT ![p] = j],
           publicFile' = publicFile, publicStarted' = publicStarted,
           ProcessFits(publicFile.schema, DOMAIN publicFile.rows, j)
    PROVE  StepKeeps(p)
<1>1. StoreFits(publicFile') /\ publicStarted' \in 0..PublicStarts
  BY DEF PublicInv, PublicTypeOK
<1>2. ProcessFits(publicFile'.schema, DOMAIN publicFile'.rows, j)
  OBVIOUS
<1>3. /\ DOMAIN publicFile.rows \subseteq DOMAIN publicFile'.rows
      /\ publicFile.schema \in {"v1", "v2"} => publicFile'.schema \in {"v1", "v2"}
      /\ ClassesFit(publicFile) => ClassesFit(publicFile')
  OBVIOUS
<1> QED
  BY <1>1, <1>2, <1>3, PublicMoves

LEMMA PublicEnds ==
    ASSUME PublicInv, NEW p \in PublicProcesses,
           NEW result \in {"partial", "complete", "rate_limited", "error", "reevaluated"},
           End(p, result), UNCHANGED <<publicFile, publicStarted>>,
           result = "complete" => public[p].selected \subseteq DOMAIN publicFile.rows
    PROVE  StepKeeps(p)
<1> DEFINE selected == IF result = "complete" THEN public[p].selected ELSE {}
           j == [Ended(result) EXCEPT !.selected = selected]
<1>1. public[p] \in PublicProcess
  BY DEF PublicInv, ProcessFits
<1>2. public[p].selected \in SUBSET PublicKeys
  BY <1>1, ProcessFields
<1>3. selected \in SUBSET PublicKeys /\ (result = "complete" => selected \subseteq DOMAIN publicFile.rows)
  BY <1>2
<1>4. public' = [public EXCEPT ![p] = j]
  BY DEF End
<1> HIDE DEF selected
<1>5. ProcessFits(publicFile.schema, DOMAIN publicFile.rows, j)
  BY <1>3, EndedFits
<1> HIDE DEF j
<1> QED
  BY <1>4, <1>5, PublicThinks

ProcessPhases == {"ended", "open", "connect", "script", "transaction", "repository", "runs",
                  "config", "observe", "observed"} \cup Requests

LEMMA PhaseChange ==
    ASSUME NEW i \in PublicProcess, NEW pc \in ProcessPhases
    PROVE  LET j == [i EXCEPT !.pc = pc]
           IN /\ j \in PublicProcess /\ j.pc = pc /\ j.mode = i.mode /\ j.plan = i.plan
              /\ j.page = i.page /\ j.runs = i.runs /\ j.todo = i.todo /\ j.key = i.key
              /\ j.draft = i.draft /\ j.op = i.op /\ j.limited = i.limited
              /\ j.partial = i.partial /\ j.selected = i.selected /\ j.result = i.result
  BY DEF PublicProcess, ProcessPhases

\* What the invariant says of one process.
LEMMA InvOf ==
    ASSUME PublicInv, NEW p \in PublicProcesses
    PROVE  /\ ProcessFits(publicFile.schema, DOMAIN publicFile.rows, public[p])
           /\ public[p] \in PublicProcess /\ PhaseFits(publicFile.schema, public[p])
           /\ SelectionFits(DOMAIN publicFile.rows, public[p])
           /\ StoreFits(publicFile) /\ IsPublicFile(publicFile)
           /\ publicFile.schema \in {"absent", "empty", "v1", "v2"}
           /\ publicFile = [schema |-> publicFile.schema, rows |-> publicFile.rows]
  BY DEF PublicInv, ProcessFits, StoreFits, IsPublicFile

LEMMA StartHarvestKeeps ==
    ASSUME PublicInv, NEW p \in PublicProcesses, NEW plan \in Plans, StartHarvest(p, plan)
    PROVE  StepKeeps(p)
<1> DEFINE i == Ended("running")
           j == [i EXCEPT !.pc = "open", !.plan = plan]
<1>1. /\ i \in PublicProcess /\ i.mode = "harvest" /\ i.runs = {} /\ i.draft = NoDraft
      /\ i.op = "initialize" /\ ~i.partial /\ i.selected = {} /\ i.result = "running"
      /\ i.limited = FALSE
  BY EndedFields
<1>2. plan \in SUBSET Repositories
  BY PublicAssumption
<1>3. public' = [public EXCEPT ![p] = j]
  BY DEF StartHarvest
<1> HIDE DEF i
<1>4. /\ j \in PublicProcess /\ j.pc = "open" /\ j.mode = "harvest" /\ j.runs = {}
      /\ j.draft = NoDraft /\ j.op = "initialize" /\ ~j.partial /\ j.selected = {}
      /\ j.result = "running" /\ j.limited = FALSE
  BY <1>1, <1>2 DEF PublicProcess
<1> HIDE DEF j
<1>5. ASSUME NEW schema, NEW retained PROVE ProcessFits(schema, retained, j)
  BY <1>4, NoDraftFits DEF ProcessFits, PhaseFits, SelectionFits, Writing, Requests
<1>6. publicStarted' \in 0..PublicStarts /\ publicFile' = publicFile
  <2>1. publicStarted' = publicStarted + 1 /\ publicStarted < PublicStarts /\ publicFile' = publicFile
    BY DEF StartHarvest
  <2>2. publicStarted \in 0..PublicStarts /\ PublicStarts \in Nat
    BY PublicAssumption DEF PublicInv, PublicTypeOK
  <2> QED
    BY <2>1, <2>2
<1> QED
  BY <1>3, <1>5, <1>6, InvOf, PublicMoves

LEMMA StartReevaluationKeeps ==
    ASSUME PublicInv, NEW p \in PublicProcesses, StartReevaluation(p) PROVE StepKeeps(p)
<1> DEFINE i == Ended("running")
           j == [i EXCEPT !.pc = "open", !.mode = "reevaluate"]
<1>1. /\ i \in PublicProcess /\ i.runs = {} /\ i.draft = NoDraft
      /\ i.op = "initialize" /\ ~i.partial /\ i.selected = {} /\ i.result = "running"
      /\ i.limited = FALSE
  BY EndedFields
<1>3. public' = [public EXCEPT ![p] = j]
  BY DEF StartReevaluation
<1> HIDE DEF i
<1>4. /\ j \in PublicProcess /\ j.pc = "open" /\ j.mode = "reevaluate" /\ j.runs = {}
      /\ j.draft = NoDraft /\ j.op = "initialize" /\ ~j.partial /\ j.selected = {}
      /\ j.result = "running" /\ j.limited = FALSE
  BY <1>1 DEF PublicProcess
<1> HIDE DEF j
<1>5. ASSUME NEW schema, NEW retained PROVE ProcessFits(schema, retained, j)
  BY <1>4, NoDraftFits DEF ProcessFits, PhaseFits, SelectionFits, Writing, Requests
<1>6. publicStarted' \in 0..PublicStarts /\ publicFile' = publicFile
  <2>1. publicStarted' = publicStarted + 1 /\ publicStarted < PublicStarts /\ publicFile' = publicFile
    BY DEF StartReevaluation
  <2>2. publicStarted \in 0..PublicStarts /\ PublicStarts \in Nat
    BY PublicAssumption DEF PublicInv, PublicTypeOK
  <2> QED
    BY <2>1, <2>2
<1> QED
  BY <1>3, <1>5, <1>6, InvOf, PublicMoves

LEMMA OpenToWriteKeeps ==
    ASSUME PublicInv, NEW p \in PublicProcesses, OpenToWrite(p) PROVE StepKeeps(p)
<1> DEFINE i == public[p]
<1>1. /\ i \in PublicProcess /\ PhaseFits(publicFile.schema, i)
      /\ SelectionFits(DOMAIN publicFile.rows, i) /\ i.pc = "open"
  BY InvOf DEF OpenToWrite, At
<1>2. UNCHANGED <<publicFile, publicStarted>>
  BY DEF OpenToWrite
<1>3. ASSUME NEW pc \in {"connect", "transaction"}, public' = [public EXCEPT ![p].pc = pc],
             pc = "transaction" => publicFile.schema \in {"v1", "v2"}
      PROVE  StepKeeps(p)
  <2> DEFINE j == [i EXCEPT !.pc = pc]
  <2>1. public' = [public EXCEPT ![p] = j]
    BY <1>3
  <2> HIDE DEF i
  <2>2. /\ j \in PublicProcess /\ j.pc = pc /\ j.mode = i.mode /\ j.runs = i.runs
        /\ j.key = i.key /\ j.draft = i.draft /\ j.op = i.op /\ j.limited = i.limited
        /\ j.partial = i.partial /\ j.selected = i.selected /\ j.result = i.result
    BY <1>1, PhaseChange DEF ProcessPhases
  <2> HIDE DEF j
  <2>3. PhaseFits(publicFile.schema, j)
    BY <1>1, <1>3, <2>2 DEF PhaseFits, Writing, Requests
  <2>4. SelectionFits(DOMAIN publicFile.rows, j)
    BY <1>1, <2>2 DEF SelectionFits, Writing, Capturing, InHand, ToCome
  <2> QED
    BY <1>2, <2>1, <2>2, <2>3, <2>4, PublicThinks DEF ProcessFits
<1>4. CASE End(p, "error")
  BY <1>2, <1>4, PublicEnds
<1>5. \/ public' = [public EXCEPT ![p].pc = "connect"]
      \/ public' = [public EXCEPT ![p].pc = "transaction"] /\ publicFile.schema \in {"v1", "v2"}
      \/ End(p, "error")
  BY DEF OpenToWrite, Validates
<1> QED
  BY <1>3, <1>4, <1>5

LEMMA ConnectKeeps ==
    ASSUME PublicInv, NEW p \in PublicProcesses, Connect(p) PROVE StepKeeps(p)
<1> DEFINE i == public[p]
           j == [i EXCEPT !.pc = "script"]
<1>1. /\ i \in PublicProcess /\ PhaseFits(publicFile.schema, i)
      /\ SelectionFits(DOMAIN publicFile.rows, i) /\ i.pc = "connect"
      /\ StoreFits(publicFile) /\ publicFile = [schema |-> publicFile.schema, rows |-> publicFile.rows]
  BY InvOf DEF Connect, At
<1>2. public' = [public EXCEPT ![p] = j] /\ publicStarted' \in 0..PublicStarts
  BY DEF Connect, PublicInv, PublicTypeOK
<1>3. /\ StoreFits(publicFile') /\ publicFile'.rows = publicFile.rows
      /\ publicFile.schema \in {"v1", "v2"} => publicFile' = publicFile
  <2>1. CASE publicFile.schema = "absent"
    <3>1. publicFile' = [schema |-> "empty", rows |-> publicFile.rows]
      BY <1>1, <2>1 DEF Connect
    <3>2. /\ publicFile'.schema = "empty" /\ publicFile'.rows = publicFile.rows
          /\ publicFile' = [schema |-> publicFile'.schema, rows |-> publicFile'.rows]
      BY <3>1
    <3> QED
      BY <1>1, <2>1, <3>2 DEF StoreFits, IsPublicFile
  <2>2. CASE publicFile.schema # "absent"
    BY <1>1, <2>2 DEF Connect
  <2> QED
    BY <2>1, <2>2
<1>4. ClassesFit(publicFile) => ClassesFit(publicFile')
  BY <1>3 DEF ClassesFit
<1> HIDE DEF i
<1>5. /\ j \in PublicProcess /\ j.pc = "script" /\ j.mode = i.mode /\ j.runs = i.runs
      /\ j.key = i.key /\ j.draft = i.draft /\ j.op = i.op /\ j.limited = i.limited
      /\ j.partial = i.partial /\ j.selected = i.selected /\ j.result = i.result
  BY <1>1, PhaseChange DEF ProcessPhases
<1> HIDE DEF j
<1>6. PhaseFits(publicFile'.schema, j) /\ ~i.limited
  BY <1>1, <1>5 DEF PhaseFits, Writing, Requests
<1>7. SelectionFits(DOMAIN publicFile'.rows, j)
  BY <1>1, <1>3, <1>5 DEF SelectionFits, Writing, Capturing, InHand, ToCome
<1>8. ProcessFits(publicFile'.schema, DOMAIN publicFile'.rows, j)
  BY <1>5, <1>6, <1>7 DEF ProcessFits
<1>9. /\ DOMAIN publicFile.rows \subseteq DOMAIN publicFile'.rows
      /\ publicFile.schema \in {"v1", "v2"} => publicFile'.schema \in {"v1", "v2"}
      /\ ~public[p].limited
  BY <1>3, <1>6 DEF i
<1> QED
  BY <1>2, <1>3, <1>4, <1>8, <1>9, PublicMoves

LEMMA ScriptKeeps ==
    ASSUME PublicInv, NEW p \in PublicProcesses, Script(p) PROVE StepKeeps(p)
<1>1. CASE publicFile.schema = "empty"
  <2> DEFINE i == public[p]
             j == [i EXCEPT !.pc = "transaction"]
  <2>1. /\ i \in PublicProcess /\ PhaseFits(publicFile.schema, i)
        /\ SelectionFits(DOMAIN publicFile.rows, i) /\ i.pc = "script" /\ StoreFits(publicFile)
        /\ publicFile = [schema |-> publicFile.schema, rows |-> publicFile.rows]
    BY InvOf DEF Script, At
  <2>2. public' = [public EXCEPT ![p] = j] /\ publicStarted' \in 0..PublicStarts
    BY <1>1 DEF Script, PublicInv, PublicTypeOK
  <2>3. publicFile' = [schema |-> "v2", rows |-> publicFile.rows]
    BY <1>1, <2>1 DEF Script
  <2>4. /\ publicFile'.schema = "v2" /\ publicFile'.rows = publicFile.rows
        /\ publicFile' = [schema |-> publicFile'.schema, rows |-> publicFile'.rows]
    BY <2>3
  <2>5. DOMAIN publicFile.rows = {} /\ RepositoriesOf(publicFile.rows) = {}
    BY <1>1, <2>1 DEF StoreFits, RepositoriesOf
  <2>6. Cardinality({}) = 0 /\ 0 <= MaxRepositories /\ 0 <= MaxRetainedRuns
    BY FS_EmptySet, PublicAssumption
  <2>7. StoreFits(publicFile') /\ ClassesFit(publicFile')
    BY <2>1, <2>4, <2>5, <2>6 DEF StoreFits, IsPublicFile, ClassesFit
  <2> HIDE DEF i
  <2>8. /\ j \in PublicProcess /\ j.pc = "transaction" /\ j.mode = i.mode /\ j.runs = i.runs
        /\ j.key = i.key /\ j.draft = i.draft /\ j.op = i.op /\ j.limited = i.limited
        /\ j.partial = i.partial /\ j.selected = i.selected /\ j.result = i.result
    BY <2>1, PhaseChange DEF ProcessPhases
  <2> HIDE DEF j
  <2>9. PhaseFits(publicFile'.schema, j) /\ ~i.limited
    BY <2>1, <2>4, <2>8 DEF PhaseFits, Writing, Requests
  <2>10. SelectionFits(DOMAIN publicFile'.rows, j)
    BY <2>1, <2>4, <2>8 DEF SelectionFits, Writing, Capturing, InHand, ToCome
  <2>11. ProcessFits(publicFile'.schema, DOMAIN publicFile'.rows, j)
    BY <2>8, <2>9, <2>10 DEF ProcessFits
  <2>12. /\ DOMAIN publicFile.rows \subseteq DOMAIN publicFile'.rows
         /\ publicFile'.schema \in {"v1", "v2"} /\ ~public[p].limited
    BY <2>4, <2>9 DEF i
  <2> QED
    BY <2>2, <2>7, <2>11, <2>12, PublicMoves
<1>2. CASE publicFile.schema # "empty"
  BY <1>2, PublicEnds DEF Script
<1> QED
  BY <1>1, <1>2

LEMMA CommitInitializeKeeps ==
    ASSUME PublicInv, NEW p \in PublicProcesses, CommitInitialize(p) PROVE StepKeeps(p)
<1> DEFINE i == public[p]
           pc == IF i.mode = "harvest" THEN "repository" ELSE "observe"
           j == [i EXCEPT !.pc = pc]
<1>1. /\ i \in PublicProcess /\ PhaseFits(publicFile.schema, i)
      /\ SelectionFits(DOMAIN publicFile.rows, i) /\ i.pc = "transaction"
      /\ i.op = "initialize" /\ StoreFits(publicFile)
  BY InvOf DEF CommitInitialize, At
<1>2. public' = [public EXCEPT ![p] = j] /\ publicStarted' \in 0..PublicStarts
  BY DEF CommitInitialize, PublicInv, PublicTypeOK
<1>3. publicFile' = Migrated(publicFile) /\ publicFile.schema \in {"v1", "v2"}
  BY <1>1 DEF CommitInitialize, PhaseFits
<1>4. /\ StoreFits(publicFile') /\ publicFile'.schema = "v2"
      /\ DOMAIN publicFile'.rows = DOMAIN publicFile.rows
      /\ ClassesFit(publicFile) => ClassesFit(publicFile')
  BY <1>1, <1>3, MigratedFits
<1> HIDE DEF i
<1>5. pc \in {"repository", "observe"} /\ pc \in ProcessPhases
      /\ (pc = "repository" <=> i.mode = "harvest")
  BY DEF ProcessPhases
<1> HIDE DEF pc
<1>6. /\ j \in PublicProcess /\ j.pc = pc /\ j.mode = i.mode /\ j.runs = i.runs
      /\ j.key = i.key /\ j.draft = i.draft /\ j.op = i.op /\ j.limited = i.limited
      /\ j.partial = i.partial /\ j.selected = i.selected /\ j.result = i.result
  BY <1>1, <1>5, PhaseChange
<1>7. i.mode \in {"harvest", "reevaluate"}
  BY <1>1, ProcessFields
<1> HIDE DEF j
<1>8. PhaseFits(publicFile'.schema, j) /\ ~i.limited
  BY <1>1, <1>5, <1>6, <1>7 DEF PhaseFits, Writing, Requests
<1>9. SelectionFits(DOMAIN publicFile'.rows, j)
  BY <1>1, <1>4, <1>5, <1>6 DEF SelectionFits, Writing, Capturing, InHand, ToCome
<1>10. ProcessFits(publicFile'.schema, DOMAIN publicFile'.rows, j)
  BY <1>6, <1>8, <1>9 DEF ProcessFits
<1>11. ~public[p].limited /\ publicFile'.schema \in {"v1", "v2"}
  BY <1>4, <1>8 DEF i
<1> QED
  BY <1>2, <1>4, <1>10, <1>11, PublicMoves

\* After a transaction of p that ends a record or a classification.
LEMMA WrittenFits ==
    ASSUME NEW i \in PublicProcess, NEW pc \in {"runs", "observed"}
    PROVE  LET j == [i EXCEPT !.pc = pc, !.draft = NoDraft]
           IN /\ j \in PublicProcess /\ j.pc = pc /\ j.mode = i.mode /\ j.runs = i.runs
              /\ j.key = i.key /\ j.draft = NoDraft /\ j.op = i.op /\ j.limited = i.limited
              /\ j.partial = i.partial /\ j.selected = i.selected /\ j.result = i.result
<1> DEFINE draft == NoDraft
<1>1. draft \in Draft
  BY NoDraftFits
<1>2. pc \in ProcessPhases
  BY DEF ProcessPhases
<1> HIDE DEF draft
<1> DEFINE j == [i EXCEPT !.pc = pc, !.draft = draft]
<1>3. /\ j \in PublicProcess /\ j.pc = pc /\ j.mode = i.mode /\ j.runs = i.runs
      /\ j.key = i.key /\ j.draft = draft /\ j.op = i.op /\ j.limited = i.limited
      /\ j.partial = i.partial /\ j.selected = i.selected /\ j.result = i.result
  BY <1>1, <1>2 DEF PublicProcess, ProcessPhases
<1> QED
  BY <1>3 DEF draft

LEMMA CommitRunKeeps ==
    ASSUME PublicInv, NEW p \in PublicProcesses, CommitRun(p) PROVE StepKeeps(p)
<1> DEFINE i == public[p]
           file == Migrated(publicFile)
           row == Row(i.draft)
           j == [i EXCEPT !.pc = "runs", !.draft = NoDraft]
<1>1. /\ i \in PublicProcess /\ PhaseFits(publicFile.schema, i)
      /\ SelectionFits(DOMAIN publicFile.rows, i) /\ i.pc = "transaction"
      /\ i.op = "record" /\ StoreFits(publicFile)
  BY InvOf DEF CommitRun, At
<1>2. /\ i.mode = "harvest" /\ DraftFits(i.draft) /\ i.draft.class \in Classes(i.draft)
      /\ publicFile.schema \in {"v1", "v2"} /\ ~i.limited
  <2>1. i.mode \in {"harvest", "reevaluate"} /\ i.limited \in BOOLEAN
    BY <1>1, ProcessFields
  <2> HIDE DEF i
  <2> QED
    BY <1>1, <2>1 DEF PhaseFits, Writing
<1>3. i.draft \in Draft /\ i.key \in PublicKeys
  BY <1>1, ProcessFields
<1>4. /\ StoreFits(file) /\ file.schema = "v2" /\ DOMAIN file.rows = DOMAIN publicFile.rows
      /\ ClassesFit(publicFile) => ClassesFit(file)
  BY <1>1, <1>2, MigratedFits
<1>5. CASE RoomForRun(file.rows, i.key)
  <2>1. /\ publicFile' = [file EXCEPT !.rows = Upserted(@, i.key, row)]
        /\ public' = [public EXCEPT ![p].pc = "runs", ![p].draft = NoDraft]
        /\ publicStarted' = publicStarted
    BY <1>5 DEF CommitRun
  <2>2. public' = [public EXCEPT ![p] = j]
    BY <2>1
  <2>3. /\ row \in PublicRow /\ RowFits(row) /\ Honest(row) /\ ClassFits(row)
        /\ row.modified # "unrecorded"
    BY <1>2, <1>3, RowOfDraft
  <2> HIDE DEF i, file, row
  <2>4. /\ StoreFits(publicFile') /\ publicFile'.schema = "v2"
        /\ DOMAIN publicFile'.rows = DOMAIN publicFile.rows \cup {i.key}
        /\ ClassesFit(publicFile) => ClassesFit(publicFile')
    <3> DEFINE key == i.key
               new == [file EXCEPT !.rows = Upserted(@, key, row)]
    <3>1. key \in PublicKeys /\ RoomForRun(file.rows, key) /\ publicFile' = new
      BY <1>3, <1>5, <2>1
    <3> HIDE DEF key
    <3>2. /\ StoreFits(new) /\ new.schema = "v2" /\ DOMAIN new.rows = DOMAIN file.rows \cup {key}
          /\ ClassesFit(file) => ClassesFit(new)
      BY ZenonT(60), <1>4, <2>3, <3>1, UpsertFits
    <3> HIDE DEF new
    <3> QED
      BY <1>4, <3>1, <3>2 DEF key
  <2>5. /\ j \in PublicProcess /\ j.pc = "runs" /\ j.mode = i.mode /\ j.runs = i.runs
        /\ j.key = i.key /\ j.draft = NoDraft /\ j.op = i.op /\ j.limited = i.limited
        /\ j.partial = i.partial /\ j.selected = i.selected /\ j.result = i.result
    BY <1>1, WrittenFits
  <2> HIDE DEF j
  <2>6. PhaseFits(publicFile'.schema, j)
    BY <1>1, <1>2, <2>5, NoDraftFits DEF PhaseFits, Writing, Requests
  <2>7. SelectionFits(DOMAIN publicFile'.rows, j)
    BY <1>1, <1>2, <2>4, <2>5 DEF SelectionFits, Writing, Capturing, InHand, ToCome
  <2>8. ProcessFits(publicFile'.schema, DOMAIN publicFile'.rows, j)
    BY <2>5, <2>6, <2>7 DEF ProcessFits
  <2>9. ~public[p].limited /\ publicStarted' \in 0..PublicStarts
    BY <1>2, <2>1 DEF i, PublicInv, PublicTypeOK
  <2> QED
    BY <2>2, <2>4, <2>8, <2>9, PublicMoves
<1>6. CASE ~RoomForRun(file.rows, i.key)
  <2>1. End(p, "error") /\ UNCHANGED <<publicFile, publicStarted>>
    BY <1>6 DEF CommitRun
  <2> QED
    BY <2>1, PublicEnds
<1> QED
  BY <1>5, <1>6

LEMMA CommitClassificationKeeps ==
    ASSUME PublicInv, NEW p \in PublicProcesses, CommitClassification(p) PROVE StepKeeps(p)
<1> DEFINE i == public[p]
           file == Migrated(publicFile)
           j == [i EXCEPT !.pc = "observed", !.draft = NoDraft]
<1>1. /\ i \in PublicProcess /\ PhaseFits(publicFile.schema, i)
      /\ SelectionFits(DOMAIN publicFile.rows, i) /\ i.pc = "transaction"
      /\ i.op = "classify" /\ StoreFits(publicFile)
  BY InvOf DEF CommitClassification, At
<1>2. i.mode = "reevaluate" /\ publicFile.schema \in {"v1", "v2"} /\ ~i.limited
  <2>1. i.mode \in {"harvest", "reevaluate"} /\ i.limited \in BOOLEAN
    BY <1>1, ProcessFields
  <2> HIDE DEF i
  <2> QED
    BY <1>1, <2>1 DEF PhaseFits, Writing
<1>3. i.draft.class \in ClassificationStates
  BY <1>1, ProcessFields, DraftFields
<1>4. /\ StoreFits(file) /\ file.schema = "v2" /\ DOMAIN file.rows = DOMAIN publicFile.rows
  BY <1>1, <1>2, MigratedFits
<1>5. /\ publicFile' = [file EXCEPT !.rows = Reclassified(@, i.key, i.draft.job, i.draft.class)]
      /\ public' = [public EXCEPT ![p].pc = "observed", ![p].draft = NoDraft]
      /\ publicStarted' = publicStarted
  BY DEF CommitClassification
<1>6. public' = [public EXCEPT ![p] = j]
  BY <1>5
<1> HIDE DEF i, file
<1>7. /\ StoreFits(publicFile') /\ publicFile'.schema = "v2"
      /\ DOMAIN publicFile'.rows = DOMAIN publicFile.rows
  BY <1>3, <1>4, <1>5, ReclassifyFits
<1>8. /\ j \in PublicProcess /\ j.pc = "observed" /\ j.mode = i.mode /\ j.runs = i.runs
      /\ j.key = i.key /\ j.draft = NoDraft /\ j.op = i.op /\ j.limited = i.limited
      /\ j.partial = i.partial /\ j.selected = i.selected /\ j.result = i.result
  BY <1>1, WrittenFits
<1> HIDE DEF j
<1>9. PhaseFits(publicFile'.schema, j)
  BY <1>1, <1>2, <1>8, NoDraftFits DEF PhaseFits, Writing, Requests
<1>10. SelectionFits(DOMAIN publicFile'.rows, j)
  BY <1>1, <1>2, <1>8 DEF SelectionFits, Writing, Capturing, InHand, ToCome
<1>11. ProcessFits(publicFile'.schema, DOMAIN publicFile'.rows, j)
  BY <1>8, <1>9, <1>10 DEF ProcessFits
<1>12. ~public[p].limited /\ publicStarted' \in 0..PublicStarts /\ public[p].mode # "harvest"
  BY <1>2, <1>5 DEF i, PublicInv, PublicTypeOK
<1> QED
  BY <1>6, <1>7, <1>11, <1>12, PublicMoves

LEMMA EndingsKeep ==
    ASSUME PublicInv, NEW p \in PublicProcesses,
           StorageError(p) \/ CrashPublic(p) \/ RateLimited(p)
    PROVE  StepKeeps(p)
<1>1. \/ End(p, "error") /\ UNCHANGED <<publicFile, publicStarted>>
      \/ End(p, "rate_limited") /\ UNCHANGED <<publicFile, publicStarted>>
  BY DEF StorageError, CrashPublic, RateLimited
<1>2. CASE End(p, "error") /\ UNCHANGED <<publicFile, publicStarted>>
  BY <1>2, PublicEnds
<1>3. CASE End(p, "rate_limited") /\ UNCHANGED <<publicFile, publicStarted>>
  BY <1>3, PublicEnds
<1> QED
  BY <1>1, <1>2, <1>3

LEMMA NextRepositoryKeeps ==
    ASSUME PublicInv, NEW p \in PublicProcesses, NextRepository(p) PROVE StepKeeps(p)
<1> DEFINE i == public[p]
<1>1. /\ i \in PublicProcess /\ PhaseFits(publicFile.schema, i)
      /\ SelectionFits(DOMAIN publicFile.rows, i) /\ i.pc = "repository"
  BY ZenonT(60), InvOf DEF NextRepository, At
<1>2. UNCHANGED <<publicFile, publicStarted>>
  BY DEF NextRepository
<1>3. i.mode = "harvest" /\ i.runs = {} /\ ~i.limited
      /\ (~i.partial => i.selected \subseteq DOMAIN publicFile.rows)
  <2> HIDE DEF i
  <2> QED
    BY <1>1 DEF PhaseFits, SelectionFits, Writing, Capturing, InHand, ToCome
<1>4. CASE ~Validates(publicFile)
  BY <1>2, <1>4, PublicEnds DEF NextRepository
<1>5. CASE Validates(publicFile) /\ i.plan = {}
  <2>1. CASE i.partial
    <3>1. End(p, "partial")
      BY <1>5, <2>1 DEF NextRepository
    <3> QED
      BY <1>2, <3>1, PublicEnds
  <2>2. CASE ~i.partial
    <3>1. End(p, "complete")
      BY <1>5, <2>2 DEF NextRepository
    <3> QED
      BY <1>2, <1>3, <2>2, <3>1, PublicEnds
  <2> QED
    BY <2>1, <2>2
<1>6. CASE Validates(publicFile) /\ i.plan # {}
  <2>1. PICK repository \in i.plan :
          public' = [public EXCEPT ![p].plan = @ \ {repository}, ![p].pc = "verify",
                                   ![p].page = 1, ![p].key[1] = repository]
    BY <1>6 DEF NextRepository
  <2> DEFINE plan == i.plan \ {repository}
             key == [i.key EXCEPT ![1] = repository]
             page == 1
             j == [i EXCEPT !.plan = plan, !.pc = "verify", !.page = page, !.key = key]
  <2>2. public' = [public EXCEPT ![p] = j]
    BY ZenonT(60), <2>1
  <2>3. plan \in SUBSET Repositories /\ page \in 1..2 /\ key \in PublicKeys
    <3>1. i.plan \in SUBSET Repositories /\ i.key \in PublicKeys
      BY <1>1, ProcessFields
    <3> HIDE DEF i
    <3>2. key \in PublicKeys
      BY <3>1 DEF PublicKeys
    <3> HIDE DEF key
    <3> QED
      BY <3>1, <3>2, FirstPage
  <2> HIDE DEF i, plan, key, page
  <2>4. /\ j \in PublicProcess /\ j.pc = "verify" /\ j.mode = i.mode /\ j.runs = i.runs
        /\ j.draft = i.draft /\ j.op = i.op /\ j.limited = i.limited
        /\ j.partial = i.partial /\ j.selected = i.selected /\ j.result = i.result
    BY <1>1, <2>3 DEF PublicProcess, Requests
  <2> HIDE DEF j
  <2>5. PhaseFits(publicFile.schema, j)
    BY <1>1, <1>3, <2>4 DEF PhaseFits, Writing, Requests
  <2>6. SelectionFits(DOMAIN publicFile.rows, j)
    BY <1>1, <1>3, <2>4 DEF SelectionFits, Writing, Capturing, InHand, ToCome
  <2> QED
    BY <1>2, <2>2, <2>4, <2>5, <2>6, PublicThinks DEF ProcessFits
<1> QED
  BY SMTT(60), <1>4, <1>5, <1>6

LEMMA VerifiedKeeps ==
    ASSUME PublicInv, NEW p \in PublicProcesses, Verified(p) PROVE StepKeeps(p)
<1> DEFINE i == public[p]
           j == [i EXCEPT !.pc = "list"]
<1>1. /\ i \in PublicProcess /\ PhaseFits(publicFile.schema, i)
      /\ SelectionFits(DOMAIN publicFile.rows, i) /\ i.pc = "verify"
  BY InvOf DEF Verified, At
<1>2. public' = [public EXCEPT ![p] = j] /\ UNCHANGED <<publicFile, publicStarted>>
  BY DEF Verified
<1> HIDE DEF i
<1>3. /\ j \in PublicProcess /\ j.pc = "list" /\ j.mode = i.mode /\ j.runs = i.runs
      /\ j.key = i.key /\ j.draft = i.draft /\ j.op = i.op /\ j.limited = i.limited
      /\ j.partial = i.partial /\ j.selected = i.selected /\ j.result = i.result
  BY ZenonT(60), <1>1, PhaseChange DEF ProcessPhases, Requests
<1> HIDE DEF j
<1>4. PhaseFits(publicFile.schema, j)
  BY <1>1, <1>3 DEF PhaseFits, Writing, Requests
<1>5. SelectionFits(DOMAIN publicFile.rows, j)
  BY <1>1, <1>3 DEF SelectionFits, Writing, Capturing, InHand, ToCome
<1> QED
  BY <1>2, <1>3, <1>4, <1>5, PublicThinks DEF ProcessFits

LEMMA RepositoryFailedKeeps ==
    ASSUME PublicInv, NEW p \in PublicProcesses, RepositoryFailed(p) PROVE StepKeeps(p)
<1> DEFINE i == public[p]
           runs == {}
           partial == TRUE
           j == [i EXCEPT !.pc = "repository", !.partial = partial, !.runs = runs]
<1>1. /\ i \in PublicProcess /\ PhaseFits(publicFile.schema, i)
      /\ SelectionFits(DOMAIN publicFile.rows, i) /\ i.pc \in {"verify", "list"}
  BY InvOf DEF RepositoryFailed
<1>2. public' = [public EXCEPT ![p] = j] /\ UNCHANGED <<publicFile, publicStarted>>
  BY DEF RepositoryFailed
<1>3. runs \in SUBSET RunIds /\ partial \in BOOLEAN
  OBVIOUS
<1> HIDE DEF i, runs, partial
<1>4. /\ j \in PublicProcess /\ j.pc = "repository" /\ j.mode = i.mode /\ j.runs = runs
      /\ j.key = i.key /\ j.draft = i.draft /\ j.op = i.op /\ j.limited = i.limited
      /\ j.partial = partial /\ j.selected = i.selected /\ j.result = i.result
  BY <1>1, <1>3 DEF PublicProcess
<1> HIDE DEF j
<1>5. PhaseFits(publicFile.schema, j)
  BY <1>1, <1>4 DEF PhaseFits, Writing, Requests
<1>6. SelectionFits(DOMAIN publicFile.rows, j)
  BY <1>1, <1>4 DEF SelectionFits, Writing, Capturing, InHand, ToCome, runs, partial
<1> QED
  BY <1>2, <1>4, <1>5, <1>6, PublicThinks DEF ProcessFits

LEMMA ListPageKeeps ==
    ASSUME PublicInv, NEW p \in PublicProcesses, ListPage(p) PROVE StepKeeps(p)
<1> DEFINE i == public[p]
<1>1. /\ i \in PublicProcess /\ PhaseFits(publicFile.schema, i)
      /\ SelectionFits(DOMAIN publicFile.rows, i) /\ i.pc = "list"
      /\ i.key \in PublicKeys /\ i.runs \in SUBSET RunIds /\ i.selected \in SUBSET PublicKeys
  BY InvOf, ProcessFields DEF ListPage, At
<1>2. UNCHANGED <<publicFile, publicStarted>>
  BY DEF ListPage
<1>3. PICK listed \in SUBSET RunIds, short \in BOOLEAN :
         LET known == public[p].runs
             taken == listed \ known
             runs  == known \cup taken
         IN public' = [public EXCEPT
                 ![p].runs = runs,
                 ![p].selected = @ \cup { <<public[p].key[1], run>> : run \in taken },
                 ![p].page = 2,
                 ![p].pc = IF short \/ public[p].page = 2 \/ Cardinality(runs) = RunsPerRepository
                             THEN "runs" ELSE "list"]
  BY DEF ListPage
<1> DEFINE taken == listed \ i.runs
           runs == i.runs \cup taken
           keys == { <<i.key[1], run>> : run \in taken }
           selected == i.selected \cup keys
           pc == IF short \/ i.page = 2 \/ Cardinality(runs) = RunsPerRepository
                   THEN "runs" ELSE "list"
           page == 2
           j == [i EXCEPT !.runs = runs, !.selected = selected, !.page = page, !.pc = pc]
<1>4. public' = [public EXCEPT ![p] = j]
  BY <1>3
<1>5. i.key[1] \in Repositories
  <2> HIDE DEF i
  <2> QED
    BY <1>1 DEF PublicKeys
<1> HIDE DEF i
<1>6. runs \in SUBSET RunIds /\ keys \subseteq PublicKeys /\ pc \in {"runs", "list"}
      /\ i.runs \subseteq runs
  BY <1>1, <1>5 DEF PublicKeys
<1>7. keys \subseteq { <<i.key[1], run>> : run \in runs }
  OBVIOUS
<1>8. selected = i.selected \cup keys
  OBVIOUS
<1>9. page \in 1..2
  BY FirstPage
<1>10. selected \in SUBSET PublicKeys
  BY <1>1, <1>6
<1> HIDE DEF runs, keys, selected, pc, page
<1>11. /\ j \in PublicProcess /\ j.pc = pc /\ j.mode = i.mode /\ j.runs = runs
       /\ j.key = i.key /\ j.draft = i.draft /\ j.op = i.op /\ j.limited = i.limited
       /\ j.partial = i.partial /\ j.selected = selected /\ j.result = i.result
  BY <1>1, <1>6, <1>9, <1>10 DEF PublicProcess, Requests
<1> HIDE DEF j
<1>12. PhaseFits(publicFile.schema, j)
  BY <1>1, <1>6, <1>11 DEF PhaseFits, Writing, Requests
<1>13. SelectionFits(DOMAIN publicFile.rows, j)
  <2>1. { <<i.key[1], run>> : run \in i.runs } \subseteq { <<i.key[1], run>> : run \in runs }
    BY <1>6
  <2> QED
    BY <1>1, <1>6, <1>7, <1>8, <1>11, <2>1 DEF SelectionFits, Writing, Capturing, InHand, ToCome
<1> QED
  BY <1>2, <1>4, <1>11, <1>12, <1>13, PublicThinks DEF ProcessFits

LEMMA NextRunKeeps ==
    ASSUME PublicInv, NEW p \in PublicProcesses, NextRun(p) PROVE StepKeeps(p)
<1> DEFINE i == public[p]
<1>1. /\ i \in PublicProcess /\ PhaseFits(publicFile.schema, i)
      /\ SelectionFits(DOMAIN publicFile.rows, i) /\ i.pc = "runs"
      /\ i.key \in PublicKeys /\ i.runs \in SUBSET RunIds /\ i.selected \in SUBSET PublicKeys
  BY InvOf, ProcessFields DEF NextRun, At
<1>2. UNCHANGED <<publicFile, publicStarted>>
  BY DEF NextRun
<1>3. NoKey \in PublicKeys
  BY PublicAssumption DEF NoKey
<1>4. i.key[1] \in Repositories /\ i.key = <<i.key[1], i.key[2]>>
  <2> HIDE DEF i
  <2> QED
    BY <1>1 DEF PublicKeys
<1>5. CASE i.runs = {}
  <2> DEFINE key == [i.key EXCEPT ![2] = NoKey[2]]
             j == [i EXCEPT !.pc = "repository", !.key = key]
  <2>1. public' = [public EXCEPT ![p] = j]
    <3>1. public' = [public EXCEPT ![p].pc = "repository", ![p].key[2] = NoKey[2]]
      BY <1>5 DEF NextRun
    <3> QED
      BY <3>1
  <2> HIDE DEF i
  <2>2. key \in PublicKeys
    BY <1>1, <1>3 DEF PublicKeys
  <2> HIDE DEF key
  <2>3. /\ j \in PublicProcess /\ j.pc = "repository" /\ j.mode = i.mode /\ j.runs = i.runs
        /\ j.key = key /\ j.draft = i.draft /\ j.op = i.op /\ j.limited = i.limited
        /\ j.partial = i.partial /\ j.selected = i.selected /\ j.result = i.result
    BY <1>1, <2>2 DEF PublicProcess
  <2> HIDE DEF j
  <2>4. PhaseFits(publicFile.schema, j)
    BY <1>1, <2>3 DEF PhaseFits, Writing, Requests
  <2>5. SelectionFits(DOMAIN publicFile.rows, j)
    BY <1>1, <1>5, <2>3 DEF SelectionFits, Writing, Capturing, InHand, ToCome
  <2> QED
    BY <1>2, <2>1, <2>3, <2>4, <2>5, PublicThinks DEF ProcessFits
<1>6. CASE i.runs # {} /\ ~Validates(publicFile)
  BY <1>2, <1>6, PublicEnds DEF NextRun
<1>7. CASE i.runs # {} /\ Validates(publicFile)
  <2>1. PICK run \in i.runs :
           LET key == <<i.key[1], run>> IN
           public' = [public EXCEPT
                 ![p].runs = @ \ {run}, ![p].key = key, ![p].page = 1, ![p].draft = NoDraft,
                 ![p].pc = IF HasRun(publicFile.rows, key) THEN "runs" ELSE "job"]
    BY <1>7 DEF NextRun
  <2> DEFINE key == <<i.key[1], run>>
             runs == i.runs \ {run}
             page == 1
             draft == NoDraft
             pc == IF HasRun(publicFile.rows, key) THEN "runs" ELSE "job"
             j == [i EXCEPT !.runs = runs, !.key = key, !.page = page, !.draft = draft, !.pc = pc]
  <2>2. public' = [public EXCEPT ![p] = j]
    BY <2>1
  <2> HIDE DEF i
  <2>3. runs \in SUBSET RunIds /\ pc \in {"runs", "job"}
        /\ (pc = "runs" => key \in DOMAIN publicFile.rows)
    BY <1>1 DEF HasRun
  <2>4. key \in PublicKeys
    BY <1>1, <1>4 DEF PublicKeys
  <2>5. draft \in Draft /\ DraftFits(draft) /\ draft.job = NoJob
    BY NoDraftFits
  <2>6. page \in 1..2
    BY FirstPage
  <2>7. key[1] = i.key[1] /\ i.runs = runs \cup {run} /\ key = <<i.key[1], run>>
    OBVIOUS
  <2> HIDE DEF key, runs, page, draft, pc
  <2>8. /\ j \in PublicProcess /\ j.pc = pc /\ j.mode = i.mode /\ j.runs = runs
        /\ j.key = key /\ j.draft = draft /\ j.op = i.op /\ j.limited = i.limited
        /\ j.partial = i.partial /\ j.selected = i.selected /\ j.result = i.result
    BY <1>1, <2>3, <2>4, <2>5, <2>6 DEF PublicProcess, Requests
  <2> HIDE DEF j
  <2>9. PhaseFits(publicFile.schema, j)
    BY <1>1, <2>3, <2>5, <2>8 DEF PhaseFits, Writing, Requests
  <2>10. SelectionFits(DOMAIN publicFile.rows, j)
    <3>1. ToCome(i) = ToCome(j) \cup {key}
      BY <2>7, <2>8 DEF ToCome
    <3>2. InHand(i) = {} /\ key \in DOMAIN publicFile.rows \cup InHand(j)
      BY <1>1, <2>3, <2>8 DEF InHand, Writing, Capturing
    <3>3. i.mode = "harvest" /\ ~i.partial =>
             i.selected \subseteq DOMAIN publicFile.rows \cup ToCome(i)
      BY <1>1, <3>2 DEF SelectionFits
    <3> QED
      BY <1>1, <2>3, <2>8, <3>1, <3>2, <3>3 DEF SelectionFits, Writing
  <2> QED
    BY <1>2, <2>2, <2>8, <2>9, <2>10, PublicThinks DEF ProcessFits
<1> QED
  BY <1>5, <1>6, <1>7

\* A capture of the run in hand, which may make the harvest partial.
LEMMA CaptureFits ==
    ASSUME NEW schema, NEW retained, NEW i, ProcessFits(schema, retained, i),
           i.pc \in Capturing, NEW d \in Draft, DraftFits(d), NEW partial \in BOOLEAN,
           i.partial => partial, NEW pc \in {"log", "config"}
    PROVE  ProcessFits(schema, retained,
                       [i EXCEPT !.draft = d, !.pc = pc, !.partial = partial])
<1> DEFINE j == [i EXCEPT !.draft = d, !.pc = pc, !.partial = partial]
<1>1. i \in PublicProcess /\ PhaseFits(schema, i) /\ SelectionFits(retained, i)
  BY DEF ProcessFits
<1>2. /\ j \in PublicProcess /\ j.pc = pc /\ j.mode = i.mode /\ j.runs = i.runs
      /\ j.key = i.key /\ j.draft = d /\ j.op = i.op /\ j.limited = i.limited
      /\ j.partial = partial /\ j.selected = i.selected /\ j.result = i.result
  BY <1>1 DEF PublicProcess, Requests
<1> HIDE DEF j
<1>3. i.mode = "harvest"
  BY <1>1 DEF PhaseFits, Capturing, Requests
<1>4. PhaseFits(schema, j)
  BY <1>1, <1>2, <1>3 DEF PhaseFits, Writing, Requests, Capturing
<1>5. SelectionFits(retained, j)
  BY <1>1, <1>2 DEF SelectionFits, Writing, Capturing, InHand, ToCome
<1> QED
  BY <1>2, <1>4, <1>5 DEF ProcessFits, j

LEMMA FailedJobKeeps ==
    ASSUME PublicInv, NEW p \in PublicProcesses, FailedJob(p) PROVE StepKeeps(p)
<1> DEFINE i == public[p]
<1>1. /\ ProcessFits(publicFile.schema, DOMAIN publicFile.rows, i) /\ i.pc = "job"
      /\ i \in PublicProcess /\ i.draft \in Draft /\ i.partial \in BOOLEAN
      /\ PhaseFits(publicFile.schema, i)
  BY InvOf, ProcessFields DEF FailedJob, At
<1>2. PICK job \in JobIds :
         public' = [public EXCEPT ![p].draft.jobState = "captured", ![p].draft.job = job,
                                  ![p].pc = "log"]
  BY DEF FailedJob
<1> DEFINE d == [i.draft EXCEPT !.jobState = "captured", !.job = job]
           j == [i EXCEPT !.draft = d, !.pc = "log"]
           k == [i EXCEPT !.draft = d, !.pc = "log", !.partial = i.partial]
<1>3. public' = [public EXCEPT ![p] = j]
  BY <1>2
<1> HIDE DEF i
<1>4. DraftFits(i.draft)
  BY <1>1 DEF PhaseFits, Requests
<1>5. d \in Draft /\ DraftFits(d)
  <2> DEFINE e == i.draft
             f == [e EXCEPT !.jobState = "captured", !.job = job]
  <2>1. e \in Draft /\ DraftFits(e)
    BY <1>1, <1>4
  <2> HIDE DEF e
  <2>2. /\ f \in Draft /\ f.jobState = "captured" /\ f.job = job /\ f.config = e.config
    BY <2>1 DEF Draft, JobStates
  <2>3. job # NoJob
    BY PublicAssumption
  <2> HIDE DEF f
  <2>4. DraftFits(f)
    BY <2>1, <2>2, <2>3 DEF DraftFits
  <2> QED
    BY <2>2, <2>4 DEF e, f
<1> HIDE DEF d
<1>6. j = k
  BY ZenonT(60), <1>1 DEF PublicProcess
<1>7. ProcessFits(publicFile.schema, DOMAIN publicFile.rows, k)
  BY <1>1, <1>5, CaptureFits DEF Capturing
<1> HIDE DEF j, k
<1> QED
  BY <1>3, <1>6, <1>7, PublicThinks DEF FailedJob

LEMMA JobStateKeeps ==
    ASSUME PublicInv, NEW p \in PublicProcesses, At(p, "job"), NEW state \in JobStates,
           state # "captured", UNCHANGED <<publicFile, publicStarted>>,
           public' = [public EXCEPT ![p].draft.jobState = state, ![p].partial = TRUE,
                                    ![p].pc = "config"]
    PROVE  StepKeeps(p)
<1> DEFINE i == public[p]
           d == [i.draft EXCEPT !.jobState = state]
           partial == TRUE
           j == [i EXCEPT !.draft = d, !.pc = "config", !.partial = partial]
<1>1. /\ ProcessFits(publicFile.schema, DOMAIN publicFile.rows, i) /\ i.pc = "job"
      /\ i \in PublicProcess /\ i.draft \in Draft /\ PhaseFits(publicFile.schema, i)
  BY InvOf, ProcessFields DEF At
<1>2. public' = [public EXCEPT ![p] = j]
  OBVIOUS
<1> HIDE DEF i
<1>3. DraftFits(i.draft) /\ i.draft.job = NoJob
  BY <1>1 DEF PhaseFits, Requests
<1>4. d \in Draft /\ DraftFits(d)
  <2> DEFINE e == i.draft
             f == [e EXCEPT !.jobState = state]
  <2>1. e \in Draft /\ DraftFits(e) /\ e.job = NoJob
    BY <1>1, <1>3
  <2> HIDE DEF e
  <2>2. /\ f \in Draft /\ f.jobState = state /\ f.job = e.job /\ f.config = e.config
    BY <2>1 DEF Draft
  <2> HIDE DEF f
  <2>3. DraftFits(f)
    BY <2>1, <2>2 DEF DraftFits
  <2> QED
    BY <2>2, <2>3 DEF e, f
<1>5. partial \in BOOLEAN /\ (i.partial => partial)
  OBVIOUS
<1> HIDE DEF d, partial
<1>6. ProcessFits(publicFile.schema, DOMAIN publicFile.rows, j)
  BY <1>1, <1>4, <1>5, CaptureFits DEF Capturing
<1> HIDE DEF j
<1> QED
  BY <1>2, <1>6, PublicThinks

LEMMA NoFailedJobKeeps ==
    ASSUME PublicInv, NEW p \in PublicProcesses, NoFailedJob(p) PROVE StepKeeps(p)
<1>1. PICK state \in JobAnswers :
         public' = [public EXCEPT ![p].draft.jobState = state, ![p].partial = TRUE,
                                  ![p].pc = "config"]
  BY DEF NoFailedJob
<1>2. state \in JobStates /\ state # "captured"
  BY PublicAssumption DEF JobStates
<1> QED
  BY <1>1, <1>2, JobStateKeeps DEF NoFailedJob

LEMMA FullJobPageKeeps ==
    ASSUME PublicInv, NEW p \in PublicProcesses, FullJobPage(p) PROVE StepKeeps(p)
<1>1. CASE public[p].page < 2
  <2> DEFINE i == public[p]
             page == i.page + 1
             j == [i EXCEPT !.page = page]
  <2>1. /\ ProcessFits(publicFile.schema, DOMAIN publicFile.rows, i)
        /\ i \in PublicProcess /\ i.page \in 1..2
        /\ PhaseFits(publicFile.schema, i) /\ SelectionFits(DOMAIN publicFile.rows, i)
    BY InvOf, ProcessFields
  <2>2. public' = [public EXCEPT ![p] = j] /\ UNCHANGED <<publicFile, publicStarted>>
    BY <1>1 DEF FullJobPage
  <2> HIDE DEF i
  <2>3. page \in 1..2
    BY <1>1, <2>1 DEF i
  <2> HIDE DEF page
  <2>4. /\ j \in PublicProcess /\ j.pc = i.pc /\ j.mode = i.mode /\ j.runs = i.runs
        /\ j.key = i.key /\ j.draft = i.draft /\ j.op = i.op /\ j.limited = i.limited
        /\ j.partial = i.partial /\ j.selected = i.selected /\ j.result = i.result
    BY <2>1, <2>3 DEF PublicProcess
  <2> HIDE DEF j
  <2>5. PhaseFits(publicFile.schema, j)
    BY <2>1, <2>4 DEF PhaseFits
  <2>6. SelectionFits(DOMAIN publicFile.rows, j)
    BY <2>1, <2>4 DEF SelectionFits, InHand, ToCome
  <2> QED
    BY <2>2, <2>4, <2>5, <2>6, PublicThinks DEF ProcessFits
<1>2. CASE ~(public[p].page < 2)
  <2>1. "limited" \in JobStates
    BY DEF JobStates
  <2> QED
    BY <1>2, <2>1, JobStateKeeps DEF FullJobPage
<1> QED
  BY <1>1, <1>2

LEMMA JobLogKeeps ==
    ASSUME PublicInv, NEW p \in PublicProcesses, JobLog(p) PROVE StepKeeps(p)
<1> DEFINE i == public[p]
<1>1. /\ ProcessFits(publicFile.schema, DOMAIN publicFile.rows, i) /\ i.pc = "log"
      /\ i \in PublicProcess /\ i.draft \in Draft /\ i.partial \in BOOLEAN
      /\ PhaseFits(publicFile.schema, i)
  BY InvOf, ProcessFields DEF JobLog, At
<1>2. PICK state \in LogAnswers \cup {"unavailable"} :
         public' = [public EXCEPT ![p].draft.log = state, ![p].pc = "config",
                                  ![p].partial = @ \/ state # "captured"]
  BY DEF JobLog
<1> DEFINE d == [i.draft EXCEPT !.log = state]
           partial == i.partial \/ state # "captured"
           j == [i EXCEPT !.draft = d, !.pc = "config", !.partial = partial]
<1>3. public' = [public EXCEPT ![p] = j]
  BY <1>2
<1> HIDE DEF i
<1>4. DraftFits(i.draft)
  BY <1>1 DEF PhaseFits, Requests
<1>5. d \in Draft /\ DraftFits(d)
  <2> DEFINE e == i.draft
             f == [e EXCEPT !.log = state]
  <2>1. e \in Draft /\ DraftFits(e)
    BY <1>1, <1>4
  <2>2. state \in LogStates
    BY PublicAssumption DEF LogStates
  <2> HIDE DEF e
  <2>3. /\ f \in Draft /\ f.jobState = e.jobState /\ f.job = e.job /\ f.config = e.config
    BY <2>1, <2>2 DEF Draft
  <2> HIDE DEF f
  <2>4. DraftFits(f)
    BY <2>1, <2>3 DEF DraftFits
  <2> QED
    BY <2>3, <2>4 DEF e, f
<1>6. partial \in BOOLEAN /\ (i.partial => partial)
  BY SMTT(60)
<1> HIDE DEF d, partial
<1>7. ProcessFits(publicFile.schema, DOMAIN publicFile.rows, j)
  BY <1>1, <1>5, <1>6, CaptureFits DEF Capturing
<1> HIDE DEF j
<1> QED
  BY <1>3, <1>7, PublicThinks DEF JobLog

\* The last capture: the log is classified, and the run goes to be recorded.
LEMMA CapturedKeeps ==
    ASSUME PublicInv, NEW p \in PublicProcesses, public[p].pc \in {"config", "workflow", "contents"},
           NEW config \in ConfigCapture, config.truncated => ~config.exact,
           Captured(p, config), UNCHANGED <<publicFile, publicStarted>>
    PROVE  StepKeeps(p)
<1> DEFINE i == public[p]
<1>1. /\ PhaseFits(publicFile.schema, i) /\ SelectionFits(DOMAIN publicFile.rows, i)
      /\ i.pc \in {"config", "workflow", "contents"}
      /\ i \in PublicProcess /\ i.draft \in Draft /\ i.partial \in BOOLEAN
      /\ i.mode \in {"harvest", "reevaluate"}
  BY InvOf, ProcessFields
<1>2. PICK class \in Classes(i.draft) :
         public' = [public EXCEPT
            ![p].draft.config = config, ![p].draft.class = class,
            ![p].pc = "open", ![p].op = "record",
            ![p].partial = @ \/ config.state # "captured" \/ config.truncated
                             \/ class = "analysis_error"]
  BY DEF Captured
<1> DEFINE d == [i.draft EXCEPT !.config = config, !.class = class]
           partial == i.partial \/ config.state # "captured" \/ config.truncated
                                \/ class = "analysis_error"
           j == [i EXCEPT !.draft = d, !.pc = "open", !.op = "record", !.partial = partial]
<1>3. public' = [public EXCEPT ![p] = j]
  <2>1. public' = [public EXCEPT ![p].draft.config = config, ![p].draft.class = class,
                                 ![p].pc = "open", ![p].op = "record", ![p].partial = partial]
    BY <1>2
  <2> HIDE DEF partial
  <2> QED
    BY <2>1, ZenonT(120)
<1> HIDE DEF i
<1>4. i.mode = "harvest" /\ DraftFits(i.draft) /\ ~i.limited
  <2>1. i.limited \in BOOLEAN
    BY <1>1, ProcessFields
  <2> QED
    BY <1>1, <2>1 DEF PhaseFits, Requests
<1>5. class \in ClassificationStates
  BY PublicAssumption DEF Classes, ClassificationStates
<1>6. d \in Draft /\ DraftFits(d) /\ class \in Classes(d) /\ d.class = class
  <2> DEFINE e == i.draft
             f == [e EXCEPT !.config = config, !.class = class]
  <2>1. e \in Draft /\ DraftFits(e) /\ class \in Classes(e)
    BY <1>1, <1>4
  <2> HIDE DEF e
  <2>2. /\ f \in Draft /\ f.jobState = e.jobState /\ f.job = e.job /\ f.config = config
        /\ f.log = e.log /\ f.class = class
    BY <1>5, <2>1 DEF Draft
  <2> HIDE DEF f
  <2>3. DraftFits(f) /\ class \in Classes(f)
    BY <2>1, <2>2 DEF DraftFits, Classes
  <2> QED
    BY <2>2, <2>3 DEF e, f
<1>7. partial \in BOOLEAN /\ (i.partial => partial)
  OBVIOUS
<1> HIDE DEF d, partial
<1>8. /\ j \in PublicProcess /\ j.pc = "open" /\ j.mode = i.mode /\ j.runs = i.runs
      /\ j.key = i.key /\ j.draft = d /\ j.op = "record" /\ j.limited = i.limited
      /\ j.partial = partial /\ j.selected = i.selected /\ j.result = i.result
  BY <1>1, <1>6, <1>7 DEF PublicProcess
<1> HIDE DEF j
<1>9. PhaseFits(publicFile.schema, j)
  BY <1>1, <1>4, <1>6, <1>8 DEF PhaseFits, Writing, Requests
<1>10. SelectionFits(DOMAIN publicFile.rows, j)
  BY <1>1, <1>4, <1>7, <1>8 DEF SelectionFits, Writing, Capturing, InHand, ToCome
<1> QED
  BY <1>3, <1>8, <1>9, <1>10, PublicThinks DEF ProcessFits

LEMMA ContentsNextKeeps ==
    ASSUME PublicInv, NEW p \in PublicProcesses, public[p].pc \in {"config", "workflow"},
           NEW pc \in {"workflow", "contents"}, public' = [public EXCEPT ![p].pc = pc],
           UNCHANGED <<publicFile, publicStarted>>
    PROVE  StepKeeps(p)
<1> DEFINE i == public[p]
           j == [i EXCEPT !.pc = pc]
<1>1. /\ i \in PublicProcess /\ PhaseFits(publicFile.schema, i)
      /\ SelectionFits(DOMAIN publicFile.rows, i) /\ i.pc \in {"config", "workflow"}
  BY InvOf
<1>2. public' = [public EXCEPT ![p] = j]
  OBVIOUS
<1> HIDE DEF i
<1>3. /\ j \in PublicProcess /\ j.pc = pc /\ j.mode = i.mode /\ j.runs = i.runs
      /\ j.key = i.key /\ j.draft = i.draft /\ j.op = i.op /\ j.limited = i.limited
      /\ j.partial = i.partial /\ j.selected = i.selected /\ j.result = i.result
  BY ZenonT(60), <1>1, PhaseChange DEF ProcessPhases, Requests
<1> HIDE DEF j
<1>4. PhaseFits(publicFile.schema, j)
  BY <1>1, <1>3 DEF PhaseFits, Writing, Requests
<1>5. SelectionFits(DOMAIN publicFile.rows, j)
  BY <1>1, <1>3 DEF SelectionFits, Writing, Capturing, InHand, ToCome
<1> QED
  BY <1>2, <1>3, <1>4, <1>5, PublicThinks DEF ProcessFits

LEMMA WorkflowPathKeeps ==
    ASSUME PublicInv, NEW p \in PublicProcesses, WorkflowPath(p) PROVE StepKeeps(p)
<1>1. public[p].pc = "config" /\ UNCHANGED <<publicFile, publicStarted>>
  BY DEF WorkflowPath, At
<1>2. \/ public' = [public EXCEPT ![p].pc = "contents"]
      \/ public' = [public EXCEPT ![p].pc = "workflow"]
      \/ Captured(p, NoConfig("missing"))
  BY DEF WorkflowPath
<1>3. CASE public' = [public EXCEPT ![p].pc = "contents"]
  BY <1>1, <1>3, ContentsNextKeeps
<1>4. CASE public' = [public EXCEPT ![p].pc = "workflow"]
  BY <1>1, <1>4, ContentsNextKeeps
<1>5. CASE Captured(p, NoConfig("missing"))
  <2> DEFINE config == NoConfig("missing")
  <2>1. config \in ConfigCapture /\ ~config.truncated
    BY NoDraftFits DEF ConfigStates
  <2> HIDE DEF config
  <2>2. Captured(p, config)
    BY <1>5 DEF config
  <2> QED
    BY <1>1, <2>1, <2>2, CapturedKeeps
<1> QED
  BY <1>2, <1>3, <1>4, <1>5

LEMMA WorkflowMetadataKeeps ==
    ASSUME PublicInv, NEW p \in PublicProcesses, WorkflowMetadata(p) PROVE StepKeeps(p)
<1>1. public[p].pc = "workflow" /\ UNCHANGED <<publicFile, publicStarted>>
  BY DEF WorkflowMetadata, At
<1>2. CASE public' = [public EXCEPT ![p].pc = "contents"]
  BY <1>1, <1>2, ContentsNextKeeps
<1>3. CASE \E state \in WorkflowAnswers : Captured(p, NoConfig(state))
  <2>1. PICK state \in WorkflowAnswers : Captured(p, NoConfig(state))
    BY <1>3
  <2>2. state \in ConfigStates
    BY PublicAssumption DEF ConfigStates
  <2> DEFINE config == NoConfig(state)
  <2>3. config \in ConfigCapture /\ ~config.truncated /\ Captured(p, config)
    BY <2>1, <2>2, NoDraftFits
  <2> HIDE DEF config
  <2> QED
    BY <1>1, <2>3, CapturedKeeps
<1> QED
  BY <1>2, <1>3 DEF WorkflowMetadata

LEMMA ContentsKeeps ==
    ASSUME PublicInv, NEW p \in PublicProcesses, Contents(p) PROVE StepKeeps(p)
<1>1. PICK config \in ConfigAnswers : Captured(p, config)
  BY DEF Contents
<1>2. config \in ConfigCapture /\ (config.truncated => ~config.exact)
  BY PublicAssumption
<1> QED
  BY <1>1, <1>2, CapturedKeeps DEF Contents, At

LEMMA ObserveKeeps ==
    ASSUME PublicInv, NEW p \in PublicProcesses, Observe(p) PROVE StepKeeps(p)
<1>1. CASE Validates(publicFile)
  <2> DEFINE i == public[p]
             of == { k \in DOMAIN publicFile.rows : /\ publicFile.rows[k].job # NoJob
                                                    /\ publicFile.rows[k].log = "captured" }
             todo == { <<key, publicFile.rows[key].job>> : key \in of }
             j == [i EXCEPT !.pc = "observed", !.todo = todo]
  <2>1. /\ i \in PublicProcess /\ PhaseFits(publicFile.schema, i) /\ IsPublicFile(publicFile)
        /\ SelectionFits(DOMAIN publicFile.rows, i) /\ i.pc = "observe"
    BY InvOf DEF Observe, At
  <2>2. public' = [public EXCEPT ![p] = j] /\ UNCHANGED <<publicFile, publicStarted>>
    BY <1>1 DEF Observe
  <2>3. todo \in SUBSET Observation
    <3> SUFFICES ASSUME NEW key \in of PROVE <<key, publicFile.rows[key].job>> \in Observation
      OBVIOUS
    <3>1. key \in PublicKeys /\ publicFile.rows[key] \in PublicRow /\ publicFile.rows[key].job # NoJob
      BY <2>1 DEF IsPublicFile
    <3>2. publicFile.rows[key].job \in JobIds
      BY <3>1, PublicRowFields
    <3> QED
      BY <3>1, <3>2 DEF Observation
  <2> HIDE DEF i, todo, of
  <2>4. /\ j \in PublicProcess /\ j.pc = "observed" /\ j.mode = i.mode /\ j.runs = i.runs
        /\ j.key = i.key /\ j.draft = i.draft /\ j.op = i.op /\ j.limited = i.limited
        /\ j.partial = i.partial /\ j.selected = i.selected /\ j.result = i.result
    BY <2>1, <2>3 DEF PublicProcess
  <2> HIDE DEF j
  <2>5. PhaseFits(publicFile.schema, j)
    BY <2>1, <2>4 DEF PhaseFits, Writing, Requests
  <2>6. SelectionFits(DOMAIN publicFile.rows, j)
    BY <2>1, <2>4 DEF SelectionFits, Writing, Capturing, InHand, ToCome
  <2> QED
    BY <2>2, <2>4, <2>5, <2>6, PublicThinks DEF ProcessFits
<1>2. CASE ~Validates(publicFile)
  BY <1>2, PublicEnds DEF Observe
<1> QED
  BY <1>1, <1>2

LEMMA NextObservationKeeps ==
    ASSUME PublicInv, NEW p \in PublicProcesses, NextObservation(p) PROVE StepKeeps(p)
<1> DEFINE i == public[p]
<1>1. /\ i \in PublicProcess /\ PhaseFits(publicFile.schema, i)
      /\ SelectionFits(DOMAIN publicFile.rows, i) /\ i.pc = "observed"
      /\ i.draft \in Draft /\ i.todo \in SUBSET Observation
  BY ZenonT(60), InvOf, ProcessFields DEF NextObservation, At
<1>2. UNCHANGED <<publicFile, publicStarted>>
  BY DEF NextObservation
<1>3. CASE i.todo = {}
  BY <1>2, <1>3, PublicEnds DEF NextObservation
<1>4. CASE i.todo # {}
  <2>1. PICK seen \in i.todo, class \in Verdicts :
           public' = [public EXCEPT
                 ![p].todo = @ \ {seen}, ![p].key = seen[1], ![p].draft.job = seen[2],
                 ![p].draft.class = class, ![p].pc = "open", ![p].op = "classify"]
    BY <1>4 DEF NextObservation
  <2> DEFINE todo == i.todo \ {seen}
             key == seen[1]
             job == seen[2]
             d == [i.draft EXCEPT !.job = job, !.class = class]
             j == [i EXCEPT !.todo = todo, !.key = key, !.draft = d, !.pc = "open",
                            !.op = "classify"]
  <2>2. public' = [public EXCEPT ![p] = j]
    <3>1. public' = [public EXCEPT
                 ![p].todo = todo, ![p].key = key, ![p].draft.job = job,
                 ![p].draft.class = class, ![p].pc = "open", ![p].op = "classify"]
      BY <2>1
    <3> HIDE DEF todo, key, job
    <3> QED
      BY <3>1, ZenonT(240)
  <2> HIDE DEF i
  <2>3. todo \in SUBSET Observation /\ key \in PublicKeys /\ job \in JobIds
    BY <1>1 DEF Observation
  <2>4. d \in Draft
    <3> DEFINE e == i.draft
               f == [e EXCEPT !.job = job, !.class = class]
    <3>1. e \in Draft /\ job \in JobIds \cup {NoJob} /\ class \in ClassificationStates
      BY <1>1, <2>3, PublicAssumption DEF ClassificationStates
    <3> HIDE DEF e, job
    <3>2. f \in Draft
      BY <3>1 DEF Draft
    <3> QED
      BY <3>2 DEF e
  <2> HIDE DEF todo, key, job, d
  <2>5. /\ j \in PublicProcess /\ j.pc = "open" /\ j.mode = i.mode /\ j.runs = i.runs
        /\ j.key = key /\ j.draft = d /\ j.op = "classify" /\ j.limited = i.limited
        /\ j.partial = i.partial /\ j.selected = i.selected /\ j.result = i.result
    BY <1>1, <2>3, <2>4 DEF PublicProcess
  <2> HIDE DEF j
  <2>6. i.mode = "reevaluate"
    BY <1>1 DEF PhaseFits
  <2>7. PhaseFits(publicFile.schema, j)
    BY <1>1, <2>5, <2>6 DEF PhaseFits, Writing, Requests
  <2>8. SelectionFits(DOMAIN publicFile.rows, j)
    BY <1>1, <2>5, <2>6 DEF SelectionFits, Writing
  <2> QED
    BY <1>2, <2>2, <2>5, <2>7, <2>8, PublicThinks DEF ProcessFits
<1> QED
  BY SMTT(60), <1>3, <1>4

-----------------------------------------------------------------------------
(* The theorems.                                                             *)

LEMMA PublicStepKeeps ==
    ASSUME PublicInv, NEW p \in PublicProcesses, PublicStep(p) PROVE StepKeeps(p)
  BY StartHarvestKeeps, StartReevaluationKeeps, OpenToWriteKeeps, ConnectKeeps, ScriptKeeps,
     CommitInitializeKeeps, CommitRunKeeps, CommitClassificationKeeps, EndingsKeep,
     NextRepositoryKeeps, VerifiedKeeps, RepositoryFailedKeeps, ListPageKeeps, NextRunKeeps,
     FailedJobKeeps, NoFailedJobKeeps, FullJobPageKeeps, JobLogKeeps, WorkflowPathKeeps,
     WorkflowMetadataKeeps, ContentsKeeps, ObserveKeeps, NextObservationKeeps DEF PublicStep

LEMMA PublicNextKeeps == PublicInv /\ [PublicNext]_publicVars => PublicInv'
<1> SUFFICES ASSUME PublicInv, [PublicNext]_publicVars PROVE PublicInv'
  OBVIOUS
<1>1. CASE PublicNext
  BY <1>1, PublicStepKeeps DEF PublicNext, StepKeeps
<1>2. CASE UNCHANGED publicVars
  BY <1>2 DEF PublicInv, PublicTypeOK, publicVars
<1> QED
  BY <1>1, <1>2

\* The inductive invariant holds of every behaviour of the harvests and of the
\* reevaluations, whatever they do to the file between one's validation and its
\* transaction (public_corpus.py, PublicCorpus._connection).
THEOREM PublicInvariant == PublicSpec => []PublicInv
  BY PublicInitKeeps, PublicNextKeeps, PTL DEF PublicSpec

\* The store and the processes keep their types.
THEOREM PublicTypeCorrect == PublicSpec => []PublicTypeOK
<1>1. PublicInv => PublicTypeOK
  BY DEF PublicInv
<1> QED
  BY <1>1, PublicInvariant, PTL

\* No migration, capture or later write claims that a configuration is the
\* unmodified text when it was cut or redacted (record_run, _migrate).
THEOREM PublicProvenance == PublicSpec => []ProvenanceHonest
<1>1. PublicInv => ProvenanceHonest
  BY DEF PublicInv, StoreFits, ProvenanceHonest
<1> QED
  BY <1>1, PublicInvariant, PTL

\* Every run that a harvest has selected is retained when it reports "complete",
\* although others write the same file and although each write may be refused
\* (_PublicHarvester.collect_repository).
THEOREM CompleteHarvestsRetain == PublicSpec => []CompleteMeansRetained
<1>1. PublicInv => CompleteMeansRetained
  BY DEF PublicInv, ProcessFits, SelectionFits, CompleteMeansRetained
<1> QED
  BY <1>1, PublicInvariant, PTL

\* No step takes a retained run out of the store: a full store refuses.
THEOREM NoRunIsForgotten == PublicSpec => NothingForgotten
<1>1. PublicInv /\ [PublicNext]_publicVars =>
        [DOMAIN publicFile.rows \subseteq DOMAIN publicFile'.rows]_publicVars
  <2> SUFFICES ASSUME PublicInv, PublicNext
               PROVE  DOMAIN publicFile.rows \subseteq DOMAIN publicFile'.rows
    OBVIOUS
  <2> QED
    BY PublicStepKeeps DEF PublicNext, StepKeeps
<1> QED
  BY <1>1, PublicInvariant, PTL DEF PublicSpec, NothingForgotten

\* A harvest that has met a rate limit writes nothing any more.
THEOREM LimitedHarvestsWriteNothing == PublicSpec => LimitsAreNotObservations
<1>1. PublicInv /\ [PublicNext]_publicVars =>
        [\A p \in PublicProcesses :
           public[p].limited /\ public'[p] # public[p] => publicFile' = publicFile]_publicVars
  <2> SUFFICES ASSUME PublicInv, PublicNext, NEW p \in PublicProcesses,
                      public[p].limited, public'[p] # public[p]
               PROVE  publicFile' = publicFile
    OBVIOUS
  <2>1. PICK q \in PublicProcesses : StepKeeps(q)
    BY PublicStepKeeps DEF PublicNext
  <2> QED
    BY <2>1 DEF StepKeeps
<1> QED
  BY <1>1, PublicInvariant, PTL DEF PublicSpec, LimitsAreNotObservations

\* No reevaluation of the store is under way.
OnlyHarvests == \A p \in PublicProcesses : public[p].mode = "harvest"

\* Any number of harvests, with every interleaving of their opens, migrations and
\* transactions, leave a store that _validate accepts.  The condition is needed: a
\* reevaluation may write the class of a log to a job recorded again without one.
THEOREM HarvestsKeepTheStoreValid ==
    PublicSpec /\ []OnlyHarvests => []PublicStoreValidates
<1> DEFINE Inv == PublicInv /\ ClassesFit(publicFile)
<1>1. PublicInit => Inv
  BY PublicInitKeeps
<1>2. Inv /\ OnlyHarvests /\ [PublicNext]_publicVars => Inv'
  <2> SUFFICES ASSUME Inv, OnlyHarvests, [PublicNext]_publicVars PROVE Inv'
    OBVIOUS
  <2>1. CASE PublicNext
    <3>1. PICK p \in PublicProcesses : StepKeeps(p)
      BY <2>1, PublicStepKeeps DEF PublicNext
    <3> QED
      BY <3>1 DEF StepKeeps, OnlyHarvests
  <2>2. CASE UNCHANGED publicVars
    BY <2>2 DEF PublicInv, PublicTypeOK, publicVars
  <2> QED
    BY <2>1, <2>2
<1>3. Inv => PublicStoreValidates
  BY StoreByParts DEF PublicInv, PublicStoreValidates
<1> HIDE DEF Inv
<1> QED
  BY <1>1, <1>2, <1>3, PTL DEF PublicSpec

-----------------------------------------------------------------------------
(* Reevaluations beside harvests.                                            *)

\* A reevaluation will classify the log of a job it has listed; the class in hand is
\* that of a log.
Classifying(i) == i.pc \in Writing /\ i.op = "classify"
Listed(i) == i.todo \cup (IF Classifying(i) THEN {<<i.key, i.draft.job>>} ELSE {})

\* What a harvest has in hand is not retained yet; what a reevaluation has listed is,
\* and if the run still has that job, it has its log.
RunsFit(rows, i) ==
    /\ InHand(i) \cap DOMAIN rows = {}
    /\ \A seen \in Listed(i) :
         seen[1] \in DOMAIN rows /\ (rows[seen[1]].job = seen[2] => rows[seen[1]].log = "captured")
    /\ Classifying(i) => i.draft.class \in {"classified", "unknown", "analysis_error"}

RunsInv == /\ \A p \in PublicProcesses : RunsFit(publicFile.rows, public[p])
           /\ ClassesFit(publicFile)

\* No two harvests have the same run in hand.
DistinctRuns == \A p, q \in PublicProcesses :
    p # q => InHand(public[p]) \cap InHand(public[q]) = {}

\* A write that takes no run, job or log away.
LogsStay(rows, rows2) ==
    /\ DOMAIN rows \subseteq DOMAIN rows2
    /\ \A key \in DOMAIN rows : rows2[key].job = rows[key].job /\ rows2[key].log = rows[key].log

\* A step of a process that neither takes a run in hand nor lists a job.
Quiet(i, j) ==
    /\ InHand(j) \subseteq InHand(i) /\ Listed(j) \subseteq Listed(i)
    /\ Classifying(j) => Classifying(i) /\ j.draft.class = i.draft.class
\* A process that is under way stays what it is until it ends.
Stays(i, j) == IF j.pc = "ended" THEN j.mode = "harvest" ELSE i.pc # "ended" /\ j.mode = i.mode

LEMMA RunsFitOnward ==
    ASSUME NEW rows, NEW rows2, LogsStay(rows, rows2), NEW i, NEW j, RunsFit(rows, i), Quiet(i, j),
           InHand(i) \cap DOMAIN rows2 = {}
    PROVE  RunsFit(rows2, j)
  BY DEF RunsFit, Quiet, LogsStay

LEMMA EndedIsQuiet ==
    ASSUME NEW p \in PublicProcesses, PublicInv, NEW i,
           NEW result \in {"partial", "complete", "rate_limited", "error", "reevaluated"},
           End(p, result)
    PROVE  Quiet(i, public'[p]) /\ Stays(i, public'[p])
<1> DEFINE selected == IF result = "complete" THEN public[p].selected ELSE {}
           e == Ended(result)
           j == [e EXCEPT !.selected = selected]
<1>1. result \in {"not started", "running", "complete", "partial", "rate_limited", "error",
                  "reevaluated"}
  OBVIOUS
<1>2. e \in PublicProcess /\ e.pc = "ended" /\ e.mode = "harvest" /\ e.todo = {}
  BY ZenonT(60), <1>1, EndedFields
<1>3. public' = [public EXCEPT ![p] = j] /\ public \in [PublicProcesses -> PublicProcess]
  BY DEF End, PublicInv, PublicTypeOK
<1> HIDE DEF selected, e
<1>4. j.pc = "ended" /\ j.mode = "harvest" /\ j.todo = {}
  BY <1>2 DEF PublicProcess
<1> HIDE DEF j
<1>5. public'[p] = j
  BY <1>3
<1> QED
  BY <1>4, <1>5 DEF Quiet, Stays, InHand, Listed, Classifying, Writing, Capturing

\* The steps of a harvest in a run, from one capture to the next and to its record.
LEMMA CaptureIsQuiet ==
    ASSUME NEW i, NEW j, i.pc \in Capturing, j.key = i.key, j.todo = i.todo, j.mode = i.mode,
           j.pc \in Capturing \/ (j.pc = "open" /\ j.op = "record")
    PROVE  Quiet(i, j) /\ Stays(i, j)
  BY DEF Quiet, Stays, InHand, Listed, Classifying, Writing, Capturing

LEMMA WritingIsQuiet ==
    ASSUME NEW i, NEW j, i.pc \in Writing, j.pc \in Writing, j.key = i.key, j.todo = i.todo,
           j.mode = i.mode, j.op = i.op, j.draft = i.draft
    PROVE  Quiet(i, j) /\ Stays(i, j)
  BY DEF Quiet, Stays, InHand, Listed, Classifying, Writing, Capturing

LEMMA RestIsQuiet ==
    ASSUME NEW i, NEW j, i.pc # "ended", j.pc \notin Writing \cup Capturing \cup {"ended"}, j.todo = i.todo,
           j.mode = i.mode
    PROVE  Quiet(i, j) /\ Stays(i, j)
  BY DEF Quiet, Stays, InHand, Listed, Classifying, Writing, Capturing

LEMMA MigrationKeepsLogs ==
    ASSUME NEW file, StoreFits(file)
    PROVE  LogsStay(file.rows, Migrated(file).rows) /\ DOMAIN Migrated(file).rows = DOMAIN file.rows
<1>1. CASE file.schema = "v1"
  <2>1. \A key \in DOMAIN file.rows :
           /\ [file.rows[key] EXCEPT !.modified = "yes"].job = file.rows[key].job
           /\ [file.rows[key] EXCEPT !.modified = "yes"].log = file.rows[key].log
    <3> SUFFICES ASSUME NEW key \in DOMAIN file.rows
                 PROVE /\ [file.rows[key] EXCEPT !.modified = "yes"].job = file.rows[key].job
                       /\ [file.rows[key] EXCEPT !.modified = "yes"].log = file.rows[key].log
      OBVIOUS
    <3>1. file.rows[key] \in PublicRow
      BY DEF StoreFits, IsPublicFile
    <3> QED
      BY <3>1 DEF PublicRow
  <2> QED
    BY <1>1, <2>1 DEF Migrated, LogsStay
<1>2. CASE file.schema # "v1"
  BY <1>2 DEF Migrated, LogsStay
<1> QED
  BY <1>1, <1>2

\* What a process of the invariant is, and the value it changes to.
LEMMA ProcessOf ==
    ASSUME PublicInv, NEW p \in PublicProcesses
    PROVE  public[p] \in PublicProcess /\ public \in [PublicProcesses -> PublicProcess]
  BY InvOf DEF PublicInv, PublicTypeOK

LEMMA OpenIsQuiet ==
    ASSUME PublicInv, NEW p \in PublicProcesses, OpenToWrite(p) \/ Connect(p) \/ Script(p)
    PROVE  Quiet(public[p], public'[p]) /\ Stays(public[p], public'[p])
<1>1. public[p].pc \in {"open", "connect", "script"}
  BY DEF OpenToWrite, Connect, Script, At
<1>2. CASE End(p, "error")
  BY <1>2, EndedIsQuiet
<1>3. CASE \E pc \in {"connect", "script", "transaction"} : public' = [public EXCEPT ![p].pc = pc]
  <2>1. PICK pc \in {"connect", "script", "transaction"} : public' = [public EXCEPT ![p].pc = pc]
    BY <1>3
  <2> DEFINE i == public[p]
             j == public'[p]
  <2>2. i \in PublicProcess /\ j = [i EXCEPT !.pc = pc] /\ i.pc \in Writing
    BY <1>1, <2>1, ProcessOf DEF Writing
  <2>3. pc \in ProcessPhases /\ pc \in Writing
    BY DEF ProcessPhases, Writing
  <2> HIDE DEF i, j
  <2>4. /\ j.pc = pc /\ j.mode = i.mode /\ j.todo = i.todo /\ j.key = i.key /\ j.draft = i.draft
        /\ j.op = i.op
    BY <2>2, <2>3, PhaseChange
  <2>5. Quiet(i, j) /\ Stays(i, j)
    BY <2>2, <2>3, <2>4, WritingIsQuiet
  <2> QED
    BY <2>5 DEF i, j
<1> QED
  BY <1>2, <1>3 DEF OpenToWrite, Connect, Script

LEMMA InitializedIsQuiet ==
    ASSUME PublicInv, NEW p \in PublicProcesses, CommitInitialize(p) \/ Verified(p)
    PROVE  Quiet(public[p], public'[p]) /\ Stays(public[p], public'[p])
<1>1. PICK pc \in {"repository", "observe", "list"} : public' = [public EXCEPT ![p].pc = pc]
  BY DEF CommitInitialize, Verified
<1> DEFINE i == public[p]
           j == public'[p]
<1>2. i \in PublicProcess /\ j = [i EXCEPT !.pc = pc] /\ i.pc # "ended"
  BY <1>1, ProcessOf DEF CommitInitialize, Verified, At
<1>3. pc \in ProcessPhases /\ pc \notin Writing \cup Capturing \cup {"ended"}
  BY DEF ProcessPhases, Writing, Capturing, Requests
<1> HIDE DEF i, j
<1>4. j.pc = pc /\ j.mode = i.mode /\ j.todo = i.todo
  BY <1>2, <1>3, PhaseChange
<1>5. Quiet(i, j) /\ Stays(i, j)
  BY <1>2, <1>3, <1>4, RestIsQuiet
<1> QED
  BY <1>5 DEF i, j

LEMMA ListingIsQuiet ==
    ASSUME PublicInv, NEW p \in PublicProcesses, NextRepository(p) \/ RepositoryFailed(p) \/ ListPage(p)
    PROVE  Quiet(public[p], public'[p]) /\ Stays(public[p], public'[p])
<1> DEFINE i == public[p]
           j == public'[p]
<1>1. i \in PublicProcess /\ i.pc # "ended"
  BY ProcessOf DEF NextRepository, RepositoryFailed, ListPage, At
<1>2. CASE \E result \in {"error", "partial", "complete"} : End(p, result)
  BY <1>2, EndedIsQuiet
<1>3. CASE /\ j.pc \in {"verify", "repository", "runs", "list"}
           /\ j.todo = i.todo /\ j.mode = i.mode
  <2> HIDE DEF i, j
  <2>1. j.pc \notin Writing \cup Capturing \cup {"ended"}
    BY <1>3 DEF Writing, Capturing
  <2>2. Quiet(i, j) /\ Stays(i, j)
    BY <1>1, <1>3, <2>1, RestIsQuiet
  <2> QED
    BY <2>2 DEF i, j
<1>4. CASE NextRepository(p)
  <2>1. \/ \E result \in {"error", "partial", "complete"} : End(p, result)
        \/ \E repository \in i.plan :
              public' = [public EXCEPT ![p].plan = @ \ {repository}, ![p].pc = "verify",
                                       ![p].page = 1, ![p].key[1] = repository]
    BY <1>4 DEF NextRepository
  <2>2. ASSUME NEW repository \in i.plan,
               public' = [public EXCEPT ![p].plan = @ \ {repository}, ![p].pc = "verify",
                                        ![p].page = 1, ![p].key[1] = repository]
        PROVE  j.pc = "verify" /\ j.todo = i.todo /\ j.mode = i.mode
    <3> DEFINE plan == i.plan \ {repository}
               page == 1
               key == [i.key EXCEPT ![1] = repository]
               k == [i EXCEPT !.plan = plan, !.pc = "verify", !.page = page, !.key = key]
    <3>1. public' = [public EXCEPT ![p] = k]
      BY ZenonT(60), <2>2
    <3>2. j = k
      BY <3>1, ProcessOf
    <3> HIDE DEF i, plan, page, key
    <3>3. k.pc = "verify" /\ k.todo = i.todo /\ k.mode = i.mode
      BY <1>1 DEF PublicProcess
    <3> QED
      BY <3>2, <3>3
  <2> QED
    BY ZenonT(60), <1>2, <1>3, <2>1, <2>2
<1>5. CASE RepositoryFailed(p)
  BY <1>3, <1>5, ProcessOf DEF RepositoryFailed
<1>6. CASE ListPage(p)
  <2>1. PICK pc \in {"runs", "list"} : \E runs, selected :
           public' = [public EXCEPT ![p].runs = runs, ![p].selected = selected, ![p].page = 2,
                                    ![p].pc = pc]
    BY <1>6, ZenonT(60) DEF ListPage
  <2>2. PICK runs, selected :
           public' = [public EXCEPT ![p].runs = runs, ![p].selected = selected, ![p].page = 2,
                                    ![p].pc = pc]
    BY <2>1
  <2> DEFINE page == 2
             k == [i EXCEPT !.runs = runs, !.selected = selected, !.page = page, !.pc = pc]
  <2>3. j = k
    BY <2>2, ProcessOf
  <2> HIDE DEF i, page
  <2>4. k.pc = pc /\ k.todo = i.todo /\ k.mode = i.mode
    BY <1>1 DEF PublicProcess
  <2> HIDE DEF j, k
  <2> QED
    BY <1>3, <2>1, <2>3, <2>4
<1> QED
  BY <1>4, <1>5, <1>6

LEMMA CapturingIsQuiet ==
    ASSUME PublicInv, NEW p \in PublicProcesses,
           \/ FailedJob(p) \/ NoFailedJob(p) \/ FullJobPage(p) \/ JobLog(p)
           \/ WorkflowPath(p) \/ WorkflowMetadata(p) \/ Contents(p)
    PROVE  Quiet(public[p], public'[p]) /\ Stays(public[p], public'[p])
<1> DEFINE i == public[p]
           j == public'[p]
<1>1. i \in PublicProcess /\ i.pc \in Capturing
  BY ProcessOf DEF FailedJob, NoFailedJob, FullJobPage, JobLog, WorkflowPath, WorkflowMetadata,
                   Contents, Capturing, At
<1>2. CASE /\ j.pc \in Capturing \/ (j.pc = "open" /\ j.op = "record")
           /\ j.key = i.key /\ j.todo = i.todo /\ j.mode = i.mode
  <2> HIDE DEF i, j
  <2>1. Quiet(i, j) /\ Stays(i, j)
    BY <1>1, <1>2, CaptureIsQuiet
  <2> QED
    BY <2>1 DEF i, j
<1>3. CASE FailedJob(p)
  <2>1. PICK job : public' = [public EXCEPT ![p].draft.jobState = "captured", ![p].draft.job = job,
                                            ![p].pc = "log"]
    BY <1>3 DEF FailedJob
  <2> DEFINE d == [i.draft EXCEPT !.jobState = "captured", !.job = job]
             k == [i EXCEPT !.draft = d, !.pc = "log"]
  <2>2. public' = [public EXCEPT ![p] = k]
    BY <2>1
  <2>3. j = k
    BY <2>2, ProcessOf
  <2> HIDE DEF i, d
  <2>4. k.pc = "log" /\ k.key = i.key /\ k.todo = i.todo /\ k.mode = i.mode
    BY <1>1 DEF PublicProcess
  <2>5. j.pc \in Capturing /\ j.key = i.key /\ j.todo = i.todo /\ j.mode = i.mode
    BY <2>3, <2>4 DEF Capturing
  <2> QED
    BY SMTT(60), <1>2, <2>5
<1>4. CASE \E state : public' = [public EXCEPT ![p].draft.jobState = state, ![p].partial = TRUE,
                                               ![p].pc = "config"]
  <2>1. PICK state : public' = [public EXCEPT ![p].draft.jobState = state, ![p].partial = TRUE,
                                              ![p].pc = "config"]
    BY <1>4
  <2> DEFINE d == [i.draft EXCEPT !.jobState = state]
             partial == TRUE
             k == [i EXCEPT !.draft = d, !.partial = partial, !.pc = "config"]
  <2>2. public' = [public EXCEPT ![p] = k]
    BY <2>1
  <2>3. j = k
    BY <2>2, ProcessOf
  <2> HIDE DEF i, d
  <2>4. k.pc = "config" /\ k.key = i.key /\ k.todo = i.todo /\ k.mode = i.mode
    BY <1>1 DEF PublicProcess
  <2>5. j.pc \in Capturing /\ j.key = i.key /\ j.todo = i.todo /\ j.mode = i.mode
    BY <2>3, <2>4 DEF Capturing
  <2> QED
    BY <1>2, <2>5
<1>5. CASE public' = [public EXCEPT ![p].page = @ + 1]
  <2> DEFINE page == i.page + 1
             k == [i EXCEPT !.page = page]
  <2>1. j = k
    BY <1>5, ProcessOf
  <2> HIDE DEF i, page
  <2>2. k.pc = i.pc /\ k.key = i.key /\ k.todo = i.todo /\ k.mode = i.mode
    BY ZenonT(60), <1>1 DEF PublicProcess
  <2> HIDE DEF j, k
  <2> QED
    BY <1>1, <1>2, <2>1, <2>2
<1>6. CASE JobLog(p)
  <2>1. PICK state : public' = [public EXCEPT ![p].draft.log = state, ![p].pc = "config",
                                              ![p].partial = @ \/ state # "captured"]
    BY <1>6 DEF JobLog
  <2> DEFINE d == [i.draft EXCEPT !.log = state]
             partial == i.partial \/ state # "captured"
             k == [i EXCEPT !.draft = d, !.pc = "config", !.partial = partial]
  <2>2. public' = [public EXCEPT ![p] = k]
    BY <2>1
  <2>3. j = k
    BY <2>2, ProcessOf
  <2> HIDE DEF i, d, partial
  <2>4. k.pc = "config" /\ k.key = i.key /\ k.todo = i.todo /\ k.mode = i.mode
    BY <1>1 DEF PublicProcess
  <2>5. j.pc \in Capturing /\ j.key = i.key /\ j.todo = i.todo /\ j.mode = i.mode
    BY <2>3, <2>4 DEF Capturing
  <2> QED
    BY <1>2, <2>5
<1>7. CASE \E config : Captured(p, config)
  <2>1. PICK config, class : public' = [public EXCEPT
            ![p].draft.config = config, ![p].draft.class = class,
            ![p].pc = "open", ![p].op = "record",
            ![p].partial = @ \/ config.state # "captured" \/ config.truncated
                             \/ class = "analysis_error"]
    BY <1>7 DEF Captured
  <2> DEFINE d == [i.draft EXCEPT !.config = config, !.class = class]
             partial == i.partial \/ config.state # "captured" \/ config.truncated
                                  \/ class = "analysis_error"
             k == [i EXCEPT !.draft = d, !.pc = "open", !.op = "record", !.partial = partial]
  <2>2. public' = [public EXCEPT ![p] = k]
    <3>1. public' = [public EXCEPT ![p].draft.config = config, ![p].draft.class = class,
                                   ![p].pc = "open", ![p].op = "record", ![p].partial = partial]
      BY <2>1
    <3> HIDE DEF partial
    <3> QED
      BY <3>1, ZenonT(120)
  <2>3. j = k
    BY <2>2, ProcessOf
  <2> HIDE DEF i, d, partial
  <2>4. /\ k.pc = "open" /\ k.op = "record" /\ k.key = i.key /\ k.todo = i.todo
        /\ k.mode = i.mode
    BY <1>1 DEF PublicProcess
  <2> QED
    BY SMTT(60), <1>2, <2>3, <2>4
<1>8. CASE public' = [public EXCEPT ![p].pc = "contents"] \/ public' = [public EXCEPT ![p].pc = "workflow"]
  <2>1. PICK pc \in {"contents", "workflow"} : public' = [public EXCEPT ![p].pc = pc]
    BY <1>8
  <2>2. j = [i EXCEPT !.pc = pc] /\ pc \in ProcessPhases
    BY <2>1, ProcessOf DEF ProcessPhases, Requests
  <2> HIDE DEF i, j
  <2>3. j.pc = pc /\ j.key = i.key /\ j.todo = i.todo /\ j.mode = i.mode
    BY <1>1, <2>2, PhaseChange
  <2> QED
    BY <1>2, <2>3 DEF Capturing
<1> QED
  BY <1>3, <1>4, <1>5, <1>6, <1>7, <1>8
     DEF NoFailedJob, FullJobPage, WorkflowPath, WorkflowMetadata, Contents

\* A quiet step over a file that keeps its logs and gets no run.
LEMMA QuietGoes ==
    ASSUME PublicInv, RunsInv, NEW p \in PublicProcesses, PublicStep(p),
           Quiet(public[p], public'[p]), LogsStay(publicFile.rows, publicFile'.rows),
           DOMAIN publicFile'.rows = DOMAIN publicFile.rows, ClassesFit(publicFile')
    PROVE  RunsInv'
<1> SUFFICES ASSUME NEW q \in PublicProcesses PROVE RunsFit(publicFile'.rows, public'[q])
  BY DEF RunsInv
<1> DEFINE rows == publicFile.rows
           rows2 == publicFile'.rows
           i == public[q]
           j == public'[q]
<1>1. RunsFit(rows, i) /\ InHand(i) \cap DOMAIN rows2 = {} /\ LogsStay(rows, rows2)
  BY DEF RunsInv, RunsFit
<1>2. Quiet(i, j)
  <2>1. CASE q = p
    BY <2>1
  <2>2. CASE q # p
    <3>1. i = j
      BY <2>2, PublicStepKeeps DEF StepKeeps
    <3> HIDE DEF i, j
    <3> QED
      BY <3>1 DEF Quiet
  <2> QED
    BY <2>1, <2>2
<1> HIDE DEF rows, rows2, i, j
<1>3. RunsFit(rows2, j)
  BY <1>1, <1>2, RunsFitOnward
<1> QED
  BY <1>3 DEF rows2, j

\* The opens, migrations and schemas write no class.
LEMMA FileStays ==
    ASSUME PublicInv, ClassesFit(publicFile), NEW p \in PublicProcesses,
           \/ publicFile' = publicFile
           \/ Connect(p) \/ Script(p) \/ CommitInitialize(p)
    PROVE  /\ LogsStay(publicFile.rows, publicFile'.rows) /\ ClassesFit(publicFile')
           /\ DOMAIN publicFile'.rows = DOMAIN publicFile.rows
<1>1. StoreFits(publicFile) /\ publicFile = [schema |-> publicFile.schema, rows |-> publicFile.rows]
  BY InvOf
<1>2. CASE publicFile'.rows = publicFile.rows
  BY <1>2 DEF LogsStay, ClassesFit
<1>3. CASE Connect(p) \/ Script(p)
  <2>1. \/ publicFile' = publicFile
        \/ \E schema : publicFile' = [publicFile EXCEPT !.schema = schema]
    BY <1>3 DEF Connect, Script
  <2>2. publicFile'.rows = publicFile.rows
    BY <1>1, <2>1
  <2> QED
    BY <1>2, <2>2
<1>4. CASE CommitInitialize(p)
  <2>1. publicFile' = Migrated(publicFile) /\ public[p].pc = "transaction"
    BY <1>4 DEF CommitInitialize, At
  <2>2. publicFile.schema \in {"v1", "v2"}
    BY <2>1, InvOf DEF PhaseFits
  <2> QED
    BY <1>1, <2>1, <2>2, MigrationKeepsLogs, MigratedFits
<1> QED
  BY <1>2, <1>3, <1>4

LEMMA StartIsQuiet ==
    ASSUME PublicInv, NEW p \in PublicProcesses,
           StartReevaluation(p) \/ \E plan \in Plans : StartHarvest(p, plan)
    PROVE  Quiet(public[p], public'[p])
<1> DEFINE i == Ended("running")
           j == public'[p]
<1>1. i \in PublicProcess /\ i.todo = {} /\ i.op = "initialize"
  BY ZenonT(60), EndedFields
<1>2. PICK plan, mode : public' = [public EXCEPT ![p] = [i EXCEPT !.pc = "open", !.plan = plan]]
                        \/ public' = [public EXCEPT ![p] = [i EXCEPT !.pc = "open", !.mode = mode]]
  BY DEF StartReevaluation, StartHarvest
<1>3. j = [i EXCEPT !.pc = "open", !.plan = plan] \/ j = [i EXCEPT !.pc = "open", !.mode = mode]
  BY <1>2, ProcessOf
<1> HIDE DEF i, j
<1>4. j.pc = "open" /\ j.todo = {} /\ j.op = "initialize"
  BY ZenonT(60), <1>1, <1>3 DEF PublicProcess
<1> QED
  BY <1>4 DEF j, Quiet, InHand, Listed, Classifying, Writing, Capturing

\* A run that is not retained is taken in hand.
LEMMA NextRunGoes ==
    ASSUME PublicInv, RunsInv, NEW p \in PublicProcesses, NextRun(p)
    PROVE  RunsFit(publicFile.rows, public'[p]) /\ Stays(public[p], public'[p])
<1> DEFINE i == public[p]
           j == public'[p]
           rows == publicFile.rows
<1>1. i \in PublicProcess /\ i.pc = "runs" /\ RunsFit(rows, i)
  BY ProcessOf DEF NextRun, At, RunsInv
<1>2. CASE End(p, "error")
  <2>1. Quiet(i, j) /\ Stays(i, j) /\ InHand(i) \cap DOMAIN rows = {} /\ LogsStay(rows, rows)
    BY <1>1, <1>2, EndedIsQuiet DEF RunsFit, LogsStay
  <2> HIDE DEF i, j, rows
  <2>2. RunsFit(rows, j)
    BY <1>1, <2>1, RunsFitOnward
  <2> QED
    BY <2>1, <2>2 DEF i, j, rows
<1>3. CASE /\ j.pc \in {"repository", "runs", "job"} /\ (j.pc = "job" => j.key \notin DOMAIN rows)
           /\ j.mode = i.mode /\ j.todo = i.todo
  <2> HIDE DEF i, j, rows
  <2>1. RunsFit(rows, j) /\ Stays(i, j)
    BY <1>1, <1>3 DEF RunsFit, Stays, InHand, Listed, Classifying, Writing, Capturing
  <2> QED
    BY <2>1 DEF i, j, rows
<1>4. CASE public' = [public EXCEPT ![p].pc = "repository", ![p].key[2] = NoKey[2]]
  <2> DEFINE key == [i.key EXCEPT ![2] = NoKey[2]]
             k == [i EXCEPT !.pc = "repository", !.key = key]
  <2>1. public' = [public EXCEPT ![p] = k]
    BY <1>4
  <2>2. j = k
    BY <2>1, ProcessOf
  <2> HIDE DEF i, key
  <2>3. k.pc = "repository" /\ k.mode = i.mode /\ k.todo = i.todo
    BY <1>1 DEF PublicProcess
  <2>4. j.pc = "repository" /\ j.mode = i.mode /\ j.todo = i.todo
    BY <2>2, <2>3
  <2> QED
    BY <1>3, <2>4
<1>5. CASE \E run \in i.runs :
              LET key == <<i.key[1], run>> IN
              public' = [public EXCEPT
                 ![p].runs = @ \ {run}, ![p].key = key, ![p].page = 1, ![p].draft = NoDraft,
                 ![p].pc = IF HasRun(rows, key) THEN "runs" ELSE "job"]
  <2>1. PICK run \in i.runs :
              LET key == <<i.key[1], run>> IN
              public' = [public EXCEPT
                 ![p].runs = @ \ {run}, ![p].key = key, ![p].page = 1, ![p].draft = NoDraft,
                 ![p].pc = IF HasRun(rows, key) THEN "runs" ELSE "job"]
    BY <1>5
  <2> DEFINE key == <<i.key[1], run>>
             runs == i.runs \ {run}
             page == 1
             draft == NoDraft
             pc == IF HasRun(rows, key) THEN "runs" ELSE "job"
             k == [i EXCEPT !.runs = runs, !.key = key, !.page = page, !.draft = draft, !.pc = pc]
  <2>2. j = k
    BY <2>1, ProcessOf
  <2>3. pc \in {"runs", "job"} /\ (pc = "job" => key \notin DOMAIN rows)
    BY DEF HasRun
  <2> HIDE DEF i, key, runs, page, draft, pc, rows
  <2>4. k.pc = pc /\ k.key = key /\ k.mode = i.mode /\ k.todo = i.todo
    BY <1>1 DEF PublicProcess
  <2>5. j.pc = pc /\ j.key = key /\ j.mode = i.mode /\ j.todo = i.todo
    BY <2>2, <2>4
  <2> QED
    BY SMTT(60), <1>3, <2>3, <2>5
<1> QED
  BY <1>2, <1>4, <1>5 DEF NextRun

\* A run that was in hand is retained; nobody else had it in hand, or had listed it.
LEMMA CommitRunGoes ==
    ASSUME PublicInv, RunsInv, DistinctRuns, NEW p \in PublicProcesses, CommitRun(p)
    PROVE  RunsInv' /\ Stays(public[p], public'[p])
<1> DEFINE i == public[p]
           j == public'[p]
           rows == publicFile.rows
           rows2 == publicFile'.rows
           file == Migrated(publicFile)
<1>1. /\ i \in PublicProcess /\ i.pc = "transaction" /\ i.op = "record" /\ RunsFit(rows, i)
      /\ PhaseFits(publicFile.schema, i) /\ i.mode = "harvest"
  <2>1. /\ i \in PublicProcess /\ i.pc = "transaction" /\ i.op = "record" /\ RunsFit(rows, i)
        /\ PhaseFits(publicFile.schema, i)
    BY InvOf DEF CommitRun, At, RunsInv
  <2>2. i.mode \in {"harvest", "reevaluate"}
    BY <2>1, ProcessFields
  <2> HIDE DEF i
  <2> QED
    BY <2>1, <2>2 DEF PhaseFits
<1>2. ClassesFit(publicFile')
  BY <1>1, CommitRunKeeps DEF StepKeeps, RunsInv
<1>3. CASE End(p, "error") /\ publicFile' = publicFile
  <2>1. Quiet(i, j) /\ Stays(i, j)
    BY <1>3, EndedIsQuiet
  <2>2. LogsStay(rows, rows2) /\ DOMAIN rows2 = DOMAIN rows
    BY <1>3 DEF LogsStay
  <2>3. PublicStep(p)
    BY DEF PublicStep
  <2> QED
    BY <1>2, <2>1, <2>2, <2>3, QuietGoes
<1>4. CASE /\ publicFile' = [file EXCEPT !.rows = Upserted(@, i.key, Row(i.draft))]
           /\ public' = [public EXCEPT ![p].pc = "runs", ![p].draft = NoDraft]
  <2>1. /\ LogsStay(rows, file.rows) /\ DOMAIN file.rows = DOMAIN rows
        /\ file = [schema |-> file.schema, rows |-> file.rows]
    <3>1. StoreFits(publicFile) /\ publicFile.schema \in {"v1", "v2"}
      BY <1>1, InvOf DEF PhaseFits
    <3> QED
      BY <3>1, MigrationKeepsLogs, MigratedFits DEF StoreFits, IsPublicFile
  <2>2. rows2 = Upserted(file.rows, i.key, Row(i.draft))
    BY <1>4, <2>1
  <2>3. InHand(i) = {i.key} /\ i.key \notin DOMAIN rows
    BY <1>1 DEF InHand, Writing, RunsFit
  <2>4. LogsStay(rows, rows2) /\ DOMAIN rows2 = DOMAIN rows \cup {i.key}
    <3> HIDE DEF i, rows, rows2, file
    <3> QED
      BY <2>1, <2>2, <2>3 DEF LogsStay, Upserted
  <2>5. RunsFit(rows2, j) /\ Stays(i, j)
    <3> DEFINE draft == NoDraft
               k == [i EXCEPT !.pc = "runs", !.draft = draft]
    <3>1. j = k
      BY <1>4, ProcessOf
    <3> HIDE DEF i, draft
    <3>2. k.pc = "runs" /\ k.mode = i.mode /\ k.todo = i.todo
      BY <1>1 DEF PublicProcess
    <3>3. j.pc = "runs" /\ j.mode = i.mode /\ j.todo = i.todo
      BY <3>1, <3>2
    <3>4. InHand(j) = {} /\ ~Classifying(j) /\ Listed(j) \subseteq Listed(i)
      BY <3>3 DEF InHand, Classifying, Listed, Writing, Capturing
    <3> HIDE DEF j, rows, rows2
    <3> QED
      BY <1>1, <2>4, <3>3, <3>4 DEF RunsFit, LogsStay, Stays
  <2>6. ASSUME NEW q \in PublicProcesses, q # p PROVE RunsFit(rows2, public'[q])
    <3> DEFINE o == public[q]
    <3>1. public'[q] = o
      BY <2>6, CommitRunKeeps DEF StepKeeps
    <3>2. RunsFit(rows, o) /\ InHand(o) \cap DOMAIN rows2 = {}
      BY <2>3, <2>4, <2>6 DEF RunsInv, RunsFit, DistinctRuns
    <3> HIDE DEF o, rows, rows2
    <3>3. Quiet(o, o)
      BY DEF Quiet
    <3>4. RunsFit(rows2, o)
      BY <2>4, <3>2, <3>3, RunsFitOnward
    <3> QED
      BY <3>1, <3>4
  <2> QED
    BY <1>2, <2>5, <2>6 DEF RunsInv
<1> QED
  BY <1>3, <1>4 DEF CommitRun

\* Only logs are listed.
LEMMA ObserveGoes ==
    ASSUME PublicInv, RunsInv, NEW p \in PublicProcesses, Observe(p)
    PROVE  RunsFit(publicFile.rows, public'[p]) /\ Stays(public[p], public'[p])
<1> DEFINE i == public[p]
           j == public'[p]
           rows == publicFile.rows
<1>1. i \in PublicProcess /\ i.pc = "observe" /\ RunsFit(rows, i)
  BY ProcessOf DEF Observe, At, RunsInv
<1>2. CASE End(p, "error")
  <2>1. Quiet(i, j) /\ Stays(i, j) /\ InHand(i) \cap DOMAIN rows = {} /\ LogsStay(rows, rows)
    BY <1>1, <1>2, EndedIsQuiet DEF RunsFit, LogsStay
  <2> HIDE DEF i, j, rows
  <2>2. RunsFit(rows, j)
    BY <1>1, <2>1, RunsFitOnward
  <2> QED
    BY <2>1, <2>2 DEF i, j, rows
<1>3. CASE Validates(publicFile)
  <2> DEFINE of == { k \in DOMAIN rows : rows[k].job # NoJob /\ rows[k].log = "captured" }
             todo == { <<key, rows[key].job>> : key \in of }
             k == [i EXCEPT !.pc = "observed", !.todo = todo]
  <2>1. public' = [public EXCEPT ![p].pc = "observed", ![p].todo = todo]
    BY <1>3 DEF Observe
  <2>2. \A seen \in todo : seen[1] \in DOMAIN rows /\ rows[seen[1]].log = "captured"
    OBVIOUS
  <2> HIDE DEF todo
  <2>3. j = k
    BY <2>1, ProcessOf
  <2> HIDE DEF i, rows
  <2>4. k.pc = "observed" /\ k.mode = i.mode /\ k.todo = todo
    BY <1>1 DEF PublicProcess
  <2>5. j.pc = "observed" /\ j.mode = i.mode /\ j.todo = todo
    BY <2>3, <2>4
  <2> HIDE DEF j
  <2>6. RunsFit(rows, j) /\ Stays(i, j)
    BY <1>1, <2>2, <2>5 DEF RunsFit, Stays, InHand, Listed, Classifying, Writing, Capturing
  <2> QED
    BY <2>6 DEF i, j, rows
<1> QED
  BY <1>2, <1>3 DEF Observe

LEMMA NextObservationGoes ==
    ASSUME PublicInv, RunsInv, NEW p \in PublicProcesses, NextObservation(p)
    PROVE  RunsFit(publicFile.rows, public'[p]) /\ Stays(public[p], public'[p])
<1> DEFINE i == public[p]
           j == public'[p]
           rows == publicFile.rows
<1>1. /\ i \in PublicProcess /\ i.draft \in Draft /\ i.pc = "observed" /\ RunsFit(rows, i)
      /\ i.todo \in SUBSET Observation
  BY ProcessOf, ProcessFields DEF NextObservation, At, RunsInv
<1>2. CASE End(p, "reevaluated")
  <2>1. Quiet(i, j) /\ Stays(i, j) /\ InHand(i) \cap DOMAIN rows = {} /\ LogsStay(rows, rows)
    BY <1>1, <1>2, EndedIsQuiet DEF RunsFit, LogsStay
  <2> HIDE DEF i, j, rows
  <2>2. RunsFit(rows, j)
    BY <1>1, <2>1, RunsFitOnward
  <2> QED
    BY <2>1, <2>2 DEF i, j, rows
<1>3. CASE i.todo # {}
  <2>1. PICK seen \in i.todo, class \in Verdicts :
           public' = [public EXCEPT
                 ![p].todo = @ \ {seen}, ![p].key = seen[1], ![p].draft.job = seen[2],
                 ![p].draft.class = class, ![p].pc = "open", ![p].op = "classify"]
    BY <1>3 DEF NextObservation
  <2> DEFINE todo == i.todo \ {seen}
             key == seen[1]
             job == seen[2]
             d == [i.draft EXCEPT !.job = job, !.class = class]
             k == [i EXCEPT !.todo = todo, !.key = key, !.draft = d, !.pc = "open",
                            !.op = "classify"]
  <2>2. public' = [public EXCEPT ![p] = k]
    <3>1. public' = [public EXCEPT
                 ![p].todo = todo, ![p].key = key, ![p].draft.job = job,
                 ![p].draft.class = class, ![p].pc = "open", ![p].op = "classify"]
      BY <2>1
    <3> HIDE DEF todo, key, job
    <3> QED
      BY <3>1, ZenonT(240)
  <2>3. j = k
    BY <2>2, ProcessOf
  <2>4. todo \subseteq i.todo /\ <<key, job>> \in i.todo
        /\ class \in {"classified", "unknown", "analysis_error"}
    BY <1>1, PublicAssumption DEF Observation
  <2>5. d.job = job /\ d.class = class
    <3> HIDE DEF i, job
    <3> QED
      BY <1>1 DEF Draft
  <2> HIDE DEF i, todo, key, job, d, rows
  <2>6. /\ k.pc = "open" /\ k.mode = i.mode /\ k.todo = todo /\ k.op = "classify" /\ k.key = key
        /\ k.draft = d
    BY <1>1 DEF PublicProcess
  <2>7. /\ j.pc = "open" /\ j.mode = i.mode /\ j.todo = todo /\ j.op = "classify" /\ j.key = key
        /\ j.draft = d
    BY <2>3, <2>6
  <2> HIDE DEF j, k
  <2>8. InHand(j) = {} /\ Listed(j) \subseteq Listed(i) /\ Stays(i, j)
    BY <1>1, <2>4, <2>5, <2>7 DEF InHand, Listed, Stays, Classifying, Writing, Capturing
  <2>9. RunsFit(rows, j)
    BY <1>1, <2>4, <2>5, <2>7, <2>8 DEF RunsFit
  <2> QED
    BY SMTT(60), <2>8, <2>9 DEF i, j, rows
<1> QED
  BY ZenonT(60), <1>2, <1>3 DEF NextObservation

\* The class of a listed job is written to a log, or to nothing.
LEMMA CommitClassificationGoes ==
    ASSUME PublicInv, RunsInv, NEW p \in PublicProcesses, CommitClassification(p)
    PROVE  RunsInv' /\ Stays(public[p], public'[p])
<1> DEFINE i == public[p]
           j == public'[p]
           rows == publicFile.rows
           file == Migrated(publicFile)
           rows1 == file.rows
           rows2 == publicFile'.rows
           key == i.key
           job == i.draft.job
           class == i.draft.class
<1>1. /\ i \in PublicProcess /\ i.pc = "transaction" /\ i.op = "classify" /\ RunsFit(rows, i)
      /\ PhaseFits(publicFile.schema, i)
  BY InvOf DEF CommitClassification, At, RunsInv
<1>2. /\ LogsStay(rows, rows1) /\ DOMAIN rows1 = DOMAIN rows /\ ClassesFit(file)
      /\ rows1 \in [DOMAIN rows1 -> PublicRow]
      /\ file = [schema |-> file.schema, rows |-> file.rows]
  <2>1. StoreFits(publicFile) /\ publicFile.schema \in {"v1", "v2"} /\ ClassesFit(publicFile)
    BY <1>1, InvOf DEF PhaseFits, RunsInv
  <2> QED
    BY <2>1, MigrationKeepsLogs, MigratedFits DEF StoreFits, IsPublicFile
<1>3. /\ publicFile' = [file EXCEPT !.rows = Reclassified(@, key, job, class)]
      /\ public' = [public EXCEPT ![p].pc = "observed", ![p].draft = NoDraft]
  BY DEF CommitClassification
<1>4. rows2 = Reclassified(rows1, key, job, class)
  BY <1>2, <1>3
<1>5. /\ key \in DOMAIN rows1 /\ (rows1[key].job = job => rows1[key].log = "captured")
      /\ class \in {"classified", "unknown", "analysis_error"}
  <2>1. Classifying(i) /\ <<key, job>> \in Listed(i)
    BY <1>1 DEF Classifying, Listed, Writing
  <2> HIDE DEF i, key, job, class, rows, rows1
  <2>2. /\ key \in DOMAIN rows /\ (rows[key].job = job => rows[key].log = "captured")
    BY <1>1, <2>1 DEF RunsFit
  <2> QED
    BY <1>1, <1>2, <2>1, <2>2 DEF RunsFit, LogsStay, class
<1>6. LogsStay(rows1, rows2) /\ DOMAIN rows2 = DOMAIN rows1 /\ \A k \in DOMAIN rows2 : ClassFits(rows2[k])
  <2> HIDE DEF i, key, job, class, rows1, rows2, file
  <2>1. CASE rows1[key].job = job /\ job # NoJob
    <3> DEFINE row == rows1[key]
               new == [row EXCEPT !.class = class]
    <3>1. rows2 = [rows1 EXCEPT ![key] = new]
      BY <1>4, <1>5, <2>1 DEF Reclassified
    <3>2. row \in PublicRow /\ row.job = job /\ row.log = "captured"
      BY <1>2, <1>5, <2>1
    <3> HIDE DEF row
    <3>3. new.job = row.job /\ new.log = row.log /\ new.class = class
      BY <3>2 DEF PublicRow
    <3> HIDE DEF new
    <3>4. DOMAIN rows2 = DOMAIN rows1 /\ rows2[key] = new
          /\ \A k \in DOMAIN rows1 : k # key => rows2[k] = rows1[k]
      BY <1>5, <3>1
    <3>5. ClassFits(new)
      BY <1>5, <3>2, <3>3 DEF ClassFits
    <3> QED
      BY <1>2, <3>3, <3>4, <3>5 DEF LogsStay, ClassesFit, row, rows1
  <2>2. CASE ~(rows1[key].job = job /\ job # NoJob)
    <3>1. rows2 = rows1
      BY <1>4, <2>2 DEF Reclassified
    <3> QED
      BY <1>2, <3>1 DEF LogsStay, ClassesFit, rows1
  <2> QED
    BY <2>1, <2>2
<1>7. LogsStay(rows, rows2) /\ DOMAIN rows2 = DOMAIN rows /\ ClassesFit(publicFile')
  <2> HIDE DEF rows, rows1
  <2> QED
    BY <1>2, <1>6 DEF LogsStay, ClassesFit
<1>8. Quiet(i, j) /\ Stays(i, j)
  <2> DEFINE draft == NoDraft
             k == [i EXCEPT !.pc = "observed", !.draft = draft]
  <2>1. j = k
    BY <1>3, ProcessOf
  <2> HIDE DEF i, draft
  <2>2. k.pc = "observed" /\ k.mode = i.mode /\ k.todo = i.todo
    BY <1>1 DEF PublicProcess
  <2>3. j.pc = "observed" /\ j.mode = i.mode /\ j.todo = i.todo
    BY <2>1, <2>2
  <2> HIDE DEF j, k
  <2> QED
    BY <1>1, <2>3, RestIsQuiet DEF Writing, Capturing
<1>9. PublicStep(p)
  BY DEF PublicStep
<1> QED
  BY <1>7, <1>8, <1>9, QuietGoes

Starts(p) == StartReevaluation(p) \/ \E plan \in Plans : StartHarvest(p, plan)

\* The loop over the runs neither ends a reevaluation nor turns into one.
LEMMA RunStays ==
    ASSUME PublicInv, NEW p \in PublicProcesses, NextRun(p) \/ CommitRun(p)
    PROVE  Stays(public[p], public'[p])
<1> DEFINE i == public[p]
           j == public'[p]
<1>1. i \in PublicProcess /\ i.pc # "ended"
  BY ProcessOf DEF NextRun, CommitRun, At
<1>2. CASE End(p, "error")
  BY <1>2, EndedIsQuiet
<1>3. CASE j.pc \in {"repository", "runs", "job"} /\ j.mode = i.mode
  BY <1>1, <1>3 DEF Stays
<1>4. CASE public' = [public EXCEPT ![p].pc = "repository", ![p].key[2] = NoKey[2]]
  <2> DEFINE key == [i.key EXCEPT ![2] = NoKey[2]]
             k == [i EXCEPT !.pc = "repository", !.key = key]
  <2>1. public' = [public EXCEPT ![p] = k]
    BY <1>4
  <2>2. j = k
    BY <2>1, ProcessOf
  <2> HIDE DEF i, key
  <2>3. k.pc = "repository" /\ k.mode = i.mode
    BY <1>1 DEF PublicProcess
  <2>4. j.pc = "repository" /\ j.mode = i.mode
    BY <2>2, <2>3
  <2> QED
    BY <1>3, <2>4
<1>5. ASSUME NEW run \in i.runs,
             LET key == <<i.key[1], run>> IN
              public' = [public EXCEPT
                 ![p].runs = @ \ {run}, ![p].key = key, ![p].page = 1, ![p].draft = NoDraft,
                 ![p].pc = IF HasRun(publicFile.rows, key) THEN "runs" ELSE "job"]
      PROVE  Stays(i, j)
  <2> DEFINE key == <<i.key[1], run>>
             runs == i.runs \ {run}
             page == 1
             draft == NoDraft
             pc == IF HasRun(publicFile.rows, key) THEN "runs" ELSE "job"
             k == [i EXCEPT !.runs = runs, !.key = key, !.page = page, !.draft = draft, !.pc = pc]
  <2>1. j = k
    BY <1>5, ProcessOf
  <2>2. pc \in {"runs", "job"}
    OBVIOUS
  <2> HIDE DEF i, key, runs, page, draft, pc
  <2>3. k.pc = pc /\ k.mode = i.mode
    BY <1>1 DEF PublicProcess
  <2>4. j.pc \in {"runs", "job"} /\ j.mode = i.mode
    BY <2>1, <2>2, <2>3
  <2> QED
    BY <1>3, <2>4 DEF i
<1>6. CASE public' = [public EXCEPT ![p].pc = "runs", ![p].draft = NoDraft]
  <2> DEFINE draft == NoDraft
             k == [i EXCEPT !.pc = "runs", !.draft = draft]
  <2>1. j = k
    BY <1>6, ProcessOf
  <2> HIDE DEF i, draft
  <2>2. k.pc = "runs" /\ k.mode = i.mode
    BY <1>1 DEF PublicProcess
  <2>3. j.pc = "runs" /\ j.mode = i.mode
    BY <2>1, <2>2
  <2> QED
    BY <1>3, <2>3
<1> QED
  BY <1>2, <1>4, <1>5, <1>6 DEF NextRun, CommitRun

\* Every other step of a harvest, and the opens of a reevaluation, are quiet.
LEMMA QuietSteps ==
    ASSUME PublicInv, NEW p \in PublicProcesses, PublicStep(p),
           ~NextRun(p), ~CommitRun(p), ~CommitClassification(p), ~Observe(p), ~NextObservation(p)
    PROVE  /\ Quiet(public[p], public'[p])
           /\ publicFile' = publicFile \/ Connect(p) \/ Script(p) \/ CommitInitialize(p)
           /\ Starts(p) \/ Stays(public[p], public'[p])
<1>1. CASE Starts(p)
  BY <1>1, StartIsQuiet DEF Starts, StartHarvest, StartReevaluation
<1>2. CASE OpenToWrite(p) \/ Connect(p) \/ Script(p)
  BY <1>2, OpenIsQuiet DEF OpenToWrite
<1>3. CASE CommitInitialize(p) \/ Verified(p)
  BY <1>3, InitializedIsQuiet DEF Verified
<1>4. CASE StorageError(p) \/ CrashPublic(p) \/ RateLimited(p)
  <2>1. (End(p, "error") \/ End(p, "rate_limited")) /\ publicFile' = publicFile
    BY <1>4 DEF StorageError, CrashPublic, RateLimited
  <2> QED
    BY <2>1, EndedIsQuiet
<1>5. CASE NextRepository(p) \/ RepositoryFailed(p) \/ ListPage(p)
  <2>1. publicFile' = publicFile
    BY <1>5 DEF NextRepository, RepositoryFailed, ListPage
  <2> QED
    BY <1>5, <2>1, ListingIsQuiet
<1>6. CASE \/ FailedJob(p) \/ NoFailedJob(p) \/ FullJobPage(p) \/ JobLog(p)
           \/ WorkflowPath(p) \/ WorkflowMetadata(p) \/ Contents(p)
  <2>1. publicFile' = publicFile
    BY <1>6 DEF FailedJob, NoFailedJob, FullJobPage, JobLog, WorkflowPath, WorkflowMetadata, Contents
  <2> QED
    BY SMTT(60), <1>6, <2>1, CapturingIsQuiet
<1> QED
  BY <1>1, <1>2, <1>3, <1>4, <1>5, <1>6 DEF PublicStep, Starts

\* What a process has in hand fits the file again, and the file is left alone.
LEMMA OwnStepGoes ==
    ASSUME PublicInv, RunsInv, NEW p \in PublicProcesses, PublicStep(p),
           publicFile' = publicFile, RunsFit(publicFile.rows, public'[p])
    PROVE  RunsInv'
<1>1. \A q \in PublicProcesses \ {p} : public'[q] = public[q]
  BY PublicStepKeeps DEF StepKeeps
<1> QED
  BY <1>1 DEF RunsInv

LEMMA RunsStepGoes ==
    ASSUME PublicInv, RunsInv, DistinctRuns, NEW p \in PublicProcesses, PublicStep(p)
    PROVE  RunsInv' /\ (Starts(p) \/ Stays(public[p], public'[p]))
<1>1. CASE NextRun(p)
  BY <1>1, NextRunGoes, OwnStepGoes DEF NextRun
<1>2. CASE Observe(p)
  BY SMTT(60), <1>2, ObserveGoes, OwnStepGoes DEF Observe
<1>3. CASE NextObservation(p)
  BY <1>3, NextObservationGoes, OwnStepGoes DEF NextObservation
<1>4. CASE CommitRun(p)
  BY <1>4, CommitRunGoes
<1>5. CASE CommitClassification(p)
  BY <1>5, CommitClassificationGoes
<1>6. CASE ~NextRun(p) /\ ~CommitRun(p) /\ ~CommitClassification(p) /\ ~Observe(p) /\ ~NextObservation(p)
  <2>1. /\ Quiet(public[p], public'[p]) /\ (Starts(p) \/ Stays(public[p], public'[p]))
        /\ publicFile' = publicFile \/ Connect(p) \/ Script(p) \/ CommitInitialize(p)
    BY <1>6, QuietSteps
  <2>2. /\ LogsStay(publicFile.rows, publicFile'.rows) /\ ClassesFit(publicFile')
        /\ DOMAIN publicFile'.rows = DOMAIN publicFile.rows
    BY <2>1, FileStays DEF RunsInv
  <2> QED
    BY <2>1, <2>2, QuietGoes
<1> QED
  BY SMTT(60), <1>1, <1>2, <1>3, <1>4, <1>5, <1>6

LEMMA RunsInitKeeps == PublicInit => RunsInv
<1> SUFFICES ASSUME PublicInit PROVE RunsInv
  OBVIOUS
<1>1. ClassesFit(publicFile)
  BY PublicInitKeeps
<1>2. ASSUME NEW p \in PublicProcesses PROVE RunsFit(publicFile.rows, public[p])
  <2> DEFINE i == Ended("not started")
  <2>1. public[p] = i /\ i.pc = "ended" /\ i.todo = {}
    BY EndedFields DEF PublicInit
  <2> HIDE DEF i
  <2>2. InHand(i) = {} /\ Listed(i) = {} /\ ~Classifying(i)
    BY <2>1 DEF InHand, Listed, Classifying, Writing, Capturing
  <2> QED
    BY <2>1, <2>2 DEF RunsFit
<1> QED
  BY <1>1, <1>2 DEF RunsInv

\* Harvests and reevaluations together, any number of them, leave a store that
\* _validate accepts, as long as no two harvests have the same run in hand: only
\* then can record_run put a run without a log where a reevaluation has listed one.
THEOREM DistinctRunsKeepTheStoreValid ==
    PublicSpec /\ []DistinctRuns => []PublicStoreValidates
<1> DEFINE Inv == PublicInv /\ RunsInv
<1>1. PublicInit => Inv
  BY PublicInitKeeps, RunsInitKeeps
<1>2. Inv /\ DistinctRuns /\ [PublicNext]_publicVars => Inv'
  <2> SUFFICES ASSUME Inv, DistinctRuns, [PublicNext]_publicVars PROVE Inv'
    OBVIOUS
  <2>1. CASE PublicNext
    BY <2>1, RunsStepGoes, PublicNextKeeps DEF PublicNext
  <2>2. CASE UNCHANGED publicVars
    BY <2>2, PublicNextKeeps DEF RunsInv, publicVars
  <2> QED
    BY <2>1, <2>2
<1>3. Inv => PublicStoreValidates
  BY StoreByParts DEF PublicInv, RunsInv, PublicStoreValidates
<1> HIDE DEF Inv
<1> QED
  BY <1>1, <1>2, <1>3, PTL DEF PublicSpec

-----------------------------------------------------------------------------
(* Two commands: they are two harvests, or one of them at most is.           *)

Harvesting(i) == i.pc # "ended" /\ i.mode = "harvest"
OneHarvest == \A p, q \in PublicProcesses :
    Harvesting(public[p]) /\ Harvesting(public[q]) => p = q

CommandsFit ==
    /\ publicStarted \in 0..2
    /\ \A p \in PublicProcesses : public[p].pc = "ended" => public[p].mode = "harvest"
    /\ publicStarted = 0 => \A p \in PublicProcesses : public[p].pc = "ended"
    /\ publicStarted = 1 => \A p, q \in PublicProcesses :
                               public[p].pc # "ended" /\ public[q].pc # "ended" => p = q
    /\ publicStarted = 2 => OneHarvest \/ OnlyHarvests

TwoInv == /\ PublicInv /\ CommandsFit /\ ClassesFit(publicFile)
          /\ RunsInv \/ (publicStarted = 2 /\ OnlyHarvests)

LEMMA OneHarvestIsEnough ==
    ASSUME PublicInv, OneHarvest PROVE DistinctRuns
<1>1. ASSUME NEW p \in PublicProcesses, InHand(public[p]) # {} PROVE Harvesting(public[p])
  <2> DEFINE i == public[p]
  <2>1. PhaseFits(publicFile.schema, i) /\ i.mode \in {"harvest", "reevaluate"}
    BY InvOf, ProcessFields
  <2>2. i.pc \in Capturing \/ (i.pc \in Writing /\ i.op = "record")
    BY <1>1 DEF InHand
  <2> HIDE DEF i
  <2>3. Harvesting(i)
    BY <2>1, <2>2 DEF PhaseFits, Harvesting, Capturing, Writing, Requests
  <2> QED
    BY <2>3 DEF i
<1> QED
  BY <1>1 DEF DistinctRuns, OneHarvest

LEMMA StaysFits ==
    ASSUME PublicInv, CommandsFit, NEW p \in PublicProcesses, PublicStep(p),
           Stays(public[p], public'[p]), publicStarted' = publicStarted
    PROVE  CommandsFit' /\ (OnlyHarvests => OnlyHarvests')
<1>1. \A q \in PublicProcesses \ {p} : public'[q] = public[q]
  BY PublicStepKeeps DEF StepKeeps
<1>2. \A q \in PublicProcesses : Stays(public[q], public'[q])
  BY <1>1 DEF CommandsFit, Stays
<1>3. OnlyHarvests => OnlyHarvests'
  BY <1>2 DEF OnlyHarvests, Stays
<1>4. OneHarvest => OneHarvest'
  BY <1>2 DEF OneHarvest, Harvesting, Stays
<1>5. /\ publicStarted' \in 0..2
      /\ \A q \in PublicProcesses : public'[q].pc = "ended" => public'[q].mode = "harvest"
      /\ publicStarted' = 0 => \A q \in PublicProcesses : public'[q].pc = "ended"
      /\ publicStarted' = 1 => \A q, r \in PublicProcesses :
                               public'[q].pc # "ended" /\ public'[r].pc # "ended" => q = r
  BY <1>2 DEF CommandsFit, Stays
<1>6. publicStarted' = 2 => OneHarvest' \/ OnlyHarvests'
  BY <1>3, <1>4 DEF CommandsFit
<1> QED
  BY <1>3, <1>5, <1>6 DEF CommandsFit

LEMMA StartFits ==
    ASSUME PublicInv, CommandsFit, PublicStarts <= 2, NEW p \in PublicProcesses, Starts(p)
    PROVE  CommandsFit' /\ publicStarted # 2
<1> DEFINE i == Ended("running")
           j == public'[p]
<1>1. i \in PublicProcess /\ i.mode = "harvest"
  BY ZenonT(60), EndedFields
<1>2. PICK plan, mode : public' = [public EXCEPT ![p] = [i EXCEPT !.pc = "open", !.plan = plan]]
                        \/ public' = [public EXCEPT ![p] = [i EXCEPT !.pc = "open", !.mode = mode]]
  BY DEF Starts, StartReevaluation, StartHarvest
<1>3. j = [i EXCEPT !.pc = "open", !.plan = plan] \/ j = [i EXCEPT !.pc = "open", !.mode = mode]
  BY <1>2, ProcessOf
<1>4. \A q \in PublicProcesses \ {p} : public'[q] = public[q]
  BY <1>2, ProcessOf
<1>5. /\ public[p].pc = "ended" /\ publicStarted' = publicStarted + 1 /\ publicStarted < PublicStarts
      /\ PublicStarts \in Nat /\ publicStarted \in 0..2
  BY PublicAssumption DEF Starts, StartReevaluation, StartHarvest, At, CommandsFit
<1>6. publicStarted \in {0, 1} /\ publicStarted' \in 0..2
  BY <1>5
<1> HIDE DEF i, j
<1>7. j.pc = "open"
  BY <1>1, <1>3 DEF PublicProcess
<1>8. \A q \in PublicProcesses : public'[q].pc = "ended" => public'[q].mode = "harvest"
  BY <1>4, <1>7 DEF CommandsFit, j
<1>9. CASE publicStarted = 0
  <2>1. publicStarted' = 1 /\ \A q \in PublicProcesses \ {p} : public'[q].pc = "ended"
    BY <1>4, <1>5, <1>9 DEF CommandsFit
  <2> QED
    BY <1>5, <1>8, <1>9, <2>1 DEF CommandsFit
<1>10. CASE publicStarted = 1
  <2>1. publicStarted' = 2
    BY <1>5, <1>10
  <2>2. \A q, r \in PublicProcesses \ {p} :
           public'[q].pc # "ended" /\ public'[r].pc # "ended" => q = r
    BY <1>4, <1>10 DEF CommandsFit
  <2>3. CASE j.mode = "harvest" /\ \E q \in PublicProcesses \ {p} : Harvesting(public'[q])
    <3>1. \A r \in PublicProcesses : public'[r].mode = "harvest"
      BY <1>8, <2>2, <2>3 DEF Harvesting, j
    <3> QED
      BY <1>6, <1>8, <1>10, <2>1, <3>1 DEF CommandsFit, OnlyHarvests
  <2>4. CASE ~(j.mode = "harvest" /\ \E q \in PublicProcesses \ {p} : Harvesting(public'[q]))
    <3>1. \A q, r \in PublicProcesses : Harvesting(public'[q]) /\ Harvesting(public'[r]) => q = r
      BY <2>2, <2>4 DEF Harvesting, j
    <3> QED
      BY <1>6, <1>8, <1>10, <2>1, <3>1 DEF CommandsFit, OneHarvest
  <2> QED
    BY <2>3, <2>4
<1> QED
  BY <1>6, <1>9, <1>10

LEMMA HarvestStays ==
    ASSUME PublicInv, OnlyHarvests, NEW p \in PublicProcesses, PublicStep(p), ~Starts(p)
    PROVE  Stays(public[p], public'[p])
<1>1. PhaseFits(publicFile.schema, public[p]) /\ public[p].mode = "harvest"
  BY SMTT(60), InvOf DEF OnlyHarvests
<1>2. ~Observe(p) /\ ~NextObservation(p)
  BY <1>1 DEF PhaseFits, Observe, NextObservation, At
<1>3. ~CommitClassification(p)
  BY <1>1 DEF PhaseFits, CommitClassification, At
<1> QED
  BY <1>2, <1>3, RunStays, QuietSteps

LEMMA StartedStays ==
    ASSUME NEW p \in PublicProcesses, PublicStep(p), ~Starts(p)
    PROVE  publicStarted' = publicStarted
<1>1. CASE OpenToWrite(p) \/ Connect(p) \/ Script(p) \/ CommitInitialize(p)
           \/ CommitRun(p) \/ CommitClassification(p)
  BY SMTT(60), <1>1 DEF OpenToWrite, Connect, Script, CommitInitialize, CommitRun, CommitClassification
<1>2. CASE StorageError(p) \/ CrashPublic(p) \/ RateLimited(p) \/ NextRepository(p)
           \/ Verified(p) \/ RepositoryFailed(p) \/ ListPage(p) \/ NextRun(p)
  BY ZenonT(60), <1>2 DEF StorageError, CrashPublic, RateLimited, NextRepository, Verified, RepositoryFailed,
              ListPage, NextRun
<1>3. CASE FailedJob(p) \/ NoFailedJob(p) \/ FullJobPage(p) \/ JobLog(p) \/ WorkflowPath(p)
           \/ WorkflowMetadata(p) \/ Contents(p) \/ Observe(p) \/ NextObservation(p)
  BY <1>3 DEF FailedJob, NoFailedJob, FullJobPage, JobLog, WorkflowPath, WorkflowMetadata,
              Contents, Observe, NextObservation
<1> QED
  BY <1>1, <1>2, <1>3 DEF PublicStep, Starts

LEMMA TwoStepKeeps ==
    ASSUME TwoInv, PublicStarts <= 2, NEW p \in PublicProcesses, PublicStep(p) PROVE TwoInv'
<1>1. PublicInv /\ PublicInv' /\ CommandsFit /\ ClassesFit(publicFile)
  BY PublicStepKeeps DEF TwoInv, StepKeeps
<1>2. CASE publicStarted = 2 /\ OnlyHarvests
  <2>1. ~Starts(p)
    BY <1>1, <1>2, StartFits
  <2>2. CommandsFit' /\ OnlyHarvests' /\ publicStarted' = 2
    BY <1>1, <1>2, <2>1, HarvestStays, StartedStays, StaysFits
  <2>3. ClassesFit(publicFile')
    BY <1>1, <1>2, PublicStepKeeps DEF StepKeeps, OnlyHarvests
  <2> QED
    BY <1>1, <2>2, <2>3 DEF TwoInv
<1>3. CASE ~(publicStarted = 2 /\ OnlyHarvests)
  <2>1. RunsInv
    BY <1>3 DEF TwoInv
  <2>2. OneHarvest
    BY <1>1, <1>3 DEF CommandsFit, OneHarvest, Harvesting
  <2>3. RunsInv' /\ (Starts(p) \/ Stays(public[p], public'[p]))
    BY <1>1, <2>1, <2>2, OneHarvestIsEnough, RunsStepGoes
  <2>4. CommandsFit'
    BY <1>1, <2>3, StartFits, StaysFits, StartedStays
  <2> QED
    BY <1>1, <2>3, <2>4 DEF TwoInv, RunsInv
<1> QED
  BY <1>2, <1>3

\* Two commands at a time, harvests or reevaluations, with every interleaving, failure
\* and crash, leave a store that _validate accepts.  A third may not: run
\* public_reevaluate shows two harvests of one run beside a reevaluation.
THEOREM TwoCommandsKeepTheStoreValid ==
    PublicStarts <= 2 => (PublicSpec => []PublicStoreValidates)
<1> SUFFICES ASSUME PublicStarts <= 2 PROVE PublicSpec => []PublicStoreValidates
  OBVIOUS
<1>1. PublicInit => TwoInv
  <2> SUFFICES ASSUME PublicInit PROVE TwoInv
    OBVIOUS
  <2>1. PublicInv /\ RunsInv /\ ClassesFit(publicFile)
    BY PublicInitKeeps, RunsInitKeeps
  <2>2. \A p \in PublicProcesses : public[p].pc = "ended" /\ public[p].mode = "harvest"
    BY EndedFields DEF PublicInit
  <2>3. publicStarted \in 0..2 /\ publicStarted # 1 /\ publicStarted # 2
    <3>1. publicStarted = 0
      BY DEF PublicInit
    <3> QED
      BY <3>1
  <2>4. CommandsFit
    BY <2>2, <2>3 DEF CommandsFit
  <2> QED
    BY <2>1, <2>4 DEF TwoInv
<1>2. TwoInv /\ [PublicNext]_publicVars => TwoInv'
  <2> SUFFICES ASSUME TwoInv, [PublicNext]_publicVars PROVE TwoInv'
    OBVIOUS
  <2>1. CASE PublicNext
    BY <2>1, TwoStepKeeps DEF PublicNext
  <2>2. CASE UNCHANGED publicVars
    <3>1. publicFile' = publicFile /\ public' = public /\ publicStarted' = publicStarted
      BY <2>2 DEF publicVars
    <3>2. PublicInv'
      BY <2>2, PublicNextKeeps DEF TwoInv
    <3>3. CommandsFit'
      BY <3>1 DEF TwoInv, CommandsFit, OneHarvest, OnlyHarvests
    <3> QED
      BY <3>1, <3>2, <3>3 DEF TwoInv, RunsInv, OnlyHarvests
  <2> QED
    BY <2>1, <2>2
<1>3. TwoInv => PublicStoreValidates
  BY StoreByParts DEF TwoInv, PublicInv, PublicStoreValidates
<1> QED
  BY <1>1, <1>2, <1>3, PTL DEF PublicSpec

-----------------------------------------------------------------------------
(* The dataset corpus.                                                       *)

Importers == [pc : {"ended", "row", "insert", "count", "list", "update"}, source : Sources,
              read : Nat, text : Texts \cup {Blank}, new : Nat, already : Nat, missing : Nat,
              todo : SUBSET RowKeys,
              result : {"not started", "running", "complete", "shortfall", "empty", "error",
                        "reevaluated"}]

DatasetTypeOK == /\ DOMAIN datasetRows \subseteq RowKeys /\ IsFiniteSet(DOMAIN datasetRows)
                 /\ DOMAIN datasetCounts \subseteq Sources
                 /\ \A s \in DOMAIN datasetCounts : datasetCounts[s] \in Nat
                 /\ importer \in [DatasetProcesses -> Importers]
                 /\ uncounted \in [Sources -> Nat]

\* Every row an import has read so far is accounted for, the one in hand apart;
\* only it may not have been stored yet.
Stored(stored, i, n) == CsvOf[i.source][n] # Blank => <<i.source, CsvOf[i.source][n]>> \in stored

Accounted(stored, i) ==
    /\ i.pc \in {"row", "insert", "count"} =>
         /\ i.result = "running" /\ i.read <= Len(CsvOf[i.source])
         /\ i.new + i.already + i.missing + (IF i.pc = "row" THEN 0 ELSE 1) = i.read
         /\ \A n \in 1..i.read : Stored(stored, i, n) \/ (i.pc = "insert" /\ i.text = CsvOf[i.source][n])
         /\ i.pc # "row" => i.text \in Texts
    /\ i.result \in {"complete", "shortfall", "empty"} =>
         /\ i.pc = "ended"
         /\ i.new + i.already + i.missing = i.read /\ \A n \in 1..i.read : Stored(stored, i, n)

DatasetInv == /\ DatasetTypeOK /\ CountsKeepUp
              /\ \A p \in DatasetProcesses : Accounted(DOMAIN datasetRows, importer[p])

LEMMA FinishedFields ==
    ASSUME NEW result
    PROVE  LET f == Finished(result)
           IN /\ f.pc = "ended" /\ f.source \in Sources /\ f.read = 0 /\ f.text = Blank
              /\ f.new = 0 /\ f.already = 0 /\ f.missing = 0 /\ f.todo = {} /\ f.result = result
              /\ result \in {"not started", "running", "error", "reevaluated"} => f \in Importers
  BY DatasetAssumption DEF Finished, Importers

Between(s) == { p \in DatasetProcesses : importer[p].pc = "count" /\ importer[p].source = s }
CountOf(s) == IF s \in DOMAIN datasetCounts THEN datasetCounts[s] ELSE 0

LEMMA CountsByName ==
    CountsKeepUp <=> \A s \in Sources :
        Cardinality(RowsOf(s)) <= CountOf(s) + Cardinality(Between(s)) + uncounted[s]
  BY DEF CountsKeepUp, CountOf, Between

LEMMA CountTypes ==
    ASSUME DatasetTypeOK, NEW s \in Sources
    PROVE  /\ IsFiniteSet(RowsOf(s)) /\ Cardinality(RowsOf(s)) \in Nat
           /\ IsFiniteSet(Between(s)) /\ Cardinality(Between(s)) \in Nat
           /\ CountOf(s) \in Nat /\ uncounted[s] \in Nat
<1>1. IsFiniteSet(RowsOf(s))
  BY FS_Subset DEF RowsOf, DatasetTypeOK
<1>2. IsFiniteSet(Between(s))
  BY FS_Subset, DatasetAssumption DEF Between
<1> QED
  BY <1>1, <1>2, FS_CardinalityType DEF CountOf, DatasetTypeOK

LEMMA DatasetInitKeeps == DatasetInit => DatasetInv
<1> SUFFICES ASSUME DatasetInit PROVE DatasetInv
  OBVIOUS
<1>1. DOMAIN datasetRows = {} /\ DOMAIN datasetCounts = {}
  BY DEF DatasetInit
<1>2. \A p \in DatasetProcesses :
        /\ importer[p] = Finished("not started") /\ importer[p] \in Importers
        /\ importer[p].pc = "ended" /\ importer[p].result = "not started"
  BY FinishedFields DEF DatasetInit
<1>3. DatasetTypeOK
  BY <1>1, <1>2, FS_EmptySet DEF DatasetInit, DatasetTypeOK
<1>4. CountsKeepUp
  <2>1. \A s \in Sources : RowsOf(s) = {} /\ Between(s) = {}
    BY <1>1, <1>2 DEF RowsOf, Between
  <2>2. \A s \in Sources : CountOf(s) = 0 /\ uncounted[s] = 0
    BY <1>1 DEF CountOf, DatasetInit
  <2>3. Cardinality({}) = 0
    BY FS_EmptySet
  <2> QED
    BY <2>1, <2>2, <2>3, CountsByName
<1>5. ASSUME NEW p \in DatasetProcesses PROVE Accounted(DOMAIN datasetRows, importer[p])
  <2>1. importer[p].pc = "ended" /\ importer[p].result = "not started"
    BY <1>2
  <2> QED
    BY <2>1 DEF Accounted
<1> QED
  BY <1>3, <1>4, <1>5 DEF DatasetInv

\* What all steps have in common: one process moves, and no row goes.
DatasetMoves(p) ==
    /\ importer' \in [DatasetProcesses -> Importers]
    /\ \A q \in DatasetProcesses \ {p} : importer'[q] = importer[q]
    /\ DOMAIN datasetRows \subseteq DOMAIN datasetRows'

LEMMA AccountedStays ==
    ASSUME NEW p \in DatasetProcesses, DatasetInv, DatasetMoves(p), Accounted(DOMAIN datasetRows', importer'[p])
    PROVE  \A q \in DatasetProcesses : Accounted(DOMAIN datasetRows', importer'[q])
<1> TAKE q \in DatasetProcesses
<1>1. CASE q = p
  BY <1>1
<1>2. CASE q # p
  <2>1. importer'[q] = importer[q] /\ Accounted(DOMAIN datasetRows, importer[q])
    BY <1>2 DEF DatasetMoves, DatasetInv
  <2>2. \A n : Stored(DOMAIN datasetRows, importer[q], n) => Stored(DOMAIN datasetRows', importer[q], n)
    BY <2>1 DEF DatasetMoves, Stored
  <2> QED
    BY <2>1, <2>2 DEF Accounted
<1> QED
  BY <1>1, <1>2

\* A step that neither begins nor ends a count leaves the counts where they are.
LEMMA CountsStay ==
    ASSUME NEW p \in DatasetProcesses, DatasetInv, DatasetMoves(p),
           UNCHANGED <<datasetCounts, uncounted>>, DOMAIN datasetRows' = DOMAIN datasetRows,
           importer[p].pc # "count", importer'[p].pc # "count"
    PROVE  CountsKeepUp'
<1>1. \A s \in Sources : RowsOf(s)' = RowsOf(s) /\ CountOf(s)' = CountOf(s)
  BY DEF RowsOf, CountOf
<1>2. \A s \in Sources : Between(s)' = Between(s)
  BY DEF DatasetMoves, Between
<1> QED
  BY <1>1, <1>2, CountsByName DEF DatasetInv, CountsKeepUp, CountOf, Between
LEMMA BeginDatasetKeeps ==
    ASSUME DatasetInv, NEW p \in DatasetProcesses, NEW s \in Sources, NEW pc \in {"row", "list"},
           BeginDataset(p, pc, s)
    PROVE  DatasetInv'
<1> DEFINE i == [Finished("running") EXCEPT !.pc = pc, !.source = s]
<1>1. /\ i.pc = pc /\ i.source = s /\ i.read = 0 /\ i.text = Blank /\ i.new = 0
      /\ i.already = 0 /\ i.missing = 0 /\ i.result = "running" /\ i \in Importers
  BY FinishedFields DEF Finished, Importers
<1>2. importer' = [importer EXCEPT ![p] = i] /\ UNCHANGED <<datasetRows, datasetCounts, uncounted>>
  BY DEF BeginDataset
<1> HIDE DEF i
<1>3. DatasetMoves(p) /\ importer'[p] = i
  BY <1>1, <1>2 DEF DatasetMoves, DatasetInv, DatasetTypeOK
<1>4. DatasetTypeOK'
  BY <1>2, <1>3 DEF DatasetInv, DatasetTypeOK, DatasetMoves
<1>5. Accounted(DOMAIN datasetRows', i)
  <2>1. Len(CsvOf[s]) \in Nat
    BY DatasetAssumption
  <2>2. 1..0 = {}
    OBVIOUS
  <2> QED
    BY <1>1, <2>1, <2>2 DEF Accounted
<1>6. CountsKeepUp'
  <2>1. importer[p].pc # "count" /\ importer'[p].pc # "count"
    BY <1>1, <1>3 DEF BeginDataset
  <2> QED
    BY <1>2, <1>3, <2>1, CountsStay
<1> QED
  BY <1>3, <1>4, <1>5, <1>6, AccountedStays DEF DatasetInv

LEMMA ReadRowKeeps ==
    ASSUME DatasetInv, NEW p \in DatasetProcesses, ReadRow(p) PROVE DatasetInv'
<1> DEFINE i == importer[p]
           text == CsvOf[i.source][i.read + 1]
<1>1. /\ i \in Importers /\ Accounted(DOMAIN datasetRows, i)
      /\ i.pc = "row" /\ i.read < Len(CsvOf[i.source])
  BY DEF ReadRow, DatasetInv, DatasetTypeOK
<1>2. PICK j : /\ importer' = [importer EXCEPT ![p] = j]
               /\ \/ text = Blank /\ j = [i EXCEPT !.read = @ + 1, !.missing = @ + 1]
                  \/ HasRow(<<i.source, text>>) /\ j = [i EXCEPT !.read = @ + 1, !.already = @ + 1]
                  \/ text # Blank /\ j = [i EXCEPT !.read = @ + 1, !.text = text, !.pc = "insert"]
  BY DEF ReadRow
<1>3. UNCHANGED <<datasetRows, datasetCounts, uncounted>>
  BY DEF ReadRow
<1>4. text = CsvOf[i.source][i.read + 1] /\ importer[p] = i
  OBVIOUS
<1> HIDE DEF i, text
<1>5. /\ i.source \in Sources /\ i.new \in Nat /\ i.already \in Nat /\ i.missing \in Nat
      /\ i.read \in Nat
  BY <1>1 DEF Importers
<1>6. Len(CsvOf[i.source]) \in Nat /\ text \in Texts \cup {Blank}
  <2>1. CsvOf[i.source] \in Seq(Texts \cup {Blank})
    BY <1>5, DatasetAssumption
  <2>2. i.read + 1 \in 1..Len(CsvOf[i.source])
    BY <1>1, <1>5, <2>1
  <2> QED
    BY <1>4, <2>1, <2>2
<1>7. /\ j \in Importers
      /\ j.source = i.source /\ j.read = i.read + 1 /\ j.new = i.new /\ j.result = i.result
      /\ \/ text = Blank /\ j.pc = "row" /\ j.already = i.already /\ j.missing = i.missing + 1
         \/ /\ <<i.source, text>> \in DOMAIN datasetRows
            /\ j.pc = "row" /\ j.already = i.already + 1 /\ j.missing = i.missing
         \/ /\ text \in Texts /\ j.text = text /\ j.pc = "insert"
            /\ j.already = i.already /\ j.missing = i.missing
  <2> DEFINE read == i.read + 1
             missing == i.missing + 1
             already == i.already + 1
  <2>0. read \in Nat /\ missing \in Nat /\ already \in Nat
    BY <1>5
  <2>1. CASE text = Blank /\ j = [i EXCEPT !.read = read, !.missing = missing]
    <3> HIDE DEF read, missing
    <3>1. /\ j \in Importers /\ j.source = i.source /\ j.read = read /\ j.new = i.new
          /\ j.result = i.result /\ j.pc = i.pc /\ j.already = i.already /\ j.missing = missing
      BY <1>1, <2>0, <2>1 DEF Importers
    <3> QED
      BY <1>1, <2>1, <3>1 DEF read, missing
  <2>2. CASE HasRow(<<i.source, text>>) /\ j = [i EXCEPT !.read = read, !.already = already]
    <3> HIDE DEF read, already
    <3>1. /\ j \in Importers /\ j.source = i.source /\ j.read = read /\ j.new = i.new
          /\ j.result = i.result /\ j.pc = i.pc /\ j.already = already /\ j.missing = i.missing
      BY <1>1, <2>0, <2>2 DEF Importers
    <3> QED
      BY <1>1, <2>2, <3>1 DEF read, already, HasRow
  <2>3. CASE text # Blank /\ j = [i EXCEPT !.read = read, !.text = text, !.pc = "insert"]
    <3> HIDE DEF read
    <3>1. /\ j \in Importers /\ j.source = i.source /\ j.read = read /\ j.new = i.new
          /\ j.result = i.result /\ j.pc = "insert" /\ j.text = text
          /\ j.already = i.already /\ j.missing = i.missing
      BY <1>1, <1>6, <2>0, <2>3 DEF Importers
    <3> QED
      BY <1>6, <2>3, <3>1 DEF read
  <2> QED
    BY <1>2, <2>1, <2>2, <2>3
<1>8. DatasetMoves(p) /\ importer'[p] = j
  BY <1>2, <1>3, <1>7 DEF DatasetMoves, DatasetInv, DatasetTypeOK
<1>9. DatasetTypeOK'
  BY <1>3, <1>8 DEF DatasetInv, DatasetTypeOK, DatasetMoves
<1>10. Accounted(DOMAIN datasetRows', j)
  <2>1. /\ i.result = "running" /\ i.new + i.already + i.missing = i.read
        /\ \A n \in 1..i.read : Stored(DOMAIN datasetRows, i, n)
    BY <1>1, <1>5 DEF Accounted
  <2>2. j.new + j.already + j.missing + (IF j.pc = "row" THEN 0 ELSE 1) = j.read
    BY <1>5, <1>7, <2>1
  <2>3. \A n \in 1..i.read : Stored(DOMAIN datasetRows', j, n)
    BY <1>3, <1>7, <2>1 DEF Stored
  <2>4. Stored(DOMAIN datasetRows', j, j.read) \/ (j.pc = "insert" /\ j.text = CsvOf[j.source][j.read])
    BY <1>3, <1>4, <1>7 DEF Stored
  <2>5. \A n \in 1..j.read : n \in 1..i.read \/ n = j.read
    BY <1>5, <1>7
  <2>6. j.read <= Len(CsvOf[j.source])
    BY <1>1, <1>5, <1>6, <1>7
  <2>7. j.result = "running" /\ j.pc \in {"row", "insert"} /\ (j.pc # "row" => j.text \in Texts)
    BY <1>7, <2>1
  <2> QED
    BY <2>2, <2>3, <2>4, <2>5, <2>6, <2>7 DEF Accounted
<1>11. CountsKeepUp'
  BY <1>1, <1>3, <1>4, <1>7, <1>8, CountsStay
<1> QED
  BY <1>8, <1>9, <1>10, <1>11, AccountedStays DEF DatasetInv

LEMMA InsertRowKeeps ==
    ASSUME DatasetInv, NEW p \in DatasetProcesses, InsertRow(p) PROVE DatasetInv'
<1> DEFINE i == importer[p]
           j == importer'[p]
           key == <<i.source, i.text>>
<1>1. i \in Importers /\ Accounted(DOMAIN datasetRows, i) /\ i.pc = "insert"
  BY DEF InsertRow, DatasetInv, DatasetTypeOK
<1>2. i.source \in Sources /\ i.text \in Texts /\ key \in RowKeys
  BY <1>1 DEF Importers, Accounted, RowKeys
<1>3. /\ DOMAIN datasetRows' = DOMAIN datasetRows \cup {key}
      /\ UNCHANGED <<datasetCounts, uncounted>>
  BY DEF InsertRow
<1>4. /\ j = [i EXCEPT !.pc = "count"] /\ importer' \in [DatasetProcesses -> Importers]
      /\ \A q \in DatasetProcesses \ {p} : importer'[q] = importer[q]
  BY <1>1 DEF InsertRow, DatasetInv, DatasetTypeOK, Importers
<1>5. /\ j.pc = "count" /\ j.source = i.source /\ j.read = i.read /\ j.text = i.text
      /\ j.new = i.new /\ j.already = i.already /\ j.missing = i.missing /\ j.result = i.result
  BY <1>1, <1>4 DEF Importers
<1>6. DatasetMoves(p)
  BY <1>3, <1>4 DEF DatasetMoves
<1>7. DatasetTypeOK'
  <2>1. IsFiniteSet(DOMAIN datasetRows')
    <3>1. IsFiniteSet(DOMAIN datasetRows)
      BY DEF DatasetInv, DatasetTypeOK
    <3> HIDE DEF key
    <3> QED
      BY <1>3, <3>1, FS_AddElement
  <2> QED
    BY <1>2, <1>3, <1>4, <2>1 DEF DatasetInv, DatasetTypeOK
<1>8. Accounted(DOMAIN datasetRows', importer'[p])
  <2>1. \A n \in 1..i.read : Stored(DOMAIN datasetRows', i, n)
    BY <1>1, <1>3 DEF Accounted, Stored
  <2>2. \A n \in 1..j.read : Stored(DOMAIN datasetRows', j, n)
    BY <2>1, <1>5 DEF Stored
  <2> QED
    BY <1>1, <1>2, <1>5, <2>2 DEF Accounted
<1>9. CountsKeepUp'
  <2> SUFFICES ASSUME NEW s \in Sources
               PROVE  Cardinality(RowsOf(s))' <= CountOf(s)' + Cardinality(Between(s))' + uncounted'[s]
    BY DEF CountsKeepUp, CountOf, Between
  <2>1. CountOf(s)' = CountOf(s) /\ uncounted'[s] = uncounted[s]
    BY <1>3 DEF CountOf
  <2>2. Cardinality(RowsOf(s)) <= CountOf(s) + Cardinality(Between(s)) + uncounted[s]
    BY CountsByName DEF DatasetInv
  <2>3. CASE s = i.source
    <3>1. RowsOf(s)' = RowsOf(s) \cup {key}
      BY <1>3, <2>3 DEF RowsOf
    <3>2. Between(s)' = Between(s) \cup {p} /\ p \notin Between(s)
      BY ZenonT(60), <1>1, <1>4, <1>5, <2>3 DEF Between
    <3>3. /\ IsFiniteSet(RowsOf(s)) /\ Cardinality(RowsOf(s)) \in Nat
          /\ IsFiniteSet(Between(s)) /\ Cardinality(Between(s)) \in Nat
          /\ CountOf(s) \in Nat /\ uncounted[s] \in Nat
      BY CountTypes DEF DatasetInv
    <3> HIDE DEF key
    <3>4. \/ Cardinality(RowsOf(s))' = Cardinality(RowsOf(s))
          \/ Cardinality(RowsOf(s))' = Cardinality(RowsOf(s)) + 1
      BY <3>1, <3>3, FS_AddElement
    <3>5. Cardinality(Between(s))' = Cardinality(Between(s)) + 1
      BY <3>2, <3>3, FS_AddElement
    <3> QED
      BY <2>1, <2>2, <3>3, <3>4, <3>5
  <2>4. CASE s # i.source
    <3>1. RowsOf(s)' = RowsOf(s)
      BY <1>3, <2>4 DEF RowsOf
    <3>2. Between(s)' = Between(s)
      BY <1>5, <1>6, <2>4 DEF Between, DatasetMoves
    <3> QED
      BY <2>1, <2>2, <3>1, <3>2
  <2> QED
    BY <2>3, <2>4
<1> QED
  BY <1>6, <1>7, <1>8, <1>9, AccountedStays DEF DatasetInv

LEMMA CountRowKeeps ==
    ASSUME DatasetInv, NEW p \in DatasetProcesses, CountRow(p) PROVE DatasetInv'
<1> DEFINE i == importer[p]
           j == importer'[p]
<1>1. i \in Importers /\ Accounted(DOMAIN datasetRows, i) /\ i.pc = "count" /\ i.source \in Sources
  BY DEF CountRow, DatasetInv, DatasetTypeOK, Importers
<1>2. UNCHANGED <<datasetRows, uncounted>> /\ datasetCounts' = Counted(datasetCounts, i.source)
  BY DEF CountRow
<1>3. /\ importer' \in [DatasetProcesses -> Importers]
      /\ \A q \in DatasetProcesses \ {p} : importer'[q] = importer[q]
      /\ j.pc = "row" /\ j.source = i.source /\ j.read = i.read /\ j.text = Blank
      /\ j.new = i.new + 1 /\ j.already = i.already /\ j.missing = i.missing /\ j.result = i.result
  <2> DEFINE new == i.new + 1
  <2>0. importer' = [importer EXCEPT ![p] = [i EXCEPT !.pc = "row", !.text = Blank, !.new = new]]
    BY <1>1 DEF CountRow, DatasetInv, DatasetTypeOK
  <2> HIDE DEF i
  <2>1. new \in Nat
    <3>1. i.new \in Nat
      BY <1>1 DEF Importers
    <3> QED
      BY <3>1
  <2> HIDE DEF new
  <2>3. [i EXCEPT !.pc = "row", !.text = Blank, !.new = new] \in Importers
    BY <1>1, <2>1 DEF Importers
  <2>4. /\ importer' \in [DatasetProcesses -> Importers]
        /\ \A q \in DatasetProcesses \ {p} : importer'[q] = importer[q]
        /\ j = [i EXCEPT !.pc = "row", !.text = Blank, !.new = new]
    BY <2>0, <2>3 DEF DatasetInv, DatasetTypeOK
  <2>5. /\ j.pc = "row" /\ j.source = i.source /\ j.read = i.read /\ j.text = Blank
        /\ j.new = new /\ j.already = i.already /\ j.missing = i.missing /\ j.result = i.result
    BY <1>1, <2>1, <2>4 DEF Importers
  <2> QED
    BY <2>4, <2>5 DEF new
<1>4. DatasetMoves(p)
  BY <1>2, <1>3 DEF DatasetMoves
<1>5. /\ DOMAIN datasetCounts' = DOMAIN datasetCounts \cup {i.source}
      /\ \A s \in DOMAIN datasetCounts \ {i.source} : datasetCounts'[s] = datasetCounts[s]
      /\ datasetCounts'[i.source] = IF i.source \in DOMAIN datasetCounts
                                    THEN datasetCounts[i.source] + 1 ELSE 1
  BY <1>2 DEF Counted
<1>6. DatasetTypeOK'
  <2>1. \A s \in DOMAIN datasetCounts' : datasetCounts'[s] \in Nat
    BY <1>5 DEF DatasetInv, DatasetTypeOK
  <2> QED
    BY <1>1, <1>2, <1>3, <1>5, <2>1 DEF DatasetInv, DatasetTypeOK
<1>7. Accounted(DOMAIN datasetRows', importer'[p])
  <2>1. \A n \in 1..i.read : Stored(DOMAIN datasetRows, i, n)
    BY <1>1 DEF Accounted
  <2>2. \A n \in 1..j.read : Stored(DOMAIN datasetRows', j, n)
    BY <2>1, <1>2, <1>3 DEF Stored
  <2>3. i.new \in Nat /\ i.already \in Nat /\ i.missing \in Nat /\ i.read \in Nat
    BY <1>1 DEF Importers
  <2>4. i.new + i.already + i.missing + 1 = i.read /\ i.result = "running"
        /\ i.read <= Len(CsvOf[i.source])
    BY <1>1 DEF Accounted
  <2>5. j.new + j.already + j.missing + 0 = j.read
    BY SMTT(60), <1>3, <2>3, <2>4
  <2> QED
    BY <1>3, <2>2, <2>4, <2>5 DEF Accounted
<1>8. CountsKeepUp'
  <2> SUFFICES ASSUME NEW s \in Sources
               PROVE  Cardinality(RowsOf(s))' <= CountOf(s)' + Cardinality(Between(s))' + uncounted'[s]
    BY DEF CountsKeepUp, CountOf, Between
  <2>1. RowsOf(s)' = RowsOf(s) /\ uncounted'[s] = uncounted[s]
    BY <1>2 DEF RowsOf
  <2>2. Cardinality(RowsOf(s)) <= CountOf(s) + Cardinality(Between(s)) + uncounted[s]
    BY CountsByName DEF DatasetInv
  <2>3. CASE s = i.source
    <3>1. CountOf(s)' = CountOf(s) + 1
      BY <1>5, <2>3 DEF CountOf
    <3>2. Between(s)' = Between(s) \ {p} /\ p \in Between(s)
      BY <1>1, <1>3, <2>3 DEF Between
    <3>3. /\ IsFiniteSet(Between(s)) /\ Cardinality(Between(s)) \in Nat
          /\ CountOf(s) \in Nat /\ uncounted[s] \in Nat /\ Cardinality(RowsOf(s)) \in Nat
      BY CountTypes DEF DatasetInv
    <3>4. Cardinality(Between(s))' = Cardinality(Between(s)) - 1
      BY <3>2, <3>3, FS_RemoveElement
    <3> QED
      BY <2>1, <2>2, <3>1, <3>3, <3>4
  <2>4. CASE s # i.source
    <3>1. CountOf(s)' = CountOf(s)
      BY <1>5, <2>4 DEF CountOf
    <3>2. Between(s)' = Between(s)
      BY <1>1, <1>3, <2>4 DEF Between
    <3> QED
      BY <2>1, <2>2, <3>1, <3>2
  <2> QED
    BY <2>3, <2>4
<1> QED
  BY <1>4, <1>6, <1>7, <1>8, AccountedStays DEF DatasetInv
LEMMA EndImportKeeps ==
    ASSUME DatasetInv, NEW p \in DatasetProcesses, EndImport(p) PROVE DatasetInv'
<1> DEFINE i == importer[p]
           result == ImportState(i)
           j == [i EXCEPT !.pc = "ended", !.result = result]
<1>1. /\ i \in Importers /\ Accounted(DOMAIN datasetRows, i) /\ i.pc = "row" /\ i = importer[p]
      /\ UNCHANGED <<datasetRows, datasetCounts, uncounted>>
      /\ importer' = [importer EXCEPT ![p] = j]
  BY DEF EndImport, DatasetInv, DatasetTypeOK
<1>2. result \in {"complete", "shortfall", "empty"}
  BY DEF ImportState
<1> HIDE DEF i, result
<1>3. /\ j \in Importers /\ j.pc = "ended" /\ j.source = i.source /\ j.read = i.read
      /\ j.new = i.new /\ j.already = i.already /\ j.missing = i.missing /\ j.result = result
  BY <1>1, <1>2 DEF Importers
<1> HIDE DEF j
<1>4. DatasetMoves(p) /\ importer'[p] = j
  BY <1>1, <1>3 DEF DatasetMoves, DatasetInv, DatasetTypeOK
<1>5. DatasetTypeOK'
  BY <1>1, <1>4 DEF DatasetInv, DatasetTypeOK, DatasetMoves
<1>6. Accounted(DOMAIN datasetRows', j)
  <2>1. i.new \in Nat /\ i.already \in Nat /\ i.missing \in Nat
    BY <1>1 DEF Importers
  <2>2. i.new + i.already + i.missing = i.read /\ \A n \in 1..i.read : Stored(DOMAIN datasetRows, i, n)
    BY <1>1, <2>1 DEF Accounted
  <2>3. \A n \in 1..j.read : Stored(DOMAIN datasetRows', j, n)
    BY <1>1, <1>3, <2>2 DEF Stored
  <2> QED
    BY <1>3, <2>2, <2>3 DEF Accounted
<1>7. CountsKeepUp'
  BY <1>1, <1>3, <1>4, CountsStay
<1> QED
  BY <1>4, <1>5, <1>6, <1>7, AccountedStays DEF DatasetInv

\* The steps of a reevaluation, which is in no import and changes no key.
LEMMA ReevaluationKeeps ==
    ASSUME DatasetInv, NEW p \in DatasetProcesses,
           ListRows(p) \/ UpdateRow(p) \/ EndReevaluation(p)
    PROVE  DatasetInv'
<1> DEFINE i == importer[p]
<1>1. i \in Importers /\ Accounted(DOMAIN datasetRows, i) /\ i = importer[p]
  BY DEF DatasetInv, DatasetTypeOK
<1>2. PICK j \in Importers :
        /\ importer' = [importer EXCEPT ![p] = j]
        /\ \/ j.pc = "update" /\ j.result = i.result
           \/ j.pc = "ended" /\ j.result = "reevaluated"
  <2>1. CASE ListRows(p)
    <3> DEFINE todo == IF Oversized THEN {} ELSE DOMAIN datasetRows
    <3>1. todo \in SUBSET RowKeys
      BY DEF DatasetInv, DatasetTypeOK
    <3>2. importer' = [importer EXCEPT ![p] = [i EXCEPT !.pc = "update", !.todo = todo]]
      BY <1>1, <2>1 DEF ListRows, DatasetInv, DatasetTypeOK
    <3> HIDE DEF i, todo
    <3>3. LET j == [i EXCEPT !.pc = "update", !.todo = todo]
          IN j \in Importers /\ j.pc = "update" /\ j.result = i.result
      BY <1>1, <3>1 DEF Importers
    <3> QED
      BY <3>2, <3>3
  <2>2. CASE UpdateRow(p)
    <3>1. PICK todo \in SUBSET RowKeys :
            importer' = [importer EXCEPT ![p] = [i EXCEPT !.todo = todo]]
      <4>1. PICK key \in i.todo :
              importer' = [importer EXCEPT ![p] = [i EXCEPT !.todo = i.todo \ {key}]]
        BY <1>1, <2>2 DEF UpdateRow, DatasetInv, DatasetTypeOK
      <4> HIDE DEF i
      <4>2. i.todo \ {key} \in SUBSET RowKeys
        BY <1>1 DEF Importers
      <4> QED
        BY <4>1, <4>2
    <3>2. i.pc = "update"
      BY <2>2 DEF UpdateRow
    <3> HIDE DEF i
    <3>3. LET j == [i EXCEPT !.todo = todo]
          IN j \in Importers /\ j.pc = "update" /\ j.result = i.result
      BY <1>1, <3>2 DEF Importers
    <3> QED
      BY <3>1, <3>3
  <2>3. CASE EndReevaluation(p)
    BY <2>3, FinishedFields DEF EndReevaluation
  <2> QED
    BY <2>1, <2>2, <2>3
<1>3. UNCHANGED <<datasetCounts, uncounted>> /\ DOMAIN datasetRows' = DOMAIN datasetRows
  BY DEF ListRows, UpdateRow, EndReevaluation
<1>4. i.pc \in {"list", "update"}
  BY DEF ListRows, UpdateRow, EndReevaluation
<1> HIDE DEF i
<1>5. DatasetMoves(p) /\ importer'[p] = j
  BY <1>2, <1>3 DEF DatasetMoves, DatasetInv, DatasetTypeOK
<1>6. DatasetTypeOK'
  BY <1>3, <1>5 DEF DatasetInv, DatasetTypeOK, DatasetMoves
<1>7. Accounted(DOMAIN datasetRows', j)
  BY <1>1, <1>2, <1>4 DEF Accounted
<1>8. CountsKeepUp'
  BY <1>1, <1>2, <1>3, <1>4, <1>5, CountsStay
<1> QED
  BY <1>5, <1>6, <1>7, <1>8, AccountedStays DEF DatasetInv

LEMMA StopDatasetKeeps ==
    ASSUME DatasetInv, NEW p \in DatasetProcesses, StopDataset(p) PROVE DatasetInv'
<1> DEFINE i == importer[p]
           j == Finished("error")
<1>1. /\ i \in Importers /\ i = importer[p] /\ importer' = [importer EXCEPT ![p] = j]
      /\ UNCHANGED <<datasetRows, datasetCounts>>
      /\ uncounted' = IF i.pc = "count" THEN [uncounted EXCEPT ![i.source] = @ + 1] ELSE uncounted
  BY DEF StopDataset, DatasetInv, DatasetTypeOK
<1>2. j \in Importers /\ j.pc = "ended" /\ j.result = "error"
  BY FinishedFields
<1> HIDE DEF i, j
<1>3. i.source \in Sources
  BY <1>1 DEF Importers
<1>4. DatasetMoves(p) /\ importer'[p] = j
  BY <1>1, <1>2 DEF DatasetMoves, DatasetInv, DatasetTypeOK
<1>5. DatasetTypeOK'
  <2>1. uncounted' \in [Sources -> Nat]
    BY <1>1, <1>3 DEF DatasetInv, DatasetTypeOK
  <2> QED
    BY <1>1, <1>4, <2>1 DEF DatasetInv, DatasetTypeOK, DatasetMoves
<1>6. Accounted(DOMAIN datasetRows', j)
  BY <1>2 DEF Accounted
<1>7. CountsKeepUp'
  <2>1. CASE i.pc # "count"
    BY <1>1, <1>2, <1>4, <2>1, CountsStay
  <2>2. CASE i.pc = "count"
    <3> SUFFICES ASSUME NEW s \in Sources
                 PROVE  Cardinality(RowsOf(s))' <= CountOf(s)' + Cardinality(Between(s))' + uncounted'[s]
      BY DEF CountsKeepUp, CountOf, Between
    <3>1. RowsOf(s)' = RowsOf(s) /\ CountOf(s)' = CountOf(s)
      BY <1>1 DEF RowsOf, CountOf
    <3>2. Cardinality(RowsOf(s)) <= CountOf(s) + Cardinality(Between(s)) + uncounted[s]
      BY CountsByName DEF DatasetInv
    <3>3. CASE s = i.source
      <4>1. uncounted'[s] = uncounted[s] + 1
        BY <1>1, <2>2, <3>3 DEF DatasetInv, DatasetTypeOK
      <4>2. Between(s)' = Between(s) \ {p} /\ p \in Between(s)
        BY <1>1, <1>2, <1>4, <2>2, <3>3 DEF Between, DatasetMoves
      <4>3. /\ IsFiniteSet(Between(s)) /\ Cardinality(Between(s)) \in Nat
            /\ CountOf(s) \in Nat /\ uncounted[s] \in Nat /\ Cardinality(RowsOf(s)) \in Nat
        BY CountTypes DEF DatasetInv
      <4>4. Cardinality(Between(s))' = Cardinality(Between(s)) - 1
        BY <4>2, <4>3, FS_RemoveElement
      <4> QED
        BY <3>1, <3>2, <4>1, <4>3, <4>4
    <3>4. CASE s # i.source
      <4>1. uncounted'[s] = uncounted[s]
        BY <1>1, <2>2, <3>4 DEF DatasetInv, DatasetTypeOK
      <4>2. Between(s)' = Between(s)
        BY <1>1, <1>2, <1>4, <3>4 DEF Between, DatasetMoves
      <4> QED
        BY <3>1, <3>2, <4>1, <4>2
    <3> QED
      BY <3>3, <3>4
  <2> QED
    BY <2>1, <2>2
<1> QED
  BY <1>4, <1>5, <1>6, <1>7, AccountedStays DEF DatasetInv

LEMMA DatasetStepKeeps == DatasetInv /\ [DatasetNext]_datasetVars => DatasetInv'
<1> SUFFICES ASSUME DatasetInv, [DatasetNext]_datasetVars PROVE DatasetInv'
  OBVIOUS
<1>1. CASE UNCHANGED datasetVars
  BY <1>1 DEF datasetVars, DatasetInv, DatasetTypeOK, CountsKeepUp, RowsOf
<1>2. ASSUME NEW p \in DatasetProcesses, DatasetStep(p) PROVE DatasetInv'
  <2>1. ASSUME NEW s \in Sources, StartImport(p, s) PROVE DatasetInv'
    BY <2>1, BeginDatasetKeeps DEF StartImport
  <2>2. CASE StartDatasetReevaluation(p)
    <3>1. Finished("running").source \in Sources
      BY FinishedFields
    <3> QED
      BY <2>2, <3>1, BeginDatasetKeeps DEF StartDatasetReevaluation
  <2> QED
    BY <1>2, <2>1, <2>2, ReadRowKeeps, InsertRowKeeps, CountRowKeeps, EndImportKeeps,
       ReevaluationKeeps, StopDatasetKeeps DEF DatasetStep
<1> QED
  BY <1>1, <1>2 DEF DatasetNext

\* The inductive invariant holds of every behaviour of the imports and of the
\* reevaluations (dataset_corpus.py).
THEOREM DatasetInvariant == DatasetSpec => []DatasetInv
  BY DatasetInitKeeps, DatasetStepKeeps, PTL DEF DatasetSpec

\* When an import reports, each row it read was stored by it, stored already, or
\* had no text, and is in the store although others import the same file.
THEOREM DatasetImportsAccount == DatasetSpec => []ImportAccountsForRows
<1>1. DatasetInv => ImportAccountsForRows
  <2> SUFFICES ASSUME DatasetInv, NEW p \in DatasetProcesses,
                      importer[p].result \in {"complete", "shortfall", "empty"}
               PROVE  LET i == importer[p] IN
                      /\ i.new + i.already + i.missing = i.read
                      /\ \A n \in 1..i.read : Stored(DOMAIN datasetRows, i, n)
    BY DEF ImportAccountsForRows, Stored
  <2> QED
    BY DEF DatasetInv, Accounted
<1> QED
  BY <1>1, DatasetInvariant, PTL

\* The count of a source is behind its rows by no more than the imports between
\* their two transactions and the imports that died there (record, import_csv).
THEOREM DatasetCountsKeepUp == DatasetSpec => []CountsKeepUp
<1>1. DatasetInv => CountsKeepUp
  BY DEF DatasetInv
<1> QED
  BY <1>1, DatasetInvariant, PTL
=============================================================================

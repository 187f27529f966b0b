------------------------- MODULE HarvestStore_proofs -------------------------
(****************************************************************************)
(* Proofs about PipelineHarvest, for any number of processes, projects,     *)
(* pipelines, jobs, runs and faults: the store always validates, rate limits *)
(* are never recorded, a rate-limited process sends nothing more, a run that *)
(* says it has finished its batch has, no observation is ever taken back, and *)
(* every step of a run leaves it fewer steps to take.                       *)
(****************************************************************************)
EXTENDS PipelineHarvest, FiniteSetTheorems, TLAPS

USE DEF Keys, Batches

-----------------------------------------------------------------------------
(* Types. *)

\* A process is in its run only between Acquire and Release, and a run that was
\* acquired has a batch and a plan.
HasRun == \A p \in Procs : pc[p] # "idle" => run[p].batch \in Batches /\ run[p].plan \in Plans

\* While a listing is read, its project and path are known.
HasListing == \A p \in Procs : pc[p] \in {"page", "put"} =>
    disc[p].project \in ProjectIds /\ run[p].plan[run[p].index] \in Paths

TypeInv == TypeOK /\ HasRun /\ HasListing

TaskTypes ==
    /\ at \in [Procs -> [Keys -> {"off", "queued", "start", "list", "listed", "jobs", "trace",
                                  "traced"}]]
    /\ local \in [Procs -> [Keys -> PipelineRecord \cup {NoPipe}]]
    /\ todo \in [Procs -> [Keys -> SUBSET JobIds]]
    /\ job \in [Procs -> [Keys -> JobIds \cup {NoOne}]]
    /\ ans \in [Procs -> [Keys -> Answers]]

\* The helpers that end a run, a listing or a task keep every type.
LEMMA NoTasksType ==
    ASSUME TaskTypes, NEW p \in Procs, NoTasks(p) PROVE TaskTypes'
BY DEF TaskTypes, NoTasks, Answers

LEMMA ReturnType ==
    ASSUME TaskTypes, NEW p \in Procs, NEW k \in Keys, Return(p, k) PROVE TaskTypes'
BY DEF TaskTypes, Return, Answers

LEMMA RunUpdate ==
    ASSUME NEW r \in RunRecord, NEW s \in RunStates, NEW S \in SUBSET ProjectIds,
           NEW f \in {"capacity", "provider_error", NoOne}
    PROVE  /\ [r EXCEPT !.state = s] \in RunRecord
           /\ [r EXCEPT !.resolved = S] \in RunRecord
           /\ [r EXCEPT !.failure = f] \in RunRecord
BY DEF RunRecord

\* Every process's run is still whole, and of the same batch and plan, at the
\* same project.
SameRuns ==
    /\ run' \in [Procs -> RunRecord]
    /\ \A q \in Procs : /\ run'[q].batch = run[q].batch /\ run'[q].plan = run[q].plan
                        /\ run'[q].index = run[q].index

LEMMA NewStateType ==
    ASSUME run \in [Procs -> RunRecord], NEW p \in Procs, NEW s \in RunStates,
           run' = [run EXCEPT ![p].state = s]
    PROVE  SameRuns
<1> DEFINE r == [run[p] EXCEPT !.state = s]
<1>1. run[p] \in RunRecord
  OBVIOUS
<1>2. r.batch = run[p].batch /\ r.plan = run[p].plan /\ r.index = run[p].index
  BY <1>1 DEF RunRecord
<1>3. r \in RunRecord
  BY <1>1 DEF RunRecord
<1>4. run' = [run EXCEPT ![p] = r]
  OBVIOUS
<1> HIDE DEF r
<1> QED
  BY <1>2, <1>3, <1>4 DEF SameRuns

LEMMA PageReadType ==
    ASSUME NEW d \in ListingRecord, NEW S \in SUBSET PipelineIds, NEW m \in {"next", "last", "bad"}
    PROVE  /\ [d EXCEPT !.new = S, !.more = m] \in ListingRecord
           /\ [d EXCEPT !.new = S, !.more = m].project = d.project
BY DEF ListingRecord

LEMMA PipelinePutType ==
    ASSUME NEW d \in ListingRecord, NEW S \in SUBSET PipelineIds, NEW T \in SUBSET PipelineIds
    PROVE  /\ [d EXCEPT !.new = S, !.selected = T] \in ListingRecord
           /\ [d EXCEPT !.new = S, !.selected = T].project = d.project
BY DEF ListingRecord

LEMMA NextPageType ==
    ASSUME NEW d \in ListingRecord, NEW x \in PipelineIds
    PROVE  /\ [d EXCEPT !.page = d.page + 1, !.floor = x, !.new = {}] \in ListingRecord
           /\ [d EXCEPT !.page = d.page + 1, !.floor = x, !.new = {}].project = d.project
<1> DEFINE n == d.page + 1
<1>1. n \in Nat
  BY DEF ListingRecord
<1> HIDE DEF n
<1>2. /\ [d EXCEPT !.page = n, !.floor = x, !.new = {}] \in ListingRecord
      /\ [d EXCEPT !.page = n, !.floor = x, !.new = {}].project = d.project
  BY <1>1 DEF ListingRecord
<1> QED
  BY <1>2 DEF n

LEMMA NewRunType ==
    /\ NoRun \in RunRecord
    /\ \A b \in Batches, plan \in Plans : /\ NewRun(b, plan) \in RunRecord
                                          /\ NewRun(b, plan).batch = b
                                          /\ NewRun(b, plan).plan = plan
    /\ \A id \in ProjectIds \cup {NoOne} : NewListing(id) \in ListingRecord
BY BoundAssumption DEF NoRun, NewRun, RunRecord, RunStates, Listings, NewListing, ListingRecord

LEMMA ReleaseType ==
    ASSUME TypeInv, NEW p \in Procs, Release(p), UNCHANGED <<pipes, jobs, runs>>,
           ckpt' \in CheckpointRecord \cup {NoOne}, faults' \in 0..MaxFaults
    PROVE  TypeInv'
<1>1. TaskTypes'
  BY NoTasksType DEF TypeInv, TypeOK, TaskTypes, Release
<1>2. TypeOK'
  BY <1>1, NewRunType DEF TypeInv, TypeOK, TaskTypes, Release
<1>3. HasRun'
  BY DEF TypeInv, TypeOK, HasRun, Release
<1>4. HasListing'
  BY DEF TypeInv, TypeOK, HasListing, Release
<1> QED
  BY <1>2, <1>3, <1>4 DEF TypeInv

LEMMA StopForType ==
    ASSUME NEW s \in RunStates, NEW c PROVE StopFor(s, c) \in RunStates
BY DEF StopFor, RunStates, Stopped

LEMMA CheckpointType ==
    ASSUME NEW r \in RunRecord, r.batch \in Batches, r.plan \in Plans
    PROVE  Checkpoint(r) \in CheckpointRecord
BY DEF RunRecord, CheckpointRecord, Checkpoint

LEMMA ExceptType ==
    ASSUME NEW f \in [Paths -> Listings], NEW path, NEW listing \in Listings
    PROVE  [f EXCEPT ![path] = listing] \in [Paths -> Listings]
OBVIOUS

LEMMA EndListingType ==
    ASSUME TypeInv, NEW p \in Procs, NEW listing \in Listings, NEW state \in RunStates,
           pc[p] # "idle", EndListing(p, listing, state)
    PROVE  /\ ckpt' \in CheckpointRecord
           /\ run' \in [Procs -> RunRecord]
           /\ disc' \in [Procs -> ListingRecord]
           /\ pc' = [pc EXCEPT ![p] = "resolve"]
           /\ HasRun' /\ HasListing'
<1> DEFINE r == [run[p] EXCEPT !.state = state, !.index = @ + 1,
                  !.listing = [@ EXCEPT ![run[p].plan[run[p].index]] = listing]]
<1>1. run[p] \in RunRecord /\ run[p].batch \in Batches /\ run[p].plan \in Plans
  BY DEF TypeInv, TypeOK, HasRun
<1>2. r \in RunRecord /\ r.batch = run[p].batch /\ r.plan = run[p].plan
  <2> DEFINE l == [run[p].listing EXCEPT ![run[p].plan[run[p].index]] = listing]
             R == run[p]
  <2>0. run[p].listing \in [Paths -> Listings] /\ run[p].index \in Nat \ {0}
    BY <1>1 DEF RunRecord
  <2>1. l \in [Paths -> Listings] /\ R.index + 1 \in Nat \ {0}
    BY <2>0, ExceptType
  <2>2. r = [R EXCEPT !.state = state, !.index = R.index + 1, !.listing = l]
    OBVIOUS
  <2>3. R \in RunRecord
    BY <1>1
  <2> HIDE DEF l, R
  <2>4. [R EXCEPT !.state = state, !.index = R.index + 1, !.listing = l] \in RunRecord
    BY <2>1, <2>3 DEF RunRecord
  <2> QED
    BY <2>2, <2>3, <2>4 DEF RunRecord, R
<1>3. ckpt' \in CheckpointRecord
  BY <1>1, <1>2, CheckpointType DEF EndListing
<1>4. run' = [run EXCEPT ![p] = r]
  BY DEF EndListing
<1> HIDE DEF r
<1> QED
  BY <1>1, <1>2, <1>3, <1>4, NewRunType DEF EndListing, TypeInv, TypeOK, HasRun, HasListing

LEMMA LatchType ==
    ASSUME latch \in [Procs -> BOOLEAN], NEW p \in Procs, NEW c, Latch(p, c)
    PROVE  latch' \in [Procs -> BOOLEAN]
BY DEF Latch

LEMMA ProviderFailsType ==
    ASSUME TypeInv, NEW p \in Procs, pc[p] # "idle", ProviderFails(p)
    PROVE  /\ ckpt' \in CheckpointRecord /\ run' \in [Procs -> RunRecord]
           /\ disc' \in [Procs -> ListingRecord] /\ pc' = [pc EXCEPT ![p] = "resolve"]
           /\ latch' \in [Procs -> BOOLEAN] /\ HasRun' /\ HasListing'
<1>1. PICK c \in Codes : Latch(p, c) /\ EndListing(p, "unreadable", StopFor(run[p].state, c))
  BY DEF ProviderFails
<1>2. run[p].state \in RunStates
  BY DEF TypeInv, TypeOK, RunRecord
<1>3. StopFor(run[p].state, c) \in RunStates /\ "unreadable" \in Listings
  BY <1>2, StopForType DEF Listings
<1> QED
  BY <1>1, <1>3, EndListingType, LatchType DEF TypeInv, TypeOK

\* One step of the main coroutine.
LEMMA MainStepType ==
    ASSUME TypeInv, NEW p \in Procs, MainStep(p) PROVE TypeInv'
<1> USE DEF HasRun, HasListing
<1>0. /\ run[p] \in RunRecord /\ disc[p] \in ListingRecord
      /\ pc[p] # "idle" => run[p].batch \in Batches /\ run[p].plan \in Plans
  BY DEF TypeInv, TypeOK
<1>1. CASE OpenHarvest(p)
  BY <1>1 DEF OpenHarvest, TypeInv, TypeOK, store, taskVars
<1>2. CASE OpenReevaluation(p)
  BY <1>2 DEF OpenReevaluation, TypeInv, TypeOK, store
<1>3. CASE OpenRefused(p)
  BY <1>3, ReleaseType DEF OpenRefused, TypeInv, TypeOK, store
<1>4. CASE Begin(p)
  <2>1. ckpt' \in CheckpointRecord
    BY <1>0, <1>4, CheckpointType DEF Begin
  <2> QED
    BY <1>4, <2>1 DEF Begin, TypeInv, TypeOK, taskVars
<1>5. CASE ResolveProject(p)
  <2>1. CASE /\ \E id \in ProjectIds \ run[p].resolved :
                  /\ run' = [run EXCEPT ![p].resolved = @ \cup {id}]
                  /\ disc' = [disc EXCEPT ![p] = NewListing(id)]
             /\ ckpt' = Checkpoint(run[p])
             /\ pc' = [pc EXCEPT ![p] = "page"]
             /\ UNCHANGED latch
    <3>1. PICK id \in ProjectIds : /\ run' = [run EXCEPT ![p].resolved = @ \cup {id}]
                                   /\ disc' = [disc EXCEPT ![p] = NewListing(id)]
      BY <2>1
    <3> DEFINE r == [run[p] EXCEPT !.resolved = @ \cup {id}]
    <3>2. run[p].resolved \cup {id} \in SUBSET ProjectIds
      BY <1>0 DEF RunRecord
    <3>3. /\ r \in RunRecord /\ r.batch = run[p].batch /\ r.plan = run[p].plan
          /\ r.index = run[p].index
      BY <1>0, <3>2 DEF RunRecord
    <3>4. run' = [run EXCEPT ![p] = r]
      BY <3>1
    <3>5. NewListing(id) \in ListingRecord /\ NewListing(id).project = id
      BY NewRunType DEF NewListing
    <3>6. ckpt' \in CheckpointRecord
      BY <1>0, <1>5, <2>1, CheckpointType DEF ResolveProject
    <3>7. run[p].plan[run[p].index] \in Paths
      BY <1>0, <1>5, PlanAssumption DEF ResolveProject, MoreProjects, RunRecord
    <3>8. disc' = [disc EXCEPT ![p] = NewListing(id)] /\ UNCHANGED latch
          /\ pc' = [pc EXCEPT ![p] = "page"] /\ UNCHANGED <<pipes, jobs, lease, taskVars, runs, faults>>
      BY <1>5, <2>1, <3>1 DEF ResolveProject
    <3> HIDE DEF r
    <3> QED
      BY <1>0, <3>3, <3>4, <3>5, <3>6, <3>7, <3>8, <1>5
      DEF ResolveProject, TypeInv, TypeOK, taskVars
  <2>2. CASE /\ run' = [run EXCEPT ![p].state = "provider_error"]
             /\ pc' = [pc EXCEPT ![p] = "final"]
             /\ UNCHANGED <<ckpt, disc, latch>>
    <3>1. "provider_error" \in RunStates
      BY DEF RunStates, Stopped
    <3>2. SameRuns
      BY <2>2, <3>1, NewStateType DEF TypeInv, TypeOK
    <3> QED
      BY <1>0, <1>5, <2>2, <3>2 DEF SameRuns, ResolveProject, TypeInv, TypeOK, taskVars
  <2>3. CASE ProviderFails(p)
    BY <1>5, <2>3, ProviderFailsType DEF ResolveProject, TypeInv, TypeOK, taskVars
  <2> QED
    BY <1>5, <2>1, <2>2, <2>3 DEF ResolveProject
<1>6. CASE ReadPage(p)
  <2>1. CASE ProviderFails(p)
    BY <1>6, <2>1, ProviderFailsType DEF ReadPage, TypeInv, TypeOK, taskVars
  <2>2. ASSUME EndListing(p, "invalid", run[p].state), UNCHANGED latch
        PROVE  TypeInv'
    <3>1. run[p].state \in RunStates /\ "invalid" \in Listings /\ pc[p] # "idle"
      BY <1>0, <1>6 DEF RunRecord, Listings, ReadPage
    <3> QED
      BY ZenonT(60), <1>6, <2>2, <3>1, EndListingType DEF ReadPage, TypeInv, TypeOK, taskVars
  <2>3. ASSUME NEW new \in SUBSET PipelineIds, NEW more \in {"next", "last", "bad"},
               disc' = [disc EXCEPT ![p] = [@ EXCEPT !.new = new, !.more = more]],
               pc' = [pc EXCEPT ![p] = "put"],
               UNCHANGED <<ckpt, run, latch>>
        PROVE  TypeInv'
    <3> DEFINE d == [disc[p] EXCEPT !.new = new, !.more = more]
    <3>1. d \in ListingRecord /\ d.project = disc[p].project
      BY <1>0, PageReadType
    <3>2. disc' = [disc EXCEPT ![p] = d]
      BY <2>3
    <3> HIDE DEF d
    <3> QED
      BY ZenonT(60), <1>6, <2>3, <3>1, <3>2 DEF ReadPage, TypeInv, TypeOK, taskVars
  <2>4. ASSUME NEW items \in SUBSET PipelineIds, NEW more \in {"next", "last", "bad"},
               disc' = [disc EXCEPT ![p] = [@ EXCEPT !.new = items \ disc[p].selected,
                          !.more = IF items \ disc[p].selected = {} /\ more = "next"
                                   THEN "bad" ELSE more]],
               pc' = [pc EXCEPT ![p] = "put"],
               UNCHANGED <<ckpt, run, latch>>
        PROVE  TypeInv'
    <3> DEFINE new == items \ disc[p].selected
               m   == IF items \ disc[p].selected = {} /\ more = "next" THEN "bad" ELSE more
    <3>1. new \in SUBSET PipelineIds /\ m \in {"next", "last", "bad"}
      OBVIOUS
    <3>2. disc' = [disc EXCEPT ![p] = [@ EXCEPT !.new = new, !.more = m]]
      BY <2>4
    <3> HIDE DEF new, m
    <3> QED
      BY <2>3, <2>4, <3>1, <3>2
  <2> QED
    BY <1>6, <2>1, <2>2, <2>4 DEF ReadPage
<1>7. CASE PutPipeline(p)
  <2> DEFINE path == run[p].plan[run[p].index]
  <2>0. pc[p] = "put" /\ disc[p].project \in ProjectIds /\ path \in Paths
    BY <1>7 DEF PutPipeline, TypeInv
  <2>1. PICK id \in disc[p].new :
          LET k == <<disc[p].project, id>>
          IN  IF HasRoom(k, path)
              THEN /\ pipes' = [pipes EXCEPT ![k] = Seen(k, path, run[p].batch)]
                   /\ disc' = [disc EXCEPT ![p] =
                                 [@ EXCEPT !.new = disc[p].new \ {id},
                                           !.selected = disc[p].selected \cup {id}]]
                   /\ UNCHANGED <<pc, run>>
              ELSE /\ run' = [run EXCEPT ![p].state = "capacity"]
                   /\ pc' = [pc EXCEPT ![p] = "final"]
                   /\ UNCHANGED <<pipes, disc>>
    BY <1>7 DEF PutPipeline
  <2> DEFINE k == <<disc[p].project, id>>
  <2>2. CASE HasRoom(k, path)
    <3>1. pipes' = [pipes EXCEPT ![k] = Seen(k, path, run[p].batch)] /\ UNCHANGED <<pc, run>>
      BY <2>1, <2>2
    <3> DEFINE new      == disc[p].new \ {id}
               selected == disc[p].selected \cup {id}
               d        == [disc[p] EXCEPT !.new = new, !.selected = selected]
    <3>2. new \in SUBSET PipelineIds /\ selected \in SUBSET PipelineIds /\ id \in PipelineIds
      BY <1>0 DEF ListingRecord
    <3>3. disc' = [disc EXCEPT ![p] = d]
      BY <2>1, <2>2
    <3>4. d \in ListingRecord /\ d.project = disc[p].project
      <4> HIDE DEF new, selected
      <4> QED
        BY <1>0, <3>2, PipelinePutType
    <3>5. k \in Keys
      BY <2>0, <3>2
    <3>6. Seen(k, path, run[p].batch) \in PipelineRecord
      <4>1. pipes[k] \in PipelineRecord \cup {NoPipe}
        BY <3>5 DEF TypeInv, TypeOK
      <4>2. run[p].batch \in Batches
        BY <1>0, <2>0
      <4>3. CASE pipes[k] # NoPipe
        BY <4>1, <4>2, <4>3 DEF Seen, PipelineRecord
      <4>4. CASE pipes[k] = NoPipe
        BY <2>0, <4>2, <4>4 DEF Seen, PipelineRecord
      <4> QED
        BY <4>3, <4>4
    <3> HIDE DEF k, path, d
    <3> QED
      BY <1>7, <2>0, <3>1, <3>3, <3>4, <3>5, <3>6
      DEF PutPipeline, TypeInv, TypeOK, taskVars
  <2>3. CASE ~ HasRoom(k, path)
    <3>1. /\ run' = [run EXCEPT ![p].state = "capacity"]
          /\ pc' = [pc EXCEPT ![p] = "final"]
          /\ UNCHANGED <<pipes, disc>>
      BY <2>1, <2>3
    <3>2. "capacity" \in RunStates
      BY DEF RunStates, Stopped
    <3>3. SameRuns
      BY <3>1, <3>2, NewStateType DEF TypeInv, TypeOK
    <3> QED
      BY <1>0, <1>7, <3>1, <3>3 DEF SameRuns, PutPipeline, TypeInv, TypeOK, taskVars
  <2> QED
    BY <2>2, <2>3
<1>8. CASE FinishPage(p)
  <2>1. CASE NextPage(disc[p])
    <3>1. PICK oldest \in disc[p].selected :
            disc' = [disc EXCEPT ![p] = [@ EXCEPT !.page = disc[p].page + 1, !.floor = oldest, !.new = {}]]
      BY <1>8, <2>1 DEF FinishPage
    <3> DEFINE d == [disc[p] EXCEPT !.page = disc[p].page + 1, !.floor = oldest, !.new = {}]
    <3>2. oldest \in PipelineIds
      BY <1>0 DEF ListingRecord
    <3>3. d \in ListingRecord /\ d.project = disc[p].project
      BY <1>0, <3>2, NextPageType
    <3>4. disc' = [disc EXCEPT ![p] = d]
      BY <3>1
    <3>5. ckpt' \in CheckpointRecord
      BY <1>0, <1>8, <2>1, CheckpointType DEF FinishPage
    <3> HIDE DEF d
    <3> QED
      BY <1>8, <2>1, <3>3, <3>4, <3>5 DEF FinishPage, TypeInv, TypeOK, taskVars
  <2>2. CASE ~ NextPage(disc[p])
    <3>1. ListingState(disc[p]) \in Listings /\ run[p].state \in RunStates
      BY <1>0 DEF ListingState, Listings, RunRecord
    <3>2. EndListing(p, ListingState(disc[p]), run[p].state) /\ pc[p] # "idle"
      BY <1>8, <2>2 DEF FinishPage
    <3> QED
      BY <1>8, <3>1, <3>2, EndListingType DEF FinishPage, TypeInv, TypeOK, taskVars
  <2> QED
    BY <2>1, <2>2
<1>9. CASE PlanCollection(p)
  BY <1>9 DEF PlanCollection, TypeInv, TypeOK, store, BatchRows, Rows
<1>10. CASE LaunchBatch(p)
  <2>1. PICK B \in SUBSET Keys :
          at' = [at EXCEPT ![p] = [k \in Keys |-> IF k \in B THEN "start" ELSE at[p][k]]]
    BY <1>10 DEF LaunchBatch, Tasks
  <2>2. at' \in [Procs -> [Keys -> {"off", "queued", "start", "list", "listed", "jobs", "trace",
                                   "traced"}]]
    BY <2>1 DEF TypeInv, TypeOK
  <2> QED
    BY <1>10, <2>2 DEF LaunchBatch, TypeInv, TypeOK, store
<1>11. CASE EndBatch(p)
  <2>1. ckpt' \in CheckpointRecord
    BY <1>0, <1>11, CheckpointType DEF EndBatch
  <2> QED
    BY <1>11, <2>1 DEF EndBatch, TypeInv, TypeOK, taskVars
<1>12. CASE CancelBatch(p)
  <2>1. TaskTypes'
    BY <1>12, NoTasksType DEF CancelBatch, TypeInv, TypeOK, TaskTypes
  <2>2. run[p].failure \in RunStates
    BY <1>0, <1>12 DEF CancelBatch, RunRecord, RunStates, Stopped
  <2>3. SameRuns
    BY <1>12, <2>2, NewStateType DEF CancelBatch, TypeInv, TypeOK
  <2> QED
    BY ZenonT(60), <1>0, <1>12, <2>1, <2>3 DEF CancelBatch, SameRuns, TypeInv, TypeOK, store, TaskTypes
<1>13. CASE EndCollection(p)
  <2>1. TaskTypes'
    BY <1>13, NoTasksType DEF EndCollection, TypeInv, TypeOK, TaskTypes
  <2> QED
    BY <1>13, <2>1 DEF EndCollection, TypeInv, TypeOK, store, TaskTypes
<1>14. CASE Finish(p)
  <2>1. FinalState(run[p]) \in RunStates
    BY <1>0 DEF RunRecord, FinalState, RunStates, Stopped
  <2> DEFINE r == [run[p] EXCEPT !.state = FinalState(run[p])]
  <2>3. r \in RunRecord /\ r.batch \in Batches /\ r.plan \in Plans
    BY <1>0, <1>14, <2>1 DEF Finish, RunRecord
  <2>4. ckpt' = Checkpoint(r)
    BY <1>14 DEF Finish
  <2>2. ckpt' \in CheckpointRecord
    <3> HIDE DEF r
    <3> QED
      BY <2>3, <2>4, CheckpointType
  <2> QED
    BY <1>14, <2>2, ReleaseType DEF Finish, TypeInv, TypeOK
<1>15. CASE Reclassify(p)
  <2>1. PICK k \in Keys, s \in TraceOutcomes \cap Classified :
          \E j \in todo[p][k] :
            /\ jobs' = [jobs EXCEPT ![k][j] = [state |-> s, http |-> NoOne]]
            /\ todo' = [todo EXCEPT ![p][k] = @ \ {j}]
    BY <1>15 DEF Reclassify
  <2>2. PICK j \in todo[p][k] :
            /\ jobs' = [jobs EXCEPT ![k][j] = [state |-> s, http |-> NoOne]]
            /\ todo' = [todo EXCEPT ![p][k] = @ \ {j}]
    BY <2>1
  <2>3. [state |-> s, http |-> NoOne] \in JobRecord
    BY DEF JobRecord
  <2>4. jobs' \in [Keys -> [JobIds -> JobRecord \cup {NoJob}]]
    BY <2>2, <2>3 DEF TypeInv, TypeOK
  <2>5. todo' \in [Procs -> [Keys -> SUBSET JobIds]]
    BY <2>2 DEF TypeInv, TypeOK
  <2> QED
    BY <1>15, <2>4, <2>5 DEF Reclassify, TypeInv, TypeOK
<1>16. CASE EndReevaluation(p)
  BY <1>16, ReleaseType DEF EndReevaluation, TypeInv, TypeOK, store
<1> QED
  BY <1>1, <1>2, <1>3, <1>4, <1>5, <1>6, <1>7, <1>8, <1>9, <1>10, <1>11, <1>12, <1>13, <1>14,
     <1>15, <1>16 DEF MainStep

\* A record of the pipelines table with some of its fields replaced.
LEMMA UnreadableType ==
    ASSUME NEW r \in PipelineRecord, NEW c \in Codes \cup {502, NoOne}
    PROVE  [r EXCEPT !.listing = "unreadable", !.complete = TRUE, !.http = c] \in PipelineRecord
<1> DEFINE q == [r EXCEPT !.listing = "unreadable", !.complete = TRUE]
<1>1. q \in PipelineRecord
  BY ZenonT(60) DEF PipelineRecord
<1>2. [q EXCEPT !.http = c] \in PipelineRecord
  <2> HIDE DEF q
  <2> QED
    BY <1>1 DEF PipelineRecord
<1>3. [r EXCEPT !.listing = "unreadable", !.complete = TRUE, !.http = c] = [q EXCEPT !.http = c]
  OBVIOUS
<1> QED
  BY <1>2, <1>3

LEMMA ListedType ==
    ASSUME NEW r \in PipelineRecord, NEW S \in SUBSET JobIds, NEW b \in BOOLEAN
    PROVE  [r EXCEPT !.listing = "listed", !.selected = S, !.complete = b] \in PipelineRecord
BY ZenonT(60) DEF PipelineRecord

LEMMA CompleteType ==
    ASSUME NEW r \in PipelineRecord PROVE [r EXCEPT !.complete = TRUE] \in PipelineRecord
BY ZenonT(60) DEF PipelineRecord

\* The kinds of answers tell their other fields.
LEMMA AnswerFields ==
    /\ \A c : /\ Refused(c).kind = "refused" /\ Refused(c).code = c /\ Refused(c) # Malformed
    /\ \A S : Listed(S).kind = "listed" /\ Listed(S).jobs = S
    /\ \A s : Traced(s).kind = "traced" /\ Traced(s).state = s
    /\ Malformed.kind = "malformed"
<1>1. \A c : Refused(c).kind = "refused" /\ Refused(c).code = c
  BY DEF Refused
<1>2. Malformed.kind = "malformed"
  BY DEF Malformed
<1> QED
  BY <1>1, <1>2 DEF Listed, Traced

\* A task works on a row.
HasRow == \A p \in Procs, k \in Keys : at[p][k] # "off" => local[p][k] \in PipelineRecord

\* The answer a task has, and the job it is fetching.
HasAnswer == \A p \in Procs, k \in Keys :
    /\ at[p][k] = "listed" =>
         \/ \E c \in Codes : ans[p][k] = Refused(c)
         \/ \E S \in Samples : ans[p][k] = Listed(S)
         \/ ans[p][k] = Malformed
    /\ at[p][k] = "traced" =>
         \/ \E c \in Codes \cup {TooLarge} : ans[p][k] = Refused(c)
         \/ \E s \in TraceOutcomes : ans[p][k] = Traced(s)
    /\ at[p][k] \in {"trace", "traced"} => job[p][k] \in JobIds

TaskInv == HasRow /\ HasAnswer

\* A step of a task, or an answer to one, leaves the main coroutine where it is.
LEMMA TaskStepType ==
    ASSUME TypeInv, TaskTypes', SameRuns, UNCHANGED <<ckpt, lease, pc, disc, runs>>,
           pipes' \in [Keys -> PipelineRecord \cup {NoPipe}],
           jobs' \in [Keys -> [JobIds -> JobRecord \cup {NoJob}]],
           latch' \in [Procs -> BOOLEAN], faults' \in 0..MaxFaults
    PROVE  TypeInv'
<1>1. TypeOK'
  BY DEF TypeInv, TypeOK, TaskTypes, SameRuns
<1>2. HasRun' /\ HasListing'
  BY DEF TypeInv, HasRun, HasListing, SameRuns, TypeOK
<1> QED
  BY <1>1, <1>2 DEF TypeInv

\* A task that returned has no row and no answer.
LEMMA ReturnTask ==
    ASSUME TaskTypes, TaskInv, NEW p \in Procs, NEW k \in Keys, Return(p, k)
    PROVE  TaskInv'
<1>1. \A q \in Procs, l \in Keys :
        \/ q = p /\ l = k /\ at'[q][l] = "off"
        \/ /\ at'[q][l] = at[q][l] /\ local'[q][l] = local[q][l]
           /\ job'[q][l] = job[q][l] /\ ans'[q][l] = ans[q][l]
  BY DEF TaskTypes, Return
<1> QED
  BY <1>1 DEF TaskInv, HasRow, HasAnswer

LEMMA NoTasksTask ==
    ASSUME TaskTypes, TaskInv, NEW p \in Procs, NoTasks(p) PROVE TaskInv'
<1>1. \A q \in Procs, l \in Keys :
        \/ at'[q][l] = "off"
        \/ /\ at'[q][l] = at[q][l] /\ local'[q][l] = local[q][l]
           /\ job'[q][l] = job[q][l] /\ ans'[q][l] = ans[q][l]
  BY DEF TaskTypes, NoTasks
<1> QED
  BY <1>1 DEF TaskInv, HasRow, HasAnswer

LEMMA SameTask ==
    ASSUME TaskInv, UNCHANGED <<at, local, job, ans>> PROVE TaskInv'
BY DEF TaskInv, HasRow, HasAnswer

\* A request is sent, or answered at once by the latch.
LEMMA SendType ==
    ASSUME TaskTypes, NEW p \in Procs, NEW k \in Keys,
           NEW w \in {"list", "trace"}, NEW a \in {"listed", "traced"}, Send(p, k, w, a)
    PROVE  /\ at' \in [Procs -> [Keys -> {"off", "queued", "start", "list", "listed", "jobs",
                                          "trace", "traced"}]]
           /\ ans' \in [Procs -> [Keys -> Answers]]
           /\ \A q \in Procs, l \in Keys :
                IF q = p /\ l = k
                THEN at'[q][l] = w \/ (at'[q][l] = a /\ ans'[q][l] = Refused(429))
                ELSE at'[q][l] = at[q][l] /\ ans'[q][l] = ans[q][l]
<1>1. Refused(429) \in Answers
  BY DEF Answers, Codes, StopCodes
<1>2. CASE latch[p]
  <2>1. /\ at' = [at EXCEPT ![p][k] = a] /\ ans' = [ans EXCEPT ![p][k] = Refused(429)]
    BY <1>2 DEF Send
  <2> HIDE DEF Keys
  <2> QED
    BY <1>1, <2>1 DEF TaskTypes
<1>3. CASE ~ latch[p]
  <2>1. at' = [at EXCEPT ![p][k] = w] /\ ans' = ans
    BY <1>3 DEF Send
  <2> HIDE DEF Keys
  <2> QED
    BY <2>1 DEF TaskTypes
<1> QED
  BY <1>2, <1>3

\* One step of a task.
LEMMA CollectStepType ==
    ASSUME TypeInv, TaskInv, NEW p \in Procs, NEW k \in Keys, CollectStep(p, k)
    PROVE  TypeInv' /\ TaskInv'
<1>0. /\ TaskTypes /\ run \in [Procs -> RunRecord] /\ run[p] \in RunRecord
      /\ at[p][k] # "off" => local[p][k] \in PipelineRecord
      /\ pipes \in [Keys -> PipelineRecord \cup {NoPipe}]
      /\ jobs \in [Keys -> [JobIds -> JobRecord \cup {NoJob}]]
      /\ latch \in [Procs -> BOOLEAN] /\ faults \in 0..MaxFaults
  BY DEF TypeInv, TypeOK, TaskTypes, TaskInv, HasRow
<1>a. ASSUME Return(p, k) PROVE TaskTypes' /\ TaskInv'
  BY <1>0, <1>a, ReturnType, ReturnTask
<1>b. UNCHANGED run => SameRuns
  BY <1>0 DEF SameRuns
<1>1. CASE StartTask(p, k)
  <2>1. CASE Return(p, k)
    BY <1>0, <1>1, <1>a, <1>b, <2>1, TaskStepType DEF StartTask, store
  <2>2. CASE Send(p, k, "list", "listed") /\ UNCHANGED <<todo, local, job>>
    <3>1. TaskTypes'
      BY <1>0, <2>2, SendType DEF TaskTypes
    <3>2. TaskInv'
      <4>1. 429 \in Codes
        BY DEF Codes, StopCodes
      <4>2. at[p][k] = "start"
        BY <1>1 DEF StartTask
      <4>3. \A q \in Procs, l \in Keys :
                IF q = p /\ l = k
                THEN at'[q][l] = "list" \/ (at'[q][l] = "listed" /\ ans'[q][l] = Refused(429))
                ELSE at'[q][l] = at[q][l] /\ ans'[q][l] = ans[q][l]
        BY <1>0, <2>2, SendType
      <4> QED
        BY <2>2, <4>1, <4>2, <4>3 DEF TaskInv, HasRow, HasAnswer
    <3> QED
      BY <1>0, <1>1, <1>b, <3>1, <3>2, TaskStepType DEF StartTask, store
  <2>3. CASE /\ at' = [at EXCEPT ![p][k] = "jobs"]
             /\ todo' = [todo EXCEPT ![p][k] = Pending(k)]
             /\ UNCHANGED <<ans, local, job>>
    <3>1. TaskTypes'
      BY <1>0, <2>3 DEF TaskTypes, Pending
    <3>2. \A q \in Procs, l \in Keys :
            at'[q][l] = IF q = p /\ l = k THEN "jobs" ELSE at[q][l]
      BY <1>0, <2>3 DEF TaskTypes
    <3>3. at[p][k] = "start"
      BY <1>1 DEF StartTask
    <3>4. TaskInv'
      <4> HIDE DEF Keys
      <4> QED
        BY <2>3, <3>2, <3>3 DEF TaskInv, HasRow, HasAnswer
    <3> QED
      BY <1>0, <1>1, <1>b, <3>1, <3>4, TaskStepType DEF StartTask, store
  <2> QED
    BY <1>1, <2>1, <2>2, <2>3 DEF StartTask
<1>2. CASE NextJobPage(p, k)
  <2>1. Send(p, k, "list", "listed") /\ UNCHANGED <<todo, local, job>>
    BY <1>2 DEF NextJobPage
  <2>2. TaskTypes'
    BY <1>0, <2>1, SendType DEF TaskTypes
  <2>3. TaskInv'
    <3>1. 429 \in Codes
      BY DEF Codes, StopCodes
    <3>2. \A q \in Procs, l \in Keys :
                IF q = p /\ l = k
                THEN at'[q][l] = "list" \/ (at'[q][l] = "listed" /\ ans'[q][l] = Refused(429))
                ELSE at'[q][l] = at[q][l] /\ ans'[q][l] = ans[q][l]
      BY <1>0, <2>1, SendType
    <3>3. at[p][k] = "list"
      BY <1>2 DEF NextJobPage
    <3> QED
      BY <2>1, <3>1, <3>2, <3>3 DEF TaskInv, HasRow, HasAnswer
  <2> QED
    BY <1>0, <1>2, <1>b, <2>2, <2>3, TaskStepType DEF NextJobPage, store
<1>3. CASE StopTask(p, k)
  <2>1. StopFor(run[p].state, ans[p][k].code) \in RunStates
    BY <1>0, StopForType DEF RunRecord
  <2>2. run' = [run EXCEPT ![p].state = StopFor(run[p].state, ans[p][k].code)]
    BY <1>3 DEF StopTask
  <2>3. SameRuns
    BY <1>0, <2>1, <2>2, NewStateType
  <2> QED
    BY <1>0, <1>3, <1>a, <2>3, TaskStepType DEF StopTask, store
<1>4. CASE JobsUnreadable(p, k)
  <2> DEFINE c == IF ans[p][k] = Malformed THEN 502 ELSE ans[p][k].code
  <2>1. c \in Codes \cup {502, NoOne}
    BY <1>4, AnswerFields DEF JobsUnreadable, TaskInv, HasAnswer
  <2>2. [local[p][k] EXCEPT !.listing = "unreadable", !.complete = TRUE, !.http = c]
          \in PipelineRecord
    <3>1. local[p][k] \in PipelineRecord
      BY <1>0, <1>4 DEF JobsUnreadable
    <3> HIDE DEF c
    <3> QED
      BY ZenonT(60), <2>1, <3>1, UnreadableType
  <2>3. pipes' = [pipes EXCEPT ![k] =
                    [local[p][k] EXCEPT !.listing = "unreadable", !.complete = TRUE, !.http = c]]
    BY <1>4 DEF JobsUnreadable
  <2>4. pipes' \in [Keys -> PipelineRecord \cup {NoPipe}]
    <3> HIDE DEF c, Keys
    <3> QED
      BY <1>0, <2>2, <2>3
  <2> QED
    BY <1>0, <1>4, <1>a, <1>b, <2>4, TaskStepType DEF JobsUnreadable
<1>5. CASE JobsListed(p, k)
  <2> DEFINE S == ans[p][k].jobs
             r == [local[p][k] EXCEPT !.listing = "listed", !.selected = S, !.complete = (S = {})]
  <2>1. S \in SUBSET JobIds
    BY <1>5, AnswerFields DEF JobsListed, TaskInv, HasAnswer, Samples
  <2>2. local[p][k] \in PipelineRecord
    BY <1>0, <1>5 DEF JobsListed
  <2>3. r \in PipelineRecord
    <3> DEFINE b == (S = {})
    <3>1. b \in BOOLEAN
      OBVIOUS
    <3>2. r = [local[p][k] EXCEPT !.listing = "listed", !.selected = S, !.complete = b]
      OBVIOUS
    <3> HIDE DEF S, b, r
    <3>3. [local[p][k] EXCEPT !.listing = "listed", !.selected = S, !.complete = b]
             \in PipelineRecord
      BY <2>1, <2>2, <3>1, ListedType
    <3> QED
      BY <3>2, <3>3
  <2>4. /\ pipes' = [pipes EXCEPT ![k] = r]
        /\ jobs' = [jobs EXCEPT ![k] = [j \in JobIds |-> IF j \in S THEN Fresh ELSE @[j]]]
        /\ local' = [local EXCEPT ![p][k] = r]
        /\ todo' = [todo EXCEPT ![p][k] = S]
        /\ at' = [at EXCEPT ![p][k] = "jobs"]
        /\ ans' = [ans EXCEPT ![p][k] = NoAnswer]
        /\ UNCHANGED <<ckpt, lease, pc, run, disc, latch, job, runs, faults>>
    BY <1>5 DEF JobsListed
  <2>5. Fresh \in JobRecord
    BY DEF Fresh, JobRecord
  <2> HIDE DEF S, r, Keys
  <2>6. jobs' \in [Keys -> [JobIds -> JobRecord \cup {NoJob}]]
    BY <1>0, <2>4, <2>5
  <2>7. pipes' \in [Keys -> PipelineRecord \cup {NoPipe}]
    BY <1>0, <2>3, <2>4
  <2>8. TaskTypes'
    BY <1>0, <2>1, <2>3, <2>4 DEF TaskTypes, Answers
  <2>9. TaskInv'
    BY ZenonT(60), <1>0, <2>3, <2>4 DEF TaskTypes, TaskInv, HasRow, HasAnswer
  <2> QED
    BY <1>0, <1>b, <2>4, <2>6, <2>7, <2>8, <2>9, TaskStepType
<1>6. CASE LeaveJobs(p, k)
  BY <1>0, <1>6, <1>a, <1>b, TaskStepType DEF LeaveJobs, store
<1>7. CASE FetchTrace(p, k)
  <2>1. PICK j \in todo[p][k] : /\ job' = [job EXCEPT ![p][k] = j]
                                /\ todo' = [todo EXCEPT ![p][k] = @ \ {j}]
    BY <1>7 DEF FetchTrace
  <2>2. Send(p, k, "trace", "traced") /\ at[p][k] = "jobs" /\ UNCHANGED local
    BY <1>7 DEF FetchTrace
  <2>3. \A q \in Procs, l \in Keys :
                IF q = p /\ l = k
                THEN at'[q][l] = "trace" \/ (at'[q][l] = "traced" /\ ans'[q][l] = Refused(429))
                ELSE at'[q][l] = at[q][l] /\ ans'[q][l] = ans[q][l]
    BY <1>0, <2>2, SendType
  <2>4. TaskTypes'
    <3>1. job' \in [Procs -> [Keys -> JobIds \cup {NoOne}]]
      BY <1>0, <2>1 DEF TaskTypes
    <3>2. todo' \in [Procs -> [Keys -> SUBSET JobIds]]
      BY <1>0, <2>1 DEF TaskTypes
    <3> QED
      BY <1>0, <2>2, <3>1, <3>2, SendType DEF TaskTypes
  <2>5. TaskInv'
    <3>1. 429 \in Codes
      BY DEF Codes, StopCodes
    <3>2. j \in JobIds
      BY <1>0, <2>1 DEF TaskTypes
    <3>3. \A q \in Procs, l \in Keys :
            IF q = p /\ l = k THEN job'[q][l] = j ELSE job'[q][l] = job[q][l]
      BY <1>0, <2>1 DEF TaskTypes
    <3> HIDE DEF Keys
    <3>4. HasRow'
      BY <2>2, <2>3 DEF TaskInv, HasRow
    <3> QED
      BY <2>2, <2>3, <3>1, <3>2, <3>3, <3>4 DEF TaskInv, HasAnswer
  <2> QED
    BY <1>0, <1>7, <1>b, <2>4, <2>5, TaskStepType DEF FetchTrace, store
<1>8. CASE RecordTrace(p, k)
  <2> DEFINE o == Observation(ans[p][k])
  <2>1. o \in JobRecord
    <3>1. CASE \E c \in Codes \cup {TooLarge} : ans[p][k] = Refused(c)
      BY <3>1 DEF Observation, Refused, JobRecord
    <3>2. CASE \E s \in TraceOutcomes : ans[p][k] = Traced(s)
      BY <3>2, OutcomeAssumption DEF Observation, Traced, JobRecord, Classified
    <3> QED
      BY <1>8, <3>1, <3>2 DEF RecordTrace, TaskInv, HasAnswer
  <2>2. jobs' = [jobs EXCEPT ![k][job[p][k]] = o]
    BY <1>8 DEF RecordTrace
  <2> HIDE DEF o, Keys
  <2>3. jobs' \in [Keys -> [JobIds -> JobRecord \cup {NoJob}]]
    BY <1>0, <2>1, <2>2
  <2>4. TaskTypes'
    BY <1>0, <1>8 DEF RecordTrace, TaskTypes, Answers
  <2>5. TaskInv'
    BY ZenonT(60), <1>0, <1>8 DEF RecordTrace, TaskTypes, TaskInv, HasRow, HasAnswer
  <2> QED
    BY <1>0, <1>8, <1>b, <2>3, <2>4, <2>5, TaskStepType DEF RecordTrace
<1>9. CASE FinishPipeline(p, k)
  <2>1. [local[p][k] EXCEPT !.complete = TRUE] \in PipelineRecord
    BY <1>0, <1>9, CompleteType DEF FinishPipeline
  <2>2. pipes' \in [Keys -> PipelineRecord \cup {NoPipe}]
    BY <1>0, <1>9, <2>1 DEF FinishPipeline
  <2> QED
    BY <1>0, <1>9, <1>a, <1>b, <2>2, TaskStepType DEF FinishPipeline
<1> QED
  BY <1>1, <1>2, <1>3, <1>4, <1>5, <1>6, <1>7, <1>8, <1>9 DEF CollectStep

\* GitLab's answer to a task.
LEMMA AnsweredType ==
    ASSUME TypeInv, TaskInv, NEW p \in Procs, NEW k \in Keys, NEW a \in Answers,
           NEW where \in {"listed", "traced"}, Answered(p, k, where, a),
           at[p][k] # "off", latch' \in [Procs -> BOOLEAN],
           where = "listed" => \/ \E c \in Codes : a = Refused(c)
                               \/ \E S \in Samples : a = Listed(S)
                               \/ a = Malformed,
           where = "traced" => /\ \/ \E c \in Codes \cup {TooLarge} : a = Refused(c)
                                  \/ \E s \in TraceOutcomes : a = Traced(s)
                               /\ job[p][k] \in JobIds
    PROVE  TypeInv' /\ TaskInv'
<1>0. TaskTypes
  BY DEF TypeInv, TypeOK, TaskTypes
<1>1. TaskTypes'
  BY <1>0 DEF Answered, TaskTypes
<1>2. SameRuns
  BY DEF SameRuns, TypeInv, TypeOK, Answered
<1>3. \A q \in Procs, l \in Keys :
        /\ at'[q][l] = IF q = p /\ l = k THEN where ELSE at[q][l]
        /\ ans'[q][l] = IF q = p /\ l = k THEN a ELSE ans[q][l]
  BY <1>0 DEF Answered, TaskTypes
<1>4. UNCHANGED <<local, job>>
  BY DEF Answered
<1>5. TaskInv'
  <2> HIDE DEF Keys
  <2>1. HasRow'
    BY <1>3, <1>4 DEF TaskInv, HasRow
  <2>2. HasAnswer'
    BY <1>3, <1>4 DEF TaskInv, HasAnswer
  <2> QED
    BY <2>1, <2>2 DEF TaskInv
<1> QED
  BY <1>1, <1>2, <1>5, TaskStepType DEF Answered, store, TypeInv, TypeOK

LEMMA ServerStepType ==
    ASSUME TypeInv, TaskInv, NEW p \in Procs, NEW k \in Keys, ServerStep(p, k)
    PROVE  TypeInv' /\ TaskInv'
<1>0. latch \in [Procs -> BOOLEAN]
  BY DEF TypeInv, TypeOK
<1>1. CASE AnswerJobs(p, k)
  <2>1. PICK a \in Answers : /\ Answered(p, k, "listed", a)
                             /\ \/ \E c \in Codes : a = Refused(c)
                                \/ \E S \in Samples : a = Listed(S)
                                \/ a = Malformed
                             /\ UNCHANGED latch \/ \E c \in Codes : Latch(p, c)
    BY <1>1 DEF AnswerJobs, Answers
  <2>2. latch' \in [Procs -> BOOLEAN]
    BY <1>0, <2>1, LatchType
  <2> QED
    BY <1>1, <2>1, <2>2, AnsweredType DEF AnswerJobs
<1>2. CASE AnswerTrace(p, k)
  <2>1. PICK a \in Answers : /\ Answered(p, k, "traced", a)
                             /\ \/ \E c \in Codes \cup {TooLarge} : a = Refused(c)
                                \/ \E s \in TraceOutcomes : a = Traced(s)
                             /\ UNCHANGED latch \/ \E c \in Codes \cup {TooLarge} : Latch(p, c)
    BY <1>2 DEF AnswerTrace, Answers
  <2>2. latch' \in [Procs -> BOOLEAN]
    BY <1>0, <2>1, LatchType
  <2>3. at[p][k] = "trace" /\ job[p][k] \in JobIds
    BY <1>2 DEF AnswerTrace, TaskInv, HasAnswer
  <2> QED
    BY <2>1, <2>2, <2>3, AnsweredType
<1> QED
  BY <1>1, <1>2 DEF ServerStep

\* A step of the main coroutine drops its tasks, queues rows for them, or
\* leaves their rows and answers alone.
LEMMA MainStepTask ==
    ASSUME TypeInv, TaskInv, NEW p \in Procs, MainStep(p) PROVE TaskInv'
<1>0. TaskTypes /\ pipes \in [Keys -> PipelineRecord \cup {NoPipe}]
  BY DEF TypeInv, TypeOK, TaskTypes
<1>1. CASE NoTasks(p)
  BY <1>0, <1>1, NoTasksTask
<1>2. CASE UNCHANGED <<at, local, job, ans>>
  BY <1>2, SameTask
<1>3. CASE PlanCollection(p)
  <2>1. \A k \in Keys : k \in BatchRows(run[p].batch) => pipes[k] \in PipelineRecord
    BY <1>0 DEF BatchRows, Rows
  <2>2. \A q \in Procs, k \in Keys :
          /\ at'[q][k] = IF q = p THEN IF k \in BatchRows(run[p].batch) THEN "queued" ELSE "off"
                         ELSE at[q][k]
          /\ local'[q][k] = IF q = p THEN IF k \in BatchRows(run[p].batch) THEN pipes[k] ELSE NoPipe
                            ELSE local[q][k]
    BY <1>0, <1>3 DEF PlanCollection, TaskTypes
  <2>3. UNCHANGED <<job, ans>>
    BY <1>3 DEF PlanCollection
  <2> HIDE DEF Keys
  <2>4. HasRow'
    BY <2>1, <2>2 DEF TaskInv, HasRow
  <2> QED
    BY <2>2, <2>3, <2>4 DEF TaskInv, HasAnswer
<1>4. CASE LaunchBatch(p)
  <2>1. PICK B \in SUBSET Tasks(p, "queued") :
          at' = [at EXCEPT ![p] = [k \in Keys |-> IF k \in B THEN "start" ELSE at[p][k]]]
    BY <1>4 DEF LaunchBatch
  <2>2. \A q \in Procs, k \in Keys :
          \/ at'[q][k] = at[q][k]
          \/ at'[q][k] = "start" /\ at[q][k] = "queued"
    BY <1>0, <2>1 DEF TaskTypes, Tasks
  <2>3. UNCHANGED <<local, job, ans>>
    BY <1>4 DEF LaunchBatch
  <2> HIDE DEF Keys
  <2> QED
    BY <2>2, <2>3 DEF TaskInv, HasRow, HasAnswer
<1>5. CASE \/ OpenHarvest(p) \/ OpenReevaluation(p) \/ Begin(p) \/ ResolveProject(p)
           \/ ReadPage(p) \/ PutPipeline(p) \/ FinishPage(p) \/ EndBatch(p) \/ Reclassify(p)
  <2>1. UNCHANGED <<at, local, job, ans>>
    BY <1>5 DEF OpenHarvest, OpenReevaluation, Begin, ResolveProject, ReadPage, PutPipeline,
                FinishPage, EndBatch, Reclassify, taskVars
  <2> QED
    BY <1>2, <2>1
<1>6. CASE OpenRefused(p) \/ CancelBatch(p) \/ EndCollection(p) \/ Finish(p) \/ EndReevaluation(p)
  <2>1. NoTasks(p)
    BY <1>6 DEF OpenRefused, CancelBatch, EndCollection, Finish, EndReevaluation, Release
  <2> QED
    BY <1>1, <2>1
<1> QED
  BY <1>3, <1>4, <1>5, <1>6 DEF MainStep

LEMMA AcquireType ==
    ASSUME TypeInv, TaskInv, NEW p \in Procs, NEW mode \in {"open_harvest", "open_reevaluation"},
           Acquire(p, mode)
    PROVE  TypeInv' /\ TaskInv'
<1>1. runs + 1 \in Batches /\ runs' = runs + 1 /\ runs' \in 0..MaxRuns
  BY BoundAssumption DEF Acquire, TypeInv, TypeOK
<1>2. PICK plan \in Plans : run' = [run EXCEPT ![p] = NewRun(runs + 1, plan)]
  BY DEF Acquire
<1>3. /\ NewRun(runs + 1, plan) \in RunRecord /\ NewRun(runs + 1, plan).batch \in Batches
      /\ NewRun(runs + 1, plan).plan \in Plans
  BY <1>1, NewRunType
<1>4. TypeOK'
  BY <1>1, <1>2, <1>3 DEF Acquire, TypeInv, TypeOK, store, taskVars
<1>5. HasRun' /\ HasListing'
  BY <1>2, <1>3 DEF Acquire, TypeInv, TypeOK, HasRun, HasListing
<1>6. TaskInv'
  BY SameTask DEF Acquire, taskVars
<1> QED
  BY <1>4, <1>5, <1>6 DEF TypeInv

\* A fault ends the process, its batch or one of its tasks.
LEMMA FaultsType ==
    ASSUME TypeInv, TaskInv, NEW p \in Procs, Faults(p) PROVE TypeInv' /\ TaskInv'
<1>0. /\ TaskTypes /\ run \in [Procs -> RunRecord] /\ run[p] \in RunRecord
      /\ ckpt \in CheckpointRecord \cup {NoOne}
      /\ pc[p] # "idle" => run[p].batch \in Batches /\ run[p].plan \in Plans
  BY DEF TypeInv, TypeOK, TaskTypes, HasRun
<1>1. Fault => faults' \in 0..MaxFaults
  BY BoundAssumption DEF Fault, TypeInv, TypeOK
<1>2. CASE CommitFails(p)
  <2>1. PICK s \in {"capacity", "provider_error"} : run' = [run EXCEPT ![p].state = s]
    BY <1>2 DEF CommitFails
  <2>2. s \in RunStates
    BY DEF RunStates, Stopped
  <2>3. SameRuns
    BY <1>0, <2>1, <2>2, NewStateType
  <2>4. TaskTypes' /\ TaskInv'
    BY <1>0, <1>2, NoTasksType, NoTasksTask DEF CommitFails
  <2>5. HasRun' /\ HasListing'
    BY <1>2, <2>3 DEF CommitFails, SameRuns, TypeInv, TypeOK, HasRun, HasListing
  <2> QED
    BY <1>1, <1>2, <2>3, <2>4, <2>5 DEF CommitFails, SameRuns, TypeInv, TypeOK, TaskTypes, store
<1>3. CASE LastCommitFails(p) \/ Crash(p)
  <2>1. Fault /\ Release(p) /\ UNCHANGED <<store, runs>>
    BY <1>3 DEF LastCommitFails, Crash
  <2>2. TaskInv'
    BY <1>0, <2>1, NoTasksTask DEF Release
  <2>3. ckpt' \in CheckpointRecord \cup {NoOne}
    BY <1>0, <2>1 DEF store
  <2> QED
    BY <1>1, <2>1, <2>2, <2>3, ReleaseType DEF store
<1>4. CASE Interrupt(p)
  <2> DEFINE r == [run[p] EXCEPT !.state = "interrupted"]
  <2>1. r \in RunRecord /\ r.batch \in Batches /\ r.plan \in Plans
    BY <1>0, <1>4 DEF Interrupt, RunRecord, RunStates, Stopped
  <2>2. ckpt' = Checkpoint(r)
    BY <1>4 DEF Interrupt
  <2>3. ckpt' \in CheckpointRecord
    <3> HIDE DEF r
    <3> QED
      BY <2>1, <2>2, CheckpointType
  <2>4. TaskInv'
    BY <1>0, <1>4, NoTasksTask DEF Interrupt, Release
  <2> QED
    BY <1>1, <1>4, <2>3, <2>4, ReleaseType DEF Interrupt
<1>5. ASSUME NEW k \in Keys, TaskCommitFails(p, k) PROVE TypeInv' /\ TaskInv'
  <2> DEFINE f(s) == IF run[p].failure = NoOne THEN s ELSE run[p].failure
  <2>1. PICK s \in {"capacity", "provider_error"} : run' = [run EXCEPT ![p].failure = f(s)]
    BY <1>5 DEF TaskCommitFails
  <2>2. f(s) \in {"capacity", "provider_error", NoOne}
    BY <1>0 DEF RunRecord
  <2>3. SameRuns
    <3> DEFINE g == f(s)
               r == [run[p] EXCEPT !.failure = g]
    <3>1. run' = [run EXCEPT ![p] = r] /\ g \in {"capacity", "provider_error", NoOne}
      BY <2>1, <2>2
    <3> HIDE DEF g
    <3>2. /\ r \in RunRecord /\ r.batch = run[p].batch /\ r.plan = run[p].plan
          /\ r.index = run[p].index
      BY <1>0, <3>1 DEF RunRecord
    <3> HIDE DEF r
    <3> QED
      BY <1>0, <3>1, <3>2 DEF SameRuns
  <2>4. TaskTypes' /\ TaskInv'
    BY <1>0, <1>5, ReturnType, ReturnTask DEF TaskCommitFails
  <2> QED
    BY <1>1, <1>5, <2>3, <2>4, TaskStepType DEF TaskCommitFails, store, TypeInv, TypeOK
<1> QED
  BY <1>2, <1>3, <1>4, <1>5 DEF Faults

LEMMA InitType == Init => TypeInv /\ TaskInv
<1> SUFFICES ASSUME Init PROVE TypeInv /\ TaskInv
  OBVIOUS
<1>1. /\ NoAnswer \in Answers /\ NoRun \in RunRecord /\ NewListing(NoOne) \in ListingRecord
      /\ 0 \in 0..MaxRuns /\ 0 \in 0..MaxFaults
  BY NewRunType, BoundAssumption DEF Answers
<1>4. TypeOK
  BY <1>1 DEF Init, TypeOK
<1>2. HasRun /\ HasListing
  BY DEF Init, HasRun, HasListing
<1>3. TaskInv
  BY DEF Init, TaskInv, HasRow, HasAnswer
<1> QED
  BY <1>2, <1>3, <1>4 DEF TypeInv

LEMMA NextType ==
    ASSUME TypeInv, TaskInv, [Next]_vars PROVE TypeInv' /\ TaskInv'
<1>1. CASE Next
  <2>1. PICK p \in Procs : \/ \E mode \in {"open_harvest", "open_reevaluation"} : Acquire(p, mode)
                           \/ MainStep(p)
                           \/ \E k \in Keys : CollectStep(p, k) \/ ServerStep(p, k)
                           \/ Faults(p)
    BY <1>1 DEF Next
  <2> QED
    BY <2>1, AcquireType, MainStepType, MainStepTask, CollectStepType, ServerStepType, FaultsType
<1>2. CASE UNCHANGED vars
  <2>1. TaskInv'
    BY <1>2, SameTask DEF vars, taskVars
  <2>2. TypeOK'
    BY <1>2 DEF vars, store, taskVars, TypeInv, TypeOK
  <2>3. HasRun' /\ HasListing'
    BY <1>2 DEF vars, TypeInv, HasRun, HasListing
  <2> QED
    BY <2>1, <2>2, <2>3 DEF TypeInv
<1> QED
  BY <1>1, <1>2

LEMMA TypesAndTasks == Spec => [](TypeInv /\ TaskInv)
<1>1. TypeInv /\ TaskInv /\ [Next]_vars => (TypeInv /\ TaskInv)'
  BY NextType
<1> QED
  BY <1>1, InitType, PTL DEF Spec

\* Rows, samples, the checkpoint, the lease and the locals of every run and
\* task keep their types, whatever interleaving and faults (TypeOK).
THEOREM TypeCorrect == Spec => []TypeOK
<1>1. TypeInv /\ TaskInv => TypeOK
  BY DEF TypeInv
<1> QED
  BY <1>1, TypesAndTasks, PTL

HIDE DEF Keys, Batches

-----------------------------------------------------------------------------
(* The inductive invariant of the store. *)

\* Only the holder of the lease is inside the with block.
Exclusive == \A p \in Procs : pc[p] # "idle" => lease = p

\* What a task knows of its pipeline is what the store holds: its own copy is
\* the row, an unlisted row has no samples yet, and every pending sample is still
\* in its hands.
TaskAgrees(p, k) ==
    at[p][k] # "off" =>
        /\ pc[p] \in {"batch", "gather"}
        /\ pipes[k] # NoPipe
        /\ local[p][k] = pipes[k]
        /\ at[p][k] \in {"list", "listed"} => pipes[k].listing = "pending"
        /\ at[p][k] \in {"jobs", "trace", "traced"} =>
             /\ pipes[k].listing # "pending"
             /\ todo[p][k] \subseteq Sampled(k)
        /\ at[p][k] = "jobs" => Pending(k) \subseteq todo[p][k]
        /\ at[p][k] \in {"trace", "traced"} =>
             /\ Pending(k) \subseteq todo[p][k] \cup {job[p][k]}
             /\ job[p][k] \in Sampled(k)

\* Reevaluation only rewrites samples that were classified before.
Reevaluates(p) ==
    pc[p] = "reevaluate" =>
        \A k \in Keys : \A j \in todo[p][k] : jobs[k][j].state \in Classified

StoreInv ==
    /\ Exclusive
    /\ \A p \in Procs : Reevaluates(p) /\ \A k \in Keys : TaskAgrees(p, k)
    /\ RowsConsistent
    /\ PipelineCap

PcTypes == {"idle", "open_harvest", "open_reevaluation", "begin", "resolve", "page", "put",
            "batch", "gather", "final", "reevaluate"}

RowOK(k) == RowConsistent(k) /\ Cardinality(Sampled(k)) <= 2

LEMMA RealRecords ==
    /\ NoPipe \notin PipelineRecord
    /\ NoJob \notin JobRecord
<1>1. \A r \in PipelineRecord : r.project_key # NoOne
  <2>1. \A r \in PipelineRecord : r.project_key \in Paths
    BY DEF PipelineRecord
  <2> QED
    BY <2>1, IdAssumption
<1>2. NoPipe.project_key = NoOne
  BY DEF NoPipe
<1>3. \A r \in JobRecord : r.state # "none"
  BY DEF JobRecord, Classified
<1>4. NoJob.state = "none"
  BY DEF NoJob
<1> QED
  BY <1>1, <1>2, <1>3, <1>4

LEMMA FiniteRows == IsFiniteSet(Keys)
<1>1. IsFiniteSet(ProjectIds) /\ IsFiniteSet(PipelineIds)
  BY IdAssumption
<1>2. IsFiniteSet(ProjectIds \X PipelineIds)
  BY <1>1, FS_Product
<1> QED
  BY <1>2 DEF Keys

\* A step that leaves the store alone and every task where it is or drops it.
LEMMA StoreUntouched ==
    ASSUME StoreInv, UNCHANGED <<pipes, jobs>>, Exclusive',
           \A q \in Procs, l \in Keys :
             \/ at'[q][l] = "off"
             \/ /\ at'[q][l] = at[q][l] /\ local'[q][l] = local[q][l]
                /\ todo'[q][l] = todo[q][l] /\ job'[q][l] = job[q][l]
                /\ pc'[q] \in {"batch", "gather"},
           \A q \in Procs : pc'[q] = "reevaluate" => pc[q] = "reevaluate" /\ todo'[q] = todo[q]
    PROVE  StoreInv'
<1>1. \A k \in Keys : Sampled(k)' = Sampled(k) /\ Pending(k)' = Pending(k)
  BY DEF Sampled, Pending
<1>2. RowsConsistent' /\ PipelineCap'
  BY DEF StoreInv, RowsConsistent, RowConsistent, PipelineCap, Rows, Sampled, Pending
<1>3. ASSUME NEW q \in Procs, NEW l \in Keys PROVE TaskAgrees(q, l)'
  <2>1. TaskAgrees(q, l)
    BY DEF StoreInv
  <2> QED
    BY <1>1, <2>1 DEF TaskAgrees
<1>4. ASSUME NEW q \in Procs PROVE Reevaluates(q)'
  BY DEF StoreInv, Reevaluates
<1> QED
  BY <1>2, <1>3, <1>4 DEF StoreInv

\* A task's step changes nothing another task relies on: no other process has
\* the lease, and no other task has its pipeline.
LEMMA OthersAgree ==
    ASSUME StoreInv, NEW p \in Procs, NEW k \in Keys, at[p][k] # "off",
           UNCHANGED <<lease, pc>>,
           \A q \in Procs, l \in Keys :
             \/ q = p /\ l = k
             \/ /\ at'[q][l] = at[q][l] /\ local'[q][l] = local[q][l]
                /\ todo'[q][l] = todo[q][l] /\ job'[q][l] = job[q][l],
           \A l \in Keys : l # k => pipes'[l] = pipes[l] /\ jobs'[l] = jobs[l],
           pipes'[k] # NoPipe,
           TaskAgrees(p, k)', RowOK(k)'
    PROVE  StoreInv'
<1>1. pc[p] \in {"batch", "gather"} /\ lease = p /\ pipes[k] # NoPipe
  BY DEF StoreInv, TaskAgrees, Exclusive
<1>2. \A l \in Keys : l # k => Sampled(l)' = Sampled(l) /\ Pending(l)' = Pending(l)
  BY DEF Sampled, Pending
<1>3. ASSUME NEW q \in Procs, NEW l \in Keys PROVE TaskAgrees(q, l)'
  <2>1. TaskAgrees(q, l) /\ (pc[q] # "idle" => lease = q)
    BY DEF StoreInv, Exclusive
  <2>2. CASE q = p /\ l = k
    BY <2>2
  <2>3. CASE q # p /\ l = k
    <3>1. at[q][l] = "off"
      BY <1>1, <2>1, <2>3 DEF TaskAgrees
    <3> QED
      BY <2>3, <3>1 DEF TaskAgrees
  <2>4. CASE l # k
    <3>1. at'[q][l] = at[q][l] /\ local'[q][l] = local[q][l] /\ pipes'[l] = pipes[l]
          /\ todo'[q][l] = todo[q][l] /\ job'[q][l] = job[q][l] /\ pc' = pc
      BY <2>4
    <3>2. Sampled(l)' = Sampled(l) /\ Pending(l)' = Pending(l)
      BY <1>2, <2>4
    <3> QED
      BY <2>1, <3>1, <3>2 DEF TaskAgrees
  <2> QED
    BY <2>2, <2>3, <2>4
<1>4. ASSUME NEW q \in Procs PROVE Reevaluates(q)'
  BY <1>1 DEF StoreInv, Exclusive, Reevaluates
<1>5. RowsConsistent'
  <2>1. ASSUME NEW l \in Keys PROVE RowOK(l)'
    <3>1. CASE l = k
      BY <3>1
    <3>2. CASE l # k
      <4>1. RowOK(l)
        BY DEF StoreInv, RowsConsistent, RowOK
      <4>2. pipes'[l] = pipes[l] /\ Sampled(l)' = Sampled(l) /\ Pending(l)' = Pending(l)
        BY <1>2, <3>2
      <4> QED
        BY <4>1, <4>2 DEF RowOK, RowConsistent
    <3> QED
      BY <3>1, <3>2
  <2> QED
    BY <2>1 DEF RowsConsistent, RowOK
<1>6. PipelineCap'
  <2>1. Rows' = Rows
    BY <1>1 DEF Rows
  <2> QED
    BY <2>1 DEF StoreInv, PipelineCap
<1>7. Exclusive'
  BY DEF StoreInv, Exclusive
<1> QED
  BY <1>3, <1>4, <1>5, <1>6, <1>7 DEF StoreInv

\* A closed row, and a listed one, by field.
LEMMA RowFields ==
    ASSUME NEW r \in PipelineRecord
    PROVE  /\ \A c : LET u == [r EXCEPT !.listing = "unreadable", !.complete = TRUE, !.http = c] IN
                u.listing = "unreadable" /\ u.selected = r.selected /\ u.complete = TRUE
           /\ \A S, b : LET u == [r EXCEPT !.listing = "listed", !.selected = S, !.complete = b] IN
                u.listing = "listed" /\ u.selected = S /\ u.complete = b
           /\ LET u == [r EXCEPT !.complete = TRUE] IN
                u.listing = r.listing /\ u.selected = r.selected /\ u.complete = TRUE
BY DEF PipelineRecord

LEMMA CollectStepStore ==
    ASSUME TypeInv, TaskInv, StoreInv, NEW p \in Procs, NEW k \in Keys, CollectStep(p, k)
    PROVE  StoreInv'
<1>0. /\ TaskTypes
      /\ at[p][k] # "off" => local[p][k] \in PipelineRecord /\ pc[p] \in {"batch", "gather"}
      /\ TaskAgrees(p, k) /\ RowOK(k)
      /\ pipes \in [Keys -> PipelineRecord \cup {NoPipe}]
      /\ jobs \in [Keys -> [JobIds -> JobRecord \cup {NoJob}]]
      /\ Exclusive
  BY DEF TypeInv, TypeOK, TaskTypes, TaskInv, HasRow, StoreInv, RowsConsistent, RowOK, TaskAgrees
<1>1. ASSUME Return(p, k), UNCHANGED <<pipes, jobs, pc, lease>>, at[p][k] # "off"
      PROVE  StoreInv'
  <2>1. Exclusive'
    BY <1>0, <1>1 DEF Exclusive
  <2>2. ASSUME NEW q \in Procs, NEW l \in Keys
        PROVE \/ at'[q][l] = "off"
              \/ /\ at'[q][l] = at[q][l] /\ local'[q][l] = local[q][l]
                 /\ todo'[q][l] = todo[q][l] /\ job'[q][l] = job[q][l]
                 /\ pc'[q] \in {"batch", "gather"}
    <3>1. TaskAgrees(q, l)
      BY DEF StoreInv
    <3>2. \/ at'[q][l] = "off"
          \/ /\ at'[q][l] = at[q][l] /\ local'[q][l] = local[q][l]
             /\ todo'[q][l] = todo[q][l] /\ job'[q][l] = job[q][l]
      BY <1>0, <1>1 DEF Return, TaskTypes
    <3> QED
      BY <1>1, <3>1, <3>2 DEF TaskAgrees
  <2>3. ASSUME NEW q \in Procs, pc'[q] = "reevaluate"
        PROVE  pc[q] = "reevaluate" /\ todo'[q] = todo[q]
    <3>1. q # p
      BY <1>0, <1>1, <2>3
    <3> QED
      BY <1>0, <1>1, <2>3, <3>1 DEF Return, TaskTypes
  <2> QED
    BY <1>1, <2>1, <2>2, <2>3, StoreUntouched
<1>2. ASSUME NEW w \in {"list", "trace"}, NEW a \in {"listed", "traced"}, Send(p, k, w, a)
      PROVE  \A q \in Procs, l \in Keys :
                at'[q][l] = at[q][l] \/ (q = p /\ l = k /\ at'[q][l] \in {w, a})
  BY <1>0, <1>2, SendType
<1>3. ASSUME at[p][k] # "off", UNCHANGED <<pipes, jobs>> PROVE RowOK(k)' /\ pipes'[k] # NoPipe
  BY <1>0, <1>3 DEF TaskAgrees, RowOK, RowConsistent, Sampled, Pending
<1>4. CASE StartTask(p, k)
  <2>0. at[p][k] = "start" /\ UNCHANGED <<pipes, jobs, pc, lease>>
    BY <1>4 DEF StartTask, store
  <2>1. CASE Return(p, k)
    BY <1>1, <2>0, <2>1
  <2>2. CASE /\ Send(p, k, "list", "listed") /\ UNCHANGED <<todo, local, job>>
             /\ local[p][k].listing = "pending"
    <3>1. at'[p][k] \in {"list", "listed"}
      BY <1>0, <2>2, SendType
    <3>2. TaskAgrees(p, k)'
      BY <1>0, <2>0, <2>2, <3>1 DEF TaskAgrees
    <3>3. \A q \in Procs, l \in Keys :
             \/ q = p /\ l = k
             \/ /\ at'[q][l] = at[q][l] /\ local'[q][l] = local[q][l]
                /\ todo'[q][l] = todo[q][l] /\ job'[q][l] = job[q][l]
      BY <1>2, <2>2
    <3>4. RowOK(k)' /\ pipes'[k] # NoPipe
      BY <1>3, <2>0
    <3> QED
      BY <2>0, <3>2, <3>3, <3>4, OthersAgree
  <2>3. CASE /\ at' = [at EXCEPT ![p][k] = "jobs"] /\ todo' = [todo EXCEPT ![p][k] = Pending(k)]
             /\ UNCHANGED <<local, job>> /\ local[p][k].listing # "pending"
    <3>1. at'[p][k] = "jobs" /\ todo'[p][k] = Pending(k)
      BY <1>0, <2>3 DEF TaskTypes
    <3>2. Pending(k) \subseteq Sampled(k)
      BY DEF Pending, Sampled, NoJob
    <3>3. Pending(k)' = Pending(k) /\ Sampled(k)' = Sampled(k)
      BY <2>0 DEF Pending, Sampled
    <3>4. TaskAgrees(p, k)'
      BY <1>0, <2>0, <2>3, <3>1, <3>2, <3>3 DEF TaskAgrees
    <3>5. \A q \in Procs, l \in Keys :
             \/ q = p /\ l = k
             \/ /\ at'[q][l] = at[q][l] /\ local'[q][l] = local[q][l]
                /\ todo'[q][l] = todo[q][l] /\ job'[q][l] = job[q][l]
      BY <1>0, <2>3 DEF TaskTypes
    <3>6. RowOK(k)' /\ pipes'[k] # NoPipe
      BY <1>3, <2>0
    <3> QED
      BY <2>0, <3>4, <3>5, <3>6, OthersAgree
  <2> QED
    BY <1>4, <2>1, <2>2, <2>3 DEF StartTask
<1>5. CASE NextJobPage(p, k)
  <2>0. at[p][k] = "list" /\ UNCHANGED <<pipes, jobs, pc, lease, local, todo, job>>
    BY <1>5 DEF NextJobPage, store
  <2>1. \A q \in Procs, l \in Keys :
             \/ q = p /\ l = k
             \/ /\ at'[q][l] = at[q][l] /\ local'[q][l] = local[q][l]
                /\ todo'[q][l] = todo[q][l] /\ job'[q][l] = job[q][l]
    BY <1>2, <1>5, <2>0 DEF NextJobPage
  <2>2. at'[p][k] \in {"list", "listed"}
    BY <1>0, <1>5, SendType DEF NextJobPage
  <2>3. TaskAgrees(p, k)'
    BY <1>0, <2>0, <2>2 DEF TaskAgrees
  <2> QED
    BY <1>3, <2>0, <2>1, <2>3, OthersAgree
<1>6. CASE StopTask(p, k) \/ LeaveJobs(p, k)
  <2>1. Return(p, k) /\ UNCHANGED <<pipes, jobs, pc, lease>> /\ at[p][k] # "off"
    BY <1>6 DEF StopTask, LeaveJobs, store
  <2> QED
    BY <1>1, <2>1
<1>7. CASE FetchTrace(p, k)
  <2>0. at[p][k] = "jobs" /\ UNCHANGED <<pipes, jobs, pc, lease, local>>
    BY <1>7 DEF FetchTrace, store
  <2>1. PICK j \in todo[p][k] : /\ job' = [job EXCEPT ![p][k] = j]
                                /\ todo' = [todo EXCEPT ![p][k] = @ \ {j}]
    BY <1>7 DEF FetchTrace
  <2>7. job'[p][k] = j /\ \A q \in Procs, l \in Keys : (q = p /\ l = k) \/ job'[q][l] = job[q][l]
    BY <1>0, <2>1 DEF TaskTypes
  <2> DEFINE T == todo[p][k] \ {j}
  <2>8. todo' = [todo EXCEPT ![p][k] = T]
    BY <2>1
  <2>9. todo'[p][k] = T /\ \A q \in Procs, l \in Keys : (q = p /\ l = k) \/ todo'[q][l] = todo[q][l]
    <3> HIDE DEF T
    <3> QED
      BY <1>0, <2>8 DEF TaskTypes
  <2>3. \A q \in Procs, l \in Keys :
             \/ q = p /\ l = k
             \/ /\ at'[q][l] = at[q][l] /\ local'[q][l] = local[q][l]
                /\ todo'[q][l] = todo[q][l] /\ job'[q][l] = job[q][l]
    BY <1>2, <1>7, <2>0, <2>7, <2>9 DEF FetchTrace
  <2>4. at'[p][k] \in {"trace", "traced"}
    BY <1>0, <1>7, SendType DEF FetchTrace
  <2>5. Pending(k)' = Pending(k) /\ Sampled(k)' = Sampled(k)
    BY <2>0 DEF Pending, Sampled
  <2>6. TaskAgrees(p, k)'
    BY <1>0, <2>0, <2>4, <2>5, <2>7, <2>9 DEF TaskAgrees
  <2> QED
    BY <1>3, <2>0, <2>3, <2>6, OthersAgree
\* The remaining actions write the task's own row or sample.
<1>8. ASSUME Return(p, k), NEW r, r # NoPipe, pipes' = [pipes EXCEPT ![k] = r],
             UNCHANGED <<jobs, pc, lease>>, at[p][k] # "off", RowOK(k)'
      PROVE  StoreInv'
  <2>1. \A q \in Procs, l \in Keys :
             \/ q = p /\ l = k
             \/ /\ at'[q][l] = at[q][l] /\ local'[q][l] = local[q][l]
                /\ todo'[q][l] = todo[q][l] /\ job'[q][l] = job[q][l]
    BY <1>0, <1>8 DEF Return, TaskTypes
  <2>2. at'[p][k] = "off"
    BY <1>0, <1>8 DEF Return, TaskTypes
  <2>3. pipes'[k] = r /\ \A l \in Keys : l # k => pipes'[l] = pipes[l] /\ jobs'[l] = jobs[l]
    BY <1>0, <1>8
  <2>4. TaskAgrees(p, k)'
    BY <2>2 DEF TaskAgrees
  <2> QED
    BY <1>8, <2>1, <2>3, <2>4, OthersAgree
<1>9. CASE JobsUnreadable(p, k)
  <2> DEFINE c == IF ans[p][k] = Malformed THEN 502 ELSE ans[p][k].code
             r == [local[p][k] EXCEPT !.listing = "unreadable", !.complete = TRUE, !.http = c]
  <2>1. at[p][k] = "listed" /\ pipes' = [pipes EXCEPT ![k] = r] /\ UNCHANGED <<jobs, pc, lease>>
        /\ Return(p, k)
    BY <1>9 DEF JobsUnreadable
  <2>2. local[p][k] = pipes[k] /\ pipes[k].listing = "pending" /\ pipes[k] \in PipelineRecord
    BY <1>0, <2>1 DEF TaskAgrees
  <2>3. r.listing = "unreadable" /\ r.selected = pipes[k].selected /\ r.complete = TRUE
    BY <2>2, RowFields
  <2>4. r # NoPipe
    <3>1. c \in Codes \cup {502, NoOne}
      BY <1>9, AnswerFields DEF JobsUnreadable, TaskInv, HasAnswer
    <3> HIDE DEF c
    <3>2. local[p][k] \in PipelineRecord
      BY <2>2
    <3>3. r \in PipelineRecord
      BY ZenonT(60), <3>1, <3>2, UnreadableType
    <3> QED
      BY <3>3, RealRecords
  <2>5. pipes'[k] = r /\ Sampled(k)' = Sampled(k) /\ Pending(k)' = Pending(k)
    BY <1>0, <2>1 DEF Sampled, Pending
  <2>6. Sampled(k) = {} /\ pipes[k].selected = {} /\ Pending(k) = {}
    BY <1>0, <2>2, RealRecords DEF RowOK, RowConsistent, Sampled, Pending, NoJob
  <2>7. RowOK(k)'
    <3> HIDE DEF r
    <3> QED
      BY <1>0, <2>3, <2>4, <2>5, <2>6 DEF RowOK, RowConsistent
  <2> HIDE DEF r
  <2> QED
    BY <1>8, <2>1, <2>4, <2>7
<1>10. CASE FinishPipeline(p, k)
  <2> DEFINE r == [local[p][k] EXCEPT !.complete = TRUE]
  <2>1. at[p][k] = "jobs" /\ pipes' = [pipes EXCEPT ![k] = r] /\ UNCHANGED <<jobs, pc, lease>>
        /\ Return(p, k) /\ todo[p][k] = {}
    BY <1>10 DEF FinishPipeline, AllObserved
  <2>2. local[p][k] = pipes[k] /\ pipes[k].listing # "pending" /\ pipes[k] \in PipelineRecord
        /\ pipes[k] # NoPipe /\ Pending(k) = {}
    BY <1>0, <2>1 DEF TaskAgrees
  <2>3. r.listing = pipes[k].listing /\ r.selected = pipes[k].selected /\ r.complete = TRUE
    BY <2>2, RowFields
  <2>4. r # NoPipe
    BY <2>2, CompleteType, RealRecords
  <2>5. pipes'[k] = r /\ Sampled(k)' = Sampled(k) /\ Pending(k)' = Pending(k)
    BY <1>0, <2>1 DEF Sampled, Pending
  <2> HIDE DEF r
  <2>7. RowOK(k)'
    BY <1>0, <2>2, <2>3, <2>4, <2>5 DEF RowOK, RowConsistent
  <2> QED
    BY <1>8, <2>1, <2>4, <2>7
<1>11. CASE JobsListed(p, k)
  <2> DEFINE S == ans[p][k].jobs
             r == [local[p][k] EXCEPT !.listing = "listed", !.selected = S, !.complete = (S = {})]
  <2>1. /\ at[p][k] = "listed"
        /\ pipes' = [pipes EXCEPT ![k] = r]
        /\ jobs' = [jobs EXCEPT ![k] = [j \in JobIds |-> IF j \in S THEN Fresh ELSE @[j]]]
        /\ local' = [local EXCEPT ![p][k] = r]
        /\ todo' = [todo EXCEPT ![p][k] = S]
        /\ at' = [at EXCEPT ![p][k] = "jobs"]
        /\ UNCHANGED <<lease, pc, job>>
    BY <1>11 DEF JobsListed
  <2>2. local[p][k] = pipes[k] /\ pipes[k].listing = "pending" /\ pipes[k] \in PipelineRecord
    BY <1>0, <2>1 DEF TaskAgrees
  <2>3. S \in Samples
    BY <1>11, AnswerFields DEF JobsListed, TaskInv, HasAnswer
  <2>4. r.listing = "listed" /\ r.selected = S /\ r.complete = (S = {})
    BY <2>2, RowFields
  <2>5. r # NoPipe
    <3> DEFINE b == (S = {})
    <3>1. S \in SUBSET JobIds /\ b \in BOOLEAN /\ local[p][k] \in PipelineRecord
      BY <2>2, <2>3 DEF Samples
    <3>2. r = [local[p][k] EXCEPT !.listing = "listed", !.selected = S, !.complete = b]
      OBVIOUS
    <3> HIDE DEF S, b, r
    <3>3. [local[p][k] EXCEPT !.listing = "listed", !.selected = S, !.complete = b]
             \in PipelineRecord
      BY <3>1, ListedType
    <3> QED
      BY <3>2, <3>3, RealRecords
  <2>6. \A j \in JobIds : jobs[k][j] = NoJob
    BY <1>0, <2>2, RealRecords DEF RowOK, RowConsistent, Sampled
  <2>7. S \subseteq JobIds /\ Cardinality(S) <= 2
    BY <2>3 DEF Samples
  <2> HIDE DEF S, r
  <2>8. \A j \in JobIds : jobs'[k][j] = IF j \in S THEN Fresh ELSE NoJob
    BY <1>0, <2>1, <2>6
  <2>9. Sampled(k)' = S /\ Pending(k)' = S
    BY <2>7, <2>8 DEF Sampled, Pending, Fresh, NoJob
  <2>10. pipes'[k] = r /\ \A l \in Keys : l # k => pipes'[l] = pipes[l] /\ jobs'[l] = jobs[l]
    BY <1>0, <2>1
  <2>11. RowOK(k)'
    BY <2>4, <2>5, <2>7, <2>9, <2>10 DEF RowOK, RowConsistent
  <2>12. at'[p][k] = "jobs" /\ todo'[p][k] = S /\ local'[p][k] = r
    BY <1>0, <2>1 DEF TaskTypes
  <2>13. TaskAgrees(p, k)'
    BY <1>0, <2>1, <2>4, <2>5, <2>9, <2>10, <2>12 DEF TaskAgrees
  <2>14. \A q \in Procs, l \in Keys :
             \/ q = p /\ l = k
             \/ /\ at'[q][l] = at[q][l] /\ local'[q][l] = local[q][l]
                /\ todo'[q][l] = todo[q][l] /\ job'[q][l] = job[q][l]
    BY <1>0, <2>1 DEF TaskTypes
  <2> QED
    BY <2>1, <2>5, <2>10, <2>11, <2>13, <2>14, OthersAgree
<1>12. CASE RecordTrace(p, k)
  <2> DEFINE o == Observation(ans[p][k])
             i == job[p][k]
  <2>1. /\ at[p][k] = "traced" /\ jobs' = [jobs EXCEPT ![k][i] = o]
        /\ at' = [at EXCEPT ![p][k] = "jobs"] /\ job' = [job EXCEPT ![p][k] = NoOne]
        /\ UNCHANGED <<pipes, lease, pc, local, todo>>
    BY <1>12 DEF RecordTrace
  <2>2. i \in Sampled(k) /\ Pending(k) \subseteq todo[p][k] \cup {i} /\ i \in JobIds
    BY <1>0, <2>1 DEF TaskAgrees, Sampled
  <2>3. o.state # "pending" /\ o # NoJob
    <3>1. CASE \E c \in Codes \cup {TooLarge} : ans[p][k] = Refused(c)
      BY <3>1, AnswerFields DEF Observation, NoJob
    <3>2. CASE \E s \in TraceOutcomes : ans[p][k] = Traced(s)
      BY <3>2, AnswerFields, OutcomeAssumption DEF Observation, NoJob
    <3> QED
      BY <1>12, <3>1, <3>2 DEF RecordTrace, TaskInv, HasAnswer
  <2> HIDE DEF o, i
  <2>4. /\ jobs'[k][i] = o /\ \A j \in JobIds : j # i => jobs'[k][j] = jobs[k][j]
        /\ \A l \in Keys : l # k => jobs'[l] = jobs[l]
    BY <1>0, <2>1, <2>2
  <2>5. Sampled(k)' = Sampled(k)
    BY <2>2, <2>3, <2>4 DEF Sampled
  <2>6. Pending(k)' = Pending(k) \ {i}
    BY <2>2, <2>3, <2>4 DEF Pending
  <2>7. at'[p][k] = "jobs"
    BY <1>0, <2>1 DEF TaskTypes
  <2>8. TaskAgrees(p, k)'
    BY <1>0, <2>1, <2>2, <2>5, <2>6, <2>7 DEF TaskAgrees
  <2>9. RowOK(k)' /\ pipes'[k] # NoPipe
    BY <1>0, <2>1, <2>5, <2>6 DEF RowOK, RowConsistent, TaskAgrees
  <2>10. \A q \in Procs, l \in Keys :
             \/ q = p /\ l = k
             \/ /\ at'[q][l] = at[q][l] /\ local'[q][l] = local[q][l]
                /\ todo'[q][l] = todo[q][l] /\ job'[q][l] = job[q][l]
    BY <1>0, <2>1 DEF TaskTypes
  <2> QED
    BY <2>1, <2>4, <2>8, <2>9, <2>10, OthersAgree
<1> QED
  BY <1>4, <1>5, <1>6, <1>7, <1>9, <1>10, <1>11, <1>12 DEF CollectStep

\* The main coroutine writes a row only while it has no tasks.
LEMMA PutPipelineStore ==
    ASSUME TypeInv, TaskInv, StoreInv, NEW p \in Procs, PutPipeline(p) PROVE StoreInv'
<1> DEFINE path == run[p].plan[run[p].index]
<1>0. /\ pc[p] = "put" /\ lease = p /\ \A k \in Keys : at[p][k] = "off"
      /\ UNCHANGED <<jobs, lease, taskVars>>
      /\ disc[p] \in ListingRecord /\ disc[p].project \in ProjectIds /\ path \in Paths
      /\ pipes \in [Keys -> PipelineRecord \cup {NoPipe}] /\ pc \in [Procs -> PcTypes]
  BY ZenonT(60) DEF PutPipeline, StoreInv, Exclusive, TaskAgrees, TypeInv, TypeOK, HasListing, PcTypes
<1>1. PICK id \in disc[p].new :
        LET k == <<disc[p].project, id>>
        IN  IF HasRoom(k, path)
            THEN pipes' = [pipes EXCEPT ![k] = Seen(k, path, run[p].batch)] /\ UNCHANGED pc
            ELSE pc' = [pc EXCEPT ![p] = "final"] /\ UNCHANGED pipes
  BY DEF PutPipeline
<1>k. PICK k \in Keys : k = <<disc[p].project, id>>
  BY <1>0 DEF ListingRecord, Keys
<1>2. PICK s, where :
        /\ where = path /\ s = Seen(k, where, run[p].batch)
        /\ \/ HasRoom(k, where) /\ pipes' = [pipes EXCEPT ![k] = s] /\ UNCHANGED pc
           \/ pc' = [pc EXCEPT ![p] = "final"] /\ UNCHANGED pipes
  BY <1>1, <1>k
<1>3. CASE pc' = [pc EXCEPT ![p] = "final"] /\ UNCHANGED pipes
  <2>1. pc' = [pc EXCEPT ![p] = "final"] /\ UNCHANGED pipes
    BY <1>3
  <2>2. Exclusive'
    BY <1>0, <2>1 DEF StoreInv, Exclusive
  <2>3. \A q \in Procs, l \in Keys : at'[q][l] = "off" \/ pc'[q] \in {"batch", "gather"}
    BY <1>0, <2>1 DEF StoreInv, TaskAgrees, taskVars
  <2>4. \A q \in Procs : pc'[q] = "reevaluate" => pc[q] = "reevaluate"
    BY <1>0, <2>1
  <2> QED
    BY <1>0, <2>1, <2>2, <2>3, <2>4, StoreUntouched DEF taskVars
<1>4. CASE HasRoom(k, where) /\ pipes' = [pipes EXCEPT ![k] = s] /\ UNCHANGED pc
  <2>1. pipes' = [pipes EXCEPT ![k] = s] /\ UNCHANGED pc
    BY <1>4
  <2>2. \A q \in Procs, l \in Keys : at[q][l] = "off"
    BY <1>0 DEF StoreInv, Exclusive, TaskAgrees
  <2>3. RowOK(k) /\ pipes[k] \in PipelineRecord \cup {NoPipe}
    BY <1>0, <1>2 DEF StoreInv, RowsConsistent, RowOK
  <2>4. s # NoPipe
    <3>1. CASE pipes[k] # NoPipe
      <4>1. s.project_key = pipes[k].project_key /\ pipes[k].project_key \in Paths
        BY <1>2, <2>3, <3>1 DEF Seen, PipelineRecord
      <4> QED
        BY <4>1, IdAssumption DEF NoPipe
    <3>2. CASE pipes[k] = NoPipe
      <4>1. s.project_key = path
        BY <1>2, <3>2 DEF Seen
      <4> QED
        BY <1>0, <4>1, IdAssumption DEF NoPipe
    <3> QED
      BY <3>1, <3>2
  <2>5. pipes[k] # NoPipe => /\ s.selected = pipes[k].selected /\ s.complete = pipes[k].complete
                             /\ s.listing = pipes[k].listing
    BY <1>2, <2>3 DEF Seen, PipelineRecord
  <2>6. pipes[k] = NoPipe => s.selected = {} /\ ~ s.complete /\ s.listing = "pending"
    BY <1>2 DEF Seen
  <2>7. pipes'[k] = s /\ \A l \in Keys : l # k => pipes'[l] = pipes[l]
    BY <1>0, <2>1
  <2>8. \A l \in Keys : Sampled(l)' = Sampled(l) /\ Pending(l)' = Pending(l)
    BY <1>0 DEF Sampled, Pending
  <2>9. k \in Keys
    OBVIOUS
  <2>10. RowOK(k)'
    <3>1. CASE pipes[k] = NoPipe
      BY <2>3, <2>4, <2>6, <2>7, <2>8, <2>9, <3>1 DEF RowOK, RowConsistent
    <3>2. CASE pipes[k] # NoPipe
      BY <2>3, <2>4, <2>5, <2>7, <2>8, <2>9, <3>2 DEF RowOK, RowConsistent
    <3> QED
      BY <3>1, <3>2
  <2>11. RowsConsistent'
    <3>1. ASSUME NEW l \in Keys, l # k PROVE RowOK(l)'
      BY <2>7, <2>8, <3>1 DEF StoreInv, RowsConsistent, RowOK, RowConsistent
    <3>2. \A l \in Keys : RowOK(l)'
      BY <2>10, <3>1
    <3> QED
      BY <3>2 DEF RowsConsistent, RowOK
  <2>12. PipelineCap'
    <3>1. IsFiniteSet(Rows)
      BY FiniteRows, FS_Subset DEF Rows
    <3>2. CASE pipes[k] # NoPipe
      <4>1. Rows' = Rows
        BY <2>4, <2>7, <2>9, <3>2 DEF Rows
      <4> QED
        BY <4>1 DEF StoreInv, PipelineCap
    <3>3. CASE pipes[k] = NoPipe
      <4>1. Rows' = Rows \cup {k} /\ k \notin Rows
        BY <2>4, <2>7, <2>9, <3>3 DEF Rows
      <4>2. Cardinality(Rows) < MaxPipelines
        BY <1>4, <3>3 DEF HasRoom
      <4>3. Cardinality(Rows') = Cardinality(Rows) + 1 /\ Cardinality(Rows) \in Nat
        BY <3>1, <4>1, FS_AddElement, FS_CardinalityType
      <4> QED
        BY <4>2, <4>3, BoundAssumption DEF PipelineCap
    <3> QED
      BY <3>2, <3>3
  <2>13. \A q \in Procs, l \in Keys : TaskAgrees(q, l)'
    BY <1>0, <2>2 DEF TaskAgrees, taskVars
  <2>14. \A q \in Procs : Reevaluates(q)'
    BY <1>0, <2>1 DEF StoreInv, Reevaluates, taskVars
  <2>15. Exclusive'
    BY <1>0, <2>1 DEF StoreInv, Exclusive
  <2> QED
    BY <2>11, <2>12, <2>13, <2>14, <2>15 DEF StoreInv
<1> QED
  BY <1>2, <1>3, <1>4

\* A process that is not collecting has no tasks.
NoTaskOf(p) == \A k \in Keys : at[p][k] = "off"

LEMMA IdleTasks ==
    ASSUME StoreInv, NEW p \in Procs, pc[p] \notin {"batch", "gather"} PROVE NoTaskOf(p)
BY DEF StoreInv, TaskAgrees, NoTaskOf

\* Leaving the with block.
LEMMA ReleaseStore ==
    ASSUME TypeInv, StoreInv, NEW p \in Procs, Release(p), UNCHANGED <<pipes, jobs>>,
           lease \in {p, NoOne} \/ pc[p] = "idle"
    PROVE  StoreInv'
<1>0. TaskTypes /\ pc \in [Procs -> PcTypes]
  BY DEF TypeInv, TypeOK, TaskTypes, PcTypes
<1>1. Exclusive'
  BY <1>0, IdAssumption DEF StoreInv, Exclusive, Release
<1>2. \A q \in Procs, l \in Keys :
        \/ at'[q][l] = "off"
        \/ /\ at'[q][l] = at[q][l] /\ local'[q][l] = local[q][l]
           /\ todo'[q][l] = todo[q][l] /\ job'[q][l] = job[q][l]
           /\ pc'[q] \in {"batch", "gather"}
  <2>1. ASSUME NEW q \in Procs, NEW l \in Keys, q # p
        PROVE  /\ at'[q][l] = at[q][l] /\ local'[q][l] = local[q][l] /\ pc'[q] = pc[q]
               /\ todo'[q][l] = todo[q][l] /\ job'[q][l] = job[q][l]
    BY <1>0, <2>1 DEF Release, NoTasks, TaskTypes
  <2>2. \A l \in Keys : at'[p][l] = "off"
    BY <1>0 DEF Release, NoTasks, TaskTypes
  <2> QED
    BY <2>1, <2>2 DEF StoreInv, TaskAgrees
<1>3. \A q \in Procs : pc'[q] = "reevaluate" => pc[q] = "reevaluate" /\ todo'[q] = todo[q]
  BY <1>0 DEF Release, NoTasks, TaskTypes
<1> QED
  BY <1>1, <1>2, <1>3, StoreUntouched

\* A step of the main coroutine that leaves the store and every task alone.
LEMMA MoveStore ==
    ASSUME TypeInv, StoreInv, NEW p \in Procs, NEW where,
           pc' = [pc EXCEPT ![p] = where], UNCHANGED <<pipes, jobs, lease, at, local, todo, job>>,
           pc[p] # "idle", where # "reevaluate",
           NoTaskOf(p) \/ where \in {"batch", "gather"}
    PROVE  StoreInv'
<1>0. pc \in [Procs -> PcTypes]
  BY DEF TypeInv, TypeOK, PcTypes
<1>1. Exclusive'
  BY <1>0 DEF StoreInv, Exclusive
<1>2. \A q \in Procs, l \in Keys : at'[q][l] = "off" \/ pc'[q] \in {"batch", "gather"}
  BY <1>0 DEF StoreInv, TaskAgrees, NoTaskOf
<1>3. \A q \in Procs : pc'[q] = "reevaluate" => pc[q] = "reevaluate"
  BY <1>0
<1> QED
  BY <1>1, <1>2, <1>3, StoreUntouched

\* A step of the main coroutine that drops its tasks.
LEMMA DropTasksStore ==
    ASSUME TypeInv, StoreInv, NEW p \in Procs, NEW where,
           pc' = [pc EXCEPT ![p] = where], UNCHANGED <<pipes, jobs, lease>>, NoTasks(p),
           pc[p] # "idle", where # "reevaluate"
    PROVE  StoreInv'
<1>0. TaskTypes /\ pc \in [Procs -> PcTypes]
  BY DEF TypeInv, TypeOK, TaskTypes, PcTypes
<1>1. Exclusive'
  BY <1>0 DEF StoreInv, Exclusive
<1>2. \A q \in Procs, l \in Keys :
        \/ at'[q][l] = "off"
        \/ /\ at'[q][l] = at[q][l] /\ local'[q][l] = local[q][l]
           /\ todo'[q][l] = todo[q][l] /\ job'[q][l] = job[q][l]
           /\ pc'[q] \in {"batch", "gather"}
  <2>1. ASSUME NEW q \in Procs, NEW l \in Keys, q # p
        PROVE  /\ at'[q][l] = at[q][l] /\ local'[q][l] = local[q][l] /\ pc'[q] = pc[q]
               /\ todo'[q][l] = todo[q][l] /\ job'[q][l] = job[q][l]
    BY <1>0, <2>1 DEF NoTasks, TaskTypes
  <2>2. \A l \in Keys : at'[p][l] = "off"
    BY <1>0 DEF NoTasks, TaskTypes
  <2> QED
    BY <2>1, <2>2 DEF StoreInv, TaskAgrees
<1>3. \A q \in Procs : pc'[q] = "reevaluate" => pc[q] = "reevaluate" /\ todo'[q] = todo[q]
  BY <1>0 DEF NoTasks, TaskTypes
<1> QED
  BY <1>1, <1>2, <1>3, StoreUntouched

LEMMA MainStepStore ==
    ASSUME TypeInv, TaskInv, StoreInv, NEW p \in Procs, MainStep(p) PROVE StoreInv'
<1>0. /\ TaskTypes /\ pc \in [Procs -> PcTypes]
      /\ pipes \in [Keys -> PipelineRecord \cup {NoPipe}]
      /\ jobs \in [Keys -> [JobIds -> JobRecord \cup {NoJob}]]
      /\ pc[p] # "idle" => lease = p
      /\ pc[p] \notin {"batch", "gather"} => NoTaskOf(p)
  BY IdleTasks DEF TypeInv, TypeOK, TaskTypes, PcTypes, StoreInv, Exclusive
<1>1. ASSUME NEW where, pc' = [pc EXCEPT ![p] = where], where \notin {"reevaluate"},
             UNCHANGED <<pipes, jobs, lease, at, local, todo, job>>,
             pc[p] \notin {"idle", "batch", "gather"}
      PROVE  StoreInv'
  BY <1>0, <1>1, MoveStore
<1>2. CASE OpenHarvest(p) \/ Begin(p)
  <2>1. PICK where \in {"begin", "resolve"} : pc' = [pc EXCEPT ![p] = where]
    BY <1>2 DEF OpenHarvest, Begin
  <2> QED
    BY <1>1, <1>2, <2>1 DEF OpenHarvest, Begin, store, taskVars
<1>3. CASE ResolveProject(p)
  <2>1. PICK where \in {"page", "final", "resolve"} : pc' = [pc EXCEPT ![p] = where]
    BY <1>3 DEF ResolveProject, ProviderFails, EndListing
  <2> QED
    BY <1>1, <1>3, <2>1 DEF ResolveProject, taskVars
<1>4. CASE ReadPage(p)
  <2>1. PICK where \in {"put", "resolve"} : pc' = [pc EXCEPT ![p] = where]
    BY <1>4 DEF ReadPage, ProviderFails, EndListing
  <2> QED
    BY ZenonT(60), <1>1, <1>4, <2>1 DEF ReadPage, taskVars
<1>5. CASE FinishPage(p)
  <2>1. PICK where \in {"page", "resolve"} : pc' = [pc EXCEPT ![p] = where]
    BY <1>5 DEF FinishPage, EndListing
  <2> QED
    BY <1>1, <1>5, <2>1 DEF FinishPage, taskVars
<1>6. CASE PutPipeline(p)
  BY <1>6, PutPipelineStore
<1>7. CASE OpenReevaluation(p)
  <2>1. /\ pc[p] = "open_reevaluation" /\ pc' = [pc EXCEPT ![p] = "reevaluate"]
        /\ todo' = [todo EXCEPT ![p] =
                      [k \in Keys |-> {j \in JobIds : jobs[k][j].state \in Classified}]]
        /\ UNCHANGED <<pipes, jobs, lease, at, local, job>>
    BY <1>7 DEF OpenReevaluation, store
  <2>2. ASSUME NEW q \in Procs, NEW l \in Keys PROVE TaskAgrees(q, l)'
    <3>1. TaskAgrees(q, l)
      BY DEF StoreInv
    <3>2. CASE q = p
      BY <1>0, <2>1, <3>2 DEF TaskAgrees, NoTaskOf
    <3>3. CASE q # p
      <4>1. todo'[q][l] = todo[q][l] /\ pc'[q] = pc[q]
        BY <1>0, <2>1, <3>3 DEF TaskTypes
      <4>2. Sampled(l)' = Sampled(l) /\ Pending(l)' = Pending(l)
        BY <2>1 DEF Sampled, Pending
      <4> QED
        BY <2>1, <3>1, <4>1, <4>2 DEF TaskAgrees
    <3> QED
      BY <3>2, <3>3
  <2>3. ASSUME NEW q \in Procs PROVE Reevaluates(q)'
    <3>1. CASE q = p
      <4>1. \A k \in Keys : todo'[p][k] = {j \in JobIds : jobs[k][j].state \in Classified}
        BY <1>0, <2>1 DEF TaskTypes
      <4> QED
        BY <2>1, <3>1, <4>1 DEF Reevaluates
    <3>2. CASE q # p
      <4>1. todo'[q] = todo[q] /\ pc'[q] = pc[q]
        BY <1>0, <2>1, <3>2 DEF TaskTypes
      <4> QED
        BY <2>1, <4>1 DEF StoreInv, Reevaluates
    <3> QED
      BY <3>1, <3>2
  <2>4. RowsConsistent' /\ PipelineCap'
    BY <2>1 DEF StoreInv, RowsConsistent, RowConsistent, PipelineCap, Rows, Sampled, Pending
  <2>5. Exclusive'
    BY <1>0, <2>1 DEF StoreInv, Exclusive
  <2> QED
    BY <2>2, <2>3, <2>4, <2>5 DEF StoreInv
<1>8. CASE Reclassify(p)
  <2>1. PICK k \in Keys, s \in TraceOutcomes \cap Classified : \E j \in todo[p][k] :
          /\ jobs' = [jobs EXCEPT ![k][j] = [state |-> s, http |-> NoOne]]
          /\ todo' = [todo EXCEPT ![p][k] = @ \ {j}]
    BY <1>8 DEF Reclassify
  <2>2. PICK j \in todo[p][k] :
          /\ jobs' = [jobs EXCEPT ![k][j] = [state |-> s, http |-> NoOne]]
          /\ todo' = [todo EXCEPT ![p][k] = @ \ {j}]
    BY <2>1
  <2>3. /\ pc[p] = "reevaluate" /\ UNCHANGED <<pipes, lease, pc, at, local, job>>
        /\ j \in JobIds /\ jobs[k][j].state \in Classified
    BY <1>0, <1>8 DEF Reclassify, StoreInv, Reevaluates, TaskTypes
  <2> DEFINE o == [state |-> s, http |-> NoOne]
  <2>4. o.state = s /\ s \in Classified
    OBVIOUS
  <2>5. o # NoJob /\ jobs[k][j] # NoJob
    BY <2>3, <2>4 DEF NoJob, Classified
  <2>6. jobs' = [jobs EXCEPT ![k][j] = o]
    BY <2>2
  <2> HIDE DEF o
  <2>7. /\ jobs'[k][j] = o /\ \A i \in JobIds : i # j => jobs'[k][i] = jobs[k][i]
        /\ \A l \in Keys : l # k => jobs'[l] = jobs[l]
    BY <1>0, <2>3, <2>6
  <2>8. \A l \in Keys : Sampled(l)' = Sampled(l) /\ Pending(l)' = Pending(l)
    <3>1. Sampled(k)' = Sampled(k)
      BY <2>5, <2>7 DEF Sampled
    <3>2. Pending(k)' = Pending(k)
      BY <2>3, <2>4, <2>7 DEF Pending, Classified
    <3>3. \A l \in Keys : l # k => Sampled(l)' = Sampled(l) /\ Pending(l)' = Pending(l)
      BY <2>7 DEF Sampled, Pending
    <3> QED
      BY <3>1, <3>2, <3>3
  <2>9. \A q \in Procs, l \in Keys : at[q][l] = "off"
    BY <1>0, <2>3 DEF StoreInv, Exclusive, TaskAgrees
  <2>10. \A q \in Procs, l \in Keys : TaskAgrees(q, l)'
    BY <2>3, <2>9 DEF TaskAgrees
  <2>11. \A q \in Procs, l \in Keys : todo'[q][l] \subseteq todo[q][l]
    BY <1>0, <2>2 DEF TaskTypes
  <2>12. ASSUME NEW q \in Procs PROVE Reevaluates(q)'
    <3>1. ASSUME NEW l \in Keys, NEW i \in todo[q][l], pc[q] = "reevaluate"
          PROVE  jobs'[l][i].state \in Classified
      <4>1. jobs[l][i].state \in Classified /\ i \in JobIds
        BY <1>0, <3>1 DEF StoreInv, Reevaluates, TaskTypes
      <4> QED
        BY <2>4, <2>7, <4>1
    <3> QED
      BY <2>3, <2>11, <3>1 DEF Reevaluates
  <2>13. RowsConsistent'
    BY <2>3, <2>8 DEF StoreInv, RowsConsistent, RowConsistent
  <2>14. PipelineCap' /\ Exclusive'
    BY <2>3 DEF StoreInv, PipelineCap, Rows, Exclusive
  <2> QED
    BY <2>10, <2>12, <2>13, <2>14 DEF StoreInv
<1>9. CASE PlanCollection(p)
  <2>1. /\ pc[p] = "resolve" /\ pc' = [pc EXCEPT ![p] = "batch"]
        /\ UNCHANGED <<pipes, jobs, lease, todo, job>>
    BY <1>9 DEF PlanCollection, store
  <2>2. \A q \in Procs, k \in Keys :
          /\ at'[q][k] = IF q = p THEN IF k \in BatchRows(run[p].batch) THEN "queued" ELSE "off"
                         ELSE at[q][k]
          /\ local'[q][k] = IF q = p THEN IF k \in BatchRows(run[p].batch) THEN pipes[k] ELSE NoPipe
                            ELSE local[q][k]
    BY <1>0, <1>9 DEF PlanCollection, TaskTypes
  <2>3. ASSUME NEW q \in Procs, NEW l \in Keys PROVE TaskAgrees(q, l)'
    <3>1. TaskAgrees(q, l)
      BY DEF StoreInv
    <3>2. CASE q = p
      <4>1. l \in BatchRows(run[p].batch) => pipes[l] # NoPipe
        BY DEF BatchRows, Rows
      <4>2. pc'[p] = "batch"
        BY <1>0, <2>1
      <4> QED
        BY <2>1, <2>2, <3>2, <4>1, <4>2 DEF TaskAgrees
    <3>3. CASE q # p
      <4>1. Sampled(l)' = Sampled(l) /\ Pending(l)' = Pending(l) /\ pc'[q] = pc[q]
        BY <1>0, <2>1, <3>3 DEF Sampled, Pending
      <4> QED
        BY <2>1, <2>2, <3>1, <3>3, <4>1 DEF TaskAgrees
    <3> QED
      BY <3>2, <3>3
  <2>4. \A q \in Procs : Reevaluates(q)'
    BY <1>0, <2>1 DEF StoreInv, Reevaluates
  <2>5. RowsConsistent' /\ PipelineCap'
    BY <2>1 DEF StoreInv, RowsConsistent, RowConsistent, PipelineCap, Rows, Sampled, Pending
  <2>6. Exclusive'
    BY <1>0, <2>1 DEF StoreInv, Exclusive
  <2> QED
    BY <2>3, <2>4, <2>5, <2>6 DEF StoreInv
<1>10. CASE LaunchBatch(p)
  <2>1. PICK B \in SUBSET Tasks(p, "queued") :
          at' = [at EXCEPT ![p] = [k \in Keys |-> IF k \in B THEN "start" ELSE at[p][k]]]
    BY <1>10 DEF LaunchBatch
  <2>2. \A q \in Procs, k \in Keys :
          \/ at'[q][k] = at[q][k]
          \/ at'[q][k] = "start" /\ at[q][k] = "queued"
    BY <1>0, <2>1 DEF TaskTypes, Tasks
  <2>3. /\ UNCHANGED <<pipes, jobs, lease, local, todo, job>>
        /\ pc[p] = "batch" /\ pc' = [pc EXCEPT ![p] = "gather"]
    BY <1>10 DEF LaunchBatch, store
  <2>4. ASSUME NEW q \in Procs, NEW l \in Keys PROVE TaskAgrees(q, l)'
    <3>1. Sampled(l)' = Sampled(l) /\ Pending(l)' = Pending(l)
      BY <2>3 DEF Sampled, Pending
    <3>2. TaskAgrees(q, l) /\ (pc[q] \in {"batch", "gather"} => pc'[q] \in {"batch", "gather"})
      BY <1>0, <2>3 DEF StoreInv
    <3> QED
      BY <2>2, <2>3, <3>1, <3>2 DEF TaskAgrees
  <2>5. \A q \in Procs : Reevaluates(q)'
    BY <1>0, <2>3 DEF StoreInv, Reevaluates
  <2>6. RowsConsistent' /\ PipelineCap'
    BY <2>3 DEF StoreInv, RowsConsistent, RowConsistent, PipelineCap, Rows, Sampled, Pending
  <2>7. Exclusive'
    BY <1>0, <2>3 DEF StoreInv, Exclusive
  <2> QED
    BY <2>4, <2>5, <2>6, <2>7 DEF StoreInv
<1>11. CASE EndBatch(p)
  <2>1. pc' = [pc EXCEPT ![p] = "batch"] /\ pc[p] = "gather"
        /\ UNCHANGED <<pipes, jobs, lease, at, local, todo, job>>
    BY <1>11 DEF EndBatch, taskVars
  <2> QED
    BY <2>1, MoveStore
<1>12. CASE CancelBatch(p) \/ EndCollection(p)
  <2>1. pc' = [pc EXCEPT ![p] = "final"] /\ pc[p] # "idle" /\ NoTasks(p)
        /\ UNCHANGED <<pipes, jobs, lease>>
    BY <1>12 DEF CancelBatch, EndCollection, store
  <2> QED
    BY <2>1, DropTasksStore
<1>13. CASE OpenRefused(p) \/ Finish(p) \/ EndReevaluation(p)
  <2>1. Release(p) /\ UNCHANGED <<pipes, jobs>> /\ pc[p] # "idle"
    BY <1>13 DEF OpenRefused, Finish, EndReevaluation, store
  <2> QED
    BY <1>0, <2>1, ReleaseStore
<1> QED
  BY <1>2, <1>3, <1>4, <1>5, <1>6, <1>7, <1>8, <1>9, <1>10, <1>11, <1>12, <1>13 DEF MainStep

LEMMA ServerStepStore ==
    ASSUME TypeInv, StoreInv, NEW p \in Procs, NEW k \in Keys, ServerStep(p, k)
    PROVE  StoreInv'
<1>0. TaskTypes
  BY DEF TypeInv, TypeOK, TaskTypes
<1>1. PICK where \in {"listed", "traced"} :
        /\ \E a \in Answers : Answered(p, k, where, a)
        /\ at[p][k] = IF where = "listed" THEN "list" ELSE "trace"
  BY DEF ServerStep, AnswerJobs, AnswerTrace, Answers
<1>2. /\ at' = [at EXCEPT ![p][k] = where]
      /\ UNCHANGED <<pipes, jobs, pc, lease, local, todo, job>>
  BY <1>1 DEF Answered, store
<1>3. at'[p][k] = where /\ \A q \in Procs, l \in Keys : (q = p /\ l = k) \/ at'[q][l] = at[q][l]
  BY <1>0, <1>2 DEF TaskTypes
<1>4. TaskAgrees(p, k)'
  <2>1. TaskAgrees(p, k) /\ Sampled(k)' = Sampled(k) /\ Pending(k)' = Pending(k)
    BY <1>2 DEF StoreInv, Sampled, Pending
  <2> QED
    BY <1>1, <1>2, <1>3, <2>1 DEF TaskAgrees
<1>5. RowOK(k)' /\ pipes'[k] # NoPipe
  BY SMTT(60), <1>1, <1>2 DEF StoreInv, TaskAgrees, RowsConsistent, RowOK, RowConsistent, Sampled, Pending
<1> QED
  BY <1>1, <1>2, <1>3, <1>4, <1>5, OthersAgree

LEMMA AcquireStore ==
    ASSUME TypeInv, StoreInv, NEW p \in Procs, NEW mode \in {"open_harvest", "open_reevaluation"},
           Acquire(p, mode)
    PROVE  StoreInv'
<1>0. pc \in [Procs -> PcTypes]
  BY DEF TypeInv, TypeOK, PcTypes
<1>1. /\ lease = NoOne /\ lease' = p /\ pc' = [pc EXCEPT ![p] = mode]
      /\ UNCHANGED <<pipes, jobs, at, local, todo, job>>
  BY DEF Acquire, LeaseFree, store, taskVars
<1>2. \A q \in Procs : pc[q] = "idle"
  BY <1>1, IdAssumption DEF StoreInv, Exclusive
<1>3. Exclusive'
  BY <1>0, <1>1, <1>2 DEF Exclusive
<1>4. \A q \in Procs, l \in Keys : at'[q][l] = "off"
  BY <1>1, <1>2 DEF StoreInv, TaskAgrees
<1>5. \A q \in Procs : pc'[q] # "reevaluate"
  BY <1>0, <1>1, <1>2
<1> QED
  BY <1>1, <1>3, <1>4, <1>5, StoreUntouched

LEMMA FaultsStore ==
    ASSUME TypeInv, TaskInv, StoreInv, NEW p \in Procs, Faults(p) PROVE StoreInv'
<1>0. /\ TaskTypes /\ pc \in [Procs -> PcTypes] /\ (pc[p] # "idle" => lease = p)
  BY DEF TypeInv, TypeOK, TaskTypes, PcTypes, StoreInv, Exclusive
<1>1. CASE CommitFails(p)
  BY <1>1, DropTasksStore DEF CommitFails, store
<1>2. CASE LastCommitFails(p) \/ Interrupt(p) \/ Crash(p)
  <2>1. Release(p) /\ UNCHANGED <<pipes, jobs>> /\ pc[p] # "idle"
    BY <1>2 DEF LastCommitFails, Interrupt, Crash, store
  <2> QED
    BY <1>0, <2>1, ReleaseStore
<1>3. ASSUME NEW k \in Keys, TaskCommitFails(p, k) PROVE StoreInv'
  <2>1. Return(p, k) /\ UNCHANGED <<pipes, jobs, lease, pc>>
    BY <1>3 DEF TaskCommitFails, store
  <2>2. at[p][k] # "off"
    BY <1>3 DEF TaskCommitFails
  <2>3. \A q \in Procs, l \in Keys :
             \/ q = p /\ l = k
             \/ /\ at'[q][l] = at[q][l] /\ local'[q][l] = local[q][l]
                /\ todo'[q][l] = todo[q][l] /\ job'[q][l] = job[q][l]
    BY <1>0, <2>1 DEF Return, TaskTypes
  <2>4. at'[p][k] = "off"
    BY <1>0, <2>1 DEF Return, TaskTypes
  <2>5. TaskAgrees(p, k)'
    BY <2>4 DEF TaskAgrees
  <2>6. RowOK(k)' /\ pipes'[k] # NoPipe
    BY SMTT(60), <2>1, <2>2 DEF StoreInv, TaskAgrees, RowsConsistent, RowOK, RowConsistent, Sampled, Pending
  <2> QED
    BY <2>1, <2>2, <2>3, <2>5, <2>6, OthersAgree
<1> QED
  BY <1>1, <1>2, <1>3 DEF Faults

LEMMA InitStore == Init => StoreInv
<1> SUFFICES ASSUME Init PROVE StoreInv
  OBVIOUS
<1>1. Exclusive /\ \A p \in Procs : Reevaluates(p) /\ \A k \in Keys : TaskAgrees(p, k)
  BY DEF Init, Exclusive, Reevaluates, TaskAgrees
<1>2. \A k \in Keys : Sampled(k) = {} /\ pipes[k] = NoPipe
  BY DEF Init, Sampled
<1>3. RowsConsistent
  BY <1>2, FS_EmptySet DEF RowsConsistent, RowConsistent
<1>4. Rows = {}
  BY <1>2 DEF Rows
<1>5. PipelineCap
  BY <1>4, FS_EmptySet, BoundAssumption DEF PipelineCap
<1> QED
  BY <1>1, <1>3, <1>5 DEF StoreInv

LEMMA NextStore ==
    ASSUME TypeInv, TaskInv, StoreInv, [Next]_vars PROVE StoreInv'
<1>1. CASE Next
  <2>1. PICK p \in Procs : \/ \E mode \in {"open_harvest", "open_reevaluation"} : Acquire(p, mode)
                           \/ MainStep(p)
                           \/ \E k \in Keys : CollectStep(p, k) \/ ServerStep(p, k)
                           \/ Faults(p)
    BY <1>1 DEF Next
  <2> QED
    BY <2>1, AcquireStore, MainStepStore, CollectStepStore, ServerStepStore, FaultsStore
<1>2. CASE UNCHANGED vars
  <2>1. UNCHANGED <<pipes, jobs, pc, lease, at, local, todo, job>>
    BY <1>2 DEF vars, store, taskVars
  <2>2. Exclusive'
    BY <2>1 DEF StoreInv, Exclusive
  <2>3. \A q \in Procs, l \in Keys : at'[q][l] = "off" \/ pc'[q] \in {"batch", "gather"}
    BY <2>1 DEF StoreInv, TaskAgrees
  <2> QED
    BY <2>1, <2>2, <2>3, StoreUntouched
<1> QED
  BY <1>1, <1>2

LEMMA StoreInvariant == Spec => []StoreInv
<1>1. TypeInv /\ TaskInv /\ StoreInv /\ [Next]_vars => StoreInv'
  BY NextStore
<1> QED
  BY <1>1, InitStore, TypesAndTasks, PTL DEF Spec

\* Whatever the interleaving of tasks and processes, the refusals, the failed
\* commits and the crashes, the store is always one that _validate accepts: the
\* selected jobs of a row are its samples, a closed row has none pending, and
\* there are no more rows than the capacity allows.
THEOREM StoreAlwaysValidates == Spec => []StoreValidates
<1>1. StoreInv => StoreValidates
  BY DEF StoreInv, StoreValidates
<1> QED
  BY <1>1, StoreInvariant, PTL

\* At most one process is between _writer's entry and its exit.
THEOREM OneWriter == Spec => [](\A p, q \in Procs : pc[p] # "idle" /\ pc[q] # "idle" => p = q)
<1>1. StoreInv => \A p, q \in Procs : pc[p] # "idle" /\ pc[q] # "idle" => p = q
  BY DEF StoreInv, Exclusive
<1> QED
  BY <1>1, StoreInvariant, PTL

-----------------------------------------------------------------------------
(* A latched rate limit. *)

LEMMA LatchedStep ==
    ASSUME TypeInv, [Next]_vars, NEW p \in Procs, NEW k \in Keys, latch[p], ~ Waits(p, k)
    PROVE  ~ Waits(p, k)'
<1>0. TaskTypes
  BY DEF TypeInv, TypeOK, TaskTypes
<1>1. ASSUME UNCHANGED at PROVE ~ Waits(p, k)'
  BY <1>1 DEF Waits
<1>2. ASSUME NEW q \in Procs, NoTasks(q) PROVE ~ Waits(p, k)'
  BY <1>0, <1>2 DEF NoTasks, Waits, TaskTypes
<1>3. ASSUME NEW q \in Procs, NEW l \in Keys, Return(q, l) PROVE ~ Waits(p, k)'
  BY <1>0, <1>3 DEF Return, Waits, TaskTypes
<1>4. ASSUME NEW q \in Procs, NEW l \in Keys, NEW w, NEW a \in {"listed", "traced"},
             Send(q, l, w, a)
      PROVE  ~ Waits(p, k)'
  <2>1. CASE latch[q]
    <3>1. at' = [at EXCEPT ![q][l] = a]
      BY <1>4, <2>1 DEF Send
    <3> QED
      BY <1>0, <3>1 DEF Waits, TaskTypes
  <2>2. CASE ~ latch[q]
    <3>1. at' = [at EXCEPT ![q][l] = w] /\ q # p
      BY <1>4, <2>2 DEF Send
    <3> QED
      BY <1>0, <3>1 DEF Waits, TaskTypes
  <2> QED
    BY <2>1, <2>2
<1>5. ASSUME NEW q \in Procs, NEW l \in Keys, NEW a \in {"listed", "traced", "jobs"},
             at' = [at EXCEPT ![q][l] = a]
      PROVE  ~ Waits(p, k)'
  BY <1>0, <1>5 DEF Waits, TaskTypes
<1>6. CASE UNCHANGED vars
  BY <1>1, <1>6 DEF vars, taskVars
<1>7. CASE Next
  <2>1. PICK q \in Procs : \/ \E mode \in {"open_harvest", "open_reevaluation"} : Acquire(q, mode)
                           \/ MainStep(q)
                           \/ \E l \in Keys : CollectStep(q, l) \/ ServerStep(q, l)
                           \/ Faults(q)
    BY <1>7 DEF Next
  <2>2. CASE \E mode \in {"open_harvest", "open_reevaluation"} : Acquire(q, mode)
    BY <1>1, <2>2 DEF Acquire, taskVars
  <2>3. CASE MainStep(q)
    <3>1. CASE LaunchBatch(q)
      <4>1. PICK B \in SUBSET Tasks(q, "queued") :
              at' = [at EXCEPT ![q] = [l \in Keys |-> IF l \in B THEN "start" ELSE at[q][l]]]
        BY <3>1 DEF LaunchBatch
      <4> QED
        BY <1>0, <4>1 DEF Waits, TaskTypes
    <3>2. CASE PlanCollection(q)
      BY <1>0, <3>2 DEF PlanCollection, Waits, TaskTypes
    <3>3. CASE \/ OpenHarvest(q) \/ OpenReevaluation(q) \/ Begin(q) \/ ResolveProject(q)
               \/ ReadPage(q) \/ PutPipeline(q) \/ FinishPage(q) \/ EndBatch(q) \/ Reclassify(q)
      <4>1. UNCHANGED at
        BY <3>3 DEF OpenHarvest, OpenReevaluation, Begin, ResolveProject, ReadPage, PutPipeline,
                    FinishPage, EndBatch, Reclassify, taskVars
      <4> QED
        BY <1>1, <4>1
    <3>4. CASE OpenRefused(q) \/ CancelBatch(q) \/ EndCollection(q) \/ Finish(q)
               \/ EndReevaluation(q)
      <4>1. NoTasks(q)
        BY <3>4 DEF OpenRefused, CancelBatch, EndCollection, Finish, EndReevaluation, Release
      <4> QED
        BY <1>2, <4>1
    <3> QED
      BY <2>3, <3>1, <3>2, <3>3, <3>4 DEF MainStep
  <2>4. ASSUME NEW l \in Keys, CollectStep(q, l) PROVE ~ Waits(p, k)'
    <3>1. \/ Return(q, l)
          \/ \E w \in {"list", "trace"}, a \in {"listed", "traced"} : Send(q, l, w, a)
          \/ at' = [at EXCEPT ![q][l] = "jobs"]
      BY <2>4 DEF CollectStep, StartTask, NextJobPage, StopTask, JobsUnreadable, JobsListed,
                  LeaveJobs, FetchTrace, RecordTrace, FinishPipeline
    <3> QED
      BY <1>3, <1>4, <1>5, <3>1
  <2>5. ASSUME NEW l \in Keys, ServerStep(q, l) PROVE ~ Waits(p, k)'
    <3>1. \E a \in {"listed", "traced"} : at' = [at EXCEPT ![q][l] = a]
      BY <2>5 DEF ServerStep, AnswerJobs, AnswerTrace, Answered
    <3> QED
      BY <1>5, <3>1
  <2>6. CASE Faults(q)
    <3>1. NoTasks(q) \/ \E l \in Keys : Return(q, l)
      BY <2>6 DEF Faults, CommitFails, LastCommitFails, Interrupt, Crash, TaskCommitFails, Release
    <3> QED
      BY <1>2, <1>3, <3>1
  <2> QED
    BY <2>1, <2>2, <2>3, <2>4, <2>5, <2>6
<1> QED
  BY <1>6, <1>7

\* After one task's 429 no task of that process sends another request, with any
\* number of tasks in flight.
THEOREM RateLimitHonoured == Spec => NoRequestAfterRateLimit
<1>1. TypeInv /\ [Next]_vars =>
        [\A p \in Procs, k \in Keys : latch[p] /\ ~ Waits(p, k) => ~ Waits(p, k)']_vars
  BY LatchedStep
<1> QED
  BY <1>1, TypesAndTasks, PTL DEF Spec, NoRequestAfterRateLimit

-----------------------------------------------------------------------------
(* Rate limits and rejected tokens are not observations. *)

NoStop(r) == r.http \notin StopCodes

LEMMA RowHttp ==
    ASSUME NEW r \in PipelineRecord
    PROVE  /\ \A c : [r EXCEPT !.listing = "unreadable", !.complete = TRUE, !.http = c].http = c
           /\ \A S, b : [r EXCEPT !.listing = "listed", !.selected = S, !.complete = b].http = r.http
           /\ [r EXCEPT !.complete = TRUE].http = r.http
           /\ \A b : [r EXCEPT !.batch = b].http = r.http
BY DEF PipelineRecord

\* An error that does not stop the run is neither of the two.
LEMMA NoStopCode ==
    ASSUME NEW p \in Procs, NEW k \in Keys, ~ Stops(p, k), ans[p][k].kind = "refused"
    PROVE  ans[p][k].code \notin StopCodes
BY DEF Stops, StopFor, StopCodes

LEMMA StopsStep ==
    ASSUME TypeInv, TaskInv, StoreInv, StopsAreNotObservations, [Next]_vars
    PROVE  StopsAreNotObservations'
<1>0. /\ pipes \in [Keys -> PipelineRecord \cup {NoPipe}]
      /\ jobs \in [Keys -> [JobIds -> JobRecord \cup {NoJob}]] /\ TaskTypes
      /\ \A k \in Keys : pipes[k] # NoPipe => NoStop(pipes[k])
      /\ \A k \in Keys, j \in JobIds : NoStop(jobs[k][j])
  BY DEF TypeInv, TypeOK, TaskTypes, StopsAreNotObservations, Rows, NoStop
<1>1. NoOne \notin StopCodes /\ 502 \notin StopCodes
  BY IdAssumption DEF StopCodes
<1>2. ASSUME NEW k \in Keys, NEW r, pipes' = [pipes EXCEPT ![k] = r], NoStop(r), UNCHANGED jobs
      PROVE  StopsAreNotObservations'
  <2>1. \A l \in Keys : pipes'[l] # NoPipe => NoStop(pipes'[l])
    BY <1>0, <1>2
  <2>2. \A l \in Keys, j \in JobIds : NoStop(jobs'[l][j])
    BY <1>0, <1>2
  <2> QED
    BY <2>1, <2>2 DEF StopsAreNotObservations, Rows, NoStop
<1>3. ASSUME NEW k \in Keys, NEW j \in JobIds, NEW o, jobs' = [jobs EXCEPT ![k][j] = o], NoStop(o),
             UNCHANGED pipes
      PROVE  StopsAreNotObservations'
  <2>1. \A l \in Keys : pipes'[l] # NoPipe => NoStop(pipes'[l])
    BY <1>0, <1>3
  <2>2. \A l \in Keys, i \in JobIds : NoStop(jobs'[l][i])
    BY <1>0, <1>3
  <2> QED
    BY <2>1, <2>2 DEF StopsAreNotObservations, Rows, NoStop
<1>4. ASSUME UNCHANGED <<pipes, jobs>> PROVE StopsAreNotObservations'
  BY <1>4 DEF StopsAreNotObservations, Rows
<1>5. ASSUME NEW p \in Procs, PutPipeline(p) PROVE StopsAreNotObservations'
  <2> DEFINE path == run[p].plan[run[p].index]
  <2>1. PICK id \in disc[p].new :
          \/ pipes' = [pipes EXCEPT ![<<disc[p].project, id>>] =
                         Seen(<<disc[p].project, id>>, path, run[p].batch)]
          \/ UNCHANGED pipes
    BY <1>5 DEF PutPipeline
  <2>2. PICK k \in Keys : k = <<disc[p].project, id>>
    BY <1>5 DEF PutPipeline, TypeInv, TypeOK, HasListing, ListingRecord, Keys
  <2>3. PICK r : /\ r = Seen(k, path, run[p].batch)
                 /\ pipes' = [pipes EXCEPT ![k] = r] \/ UNCHANGED pipes
    BY <2>1, <2>2
  <2>4. NoStop(r)
    <3>1. CASE pipes[k] = NoPipe
      BY <1>1, <2>3, <3>1 DEF Seen, NoStop
    <3>2. CASE pipes[k] # NoPipe
      BY <1>0, <2>3, <3>2, RowHttp DEF Seen, NoStop
    <3> QED
      BY <3>1, <3>2
  <2>5. UNCHANGED jobs
    BY <1>5 DEF PutPipeline
  <2> QED
    BY <1>2, <1>4, <2>3, <2>4, <2>5
<1>6. ASSUME NEW p \in Procs, Reclassify(p) PROVE StopsAreNotObservations'
  <2>0. PICK k \in Keys, s \in TraceOutcomes \cap Classified : \E j \in todo[p][k] :
          /\ jobs' = [jobs EXCEPT ![k][j] = [state |-> s, http |-> NoOne]]
          /\ todo' = [todo EXCEPT ![p][k] = @ \ {j}]
    BY <1>6 DEF Reclassify
  <2>1. PICK j \in todo[p][k] :
          /\ jobs' = [jobs EXCEPT ![k][j] = [state |-> s, http |-> NoOne]]
          /\ todo' = [todo EXCEPT ![p][k] = @ \ {j}]
    BY <2>0
  <2>3. j \in JobIds
    BY <1>0, <2>1 DEF TaskTypes
  <2> DEFINE o == [state |-> s, http |-> NoOne]
  <2>2. NoStop(o) /\ UNCHANGED pipes /\ jobs' = [jobs EXCEPT ![k][j] = o]
    BY <1>1, <1>6, <2>1 DEF NoStop, Reclassify
  <2> HIDE DEF o
  <2> QED
    BY <1>3, <2>2, <2>3
<1>7. ASSUME NEW p \in Procs, NEW k \in Keys, CollectStep(p, k) PROVE StopsAreNotObservations'
  <2>0. at[p][k] # "off" => /\ local[p][k] = pipes[k] /\ local[p][k] \in PipelineRecord
                            /\ NoStop(local[p][k])
    BY <1>0 DEF StoreInv, TaskAgrees
  <2>1. CASE JobsUnreadable(p, k)
    <3> DEFINE c == IF ans[p][k] = Malformed THEN 502 ELSE ans[p][k].code
               r == [local[p][k] EXCEPT !.listing = "unreadable", !.complete = TRUE, !.http = c]
    <3>1. c \notin StopCodes
      BY <1>1, <2>1, NoStopCode, AnswerFields DEF JobsUnreadable, TaskInv, HasAnswer
    <3>2. r.http = c
      BY <2>0, <2>1, RowHttp DEF JobsUnreadable
    <3>3. pipes' = [pipes EXCEPT ![k] = r] /\ UNCHANGED jobs
      BY <2>1 DEF JobsUnreadable
    <3> HIDE DEF r, c
    <3>4. NoStop(r)
      BY <3>1, <3>2 DEF NoStop
    <3> QED
      BY <1>2, <3>3, <3>4
  <2>2. CASE FinishPipeline(p, k)
    <3> DEFINE r == [local[p][k] EXCEPT !.complete = TRUE]
    <3>1. NoStop(r) /\ pipes' = [pipes EXCEPT ![k] = r] /\ UNCHANGED jobs
      BY <2>0, <2>2, RowHttp DEF FinishPipeline, NoStop
    <3> HIDE DEF r
    <3> QED
      BY <1>2, <3>1
  <2>3. CASE JobsListed(p, k)
    <3> DEFINE S == ans[p][k].jobs
               r == [local[p][k] EXCEPT !.listing = "listed", !.selected = S, !.complete = (S = {})]
    <3>1. pipes' = [pipes EXCEPT ![k] = r]
          /\ jobs' = [jobs EXCEPT ![k] = [j \in JobIds |-> IF j \in S THEN Fresh ELSE @[j]]]
      BY <2>3 DEF JobsListed
    <3>2. NoStop(r)
      BY <2>0, <2>3, RowHttp DEF JobsListed, NoStop
    <3>3. NoStop(Fresh)
      BY <1>1 DEF NoStop, Fresh
    <3> HIDE DEF r, S
    <3>4. \A l \in Keys, j \in JobIds : NoStop(jobs'[l][j])
      BY <1>0, <3>1, <3>3
    <3>5. \A l \in Keys : pipes'[l] # NoPipe => NoStop(pipes'[l])
      BY <1>0, <3>1, <3>2
    <3> QED
      BY <3>4, <3>5 DEF StopsAreNotObservations, Rows, NoStop
  <2>4. CASE RecordTrace(p, k)
    <3> DEFINE o == Observation(ans[p][k])
               i == job[p][k]
    <3>1. NoStop(o)
      <4>1. CASE \E c \in Codes \cup {TooLarge} : ans[p][k] = Refused(c)
        <5>1. ans[p][k].code \notin StopCodes
          BY <2>4, <4>1, AnswerFields, NoStopCode DEF RecordTrace
        <5>2. o.http = ans[p][k].code
          BY <4>1, AnswerFields DEF Observation
        <5> QED
          BY <5>1, <5>2 DEF NoStop
      <4>2. CASE \E s \in TraceOutcomes : ans[p][k] = Traced(s)
        <5>1. o.http = NoOne
          BY <4>2, AnswerFields DEF Observation
        <5> QED
          BY <1>1, <5>1 DEF NoStop
      <4> QED
        BY <2>4, <4>1, <4>2 DEF RecordTrace, TaskInv, HasAnswer
    <3>2. /\ jobs' = [jobs EXCEPT ![k][i] = o] /\ UNCHANGED pipes /\ i \in JobIds
      BY <2>4 DEF RecordTrace, TaskInv, HasAnswer
    <3> HIDE DEF o, i
    <3> QED
      BY <1>0, <1>3, <3>1, <3>2
  <2>5. CASE ~ (JobsUnreadable(p, k) \/ FinishPipeline(p, k) \/ JobsListed(p, k) \/ RecordTrace(p, k))
    <3>1. UNCHANGED <<pipes, jobs>>
      BY <1>7, <2>5 DEF CollectStep, StartTask, NextJobPage, StopTask, LeaveJobs, FetchTrace, store
    <3> QED
      BY <1>4, <3>1
  <2> QED
    BY <2>1, <2>2, <2>3, <2>4, <2>5
<1>8. ASSUME NEW p \in Procs,
             \/ \E mode \in {"open_harvest", "open_reevaluation"} : Acquire(p, mode)
             \/ \E k \in Keys : ServerStep(p, k)
             \/ Faults(p)
      PROVE  UNCHANGED <<pipes, jobs>>
  BY SMTT(60), <1>8 DEF Acquire, ServerStep, AnswerJobs, AnswerTrace, Answered, Faults, CommitFails,
              LastCommitFails, Interrupt, Crash, TaskCommitFails, store
<1>9. ASSUME NEW p \in Procs, MainStep(p), ~ PutPipeline(p), ~ Reclassify(p)
      PROVE  UNCHANGED <<pipes, jobs>>
  BY <1>9 DEF MainStep, OpenHarvest, OpenReevaluation, OpenRefused, Begin, ResolveProject, ReadPage,
              FinishPage, PlanCollection, LaunchBatch, EndBatch, CancelBatch, EndCollection, Finish,
              EndReevaluation, store
<1>10. CASE UNCHANGED vars
  BY <1>4, <1>10 DEF vars, store
<1> QED
  <2>1. CASE Next
    <3>1. PICK p \in Procs :
            \/ \/ \E mode \in {"open_harvest", "open_reevaluation"} : Acquire(p, mode)
               \/ \E k \in Keys : ServerStep(p, k)
               \/ Faults(p)
            \/ MainStep(p)
            \/ \E k \in Keys : CollectStep(p, k)
      BY <2>1 DEF Next
    <3> QED
      BY <1>4, <1>5, <1>6, <1>7, <1>8, <1>9, <3>1
  <2> QED
    BY <1>10, <2>1
\* No 429 and no 401 is ever stored as what a pipeline or a job turned out to
\* be, however many tasks of a batch are in flight when it arrives.
THEOREM StopsLeaveWorkPending == Spec => []StopsAreNotObservations
<1>1. Init => StopsAreNotObservations
  BY IdAssumption DEF Init, StopsAreNotObservations, Rows, NoJob, StopCodes
<1>2. TypeInv /\ TaskInv /\ StoreInv /\ StopsAreNotObservations /\ [Next]_vars
        => StopsAreNotObservations'
  BY StopsStep
<1> QED
  BY <1>1, <1>2, StoreInvariant, TypesAndTasks, PTL DEF Spec

-----------------------------------------------------------------------------
(* A run that ends by itself has finished its batch. *)

Finished == {"complete", "shortfall"}
Entering == {"open_harvest", "open_reevaluation", "begin"}
Discovering == {"resolve", "page", "put"}
Collecting == {"batch", "gather"}

OwnRows(p) == BatchRows(run[p].batch)

\* Before a run has saved anything, no row is of its batch.
RunStarts(p) ==
    /\ pc[p] \in {"idle"} \cup Entering => disc[p].selected = {}
    /\ pc[p] \in Entering => run[p].index = 1 /\ OwnRows(p) = {}

\* A run says that it is finished in its last commit only.
RunOpen(p) ==
    /\ pc[p] # "idle" => run[p].batch <= runs /\ run[p].state \notin Finished
    /\ pc[p] \notin {"idle", "gather", "final"} => run[p].failure = NoOne
    /\ pc[p] \in Discovering \cup Collecting \cup {"final"} /\ ckpt # NoOne
         => ckpt.state \notin Finished

\* Each project that was listed gave its batch at most as many rows as are wanted.
RunCounts(p) ==
    /\ pc[p] \in Discovering =>
         /\ Cardinality(OwnRows(p))
              <= PerProject * (run[p].index - 1) + Cardinality(disc[p].selected)
         /\ disc[p].new \cap disc[p].selected = {}
    /\ pc[p] = "resolve" => disc[p].selected = {} /\ run[p].index <= Len(run[p].plan) + 1
    /\ pc[p] \in {"page", "put"} => /\ run[p].index <= Len(run[p].plan)
                                    /\ Cardinality(disc[p].selected) <= PerProject
    /\ pc[p] \in Collecting \cup {"final"} => Cardinality(OwnRows(p)) <= Target(run[p])

\* A task of a run that goes on leaves its pipeline complete.
RunCloses(p) ==
    /\ pc[p] = "batch" => \A k \in Keys : at[p][k] \in {"off", "queued"}
    /\ pc[p] \in Collecting /\ run[p].state = "collecting" /\ run[p].failure = NoOne =>
         \A k \in OwnRows(p) : at[p][k] = "off" => pipes[k].complete
    /\ pc[p] = "final" /\ run[p].state = "collecting" => \A k \in OwnRows(p) : pipes[k].complete

RunInv(p) == RunStarts(p) /\ RunOpen(p) /\ RunCounts(p) /\ RunCloses(p)

OldBatches == \A k \in Rows : pipes[k].batch <= runs

FinishInv == OldBatches /\ (\A p \in Procs : RunInv(p)) /\ FinishedMeansFinished

AllInv == TypeInv /\ TaskInv /\ StoreInv /\ FinishInv

\* What a step of p may rely on, and what it leaves alone.
LEMMA Alone ==
    ASSUME AllInv, NEW p \in Procs, pc[p] # "idle"
    PROVE  /\ lease = p
           /\ \A q \in Procs : q # p => pc[q] = "idle"
           /\ RunInv(p) /\ OldBatches /\ FinishedMeansFinished
           /\ run[p] \in RunRecord /\ run[p].batch \in Batches /\ run[p].plan \in Plans
           /\ disc[p] \in ListingRecord /\ TaskTypes
           /\ pc \in [Procs -> PcTypes] /\ run \in [Procs -> RunRecord]
           /\ disc \in [Procs -> ListingRecord]
           /\ pipes \in [Keys -> PipelineRecord \cup {NoPipe}]
           /\ runs \in Nat
<1>1. TypeOK /\ HasRun /\ Exclusive /\ FinishInv
  BY DEF AllInv, TypeInv, StoreInv
<1>2. lease = p /\ \A q \in Procs : q # p => pc[q] = "idle"
  BY <1>1 DEF Exclusive
<1>3. RunInv(p) /\ OldBatches /\ FinishedMeansFinished
  BY <1>1 DEF FinishInv
<1>4. run[p] \in RunRecord /\ run[p].batch \in Batches /\ run[p].plan \in Plans
  BY <1>1 DEF TypeOK, HasRun
<1>5. disc[p] \in ListingRecord /\ TaskTypes
  BY <1>1 DEF TypeOK, TaskTypes
<1>6. /\ pc \in [Procs -> PcTypes] /\ run \in [Procs -> RunRecord]
      /\ disc \in [Procs -> ListingRecord]
      /\ pipes \in [Keys -> PipelineRecord \cup {NoPipe}]
  BY <1>1 DEF TypeOK, PcTypes
<1>7. runs \in Nat
  BY <1>1, BoundAssumption DEF TypeOK
<1> QED
  BY <1>2, <1>3, <1>4, <1>5, <1>6, <1>7

LEMMA OthersRest ==
    ASSUME AllInv, NEW p \in Procs, RunInv(p)', OldBatches', FinishedMeansFinished',
           \A q \in Procs : q # p => pc[q] = "idle" /\ pc'[q] = "idle" /\ disc'[q] = disc[q]
    PROVE  FinishInv'
<1>1. ASSUME NEW q \in Procs, q # p PROVE RunInv(q)'
  <2>1. RunInv(q) /\ pc[q] = "idle" /\ pc'[q] = "idle" /\ disc'[q] = disc[q]
    BY <1>1 DEF AllInv, FinishInv
  <2>2. RunStarts(q)' /\ RunOpen(q)' /\ RunCounts(q)' /\ RunCloses(q)'
    BY <2>1 DEF RunInv, RunStarts, RunOpen, RunCounts, RunCloses, Entering, Discovering, Collecting
  <2> QED
    BY <2>2 DEF RunInv
<1> QED
  BY <1>1 DEF FinishInv

\* What was finished stays so as long as no row changes and no sample is added.
LEMMA FinishedStays ==
    ASSUME FinishedMeansFinished, UNCHANGED <<pipes, ckpt>>,
           \A k \in Keys : Pending(k)' = Pending(k)
    PROVE  FinishedMeansFinished'
<1>1. BatchRows(ckpt.batch)' = BatchRows(ckpt.batch) /\ BatchRows(ckpt.batch) \subseteq Keys
  BY DEF BatchRows, Rows
<1>2. Target(ckpt)' = Target(ckpt)
  BY DEF Target
<1> QED
  BY <1>1, <1>2 DEF FinishedMeansFinished

LEMMA NotFinished ==
    ASSUME ckpt' # NoOne => ckpt'.state \notin Finished PROVE FinishedMeansFinished'
  BY DEF FinishedMeansFinished, Finished

\* The rows of a run, counted.
LEMMA RowsAreFinite == ASSUME NEW b PROVE /\ IsFiniteSet(BatchRows(b)) /\ BatchRows(b) \subseteq Keys
                                          /\ Cardinality(BatchRows(b)) \in Nat
<1>1. BatchRows(b) \subseteq Keys
  BY DEF BatchRows, Rows
<1> QED
  BY <1>1, FiniteRows, FS_Subset, FS_CardinalityType

LEMMA Multiples ==
    ASSUME NEW m \in Nat, NEW i \in Nat, NEW n \in Nat, i <= n
    PROVE  m * i \in Nat /\ m * i <= m * n /\ m * (i + 1) = m * i + m
  OBVIOUS

LEMMA PlanLengths == ASSUME NEW plan \in Plans PROVE Len(plan) \in Nat
  BY PlanAssumption

LEMMA WithinTarget ==
    ASSUME AllInv, NEW p \in Procs, pc[p] \in Discovering
    PROVE  Cardinality(OwnRows(p)) <= Target(run[p])
<1> DEFINE n == Len(run[p].plan)
           i == run[p].index
           s == Cardinality(disc[p].selected)
<1>1. /\ i \in Nat \ {0} /\ n \in Nat /\ PerProject \in Nat
      /\ RunCounts(p) /\ disc[p] \in ListingRecord /\ pc[p] # "idle"
  BY Alone, PlanLengths, BoundAssumption DEF Discovering, RunInv, RunRecord
<1>2. Cardinality(OwnRows(p)) <= PerProject * (i - 1) + s /\ Cardinality(OwnRows(p)) \in Nat
  BY <1>1, RowsAreFinite DEF RunCounts, OwnRows
<1>3. CASE pc[p] = "resolve"
  <2> DEFINE j == i - 1
  <2>1. disc[p].selected = {} /\ run[p].index <= Len(run[p].plan) + 1
    BY <1>1, <1>3 DEF RunCounts
  <2>2. s = 0
    BY <2>1, FS_EmptySet
  <2>3. j <= n /\ j \in Nat
    BY <1>1, <2>1
  <2>4. Cardinality(OwnRows(p)) <= PerProject * j + s
    BY <1>2
  <2> HIDE DEF i, n, s, j
  <2>5. PerProject * j <= PerProject * n /\ PerProject * j \in Nat /\ PerProject * n \in Nat
    BY <1>1, <2>3, Multiples
  <2> QED
    BY <1>2, <2>2, <2>4, <2>5 DEF Target, n
<1>4. CASE pc[p] \in {"page", "put"}
  <2>1. s <= PerProject /\ i <= n /\ i - 1 \in Nat /\ s \in Nat
    <3>1. disc[p].selected \subseteq PipelineIds
      BY <1>1 DEF ListingRecord
    <3>2. s \in Nat
      BY <3>1, IdAssumption, FS_Subset, FS_CardinalityType
    <3> QED
      BY <1>1, <1>4, <3>2 DEF RunCounts
  <2> DEFINE j == i - 1
  <2>0. PerProject \in Nat /\ i \in Nat /\ n \in Nat /\ j \in Nat /\ i <= n /\ j <= n
    BY <1>1, <2>1
  <2>2. PerProject * (j + 1) = PerProject * j + PerProject /\ PerProject * j \in Nat
    <3> HIDE DEF i, n, s, j
    <3> QED
      BY <2>0, Multiples
  <2>3. PerProject * i <= PerProject * n /\ PerProject * n \in Nat
    <3> HIDE DEF i, n, s, j
    <3>1. n <= n
      BY <2>0
    <3> QED
      BY <2>0, <3>1, Multiples
  <2>4. i = j + 1
    BY <1>1
  <2> HIDE DEF i, n, s, j
  <2>5. Cardinality(OwnRows(p)) <= PerProject * j + s
    BY <1>2 DEF j
  <2>6. PerProject * i = PerProject * j + PerProject
    BY <2>2, <2>4
  <2>7. PerProject * j + s <= PerProject * n
    BY <1>1, <2>1, <2>2, <2>3, <2>6
  <2> QED
    BY SMTT(60), <1>1, <1>2, <2>1, <2>2, <2>3, <2>5, <2>7 DEF Target, n
<1> QED
  BY <1>3, <1>4 DEF Discovering

LEMMA RowsSame ==
    ASSUME UNCHANGED pipes
    PROVE  /\ \A b : BatchRows(b)' = BatchRows(b')
           /\ Rows' = Rows
  BY DEF BatchRows, Rows

LEMMA OwnRowsSame ==
    ASSUME NEW p \in Procs, UNCHANGED pipes, run'[p].batch = run[p].batch
    PROVE  OwnRows(p)' = OwnRows(p)
  BY DEF OwnRows, BatchRows, Rows

LEMMA BatchesAreNumbers ==
    ASSUME AllInv, NEW k \in Rows PROVE pipes[k].batch \in Nat /\ pipes[k] \in PipelineRecord /\ k \in Keys
<1>1. pipes[k] \in PipelineRecord /\ k \in Keys
  BY DEF AllInv, TypeInv, TypeOK, Rows
<1>2. pipes[k].batch \in Batches
  BY <1>1 DEF PipelineRecord
<1> QED
  BY <1>1, <1>2, BoundAssumption DEF Batches

LEMMA OldStay ==
    ASSUME AllInv, UNCHANGED pipes, runs' \in {runs, runs + 1} PROVE OldBatches'
<1>1. runs \in Nat /\ OldBatches
  BY BoundAssumption DEF AllInv, TypeInv, TypeOK, FinishInv
<1>2. \A k \in Rows : pipes[k].batch \in Nat
  BY BatchesAreNumbers
<1> QED
  BY <1>1, <1>2, RowsSame DEF OldBatches

\* A step inside the run that writes no row.
LEMMA RunGoesOn ==
    ASSUME AllInv, NEW p \in Procs, pc[p] # "idle", UNCHANGED <<pipes, runs>>,
           NEW where \in Discovering \cup Collecting \cup {"final"},
           pc' = [pc EXCEPT ![p] = where],
           \A q \in Procs : q # p => disc'[q] = disc[q],
           run'[p].batch = run[p].batch, run'[p].state \notin Finished,
           where \notin {"gather", "final"} => run'[p].failure = NoOne,
           ckpt' # NoOne => ckpt'.state \notin Finished,
           RunCounts(p)', RunCloses(p)'
    PROVE  FinishInv'
<1>1. pc'[p] = where /\ \A q \in Procs : q # p => pc[q] = "idle" /\ pc'[q] = "idle" /\ disc'[q] = disc[q]
  BY Alone
<1>2. OldBatches' /\ FinishedMeansFinished'
  BY OldStay, NotFinished
<1>3. RunStarts(p)'
  BY <1>1 DEF RunStarts, Entering, Discovering, Collecting
<1>4. RunOpen(p)'
  <2>1. run[p].batch <= runs
    BY Alone DEF RunInv, RunOpen
  <2> QED
    BY <1>1, <2>1 DEF RunOpen
<1> QED
  BY <1>1, <1>2, <1>3, <1>4, OthersRest DEF RunInv

LEMMA ReleaseFinish ==
    ASSUME AllInv, NEW p \in Procs, pc[p] # "idle", Release(p), UNCHANGED <<pipes, runs>>,
           FinishedMeansFinished'
    PROVE  FinishInv'
<1>1. /\ pc'[p] = "idle" /\ disc'[p] = NewListing(NoOne)
      /\ \A q \in Procs : q # p => pc[q] = "idle" /\ pc'[q] = "idle" /\ disc'[q] = disc[q]
  BY Alone DEF Release
<1>2. disc'[p].selected = {}
  BY <1>1 DEF NewListing
<1>3. RunInv(p)'
  BY <1>1, <1>2 DEF RunInv, RunStarts, RunOpen, RunCounts, RunCloses, Entering, Discovering, Collecting
<1> QED
  BY <1>1, <1>3, OldStay, OthersRest

LEMMA AcquireFinish ==
    ASSUME AllInv, NEW p \in Procs, NEW mode \in {"open_harvest", "open_reevaluation"},
           Acquire(p, mode)
    PROVE  FinishInv'
<1>1. /\ pc \in [Procs -> PcTypes] /\ run \in [Procs -> RunRecord] /\ runs \in Nat
      /\ RunInv(p) /\ OldBatches /\ FinishedMeansFinished
  BY BoundAssumption DEF AllInv, TypeInv, TypeOK, PcTypes, FinishInv
<1>2. \A q \in Procs : pc[q] = "idle"
  BY IdAssumption DEF Acquire, LeaseFree, AllInv, StoreInv, Exclusive
<1>3. PICK plan \in Plans : run' = [run EXCEPT ![p] = NewRun(runs + 1, plan)]
  BY DEF Acquire
<1>4. /\ run'[p].batch = runs + 1 /\ run'[p].state = "collecting" /\ run'[p].index = 1
      /\ run'[p].failure = NoOne
  BY <1>1, <1>3 DEF NewRun
<1>5. /\ pc'[p] = mode /\ UNCHANGED <<pipes, jobs, ckpt, disc>> /\ runs' = runs + 1
      /\ \A q \in Procs : q # p => pc'[q] = pc[q]
  BY <1>1 DEF Acquire, store
<1>6. OwnRows(p)' = {}
  <2>1. \A k \in Rows : pipes[k].batch # runs + 1
    BY <1>1, BatchesAreNumbers DEF OldBatches
  <2> QED
    BY <1>4, <1>5, <2>1 DEF OwnRows, BatchRows, Rows
<1>7. RunInv(p)'
  <2>1. RunStarts(p)'
    BY <1>1, <1>2, <1>4, <1>5, <1>6 DEF RunInv, RunStarts, Entering
  <2>2. RunOpen(p)' /\ RunCounts(p)' /\ RunCloses(p)'
    BY <1>1, <1>4, <1>5 DEF RunOpen, RunCounts, RunCloses, Entering, Discovering, Collecting, Finished
  <2> QED
    BY <2>1, <2>2 DEF RunInv
<1>8. FinishedMeansFinished'
  BY <1>1, <1>5, FinishedStays DEF Pending
<1> QED
  BY <1>2, <1>5, <1>7, <1>8, OldStay, OthersRest

\* The end of a listing: the batch has no more rows than are wanted so far.
LEMMA EndListingFinish ==
    ASSUME AllInv, NEW p \in Procs, pc[p] \in Discovering, run[p].index <= Len(run[p].plan),
           NEW listing, NEW state, state \notin Finished, EndListing(p, listing, state),
           UNCHANGED <<pipes, runs>>
    PROVE  FinishInv'
<1> DEFINE i == run[p].index
           s == Cardinality(disc[p].selected)
           r == [run[p] EXCEPT !.state = state, !.index = @ + 1,
                   !.listing = [@ EXCEPT ![run[p].plan[run[p].index]] = listing]]
<1>1. /\ pc[p] # "idle" /\ run[p] \in RunRecord /\ run \in [Procs -> RunRecord]
      /\ disc \in [Procs -> ListingRecord] /\ RunCounts(p) /\ RunOpen(p)
      /\ PerProject \in Nat /\ i \in Nat \ {0} /\ Len(run[p].plan) \in Nat
  BY Alone, PlanLengths, BoundAssumption DEF Discovering, RunInv, RunRecord
<1>2. /\ run' = [run EXCEPT ![p] = r] /\ ckpt' = Checkpoint(r)
      /\ disc' = [disc EXCEPT ![p] = NewListing(NoOne)] /\ pc' = [pc EXCEPT ![p] = "resolve"]
  BY DEF EndListing
<1>3. /\ r.batch = run[p].batch /\ r.plan = run[p].plan /\ r.index = i + 1
      /\ r.state = state /\ r.failure = run[p].failure
  BY <1>1 DEF RunRecord
<1> HIDE DEF r
<1>4. /\ run'[p].batch = run[p].batch /\ run'[p].plan = run[p].plan /\ run'[p].index = i + 1
      /\ run'[p].state = state /\ run'[p].failure = NoOne /\ ckpt'.state = state
  BY <1>1, <1>2, <1>3 DEF Checkpoint, RunOpen, Discovering
<1>5. disc'[p].selected = {} /\ disc'[p].new = {}
  BY <1>1, <1>2 DEF NewListing
<1>6. Cardinality(OwnRows(p)) <= PerProject * i
  <2> DEFINE j == i - 1
  <2>1. Cardinality(OwnRows(p)) <= PerProject * j + s
    BY <1>1 DEF RunCounts
  <2>2. s <= PerProject /\ s \in Nat
    <3>1. CASE pc[p] = "resolve"
      <4>1. disc[p].selected = {}
        BY <1>1, <3>1 DEF RunCounts
      <4> QED
        BY <1>1, <4>1, FS_EmptySet
    <3>2. CASE pc[p] # "resolve"
      <4>1. disc[p].selected \subseteq PipelineIds
        BY <1>1 DEF ListingRecord
      <4>2. s \in Nat
        BY <4>1, IdAssumption, FS_Subset, FS_CardinalityType
      <4> QED
        BY <1>1, <3>2, <4>2 DEF RunCounts, Discovering
    <3> QED
      BY <3>1, <3>2
  <2>3. j \in Nat /\ i = j + 1
    BY <1>1
  <2>4. Cardinality(OwnRows(p)) \in Nat
    BY RowsAreFinite DEF OwnRows
  <2> HIDE DEF i, j, s
  <2>5. PerProject * (j + 1) = PerProject * j + PerProject /\ PerProject * j \in Nat
    BY <1>1, <2>3, Multiples
  <2> QED
    BY <1>1, <2>1, <2>2, <2>3, <2>4, <2>5
<1>7. OwnRows(p)' = OwnRows(p)
  BY <1>4, OwnRowsSame
<1>8. pc'[p] = "resolve" /\ Cardinality({}) = 0
  BY <1>2, Alone, <1>1, FS_EmptySet
<1>9. RunCounts(p)'
  <2>1. run'[p].index - 1 = i /\ run'[p].index <= Len(run'[p].plan) + 1
    BY <1>1, <1>4
  <2>2. Cardinality(OwnRows(p)') <= PerProject * (run'[p].index - 1) + Cardinality(disc'[p].selected)
    <3>1. PerProject * i \in Nat
      BY <1>1, Multiples
    <3> HIDE DEF i
    <3> QED
      BY <1>5, <1>6, <1>7, <1>8, <2>1, <3>1
  <2> QED
    BY <1>5, <1>8, <2>1, <2>2 DEF RunCounts, Collecting
<1>10. RunCloses(p)'
  BY <1>8 DEF RunCloses, Collecting
<1>11. "resolve" \in Discovering \cup Collecting \cup {"final"}
  BY DEF Discovering
<1>12. \A q \in Procs : q # p => disc'[q] = disc[q]
  BY <1>1, <1>2
<1> QED
  BY <1>1, <1>2, <1>4, <1>9, <1>10, <1>11, <1>12, RunGoesOn

\* The acting process in its run, and the checkpoint that says that it is collecting.
LEMMA InRun ==
    ASSUME AllInv, NEW p \in Procs, pc[p] \in Discovering \cup Collecting \cup {"final"}
    PROVE  /\ pc[p] # "idle" /\ run[p].state \notin Finished
           /\ ckpt # NoOne => ckpt.state \notin Finished
           /\ pc[p] \notin {"gather", "final"} => run[p].failure = NoOne
           /\ RunCounts(p) /\ RunCloses(p)
<1>1. pc[p] # "idle"
  BY DEF Discovering, Collecting
<1>2. RunOpen(p) /\ RunCounts(p) /\ RunCloses(p)
  BY <1>1, Alone DEF RunInv
<1> QED
  BY <1>1, <1>2 DEF RunOpen

LEMMA EnterFinish ==
    ASSUME AllInv, NEW p \in Procs, OpenHarvest(p) \/ OpenReevaluation(p)
    PROVE  FinishInv'
<1>1. pc[p] \in Entering
  BY DEF OpenHarvest, OpenReevaluation, Entering
<1>2. PICK where \in {"begin", "reevaluate"} :
        /\ pc' = [pc EXCEPT ![p] = where]
        /\ UNCHANGED <<pipes, jobs, ckpt, run, disc, runs>>
  BY DEF OpenHarvest, OpenReevaluation, store
<1>3. RunInv(p) /\ pc[p] # "idle" /\ pc[p] \notin {"gather", "final"}
  BY <1>1, Alone DEF Entering
<1>4. pc'[p] = where /\ \A q \in Procs : q # p => pc[q] = "idle" /\ pc'[q] = "idle" /\ disc'[q] = disc[q]
  BY <1>2, <1>3, Alone
<1>5. RunStarts(p)'
  <2>1. OwnRows(p)' = OwnRows(p)
    BY <1>2, OwnRowsSame
  <2> QED
    BY <1>1, <1>2, <1>3, <1>4, <2>1 DEF RunInv, RunStarts, Entering
<1>6. RunOpen(p)' /\ RunCounts(p)' /\ RunCloses(p)'
  BY <1>2, <1>3, <1>4 DEF RunInv, RunOpen, RunCounts, RunCloses, Entering, Discovering, Collecting
<1>7. FinishedMeansFinished'
  BY <1>2, <1>3, Alone, FinishedStays DEF Pending
<1> QED
  BY <1>2, <1>4, <1>5, <1>6, <1>7, OldStay, OthersRest DEF RunInv

LEMMA BeginFinish == ASSUME AllInv, NEW p \in Procs, Begin(p) PROVE FinishInv'
<1>1. /\ pc[p] = "begin" /\ ckpt' = Checkpoint(run[p]) /\ pc' = [pc EXCEPT ![p] = "resolve"]
      /\ UNCHANGED <<pipes, run, disc, runs>>
  BY DEF Begin
<1>2. /\ RunStarts(p) /\ RunOpen(p) /\ run[p] \in RunRecord /\ Len(run[p].plan) \in Nat
      /\ pc \in [Procs -> PcTypes] /\ PerProject \in Nat
  BY <1>1, Alone, PlanLengths, BoundAssumption DEF RunInv
<1>3. /\ run[p].index = 1 /\ OwnRows(p) = {} /\ disc[p].selected = {}
      /\ run[p].state \notin Finished /\ run[p].failure = NoOne
  BY <1>1, <1>2 DEF RunStarts, RunOpen, Entering
<1>4. pc'[p] = "resolve" /\ OwnRows(p)' = OwnRows(p) /\ ckpt'.state = run[p].state
  BY <1>1, <1>2, OwnRowsSame DEF Checkpoint
<1>5. RunCounts(p)'
  <2>1. Cardinality({}) = 0 /\ PerProject * (1 - 1) = 0
    BY <1>2, FS_EmptySet
  <2>2. Cardinality(OwnRows(p))' = 0 /\ Cardinality(disc[p].selected)' = 0
        /\ run'[p].index = 1 /\ Len(run'[p].plan) = Len(run[p].plan)
    BY <1>1, <1>3, <1>4, <2>1
  <2>3. Cardinality(OwnRows(p))' <= PerProject * (run'[p].index - 1) + Cardinality(disc[p].selected)'
    BY <2>1, <2>2
  <2> QED
    BY <1>1, <1>2, <1>3, <1>4, <2>2, <2>3 DEF RunCounts, Collecting
<1>6. RunCloses(p)'
  BY <1>4 DEF RunCloses, Collecting
<1> QED
  BY <1>1, <1>3, <1>4, <1>5, <1>6, RunGoesOn DEF Discovering

\* Whatever ends discovery early leaves the counts as they are and says why.
LEMMA DiscoveryFails ==
    ASSUME AllInv, NEW p \in Procs, pc[p] \in Discovering, UNCHANGED <<pipes, ckpt, runs>>,
           NEW state, state \notin Finished, state # "collecting",
           run' = [run EXCEPT ![p].state = state], pc' = [pc EXCEPT ![p] = "final"],
           \A q \in Procs : q # p => disc'[q] = disc[q]
    PROVE  FinishInv'
<1>1. /\ pc[p] # "idle" /\ run \in [Procs -> RunRecord] /\ run[p] \in RunRecord
      /\ pc \in [Procs -> PcTypes] /\ (ckpt # NoOne => ckpt.state \notin Finished)
  BY Alone, InRun DEF Discovering
<1>2. /\ run'[p].batch = run[p].batch /\ run'[p].plan = run[p].plan /\ run'[p].state = state
      /\ pc'[p] = "final"
  BY <1>1 DEF RunRecord
<1>3. RunCounts(p)'
  <2>1. OwnRows(p)' = OwnRows(p) /\ Target(run[p])' = Target(run[p])
    BY <1>2, OwnRowsSame DEF Target
  <2>2. Cardinality(OwnRows(p))' <= Target(run[p])'
    BY <2>1, WithinTarget
  <2> QED
    BY <1>2, <2>2 DEF RunCounts, Discovering
<1>4. RunCloses(p)'
  BY <1>2 DEF RunCloses, Collecting
<1> QED
  BY <1>1, <1>2, <1>3, <1>4, RunGoesOn

\* A step of discovery that keeps the project and what was selected of it.
LEMMA DiscoveryGoesOn ==
    ASSUME AllInv, NEW p \in Procs, pc[p] \in Discovering, UNCHANGED <<pipes, runs>>,
           run[p].index <= Len(run[p].plan),
           NEW where \in {"page", "put"}, pc' = [pc EXCEPT ![p] = where],
           \A q \in Procs : q # p => disc'[q] = disc[q],
           run'[p].batch = run[p].batch, run'[p].plan = run[p].plan,
           run'[p].index = run[p].index, run'[p].state = run[p].state,
           run'[p].failure = run[p].failure,
           ckpt' # NoOne => ckpt'.state \notin Finished,
           disc'[p].selected = disc[p].selected,
           disc'[p].new \cap disc'[p].selected = {}
    PROVE  FinishInv'
<1>1. pc[p] # "idle" /\ RunCounts(p) /\ run[p].state \notin Finished /\ run[p].failure = NoOne
      /\ pc \in [Procs -> PcTypes]
  BY InRun, Alone DEF Discovering
<1>2. pc'[p] = where /\ OwnRows(p)' = OwnRows(p)
  BY <1>1, OwnRowsSame
<1>3. Cardinality(disc[p].selected) <= PerProject
  <2>1. CASE pc[p] = "resolve"
    <3>1. disc[p].selected = {}
      BY <1>1, <2>1 DEF RunCounts
    <3> QED
      BY <3>1, FS_EmptySet, BoundAssumption
  <2>2. CASE pc[p] # "resolve"
    BY <1>1, <2>2 DEF RunCounts, Discovering
  <2> QED
    BY <2>1, <2>2
<1>4. RunCounts(p)'
  <2>1. Cardinality(OwnRows(p))' <= PerProject * (run'[p].index - 1) + Cardinality(disc'[p].selected)
    BY <1>1, <1>2 DEF RunCounts
  <2> QED
    BY <1>2, <1>3, <2>1 DEF RunCounts, Collecting
<1>5. RunCloses(p)'
  BY <1>2 DEF RunCloses, Collecting
<1> QED
  BY <1>1, <1>2, <1>4, <1>5, RunGoesOn DEF Discovering

LEMMA StopForOpen ==
    ASSUME NEW s, s \notin Finished, NEW c PROVE StopFor(s, c) \notin Finished
  BY DEF StopFor, Finished

LEMMA ResolveFinish == ASSUME AllInv, NEW p \in Procs, ResolveProject(p) PROVE FinishInv'
<1>1. /\ pc[p] = "resolve" /\ run[p].index <= Len(run[p].plan) /\ UNCHANGED <<pipes, runs>>
  BY DEF ResolveProject, MoreProjects
<1>2. /\ pc[p] \in Discovering /\ run[p].state \notin Finished /\ run \in [Procs -> RunRecord]
      /\ run[p] \in RunRecord /\ disc \in [Procs -> ListingRecord] /\ RunCounts(p)
  BY <1>1, InRun, Alone DEF Discovering
<1>3. CASE ProviderFails(p)
  BY <1>1, <1>2, <1>3, StopForOpen, EndListingFinish DEF ProviderFails
<1>4. CASE /\ run' = [run EXCEPT ![p].state = "provider_error"]
           /\ pc' = [pc EXCEPT ![p] = "final"] /\ UNCHANGED <<ckpt, disc>>
  BY <1>1, <1>2, <1>4, DiscoveryFails DEF Finished
<1>5. CASE /\ \E id \in ProjectIds \ run[p].resolved :
                /\ run' = [run EXCEPT ![p].resolved = @ \cup {id}]
                /\ disc' = [disc EXCEPT ![p] = NewListing(id)]
           /\ ckpt' = Checkpoint(run[p])
           /\ pc' = [pc EXCEPT ![p] = "page"]
  <2>1. PICK id : /\ run' = [run EXCEPT ![p].resolved = @ \cup {id}]
                  /\ disc' = [disc EXCEPT ![p] = NewListing(id)]
    BY <1>5
  <2> DEFINE S == run[p].resolved \cup {id}
  <2>2. run' = [run EXCEPT ![p].resolved = S]
    BY <2>1
  <2> HIDE DEF S
  <2>3. /\ run'[p].batch = run[p].batch /\ run'[p].plan = run[p].plan
        /\ run'[p].index = run[p].index /\ run'[p].state = run[p].state
        /\ run'[p].failure = run[p].failure
    BY <1>2, <2>2 DEF RunRecord
  <2>4. disc'[p].selected = {} /\ disc'[p].new = {} /\ disc[p].selected = {}
        /\ \A q \in Procs : q # p => disc'[q] = disc[q]
    BY <1>1, <1>2, <2>1 DEF NewListing, RunCounts
  <2>5. ckpt'.state = run[p].state
    BY SMTT(60), <1>5 DEF Checkpoint
  <2> QED
    BY ZenonT(60), <1>1, <1>2, <1>5, <2>3, <2>4, <2>5, DiscoveryGoesOn
<1> QED
  BY <1>3, <1>4, <1>5 DEF ResolveProject

LEMMA ReadPageFinish == ASSUME AllInv, NEW p \in Procs, ReadPage(p) PROVE FinishInv'
<1>1. pc[p] = "page" /\ UNCHANGED <<pipes, runs>>
  BY DEF ReadPage
<1>2. /\ pc[p] \in Discovering /\ run[p].state \notin Finished
      /\ disc \in [Procs -> ListingRecord] /\ disc[p] \in ListingRecord /\ RunCounts(p)
      /\ run[p].index <= Len(run[p].plan) /\ (ckpt # NoOne => ckpt.state \notin Finished)
  BY <1>1, InRun, Alone DEF Discovering, RunCounts
<1>3. CASE ProviderFails(p)
  BY <1>1, <1>2, <1>3, StopForOpen, EndListingFinish DEF ProviderFails
<1>4. CASE EndListing(p, "invalid", run[p].state)
  BY <1>1, <1>2, <1>4, EndListingFinish
<1>5. ASSUME NEW items \in SUBSET PipelineIds, NEW more,
             disc' = [disc EXCEPT ![p] = [@ EXCEPT !.new = items \ disc[p].selected, !.more = more]],
             pc' = [pc EXCEPT ![p] = "put"], UNCHANGED <<ckpt, run>>
      PROVE  FinishInv'
  <2> DEFINE new == items \ disc[p].selected
  <2>1. disc' = [disc EXCEPT ![p] = [@ EXCEPT !.new = new, !.more = more]] /\ new \cap disc[p].selected = {}
    BY <1>5
  <2> HIDE DEF new
  <2>2. /\ disc'[p].new = new /\ disc'[p].selected = disc[p].selected
        /\ \A q \in Procs : q # p => disc'[q] = disc[q]
    BY <1>2, <2>1 DEF ListingRecord
  <2> QED
    BY <1>1, <1>2, <1>5, <2>1, <2>2, DiscoveryGoesOn
<1> QED
  BY ZenonT(60), <1>3, <1>4, <1>5 DEF ReadPage

LEMMA FinishPageFinish == ASSUME AllInv, NEW p \in Procs, FinishPage(p) PROVE FinishInv'
<1>1. pc[p] = "put" /\ UNCHANGED <<pipes, runs>>
  BY DEF FinishPage
<1>2. /\ pc[p] \in Discovering /\ run[p].state \notin Finished
      /\ disc \in [Procs -> ListingRecord] /\ disc[p] \in ListingRecord
      /\ run[p].index <= Len(run[p].plan)
  BY <1>1, InRun, Alone DEF Discovering, RunCounts
<1>3. CASE EndListing(p, ListingState(disc[p]), run[p].state)
  BY <1>1, <1>2, <1>3, EndListingFinish
<1>4. CASE /\ \E oldest : disc' = [disc EXCEPT ![p] =
                                    [@ EXCEPT !.page = disc[p].page + 1, !.floor = oldest, !.new = {}]]
           /\ ckpt' = Checkpoint(run[p])
           /\ pc' = [pc EXCEPT ![p] = "page"] /\ UNCHANGED run
  <2>1. PICK oldest : disc' = [disc EXCEPT ![p] =
                                [@ EXCEPT !.page = disc[p].page + 1, !.floor = oldest, !.new = {}]]
    BY <1>4
  <2> DEFINE next == disc[p].page + 1
  <2>2. disc' = [disc EXCEPT ![p] = [@ EXCEPT !.page = next, !.floor = oldest, !.new = {}]]
    BY <2>1
  <2> HIDE DEF next
  <2>3. /\ disc'[p].new = {} /\ disc'[p].selected = disc[p].selected
        /\ \A q \in Procs : q # p => disc'[q] = disc[q]
    BY <1>2, <2>2 DEF ListingRecord
  <2>4. ckpt'.state = run[p].state
    BY <1>4 DEF Checkpoint
  <2> QED
    BY <1>1, <1>2, <1>4, <2>3, <2>4, DiscoveryGoesOn
<1> QED
  BY <1>3, <1>4 DEF FinishPage

LEMMA AtMostOneMore ==
    ASSUME NEW S, IsFiniteSet(S), NEW x, NEW T, T \subseteq S \cup {x}
    PROVE  /\ Cardinality(S) \in Nat /\ Cardinality(T) \in Nat
           /\ Cardinality(T) <= Cardinality(S) + 1
<1>1. Cardinality(S) \in Nat
  BY FS_CardinalityType
<1>2. IsFiniteSet(S \cup {x}) /\ Cardinality(S \cup {x}) \in {Cardinality(S), Cardinality(S) + 1}
  BY FS_AddElement
<1>3. IsFiniteSet(T) /\ Cardinality(T) <= Cardinality(S \cup {x})
  BY <1>2, FS_Subset
<1>4. Cardinality(T) \in Nat
  BY <1>3, FS_CardinalityType
<1> QED
  BY <1>1, <1>2, <1>3, <1>4

\* One pipeline more of a project is at most one row more of the batch.
LEMMA PutFinish == ASSUME AllInv, NEW p \in Procs, PutPipeline(p) PROVE FinishInv'
<1>1. pc[p] = "put" /\ ~ PageDone(disc[p]) /\ UNCHANGED <<ckpt, runs>>
  BY DEF PutPipeline
<1>2. /\ pc[p] \in Discovering /\ run[p].state \notin Finished
      /\ disc \in [Procs -> ListingRecord] /\ disc[p] \in ListingRecord /\ RunInv(p)
      /\ RunCounts(p) /\ RunOpen(p) /\ OldBatches /\ runs \in Nat
      /\ run[p].index <= Len(run[p].plan) /\ (ckpt # NoOne => ckpt.state \notin Finished)
      /\ pipes \in [Keys -> PipelineRecord \cup {NoPipe}] /\ run[p].batch \in Batches
  BY <1>1, InRun, Alone DEF Discovering, RunCounts, RunInv
<1>3. PICK id \in disc[p].new :
        LET path == run[p].plan[run[p].index]
            k == <<disc[p].project, id>>
        IN  \/ /\ pipes' = [pipes EXCEPT ![k] = Seen(k, path, run[p].batch)]
               /\ disc' = [disc EXCEPT ![p] =
                    [@ EXCEPT !.new = disc[p].new \ {id}, !.selected = disc[p].selected \cup {id}]]
               /\ UNCHANGED <<pc, run>>
            \/ /\ run' = [run EXCEPT ![p].state = "capacity"]
               /\ pc' = [pc EXCEPT ![p] = "final"]
               /\ UNCHANGED <<pipes, disc>>
  BY DEF PutPipeline
<1> DEFINE path == run[p].plan[run[p].index]
           k == <<disc[p].project, id>>
           row == Seen(k, path, run[p].batch)
           new == disc[p].new \ {id}
           selected == disc[p].selected \cup {id}
<1>4. CASE /\ run' = [run EXCEPT ![p].state = "capacity"]
           /\ pc' = [pc EXCEPT ![p] = "final"] /\ UNCHANGED <<pipes, disc>>
  BY <1>1, <1>2, <1>4, DiscoveryFails DEF Finished
<1>5. CASE /\ pipes' = [pipes EXCEPT ![k] = row]
           /\ disc' = [disc EXCEPT ![p] = [@ EXCEPT !.new = new, !.selected = selected]]
           /\ UNCHANGED <<pc, run>>
  <2>1. row.batch = run[p].batch \/ k \notin Keys
    BY <1>2 DEF Seen, PipelineRecord
  <2> HIDE DEF row, k
  <2>2. \A l \in Keys : /\ l # k => pipes'[l] = pipes[l]
                        /\ l = k => pipes'[l].batch = run[p].batch
    BY <1>2, <1>5, <2>1
  <2>3. OldBatches'
    <3>1. run[p].batch <= runs
      BY <1>1, <1>2 DEF RunOpen
    <3> QED
      BY <1>1, <1>2, <2>2, <3>1 DEF OldBatches, Rows
  <2>4. OwnRows(p)' \subseteq OwnRows(p) \cup {k}
    BY <1>5, <2>2 DEF OwnRows, BatchRows, Rows
  <2>5. Cardinality(OwnRows(p)') <= Cardinality(OwnRows(p)) + 1
        /\ Cardinality(OwnRows(p)) \in Nat /\ Cardinality(OwnRows(p)') \in Nat
    <3>1. IsFiniteSet(OwnRows(p))
      BY RowsAreFinite DEF OwnRows
    <3> QED
      BY <2>4, <3>1, AtMostOneMore
  <2>6. /\ Cardinality(selected) = Cardinality(disc[p].selected) + 1
        /\ Cardinality(disc[p].selected) \in Nat /\ Cardinality(selected) <= PerProject
    <3>1. disc[p].selected \subseteq PipelineIds
      BY <1>2 DEF ListingRecord
    <3>2. IsFiniteSet(disc[p].selected) /\ Cardinality(disc[p].selected) \in Nat
      BY <3>1, IdAssumption, FS_Subset, FS_CardinalityType
    <3>3. id \notin disc[p].selected
      BY <1>2 DEF RunCounts
    <3>4. Cardinality(selected) = Cardinality(disc[p].selected) + 1
      BY <3>2, <3>3, FS_AddElement
    <3>5. Cardinality(disc[p].selected) <= PerProject /\ Cardinality(disc[p].selected) # PerProject
      BY <1>1, <1>2 DEF RunCounts, PageDone
    <3> QED
      BY <3>2, <3>4, <3>5, BoundAssumption
  <2>7. new \cap selected = {}
    BY <1>2 DEF RunCounts
  <2> HIDE DEF new, selected
  <2>8. /\ disc'[p].new = new /\ disc'[p].selected = selected
        /\ \A q \in Procs : q # p => disc'[q] = disc[q]
    BY <1>2, <1>5 DEF ListingRecord
  <2>9. RunCounts(p)'
    <3> DEFINE m == PerProject * (run[p].index - 1)
    <3>1. m \in Nat
      <4>1. run[p].index \in Nat \ {0}
        BY Alone, <1>1 DEF RunRecord
      <4>2. run[p].index - 1 \in Nat
        BY <4>1
      <4> QED
        BY <4>2, Multiples, BoundAssumption
    <3>2. Cardinality(OwnRows(p)) <= m + Cardinality(disc[p].selected)
      BY <1>2 DEF RunCounts
    <3> HIDE DEF m
    <3>3. Cardinality(OwnRows(p)') <= m + Cardinality(selected)
      BY <2>5, <2>6, <3>1, <3>2
    <3>4. Cardinality(OwnRows(p))' <= PerProject * (run'[p].index - 1) + Cardinality(disc'[p].selected)
      BY <1>5, <2>8, <3>3 DEF m
    <3> QED
      BY <1>1, <1>2, <1>5, <2>6, <2>7, <2>8, <3>4 DEF RunCounts, Collecting
  <2>10. RunStarts(p)' /\ RunOpen(p)' /\ RunCloses(p)'
    BY <1>1, <1>2, <1>5 DEF RunStarts, RunOpen, RunCloses, Entering, Discovering, Collecting
  <2>11. \A q \in Procs : q # p => pc[q] = "idle" /\ pc'[q] = "idle"
    BY <1>1, <1>5, Alone
  <2> QED
    BY <1>1, <1>2, <2>3, <2>8, <2>9, <2>10, <2>11, NotFinished, OthersRest DEF RunInv
<1> QED
  BY <1>3, <1>4, <1>5

\* The steps of collection keep the rows of the batch and the plan.
LEMMA CountsKept ==
    ASSUME AllInv, NEW p \in Procs, pc[p] \in Collecting \cup {"final"}, UNCHANGED pipes,
           pc'[p] \in Collecting \cup {"final"},
           run'[p].batch = run[p].batch, run'[p].plan = run[p].plan
    PROVE  RunCounts(p)' /\ OwnRows(p)' = OwnRows(p)
<1>1. OwnRows(p)' = OwnRows(p) /\ Target(run[p])' = Target(run[p])
  BY OwnRowsSame DEF Target
<1>2. Cardinality(OwnRows(p)) <= Target(run[p])
  BY InRun DEF RunCounts
<1> QED
  BY <1>1, <1>2 DEF RunCounts, Discovering, Collecting

LEMMA PlanCollectionFinish == ASSUME AllInv, NEW p \in Procs, PlanCollection(p) PROVE FinishInv'
<1>1. /\ pc[p] = "resolve" /\ pc' = [pc EXCEPT ![p] = "batch"]
      /\ at' = [at EXCEPT ![p] = [k \in Keys |-> IF k \in OwnRows(p) THEN "queued" ELSE "off"]]
      /\ UNCHANGED <<pipes, ckpt, run, disc, runs>>
  BY DEF PlanCollection, OwnRows, store
<1>2. /\ pc[p] # "idle" /\ pc[p] \in Discovering /\ pc \in [Procs -> PcTypes] /\ TaskTypes
      /\ run[p].state \notin Finished /\ run[p].failure = NoOne
      /\ (ckpt # NoOne => ckpt.state \notin Finished)
  BY <1>1, InRun, Alone DEF Discovering
<1>3. pc'[p] = "batch" /\ OwnRows(p)' = OwnRows(p) /\ Target(run[p])' = Target(run[p])
  BY <1>1, <1>2, OwnRowsSame DEF Target
<1>4. \A k \in Keys : at'[p][k] = IF k \in OwnRows(p) THEN "queued" ELSE "off"
  BY <1>1, <1>2 DEF TaskTypes
<1>5. RunCounts(p)'
  <2>1. Cardinality(OwnRows(p))' <= Target(run[p])'
    BY <1>2, <1>3, WithinTarget
  <2> QED
    BY <1>3, <2>1 DEF RunCounts, Discovering
<1>6. RunCloses(p)'
  <2>1. OwnRows(p) \subseteq Keys
    BY RowsAreFinite DEF OwnRows
  <2> QED
    BY <1>3, <1>4, <2>1 DEF RunCloses
<1>7. "batch" \in Discovering \cup Collecting \cup {"final"}
  BY DEF Collecting
<1> QED
  BY <1>1, <1>2, <1>5, <1>6, <1>7, RunGoesOn

LEMMA LaunchBatchFinish == ASSUME AllInv, NEW p \in Procs, LaunchBatch(p) PROVE FinishInv'
<1>1. /\ pc[p] = "batch" /\ pc' = [pc EXCEPT ![p] = "gather"]
      /\ UNCHANGED <<pipes, ckpt, run, disc, runs>>
  BY DEF LaunchBatch, store
<1>2. /\ pc[p] # "idle" /\ pc[p] \in Collecting /\ pc \in [Procs -> PcTypes] /\ TaskTypes
      /\ run[p].state \notin Finished /\ run[p].failure = NoOne /\ RunCloses(p)
      /\ (ckpt # NoOne => ckpt.state \notin Finished)
  BY <1>1, InRun, Alone DEF Collecting
<1>3. PICK B \in SUBSET Tasks(p, "queued") :
        at' = [at EXCEPT ![p] = [k \in Keys |-> IF k \in B THEN "start" ELSE at[p][k]]]
  BY DEF LaunchBatch
<1>4. \A k \in Keys : at'[p][k] = "off" => at[p][k] = "off"
  BY <1>2, <1>3 DEF TaskTypes
<1>5. pc'[p] = "gather" /\ "gather" \in Collecting
  BY <1>1, <1>2 DEF Collecting
<1>6. RunCounts(p)' /\ OwnRows(p)' = OwnRows(p)
  BY <1>1, <1>2, <1>5, CountsKept
<1>7. RunCloses(p)'
  <2>1. OwnRows(p) \subseteq Keys
    BY RowsAreFinite DEF OwnRows
  <2> QED
    BY <1>1, <1>2, <1>4, <1>5, <1>6, <2>1 DEF RunCloses
<1> QED
  BY <1>1, <1>2, <1>5, <1>6, <1>7, RunGoesOn

LEMMA EndBatchFinish == ASSUME AllInv, NEW p \in Procs, EndBatch(p) PROVE FinishInv'
<1>1. /\ pc[p] = "gather" /\ pc' = [pc EXCEPT ![p] = "batch"] /\ ckpt' = Checkpoint(run[p])
      /\ run[p].failure = NoOne /\ \A k \in Keys : at[p][k] \in {"off", "queued"}
      /\ UNCHANGED <<pipes, at, run, disc, runs>>
  BY DEF EndBatch, taskVars
<1>2. /\ pc[p] # "idle" /\ pc[p] \in Collecting /\ pc \in [Procs -> PcTypes]
      /\ run[p].state \notin Finished /\ RunCloses(p)
  BY <1>1, InRun, Alone DEF Collecting
<1>3. pc'[p] = "batch" /\ "batch" \in Collecting /\ ckpt'.state = run[p].state
  BY <1>1, <1>2 DEF Collecting, Checkpoint
<1>4. RunCounts(p)' /\ OwnRows(p)' = OwnRows(p)
  BY <1>1, <1>2, <1>3, CountsKept
<1>5. RunCloses(p)'
  BY <1>1, <1>2, <1>3, <1>4 DEF RunCloses
<1> QED
  BY <1>1, <1>2, <1>3, <1>4, <1>5, RunGoesOn

LEMMA CancelBatchFinish == ASSUME AllInv, NEW p \in Procs, CancelBatch(p) PROVE FinishInv'
<1>1. /\ pc[p] = "gather" /\ pc' = [pc EXCEPT ![p] = "final"] /\ run[p].failure # NoOne
      /\ run' = [run EXCEPT ![p].state = run[p].failure]
      /\ UNCHANGED <<pipes, ckpt, disc, runs>>
  BY DEF CancelBatch, store
<1>2. /\ pc[p] # "idle" /\ pc[p] \in Collecting /\ pc \in [Procs -> PcTypes]
      /\ run \in [Procs -> RunRecord] /\ run[p] \in RunRecord
      /\ (ckpt # NoOne => ckpt.state \notin Finished)
  BY <1>1, InRun, Alone DEF Collecting
<1>3. run[p].failure \in {"capacity", "provider_error"}
  BY <1>1, <1>2 DEF RunRecord
<1>4. /\ run'[p].batch = run[p].batch /\ run'[p].plan = run[p].plan
      /\ run'[p].state \in {"capacity", "provider_error"} /\ pc'[p] = "final"
  BY <1>1, <1>2, <1>3 DEF RunRecord
<1>5. RunCounts(p)'
  BY <1>1, <1>2, <1>4, CountsKept
<1>6. RunCloses(p)'
  BY <1>4 DEF RunCloses, Collecting
<1> QED
  BY <1>1, <1>2, <1>4, <1>5, <1>6, RunGoesOn DEF Finished

LEMMA EndCollectionFinish == ASSUME AllInv, NEW p \in Procs, EndCollection(p) PROVE FinishInv'
<1>1. /\ pc[p] = "batch" /\ pc' = [pc EXCEPT ![p] = "final"] /\ CollectionOver(p)
      /\ UNCHANGED <<pipes, ckpt, run, disc, runs>>
  BY DEF EndCollection, store
<1>2. /\ pc[p] # "idle" /\ pc[p] \in Collecting /\ pc \in [Procs -> PcTypes]
      /\ run[p].state \notin Finished /\ run[p].failure = NoOne /\ RunCloses(p)
      /\ (ckpt # NoOne => ckpt.state \notin Finished)
  BY <1>1, InRun, Alone DEF Collecting
<1>3. pc'[p] = "final"
  BY <1>1, <1>2
<1>4. RunCounts(p)' /\ OwnRows(p)' = OwnRows(p)
  BY <1>1, <1>2, <1>3, CountsKept
<1>5. run[p].state = "collecting" => \A k \in OwnRows(p) : pipes[k].complete
  <2> SUFFICES ASSUME run[p].state = "collecting", NEW k \in OwnRows(p) PROVE pipes[k].complete
    OBVIOUS
  <2>1. k \in Keys
    BY RowsAreFinite DEF OwnRows
  <2>2. at[p][k] = "off"
    BY <1>1, <1>2, <2>1 DEF RunCloses, CollectionOver, Tasks
  <2> QED
    BY <1>1, <1>2, <2>2 DEF RunCloses
<1>6. RunCloses(p)'
  BY <1>1, <1>3, <1>4, <1>5 DEF RunCloses, Collecting
<1> QED
  BY <1>1, <1>2, <1>3, <1>4, <1>6, RunGoesOn

LEMMA ReclassifyFinish == ASSUME AllInv, NEW p \in Procs, Reclassify(p) PROVE FinishInv'
<1>1. pc[p] = "reevaluate" /\ UNCHANGED <<pipes, ckpt, pc, run, disc, at, runs>>
  BY DEF Reclassify
<1>2. PICK k \in Keys, s \in TraceOutcomes \cap Classified : \E j \in todo[p][k] :
        jobs' = [jobs EXCEPT ![k][j] = [state |-> s, http |-> NoOne]]
  BY DEF Reclassify
<1>j. PICK j \in todo[p][k] : jobs' = [jobs EXCEPT ![k][j] = [state |-> s, http |-> NoOne]]
  BY <1>2
<1>3. RunInv(p) /\ FinishedMeansFinished /\ pc[p] # "idle"
  BY <1>1, Alone
<1>4. RunInv(p)'
  BY <1>1, <1>3 DEF RunInv, RunStarts, RunOpen, RunCounts, RunCloses, Entering, Discovering,
     Collecting, OwnRows, BatchRows, Rows, Target
<1>5. \A l \in Keys : Pending(l)' = Pending(l)
  <2>1. /\ jobs[k][j].state # "pending" /\ s # "pending"
        /\ jobs \in [Keys -> [JobIds -> JobRecord \cup {NoJob}]]
    BY <1>1 DEF AllInv, TypeInv, TypeOK, StoreInv, Reevaluates, Classified
  <2> DEFINE r == [state |-> s, http |-> NoOne]
  <2>2. r.state = s
    OBVIOUS
  <2>3. jobs' = [jobs EXCEPT ![k][j] = r]
    BY <1>j
  <2> HIDE DEF r
  <2>4. \A l \in Keys, i \in JobIds :
          jobs'[l][i] = IF l = k /\ i = j THEN r ELSE jobs[l][i]
    BY <2>1, <2>3
  <2> QED
    BY <2>1, <2>2, <2>4 DEF Pending
<1>6. FinishedMeansFinished'
  BY <1>1, <1>3, <1>5, FinishedStays
<1>7. \A q \in Procs : q # p => pc[q] = "idle" /\ pc'[q] = "idle" /\ disc'[q] = disc[q]
  BY <1>1, <1>3, Alone
<1> QED
  BY <1>1, <1>4, <1>6, <1>7, OldStay, OthersRest

\* The last commit: what it calls finished is, by then.
LEMMA FinishFinish == ASSUME AllInv, NEW p \in Procs, Finish(p) PROVE FinishInv'
<1>1. /\ pc[p] = "final" /\ Release(p) /\ UNCHANGED <<pipes, jobs, runs>>
      /\ ckpt' = Checkpoint([run[p] EXCEPT !.state = FinalState(run[p])])
  BY DEF Finish
<1>2. /\ run[p] \in RunRecord /\ RunCounts(p) /\ RunCloses(p) /\ pc[p] # "idle"
      /\ run[p].state \notin Finished /\ run[p].plan \in Plans
  BY <1>1, InRun, Alone
<1> DEFINE final == FinalState(run[p])
<1>3. ckpt' = Checkpoint([run[p] EXCEPT !.state = final])
  BY <1>1
<1> HIDE DEF final
<1>4. /\ ckpt'.state = final /\ ckpt'.batch = run[p].batch /\ ckpt'.plan = run[p].plan
  BY <1>2, <1>3 DEF Checkpoint, RunRecord
<1>5. BatchRows(ckpt.batch)' = OwnRows(p) /\ Target(ckpt)' = Target(run[p])
  BY <1>1, <1>4 DEF OwnRows, BatchRows, Rows, Target
<1>6. final \in Finished => run[p].state = "collecting"
  BY <1>2 DEF final, FinalState
<1>7. ASSUME run[p].state = "collecting", NEW k \in OwnRows(p)
      PROVE  pipes'[k].complete /\ Pending(k)' = {}
  <2>1. pipes[k].complete
    BY <1>1, <1>2, <1>7 DEF RunCloses
  <2>2. k \in Keys /\ pipes[k] # NoPipe
    BY <1>7 DEF OwnRows, BatchRows, Rows
  <2>3. Pending(k) = {}
    BY <2>1, <2>2 DEF AllInv, StoreInv, RowsConsistent, RowConsistent
  <2> QED
    BY <1>1, <2>1, <2>3 DEF Pending
<1>8. final = "complete" => Cardinality(OwnRows(p)) = Target(run[p])
  <2> SUFFICES ASSUME final = "complete" PROVE Cardinality(OwnRows(p)) = Target(run[p])
    OBVIOUS
  <2>1. Cardinality(Counted(run[p])) = Target(run[p])
    BY <1>2 DEF final, FinalState, TargetMet, Finished
  <2>2. Counted(run[p]) \subseteq OwnRows(p) /\ IsFiniteSet(OwnRows(p))
        /\ Cardinality(OwnRows(p)) \in Nat
    BY RowsAreFinite DEF Counted, OwnRows
  <2>3. Cardinality(Counted(run[p])) <= Cardinality(OwnRows(p))
        /\ Cardinality(Counted(run[p])) \in Nat
    BY <2>2, FS_Subset, FS_CardinalityType
  <2>4. Cardinality(OwnRows(p)) <= Target(run[p])
    BY <1>1, <1>2 DEF RunCounts
  <2> QED
    BY <2>1, <2>2, <2>3, <2>4
<1>9. FinishedMeansFinished'
  BY <1>4, <1>5, <1>6, <1>7, <1>8 DEF FinishedMeansFinished, Finished
<1> QED
  BY <1>1, <1>2, <1>9, ReleaseFinish

\* Whatever else leaves the with block says nothing of an end.
LEMMA LeaveFinish ==
    ASSUME AllInv, NEW p \in Procs, pc[p] # "idle", Release(p), UNCHANGED <<pipes, jobs, ckpt, runs>>
    PROVE  FinishInv'
<1>1. FinishedMeansFinished'
  BY Alone, FinishedStays DEF Pending
<1> QED
  BY <1>1, ReleaseFinish

LEMMA InterruptFinish == ASSUME AllInv, NEW p \in Procs, Interrupt(p) PROVE FinishInv'
<1>1. /\ pc[p] # "idle" /\ Release(p) /\ UNCHANGED <<pipes, jobs, runs>>
      /\ ckpt' = Checkpoint([run[p] EXCEPT !.state = "interrupted"])
  BY DEF Interrupt
<1>2. run[p] \in RunRecord
  BY <1>1, Alone
<1>3. ckpt'.state = "interrupted"
  BY <1>1, <1>2 DEF Checkpoint, RunRecord
<1>4. FinishedMeansFinished'
  BY <1>3, NotFinished DEF Finished
<1> QED
  BY <1>1, <1>4, ReleaseFinish

LEMMA MainStepFinish == ASSUME AllInv, NEW p \in Procs, MainStep(p) PROVE FinishInv'
<1>1. CASE OpenRefused(p) \/ EndReevaluation(p)
  <2>1. pc[p] # "idle" /\ Release(p) /\ UNCHANGED <<pipes, jobs, ckpt, runs>>
    BY <1>1 DEF OpenRefused, EndReevaluation, store
  <2> QED
    BY <2>1, LeaveFinish
<1> QED
  BY <1>1, EnterFinish, BeginFinish, ResolveFinish, ReadPageFinish, PutFinish, FinishPageFinish,
     PlanCollectionFinish, LaunchBatchFinish, EndBatchFinish, CancelBatchFinish,
     EndCollectionFinish, FinishFinish, ReclassifyFinish DEF MainStep

LEMMA CommitFailsFinish == ASSUME AllInv, NEW p \in Procs, CommitFails(p) PROVE FinishInv'
<1>1. /\ pc[p] \in {"resolve", "page", "put", "gather"}
      /\ pc' = [pc EXCEPT ![p] = "final"] /\ UNCHANGED <<pipes, ckpt, disc, runs>>
  BY DEF CommitFails, store
<1>2. PICK s \in {"capacity", "provider_error"} : run' = [run EXCEPT ![p].state = s]
  BY DEF CommitFails
<1>3. s \notin Finished /\ s # "collecting"
  BY DEF Finished
<1>4. CASE pc[p] \in Discovering
  BY <1>1, <1>2, <1>3, <1>4, DiscoveryFails
<1>5. CASE pc[p] = "gather"
  <2>1. /\ pc[p] # "idle" /\ pc[p] \in Collecting /\ pc \in [Procs -> PcTypes]
        /\ run \in [Procs -> RunRecord] /\ run[p] \in RunRecord
        /\ (ckpt # NoOne => ckpt.state \notin Finished)
    BY <1>5, InRun, Alone DEF Collecting
  <2>2. /\ run'[p].batch = run[p].batch /\ run'[p].plan = run[p].plan
        /\ run'[p].state = s /\ pc'[p] = "final"
    BY <1>1, <1>2, <2>1 DEF RunRecord
  <2>3. RunCounts(p)'
    BY <1>1, <2>1, <2>2, CountsKept
  <2>4. RunCloses(p)'
    BY <1>3, <2>2 DEF RunCloses, Collecting
  <2> QED
    BY <1>1, <1>3, <2>1, <2>2, <2>3, <2>4, RunGoesOn
<1> QED
  BY <1>1, <1>4, <1>5 DEF Discovering

\* A step of the task of pipeline k: it may change the row of k, never its
\* batch, and leaves the row complete if it returns and the run goes on.
LEMMA TaskGoesOn ==
    ASSUME AllInv, NEW p \in Procs, NEW k \in Keys, at[p][k] \notin {"off", "queued"},
           UNCHANGED <<ckpt, pc, disc, runs>>,
           \A l \in Keys : l # k => pipes'[l] = pipes[l] /\ at'[p][l] = at[p][l],
           pipes'[k] # NoPipe, pipes'[k].batch = pipes[k].batch,
           run'[p].batch = run[p].batch, run'[p].plan = run[p].plan,
           run'[p].state \notin Finished,
           run'[p].state = "collecting" /\ run'[p].failure = NoOne =>
              /\ run[p].state = "collecting" /\ run[p].failure = NoOne
              /\ at'[p][k] = "off" => pipes'[k].complete
    PROVE  FinishInv'
<1>1. pc[p] = "gather" /\ pipes[k] # NoPipe
  <2>1. pc[p] \in {"batch", "gather"} /\ pipes[k] # NoPipe
    BY DEF AllInv, StoreInv, TaskAgrees
  <2>2. RunCloses(p)
    BY <2>1, InRun DEF Collecting
  <2> QED
    BY <2>1, <2>2 DEF RunCloses
<1>2. /\ pc[p] # "idle" /\ RunOpen(p) /\ RunCounts(p) /\ RunCloses(p) /\ OldBatches
      /\ (ckpt # NoOne => ckpt.state \notin Finished) /\ pc'[p] = "gather"
  BY <1>1, InRun, Alone DEF RunInv, Collecting
<1>3. Rows' = Rows /\ OwnRows(p)' = OwnRows(p)
  BY <1>1 DEF OwnRows, BatchRows, Rows
<1>4. OldBatches'
  BY <1>2, <1>3 DEF OldBatches, Rows
<1>5. FinishedMeansFinished'
  BY <1>2, NotFinished
<1>6. RunStarts(p)' /\ RunOpen(p)'
  BY <1>2 DEF RunStarts, RunOpen, Entering
<1>7. RunCounts(p)'
  <2>1. Target(run[p])' = Target(run[p])
    BY DEF Target
  <2>2. Cardinality(OwnRows(p)) <= Target(run[p])
    BY <1>1, <1>2 DEF RunCounts, Collecting
  <2> QED
    BY <1>2, <1>3, <2>1, <2>2 DEF RunCounts, Discovering
<1>8. RunCloses(p)'
  <2> SUFFICES ASSUME run'[p].state = "collecting", run'[p].failure = NoOne,
                      NEW l \in OwnRows(p), at'[p][l] = "off"
               PROVE  pipes'[l].complete
    BY <1>2, <1>3 DEF RunCloses
  <2>1. l \in Keys
    BY RowsAreFinite DEF OwnRows
  <2>2. CASE l # k
    BY <1>1, <1>2, <2>1, <2>2 DEF RunCloses, Collecting
  <2> QED
    BY <2>2
<1>9. \A q \in Procs : q # p => pc[q] = "idle" /\ pc'[q] = "idle" /\ disc'[q] = disc[q]
  BY <1>2, Alone
<1> QED
  BY <1>4, <1>5, <1>6, <1>7, <1>8, <1>9, OthersRest DEF RunInv

LEMMA CollectStepFinish ==
    ASSUME AllInv, NEW p \in Procs, NEW k \in Keys, CollectStep(p, k) PROVE FinishInv'
<1>1. /\ at[p][k] \notin {"off", "queued"} /\ UNCHANGED <<ckpt, pc, disc, runs>>
  BY DEF CollectStep, StartTask, NextJobPage, StopTask, JobsUnreadable, JobsListed, LeaveJobs,
     FetchTrace, RecordTrace, FinishPipeline, store
<1>2. pc[p] # "idle" /\ pc[p] \in Collecting /\ TaskAgrees(p, k)
  BY <1>1 DEF AllInv, StoreInv, TaskAgrees, Collecting
<1>3. /\ TaskTypes /\ run \in [Procs -> RunRecord] /\ run[p] \in RunRecord
      /\ run[p].state \notin Finished
      /\ pipes \in [Keys -> PipelineRecord \cup {NoPipe}]
      /\ pipes[k] # NoPipe /\ local[p][k] = pipes[k] /\ pipes[k] \in PipelineRecord
  BY <1>1, <1>2, InRun, Alone DEF TaskAgrees
<1>4. ASSUME Return(p, k), UNCHANGED <<run, pipes>>, pipes[k].complete \/ run[p].state # "collecting"
      PROVE  FinishInv'
  <2>1. \A l \in Keys : l # k => at'[p][l] = at[p][l]
    BY <1>3, <1>4 DEF Return, TaskTypes
  <2> QED
    BY <1>1, <1>3, <1>4, <2>1, TaskGoesOn
<1>5. ASSUME \A l \in Keys : l # k => at'[p][l] = at[p][l], at'[p][k] # "off",
             UNCHANGED <<run, pipes>>
      PROVE  FinishInv'
  BY <1>1, <1>3, <1>5, TaskGoesOn
<1>6. ASSUME NEW w \in {"list", "trace"}, NEW a \in {"listed", "traced"}, Send(p, k, w, a)
      PROVE  (\A l \in Keys : l # k => at'[p][l] = at[p][l]) /\ at'[p][k] # "off"
  <2>1. \A q \in Procs, l \in Keys :
           IF q = p /\ l = k THEN at'[q][l] \in {w, a} ELSE at'[q][l] = at[q][l]
    BY <1>3, <1>6, SendType
  <2> QED
    BY <2>1
<1>7. CASE StartTask(p, k)
  <2>1. UNCHANGED <<run, pipes>>
    BY <1>7 DEF StartTask, store
  <2>2. CASE Return(p, k) /\ (local[p][k].complete \/ run[p].state # "collecting")
    BY <1>3, <1>4, <2>1, <2>2
  <2>3. CASE Send(p, k, "list", "listed")
    BY <1>5, <1>6, <2>1, <2>3
  <2>4. CASE at' = [at EXCEPT ![p][k] = "jobs"]
    BY <1>3, <1>5, <2>1, <2>4 DEF TaskTypes
  <2> QED
    BY <1>7, <2>2, <2>3, <2>4 DEF StartTask
<1>8. CASE NextJobPage(p, k)
  BY <1>5, <1>6, <1>8 DEF NextJobPage, store
<1>9. CASE FetchTrace(p, k)
  BY <1>5, <1>6, <1>9 DEF FetchTrace, store
<1>10. CASE RecordTrace(p, k)
  BY <1>3, <1>5, <1>10 DEF RecordTrace, TaskTypes
<1>11. CASE LeaveJobs(p, k)
  BY <1>4, <1>11 DEF LeaveJobs, store
<1>12. CASE StopTask(p, k)
  <2> DEFINE s == StopFor(run[p].state, ans[p][k].code)
  <2>1. s \notin Finished /\ s # "collecting"
    BY <1>3, <1>12, StopForOpen DEF StopTask, Stops
  <2>2. Return(p, k) /\ UNCHANGED pipes /\ run' = [run EXCEPT ![p].state = s]
    BY <1>12 DEF StopTask, store
  <2> HIDE DEF s
  <2>3. run'[p].batch = run[p].batch /\ run'[p].plan = run[p].plan /\ run'[p].state = s
    BY <1>3, <2>2 DEF RunRecord
  <2>4. \A l \in Keys : l # k => at'[p][l] = at[p][l]
    BY <1>3, <2>2 DEF Return, TaskTypes
  <2> QED
    BY <1>1, <1>3, <2>1, <2>2, <2>3, <2>4, TaskGoesOn
<1>13. ASSUME NEW row, pipes' = [pipes EXCEPT ![k] = row], row.batch = pipes[k].batch,
              row # NoPipe, UNCHANGED run,
              \A l \in Keys : l # k => at'[p][l] = at[p][l],
              at'[p][k] = "off" => row.complete
       PROVE  FinishInv'
  <2>1. pipes'[k] = row /\ \A l \in Keys : l # k => pipes'[l] = pipes[l]
    BY <1>3, <1>13
  <2> QED
    BY <1>1, <1>3, <1>13, <2>1, TaskGoesOn
<1>15. \A row : row.project_key = pipes[k].project_key => row # NoPipe
  <2>1. pipes[k].project_key \in Paths
    BY <1>3 DEF PipelineRecord
  <2> QED
    BY <2>1, IdAssumption DEF NoPipe
<1>16. CASE JobsUnreadable(p, k)
  <2> DEFINE http == IF ans[p][k] = Malformed THEN 502 ELSE ans[p][k].code
  <2> DEFINE row == [local[p][k] EXCEPT !.listing = "unreadable", !.complete = TRUE, !.http = http]
  <2>1. pipes' = [pipes EXCEPT ![k] = row]
    BY <1>16 DEF JobsUnreadable
  <2>2. row.batch = pipes[k].batch /\ row.complete = TRUE /\ row.project_key = pipes[k].project_key
    BY <1>3 DEF PipelineRecord
  <2> HIDE DEF row
  <2>3. UNCHANGED run /\ \A l \in Keys : l # k => at'[p][l] = at[p][l]
    BY <1>3, <1>16 DEF JobsUnreadable, Return, TaskTypes
  <2> QED
    BY <1>13, <1>15, <2>1, <2>2, <2>3
<1>17. CASE FinishPipeline(p, k)
  <2> DEFINE row == [local[p][k] EXCEPT !.complete = TRUE]
  <2>1. pipes' = [pipes EXCEPT ![k] = row]
    BY <1>17 DEF FinishPipeline
  <2>2. row.batch = pipes[k].batch /\ row.complete = TRUE /\ row.project_key = pipes[k].project_key
    BY <1>3 DEF PipelineRecord
  <2> HIDE DEF row
  <2>3. UNCHANGED run /\ \A l \in Keys : l # k => at'[p][l] = at[p][l]
    BY <1>3, <1>17 DEF FinishPipeline, Return, TaskTypes
  <2> QED
    BY <1>13, <1>15, <2>1, <2>2, <2>3
<1>18. CASE JobsListed(p, k)
  <2> DEFINE sampled == ans[p][k].jobs
             none == (sampled = {})
             row == [local[p][k] EXCEPT !.listing = "listed", !.selected = sampled, !.complete = none]
  <2>1. pipes' = [pipes EXCEPT ![k] = row] /\ UNCHANGED run /\ at' = [at EXCEPT ![p][k] = "jobs"]
    BY <1>18 DEF JobsListed
  <2> HIDE DEF sampled, none
  <2>2. row.batch = pipes[k].batch /\ row.project_key = pipes[k].project_key
    BY <1>3 DEF PipelineRecord
  <2> HIDE DEF row
  <2>3. at'[p][k] # "off" /\ \A l \in Keys : l # k => at'[p][l] = at[p][l]
    BY <1>3, <2>1 DEF TaskTypes
  <2> QED
    BY <1>13, <1>15, <2>1, <2>2, <2>3
<1> QED
  BY <1>7, <1>8, <1>9, <1>10, <1>11, <1>12, <1>16, <1>17, <1>18 DEF CollectStep

LEMMA ServerStepFinish ==
    ASSUME AllInv, NEW p \in Procs, NEW k \in Keys, ServerStep(p, k) PROVE FinishInv'
<1>1. PICK where \in {"listed", "traced"} : \E a : Answered(p, k, where, a)
  BY DEF ServerStep, AnswerJobs, AnswerTrace
<1>2. /\ at' = [at EXCEPT ![p][k] = where] /\ UNCHANGED <<pipes, ckpt, pc, disc, run, runs>>
      /\ at[p][k] \in {"list", "trace"}
  BY <1>1 DEF Answered, store, ServerStep, AnswerJobs, AnswerTrace
<1>3. pc[p] # "idle" /\ pc[p] \in Collecting /\ pipes[k] # NoPipe
  BY <1>2 DEF AllInv, StoreInv, TaskAgrees, Collecting
<1>4. TaskTypes /\ run[p].state \notin Finished
  BY <1>3, InRun, Alone
<1>5. at'[p][k] = where /\ \A l \in Keys : l # k => at'[p][l] = at[p][l]
  BY <1>2, <1>4 DEF TaskTypes
<1> QED
  BY <1>2, <1>3, <1>4, <1>5, TaskGoesOn

LEMMA FaultsFinish == ASSUME AllInv, NEW p \in Procs, Faults(p) PROVE FinishInv'
<1>1. CASE LastCommitFails(p) \/ Crash(p)
  <2>1. pc[p] # "idle" /\ Release(p) /\ UNCHANGED <<pipes, jobs, ckpt, runs>>
    BY <1>1 DEF LastCommitFails, Crash, store
  <2> QED
    BY <2>1, LeaveFinish
<1>2. ASSUME NEW k \in Keys, TaskCommitFails(p, k) PROVE FinishInv'
  <2>1. /\ at[p][k] \notin {"off", "queued"} /\ Return(p, k)
        /\ UNCHANGED <<pipes, ckpt, pc, disc, runs>>
    BY <1>2 DEF TaskCommitFails, store
  <2>2. PICK s \in {"capacity", "provider_error"} :
          run' = [run EXCEPT ![p].failure = IF @ = NoOne THEN s ELSE @]
    BY <1>2 DEF TaskCommitFails
  <2>3. pc[p] # "idle" /\ pc[p] \in Collecting /\ pipes[k] # NoPipe
    BY <2>1 DEF AllInv, StoreInv, TaskAgrees, Collecting
  <2>4. TaskTypes /\ run[p].state \notin Finished /\ run \in [Procs -> RunRecord] /\ run[p] \in RunRecord
    BY <2>3, InRun, Alone
  <2> DEFINE f == IF run[p].failure = NoOne THEN s ELSE run[p].failure
  <2>5. f # NoOne
    <3>1. s # NoOne
      BY <2>2, IdAssumption
    <3> QED
      BY <3>1
  <2>6. run' = [run EXCEPT ![p].failure = f]
    BY <2>2
  <2> HIDE DEF f
  <2>7. /\ run'[p].batch = run[p].batch /\ run'[p].plan = run[p].plan
        /\ run'[p].state = run[p].state /\ run'[p].failure = f
    BY <2>4, <2>6 DEF RunRecord
  <2>8. \A l \in Keys : l # k => at'[p][l] = at[p][l]
    BY <2>1, <2>4 DEF Return, TaskTypes
  <2> QED
    BY <2>1, <2>3, <2>4, <2>5, <2>7, <2>8, TaskGoesOn
<1> QED
  BY <1>1, <1>2, CommitFailsFinish, InterruptFinish DEF Faults

LEMMA InitFinish == Init => FinishInv
<1> SUFFICES ASSUME Init PROVE FinishInv
  OBVIOUS
<1>1. Rows = {} /\ ckpt = NoOne
  BY DEF Init, Rows
<1>2. \A p \in Procs : pc[p] = "idle" /\ disc[p].selected = {}
  BY DEF Init, NewListing
<1>3. \A p \in Procs : RunInv(p)
  BY <1>2 DEF RunInv, RunStarts, RunOpen, RunCounts, RunCloses, Entering, Discovering, Collecting
<1> QED
  BY <1>1, <1>3 DEF FinishInv, OldBatches, FinishedMeansFinished

LEMMA NextFinish == ASSUME AllInv, [Next]_vars PROVE FinishInv'
<1>1. CASE Next
  <2>1. PICK p \in Procs : \/ \E mode \in {"open_harvest", "open_reevaluation"} : Acquire(p, mode)
                           \/ MainStep(p)
                           \/ \E k \in Keys : CollectStep(p, k) \/ ServerStep(p, k)
                           \/ Faults(p)
    BY <1>1 DEF Next
  <2> QED
    BY <2>1, AcquireFinish, MainStepFinish, CollectStepFinish, ServerStepFinish, FaultsFinish
<1>2. CASE UNCHANGED vars
  <2>1. UNCHANGED <<pipes, jobs, ckpt, pc, run, disc, at, runs>>
    BY <1>2 DEF vars, store, taskVars
  <2>2. FinishedMeansFinished'
    BY <2>1, FinishedStays DEF AllInv, FinishInv, Pending
  <2>3. \A p \in Procs : OwnRows(p)' = OwnRows(p) /\ Target(run[p])' = Target(run[p])
    BY <2>1, OwnRowsSame DEF Target
  <2>4. \A p \in Procs : RunInv(p)'
    BY <2>1, <2>3 DEF AllInv, FinishInv, RunInv, RunStarts, RunOpen, RunCounts, RunCloses
  <2> QED
    BY <2>1, <2>2, <2>4, OldStay DEF FinishInv
<1> QED
  BY <1>1, <1>2

\* A run that ends by itself, met target or not, has left nothing of its batch
\* unfinished, and "complete" means that it holds as many distinct pipelines as
\* were asked for, whatever the sizes, the refusals, the failed commits and the
\* crashes before.
THEOREM FinishedRunsAreFinished == Spec => []FinishedMeansFinished
<1>1. TypeInv /\ TaskInv /\ StoreInv /\ FinishInv /\ [Next]_vars => FinishInv'
  BY NextFinish DEF AllInv
<1>2. FinishInv => FinishedMeansFinished
  BY DEF FinishInv
<1> QED
  BY <1>1, <1>2, InitFinish, TypesAndTasks, StoreInvariant, PTL DEF Spec

-----------------------------------------------------------------------------
(* The store implements ObservedCorpus. *)

CorpusStep == [Corpus!CorpusNext]_(Corpus!cvars)

\* The steps of the abstract corpus, over what the store shows of them.
LEMMA MapsToNothing ==
    ASSUME Rows' = Rows, SampleMap' = SampleMap, ClosedRows' = ClosedRows PROVE CorpusStep
BY DEF CorpusStep, Corpus!cvars

LEMMA MapsToSee ==
    ASSUME NEW k \in Keys, k \notin Rows, Rows' = Rows \cup {k}, SampleMap' = SampleMap,
           ClosedRows' = ClosedRows
    PROVE  CorpusStep
BY DEF CorpusStep, Corpus!CorpusNext, Corpus!See

LEMMA MapsToClose ==
    ASSUME NEW k \in Rows, k \notin ClosedRows, Pending(k) = {}, Rows' = Rows,
           SampleMap' = SampleMap, ClosedRows' = ClosedRows \cup {k}
    PROVE  CorpusStep
<1>1. k \in Keys
  BY DEF Rows
<1>2. Corpus!Outstanding(k) = {}
  BY <1>1 DEF Corpus!Outstanding, Pending, SampleMap, SampleOf
<1>3. Corpus!Close(k)
  BY <1>1, <1>2 DEF Corpus!Close
<1> QED
  BY <1>1, <1>3 DEF CorpusStep, Corpus!CorpusNext

LEMMA MapsToObserve ==
    ASSUME NEW k \in Keys, NEW j \in JobIds, SampleMap[k][j] = "pending",
           SampleMap' = [SampleMap EXCEPT ![k][j] = "observed"],
           Rows' = Rows, ClosedRows' = ClosedRows
    PROVE  CorpusStep
<1>1. Corpus!Observe(k, j)
  BY DEF Corpus!Observe
<1> QED
  BY <1>1 DEF CorpusStep, Corpus!CorpusNext

LEMMA MapsToEnumerate ==
    ASSUME NEW k \in Rows, k \notin ClosedRows, Sampled(k) = {},
           NEW S \in SUBSET JobIds, Cardinality(S) <= 2,
           \A l \in Keys, j \in JobIds :
              SampleMap'[l][j] = IF l = k /\ j \in S THEN "pending" ELSE SampleMap[l][j],
           Rows' = Rows, ClosedRows' = IF S = {} THEN ClosedRows \cup {k} ELSE ClosedRows
    PROVE  CorpusStep
<1>1. k \in Keys
  BY DEF Rows
<1>2. Corpus!SampledOf(k) = {}
  <2>1. \A j \in JobIds : jobs[k][j] = NoJob
    BY DEF Sampled
  <2>2. \A j \in JobIds : SampleMap[k][j] = "none"
    BY <1>1, <2>1 DEF SampleMap, SampleOf
  <2> QED
    BY <2>2 DEF Corpus!SampledOf
<1> DEFINE row == [j \in JobIds |-> IF j \in S THEN "pending" ELSE SampleMap[k][j]]
<1>3. SampleMap' = [SampleMap EXCEPT ![k] = row]
  <2>1. \A l \in Keys : SampleMap'[l] = IF l = k THEN row ELSE SampleMap[l]
    <3> SUFFICES ASSUME NEW l \in Keys PROVE SampleMap'[l] = IF l = k THEN row ELSE SampleMap[l]
      OBVIOUS
    <3>1. /\ SampleMap'[l] = [j \in JobIds |-> SampleMap'[l][j]]
          /\ SampleMap[l] = [j \in JobIds |-> SampleMap[l][j]]
      BY DEF SampleMap
    <3> QED
      BY <3>1
  <2> HIDE DEF row
  <2>2. /\ SampleMap' = [l \in Keys |-> SampleMap'[l]] /\ DOMAIN SampleMap = Keys
    BY DEF SampleMap
  <2> QED
    BY <2>1, <2>2
<1>4. Corpus!Enumerate(k, S)
  BY <1>1, <1>2, <1>3 DEF Corpus!Enumerate, Corpus!Cardinality, Cardinality
<1> QED
  BY <1>1, <1>4 DEF CorpusStep, Corpus!CorpusNext

\* Before the first run the corpus is empty.
LEMMA InitMaps == Init => Corpus!CorpusInit
<1> SUFFICES ASSUME Init PROVE Corpus!CorpusInit
  OBVIOUS
<1>1. Rows = {} /\ ClosedRows = {}
  BY DEF Init, Rows, ClosedRows
<1>2. SampleMap = [k \in Keys |-> [j \in JobIds |-> "none"]]
  BY DEF Init, SampleMap, SampleOf
<1> QED
  BY <1>1, <1>2 DEF Corpus!CorpusInit

\* A step that rewrites one row and no sample.
LEMMA RowRewritten ==
    ASSUME NEW k \in Keys, NEW r, r # NoPipe, pipes' = [pipes EXCEPT ![k] = r], UNCHANGED jobs,
           pipes \in [Keys -> PipelineRecord \cup {NoPipe}]
    PROVE  /\ SampleMap' = SampleMap /\ Rows' = Rows \cup {k}
           /\ ClosedRows' = IF r.complete THEN ClosedRows \cup {k} ELSE ClosedRows \ {k}
<1>1. pipes'[k] = r /\ \A l \in Keys : l # k => pipes'[l] = pipes[l]
  OBVIOUS
<1>2. SampleMap' = SampleMap
  BY DEF SampleMap
<1>3. Rows' = Rows \cup {k}
  BY <1>1 DEF Rows
<1> QED
  BY <1>1, <1>2, <1>3 DEF ClosedRows, Rows

\* A step that rewrites one sample and no row.
LEMMA SampleRewritten ==
    ASSUME NEW k \in Keys, NEW j \in JobIds, NEW o, jobs' = [jobs EXCEPT ![k][j] = o],
           UNCHANGED pipes, jobs \in [Keys -> [JobIds -> JobRecord \cup {NoJob}]]
    PROVE  /\ SampleMap' = [SampleMap EXCEPT ![k][j] = SampleOf(o)]
           /\ Rows' = Rows /\ ClosedRows' = ClosedRows
<1>1. \A l \in Keys, i \in JobIds : jobs'[l][i] = IF l = k /\ i = j THEN o ELSE jobs[l][i]
  OBVIOUS
<1>2. SampleMap' = [SampleMap EXCEPT ![k][j] = SampleOf(o)]
  BY ZenonT(60), <1>1 DEF SampleMap, SampleOf
<1>3. Rows' = Rows /\ ClosedRows' = ClosedRows
  BY DEF Rows, ClosedRows
<1> QED
  BY <1>2, <1>3

\* A sample is observed, or observed again by a reevaluation.
LEMMA SampleRewrittenMaps ==
    ASSUME NEW k \in Keys, NEW j \in JobIds, NEW o, jobs' = [jobs EXCEPT ![k][j] = o],
           UNCHANGED pipes, jobs \in [Keys -> [JobIds -> JobRecord \cup {NoJob}]],
           SampleOf(o) = "observed", j \in Sampled(k)
    PROVE  CorpusStep
<1>1. /\ SampleMap' = [SampleMap EXCEPT ![k][j] = "observed"]
      /\ Rows' = Rows /\ ClosedRows' = ClosedRows
  <2>1. /\ SampleMap' = [SampleMap EXCEPT ![k][j] = SampleOf(o)]
        /\ Rows' = Rows /\ ClosedRows' = ClosedRows
    BY SampleRewritten
  <2> QED
    BY <2>1
<1>2. SampleMap[k][j] \in {"pending", "observed"}
  BY DEF SampleMap, SampleOf, Sampled
<1>3. CASE SampleMap[k][j] = "pending"
  BY <1>1, <1>3, MapsToObserve
<1>4. CASE SampleMap[k][j] = "observed"
  <2>1. SampleMap' = SampleMap
    BY <1>1, <1>4 DEF SampleMap
  <2> QED
    BY <1>1, <2>1, MapsToNothing
<1> QED
  BY <1>2, <1>3, <1>4

\* Discovery sees a pipeline for the first time, or again.
LEMMA PutMaps ==
    ASSUME TypeInv, StoreInv, NEW p \in Procs, PutPipeline(p) PROVE CorpusStep
<1> DEFINE path == run[p].plan[run[p].index]
<1>0. /\ pc[p] = "put" /\ UNCHANGED jobs
      /\ disc[p] \in ListingRecord /\ disc[p].project \in ProjectIds /\ path \in Paths
      /\ pipes \in [Keys -> PipelineRecord \cup {NoPipe}]
  BY DEF PutPipeline, TypeInv, TypeOK, HasListing
<1>1. PICK id \in disc[p].new :
        \/ pipes' = [pipes EXCEPT ![<<disc[p].project, id>>] =
                       Seen(<<disc[p].project, id>>, path, run[p].batch)]
        \/ UNCHANGED pipes
  BY DEF PutPipeline
<1>k. PICK k \in Keys : k = <<disc[p].project, id>>
  BY <1>0 DEF ListingRecord, Keys
<1>2. CASE UNCHANGED pipes
  <2>1. Rows' = Rows /\ SampleMap' = SampleMap /\ ClosedRows' = ClosedRows
    BY <1>0, <1>2 DEF Rows, SampleMap, ClosedRows
  <2> QED
    BY <2>1, MapsToNothing
<1>3. CASE pipes' = [pipes EXCEPT ![k] = Seen(k, path, run[p].batch)]
  <2> DEFINE r == Seen(k, path, run[p].batch)
  <2>1. CASE pipes[k] = NoPipe
    <3>1. r.project_key = path /\ r.complete = FALSE
      BY <2>1 DEF Seen
    <3>2. r # NoPipe
      BY <1>0, <3>1, IdAssumption DEF NoPipe
    <3> HIDE DEF r
    <3>3. pipes' = [pipes EXCEPT ![k] = r]
      BY <1>3 DEF r
    <3>4. /\ SampleMap' = SampleMap /\ Rows' = Rows \cup {k} /\ ClosedRows' = ClosedRows \ {k}
      BY <1>0, <3>1, <3>2, <3>3, RowRewritten
    <3>5. k \notin Rows /\ k \notin ClosedRows
      BY <2>1 DEF Rows, ClosedRows
    <3>6. ClosedRows' = ClosedRows
      BY <3>4, <3>5
    <3> QED
      BY <3>4, <3>5, <3>6, MapsToSee
  <2>2. CASE pipes[k] # NoPipe
    <3>1. pipes[k] \in PipelineRecord
      BY <1>0, <2>2
    <3>2. r.project_key = pipes[k].project_key /\ r.complete = pipes[k].complete
      BY <2>2, <3>1 DEF Seen, PipelineRecord
    <3>3. r # NoPipe
      <4>1. pipes[k].project_key \in Paths
        BY <3>1 DEF PipelineRecord
      <4> QED
        BY <3>2, <4>1, IdAssumption DEF NoPipe
    <3> HIDE DEF r
    <3>4. pipes' = [pipes EXCEPT ![k] = r]
      BY <1>3 DEF r
    <3>5. /\ SampleMap' = SampleMap /\ Rows' = Rows \cup {k}
          /\ ClosedRows' = IF r.complete THEN ClosedRows \cup {k} ELSE ClosedRows \ {k}
      BY <1>0, <3>3, <3>4, RowRewritten
    <3>6. Rows' = Rows /\ ClosedRows' = ClosedRows
      BY <2>2, <3>2, <3>5 DEF Rows, ClosedRows
    <3> QED
      BY <3>5, <3>6, MapsToNothing
  <2> QED
    BY <2>1, <2>2
<1> QED
  BY <1>1, <1>k, <1>2, <1>3

LEMMA ReclassifyMaps ==
    ASSUME TypeInv, StoreInv, NEW p \in Procs, Reclassify(p) PROVE CorpusStep
<1>0. /\ pc[p] = "reevaluate" /\ UNCHANGED pipes /\ TaskTypes /\ Reevaluates(p)
      /\ jobs \in [Keys -> [JobIds -> JobRecord \cup {NoJob}]]
  BY DEF Reclassify, TypeInv, TypeOK, TaskTypes, StoreInv
<1>1. PICK k \in Keys, s \in TraceOutcomes \cap Classified : \E j \in todo[p][k] :
        jobs' = [jobs EXCEPT ![k][j] = [state |-> s, http |-> NoOne]]
  BY DEF Reclassify
<1>2. PICK j \in todo[p][k] : jobs' = [jobs EXCEPT ![k][j] = [state |-> s, http |-> NoOne]]
  BY <1>1
<1>3. j \in JobIds /\ j \in Sampled(k)
  <2>1. j \in JobIds /\ jobs[k][j].state \in Classified
    BY <1>0, <1>2 DEF TaskTypes, Reevaluates
  <2> QED
    BY <2>1 DEF Sampled, NoJob, Classified
<1> DEFINE o == [state |-> s, http |-> NoOne]
<1>4. SampleOf(o) = "observed" /\ jobs' = [jobs EXCEPT ![k][j] = o]
  BY <1>2 DEF SampleOf, NoJob, Classified
<1> HIDE DEF o
<1> QED
  BY <1>0, <1>3, <1>4, SampleRewrittenMaps

\* A task closes its pipeline, fixes its samples or observes one of them.
LEMMA CollectStepMaps ==
    ASSUME TypeInv, TaskInv, StoreInv, NEW p \in Procs, NEW k \in Keys, CollectStep(p, k)
    PROVE  CorpusStep
<1>0. /\ at[p][k] # "off"
      /\ local[p][k] = pipes[k] /\ pipes[k] \in PipelineRecord /\ pipes[k] # NoPipe
      /\ pipes \in [Keys -> PipelineRecord \cup {NoPipe}]
      /\ jobs \in [Keys -> [JobIds -> JobRecord \cup {NoJob}]]
      /\ RowConsistent(k) /\ TaskAgrees(p, k) /\ k \in Rows
  <2>1. at[p][k] # "off"
    BY DEF CollectStep, StartTask, NextJobPage, StopTask, JobsUnreadable, JobsListed, LeaveJobs,
       FetchTrace, RecordTrace, FinishPipeline
  <2>2. TaskAgrees(p, k) /\ RowConsistent(k)
    BY DEF StoreInv, RowsConsistent
  <2> QED
    BY <2>1, <2>2 DEF TypeInv, TypeOK, TaskAgrees, Rows
<1>1. ASSUME NEW r, r.project_key = pipes[k].project_key, r.complete, Pending(k) = {},
             pipes' = [pipes EXCEPT ![k] = r], UNCHANGED jobs
      PROVE  CorpusStep
  <2>1. r # NoPipe
    <3>1. pipes[k].project_key \in Paths
      BY <1>0 DEF PipelineRecord
    <3> QED
      BY <1>1, <3>1, IdAssumption DEF NoPipe
  <2>2. SampleMap' = SampleMap /\ Rows' = Rows \cup {k} /\ ClosedRows' = ClosedRows \cup {k}
    BY <1>0, <1>1, <2>1, RowRewritten
  <2>3. Rows' = Rows
    BY <1>0, <2>2
  <2>4. CASE k \in ClosedRows
    <3>1. ClosedRows' = ClosedRows
      BY <2>2, <2>4
    <3> QED
      BY <2>2, <2>3, <3>1, MapsToNothing
  <2>5. CASE k \notin ClosedRows
    BY <1>0, <1>1, <2>2, <2>3, <2>5, MapsToClose
  <2> QED
    BY <2>4, <2>5
<1>2. CASE JobsUnreadable(p, k)
  <2> DEFINE http == IF ans[p][k] = Malformed THEN 502 ELSE ans[p][k].code
             r == [local[p][k] EXCEPT !.listing = "unreadable", !.complete = TRUE, !.http = http]
  <2>1. pipes' = [pipes EXCEPT ![k] = r]
    BY <1>2 DEF JobsUnreadable
  <2>2. r.complete /\ r.project_key = pipes[k].project_key
    <3> HIDE DEF http
    <3> QED
      BY <1>0 DEF PipelineRecord
  <2>3. pipes' = [pipes EXCEPT ![k] = r] /\ UNCHANGED jobs /\ at[p][k] = "listed"
    <3>1. UNCHANGED jobs /\ at[p][k] = "listed"
      BY <1>2 DEF JobsUnreadable
    <3> QED
      BY <2>1, <3>1
  <2> HIDE DEF r
  <2>4. Pending(k) = {}
    <3>1. Sampled(k) = {}
      BY <1>0, <2>3 DEF TaskAgrees, RowConsistent
    <3> QED
      BY <3>1 DEF Sampled, Pending, NoJob
  <2> QED
    BY <1>1, <2>2, <2>3, <2>4
<1>3. CASE FinishPipeline(p, k)
  <2> DEFINE r == [local[p][k] EXCEPT !.complete = TRUE]
  <2>1. /\ pipes' = [pipes EXCEPT ![k] = r] /\ UNCHANGED jobs /\ at[p][k] = "jobs"
        /\ todo[p][k] = {}
    BY <1>3 DEF FinishPipeline, AllObserved
  <2>2. r.complete /\ r.project_key = pipes[k].project_key
    BY <1>0 DEF PipelineRecord
  <2> HIDE DEF r
  <2>3. Pending(k) = {}
    BY <1>0, <2>1 DEF TaskAgrees
  <2> QED
    BY <1>1, <2>1, <2>2, <2>3
<1>4. CASE JobsListed(p, k)
  <2> DEFINE S == ans[p][k].jobs
             none == (S = {})
             r == [local[p][k] EXCEPT !.listing = "listed", !.selected = S, !.complete = none]
  <2>1. /\ at[p][k] = "listed" /\ pipes' = [pipes EXCEPT ![k] = r]
        /\ jobs' = [jobs EXCEPT ![k] = [j \in JobIds |-> IF j \in S THEN Fresh ELSE @[j]]]
    BY <1>4 DEF JobsListed
  <2>2. S \in Samples
    BY <1>4, AnswerFields DEF JobsListed, TaskInv, HasAnswer
  <2>3. r.project_key = pipes[k].project_key /\ r.complete = none
    BY <1>0 DEF PipelineRecord
  <2>4. k \notin ClosedRows /\ Sampled(k) = {}
    BY <1>0, <2>1 DEF TaskAgrees, RowConsistent, ClosedRows
  <2> HIDE DEF r
  <2>5. r # NoPipe
    <3>1. pipes[k].project_key \in Paths
      BY <1>0 DEF PipelineRecord
    <3> QED
      BY <2>3, <3>1, IdAssumption DEF NoPipe
  <2>6. pipes'[k] = r /\ \A l \in Keys : l # k => pipes'[l] = pipes[l]
    BY <1>0, <2>1
  <2>7. Rows' = Rows
    BY <1>0, <2>5, <2>6 DEF Rows
  <2>8. ClosedRows' = IF S = {} THEN ClosedRows \cup {k} ELSE ClosedRows
    BY <1>0, <2>3, <2>4, <2>6, <2>7 DEF ClosedRows, Rows
  <2> HIDE DEF S, none
  <2>9. /\ \A j \in JobIds : jobs'[k][j] = IF j \in S THEN Fresh ELSE jobs[k][j]
        /\ \A l \in Keys : l # k => jobs'[l] = jobs[l]
    BY <1>0, <2>1
  <2>10. SampleOf(Fresh) = "pending"
    BY DEF SampleOf, Fresh, NoJob
  <2>11. \A l \in Keys, j \in JobIds :
            SampleMap'[l][j] = IF l = k /\ j \in S THEN "pending" ELSE SampleMap[l][j]
    BY <2>9, <2>10 DEF SampleMap
  <2> QED
    BY ZenonT(60), <1>0, <2>2, <2>4, <2>7, <2>8, <2>11, MapsToEnumerate DEF Samples
<1>5. CASE RecordTrace(p, k)
  <2> DEFINE o == Observation(ans[p][k])
             i == job[p][k]
  <2>1. at[p][k] = "traced" /\ jobs' = [jobs EXCEPT ![k][i] = o] /\ UNCHANGED pipes
    BY <1>5 DEF RecordTrace
  <2>2. i \in Sampled(k) /\ i \in JobIds
    BY <1>0, <2>1 DEF TaskAgrees, Sampled
  <2>3. SampleOf(o) = "observed"
    <3>1. CASE \E c \in Codes \cup {TooLarge} : ans[p][k] = Refused(c)
      BY <3>1, AnswerFields DEF Observation, NoJob, SampleOf
    <3>2. CASE \E s \in TraceOutcomes : ans[p][k] = Traced(s)
      BY <3>2, AnswerFields, OutcomeAssumption DEF Observation, NoJob, SampleOf
    <3> QED
      BY <2>1, <3>1, <3>2 DEF TaskInv, HasAnswer
  <2> HIDE DEF o, i
  <2> QED
    BY <1>0, <2>1, <2>2, <2>3, SampleRewrittenMaps
<1>6. CASE ~ (JobsUnreadable(p, k) \/ FinishPipeline(p, k) \/ JobsListed(p, k) \/ RecordTrace(p, k))
  <2>1. UNCHANGED <<pipes, jobs>>
    BY <1>6 DEF CollectStep, StartTask, NextJobPage, StopTask, LeaveJobs, FetchTrace, store
  <2>2. Rows' = Rows /\ SampleMap' = SampleMap /\ ClosedRows' = ClosedRows
    BY <2>1 DEF Rows, SampleMap, ClosedRows
  <2> QED
    BY <2>2, MapsToNothing
<1> QED
  BY <1>2, <1>3, <1>4, <1>5, <1>6

LEMMA NextMaps ==
    ASSUME TypeInv, TaskInv, StoreInv, [Next]_vars PROVE CorpusStep
<1>1. ASSUME UNCHANGED <<pipes, jobs>> PROVE CorpusStep
  <2>1. Rows' = Rows /\ SampleMap' = SampleMap /\ ClosedRows' = ClosedRows
    BY <1>1 DEF Rows, SampleMap, ClosedRows
  <2> QED
    BY <2>1, MapsToNothing
<1>2. ASSUME NEW p \in Procs,
             \/ \E mode \in {"open_harvest", "open_reevaluation"} : Acquire(p, mode)
             \/ \E k \in Keys : ServerStep(p, k)
             \/ Faults(p)
      PROVE  UNCHANGED <<pipes, jobs>>
  BY SMTT(60), <1>2 DEF Acquire, ServerStep, AnswerJobs, AnswerTrace, Answered, Faults, CommitFails,
              LastCommitFails, Interrupt, Crash, TaskCommitFails, store
<1>3. ASSUME NEW p \in Procs, MainStep(p), ~ PutPipeline(p), ~ Reclassify(p)
      PROVE  UNCHANGED <<pipes, jobs>>
  BY <1>3 DEF MainStep, OpenHarvest, OpenReevaluation, OpenRefused, Begin, ResolveProject, ReadPage,
              FinishPage, PlanCollection, LaunchBatch, EndBatch, CancelBatch, EndCollection, Finish,
              EndReevaluation, store
<1>4. CASE UNCHANGED vars
  BY <1>1, <1>4 DEF vars, store
<1>5. CASE Next
  <2>1. PICK p \in Procs :
          \/ \/ \E mode \in {"open_harvest", "open_reevaluation"} : Acquire(p, mode)
             \/ \E k \in Keys : ServerStep(p, k)
             \/ Faults(p)
          \/ MainStep(p)
          \/ \E k \in Keys : CollectStep(p, k)
    BY <1>5 DEF Next
  <2> QED
    BY <1>1, <1>2, <1>3, <2>1, PutMaps, ReclassifyMaps, CollectStepMaps
<1> QED
  BY <1>4, <1>5

\* Every behaviour of the writers, their tasks and their faults is, seen through
\* the tables, one of the corpus that only sees, samples, observes and closes:
\* no observation is taken back and no closed pipeline opened again.
THEOREM ImplementsObservedCorpus == Spec => ObservationsAccumulate
<1>1. TypeInv /\ TaskInv /\ StoreInv /\ [Next]_vars => [Corpus!CorpusNext]_(Corpus!cvars)
  BY NextMaps DEF CorpusStep
<1> QED
  BY <1>1, InitMaps, TypesAndTasks, StoreInvariant, PTL
     DEF Spec, ObservationsAccumulate, Corpus!CorpusSpec

-----------------------------------------------------------------------------
(* How much a run may still do.                                                *)

Early == Entering \cup Discovering

\* The phases of a run that are still to come.
PhasesOf(where) ==
    CASE where = "idle" -> 0
      [] where = "final" -> 1
      [] where \in {"batch", "gather", "reevaluate"} -> 2
      [] where \in Discovering -> 3
      [] where = "begin" -> 4
      [] OTHER -> 5

\* Where the discovery is: at a project, and of it at a page and a row of the page.
Position(where, i, d) ==
    CASE where = "page" -> <<i, <<d.page, 0>>>>
      [] where = "put" -> <<i, <<d.page, 1 + Cardinality(PipelineIds \ d.new)>>>>
      [] OTHER -> <<i, <<0, 0>>>>

Ahead(a, e) ==
    \/ a[1] < e[1]
    \/ a[1] = e[1] /\ a[2][1] < e[2][1]
    \/ a[1] = e[1] /\ a[2][1] = e[2][1] /\ a[2][2] < e[2][2]

Positions(plan) ==
    (1..(Len(plan) + 1)) \X ((0..MaxListPages) \X (0..(Cardinality(PipelineIds) + 1)))

PagesLeft(p) ==
    IF pc[p] \in Early
    THEN { e \in Positions(run[p].plan) : Ahead(Position(pc[p], run[p].index, disc[p]), e) }
    ELSE {}

\* The turns of the main coroutine, which launches a batch and awaits it.
TurnsOf(where, queued) ==
    CASE where \in Early -> 2 * Cardinality(Keys)
      [] where = "batch" -> 2 * queued
      [] where = "gather" -> 2 * queued + 1
      [] OTHER -> 0

\* The steps of a task: three for each job that it has still to fetch.
FullTask == 3 * Cardinality(JobIds) + 5

TaskAt(place, fetches) ==
    CASE place = "off" -> 0
      [] place = "queued" -> FullTask
      [] place = "start" -> FullTask - 1
      [] place = "list" -> FullTask - 2
      [] place = "listed" -> FullTask - 3
      [] place = "jobs" -> 3 * fetches + 1
      [] place = "trace" -> 3 * fetches + 3
      [] OTHER -> 3 * fetches + 2

TaskOf(where, place, fetches) ==
    CASE where \in Early -> FullTask
      [] where = "reevaluate" -> fetches
      [] where \in Collecting -> TaskAt(place, fetches)
      [] OTHER -> 0

TaskLeft(p) == [k \in Keys |-> TaskOf(pc[p], at[p][k], Cardinality(todo[p][k]))]
Below(f) == { e \in Keys \X (1..FullTask) : e[2] <= f[e[1]] }
TasksLeft(p) == Below(TaskLeft(p))
Queued(p) == Cardinality(Tasks(p, "queued"))

\* What is left of a run: its phases, the places of its discovery, its batches, and what
\* its tasks have to do.
HarvestLeft(p) ==
    PhasesOf(pc[p]) + TurnsOf(pc[p], Queued(p))
        + Cardinality(PagesLeft(p)) + Cardinality(TasksLeft(p))

HarvestBound(plan) ==
    6 + 2 * Cardinality(Keys)
      + (Len(plan) + 1) * ((MaxListPages + 1) * (Cardinality(PipelineIds) + 2))
      + Cardinality(Keys) * FullTask

\* No page beyond the last one allowed is asked for.
PageAllowed(p) == pc[p] \in {"page", "put"} => disc[p].page \in 1..MaxListPages
PagesInv == \A p \in Procs : PageAllowed(p)

LEMMA HarvestSizes ==
    /\ IsFiniteSet(JobIds) /\ IsFiniteSet(PipelineIds) /\ IsFiniteSet(Keys)
    /\ Cardinality(JobIds) \in Nat /\ Cardinality(PipelineIds) \in Nat /\ Cardinality(Keys) \in Nat
    /\ FullTask \in Nat \ {0} /\ MaxListPages \in Nat \ {0}
<1>1. IsFiniteSet(JobIds) /\ IsFiniteSet(PipelineIds) /\ IsFiniteSet(Keys)
  BY IdAssumption, FiniteRows
<1>2. Cardinality(JobIds) \in Nat /\ Cardinality(PipelineIds) \in Nat /\ Cardinality(Keys) \in Nat
  BY <1>1, FS_CardinalityType
<1> QED
  BY <1>1, <1>2, BoundAssumption DEF FullTask

LEMMA NumbersCounted ==
    ASSUME NEW n \in Nat
    PROVE  /\ IsFiniteSet(1..n) /\ Cardinality(1..n) = n
           /\ IsFiniteSet(0..n) /\ Cardinality(0..n) = n + 1
<1>1. IsFiniteSet(1..n) /\ Cardinality(1..n) = IF 1 > n THEN 0 ELSE n - 1 + 1
  BY FS_Interval
<1>2. IsFiniteSet(0..n) /\ Cardinality(0..n) = IF 0 > n THEN 0 ELSE n - 0 + 1
  BY FS_Interval
<1> QED
  BY <1>1, <1>2

LEMMA Positioned ==
    ASSUME NEW plan \in Plans \cup {<<>>}
    PROVE  /\ IsFiniteSet(Positions(plan))
           /\ Cardinality(Positions(plan))
                = (Len(plan) + 1) * ((MaxListPages + 1) * (Cardinality(PipelineIds) + 2))
<1> DEFINE n == Len(plan) + 1
           m == MaxListPages
           c == Cardinality(PipelineIds) + 1
<1>1. n \in Nat /\ m \in Nat /\ c \in Nat
  <2>1. Len(plan) \in Nat
    BY PlanLengths
  <2> QED
    BY <2>1, HarvestSizes
<1> HIDE DEF n, m, c
<1>2. /\ IsFiniteSet(1..n) /\ Cardinality(1..n) = n
      /\ IsFiniteSet(0..m) /\ Cardinality(0..m) = m + 1
      /\ IsFiniteSet(0..c) /\ Cardinality(0..c) = c + 1
  BY <1>1, NumbersCounted
<1> DEFINE Projects == 1..n
           Pages == 0..m
           Places == 0..c
<1>3. /\ IsFiniteSet(Projects) /\ Cardinality(Projects) = n
      /\ IsFiniteSet(Pages) /\ Cardinality(Pages) = m + 1
      /\ IsFiniteSet(Places) /\ Cardinality(Places) = c + 1
  BY <1>2
<1>5. Positions(plan) = Projects \X (Pages \X Places)
  BY DEF Positions, n, m, c
<1> HIDE DEF Projects, Pages, Places
<1>4. /\ IsFiniteSet(Pages \X Places)
      /\ Cardinality(Pages \X Places) = Cardinality(Pages) * Cardinality(Places)
  BY <1>3, FS_Product
<1> DEFINE Within == Pages \X Places
<1>7. IsFiniteSet(Within) /\ Cardinality(Within) = (m + 1) * (c + 1)
  BY <1>3, <1>4
<1>8. Positions(plan) = Projects \X Within
  BY <1>5
<1> HIDE DEF Within
<1>9. /\ IsFiniteSet(Projects \X Within)
      /\ Cardinality(Projects \X Within) = Cardinality(Projects) * Cardinality(Within)
  BY <1>3, <1>7, FS_Product
<1>6. c + 1 = Cardinality(PipelineIds) + 2
  BY HarvestSizes DEF c
<1> QED
  BY <1>3, <1>6, <1>7, <1>8, <1>9 DEF n, m

LEMMA TasksCounted ==
    /\ IsFiniteSet(Keys \X (1..FullTask))
    /\ Cardinality(Keys \X (1..FullTask)) = Cardinality(Keys) * FullTask
<1>1. IsFiniteSet(1..FullTask) /\ Cardinality(1..FullTask) = FullTask
  BY HarvestSizes, NumbersCounted
<1> QED
  BY <1>1, HarvestSizes, FS_Product

LEMMA Fetches ==
    ASSUME NEW T \in SUBSET JobIds
    PROVE  /\ Cardinality(T) \in 0..Cardinality(JobIds)
           /\ \A j \in T : Cardinality(T \ {j}) = Cardinality(T) - 1
<1>1. IsFiniteSet(T) /\ Cardinality(T) <= Cardinality(JobIds)
  BY HarvestSizes, FS_Subset
<1>2. Cardinality(T) \in Nat
  BY <1>1, FS_CardinalityType
<1>3. \A j \in T : Cardinality(T \ {j}) = Cardinality(T) - 1
  BY <1>1, FS_RemoveElement
<1> QED
  BY <1>1, <1>2, <1>3, HarvestSizes

LEMMA TaskRange ==
    ASSUME NEW where, NEW place, NEW n \in 0..Cardinality(JobIds)
    PROVE  TaskOf(where, place, n) \in 0..FullTask
<1>1. Cardinality(JobIds) \in Nat
  BY HarvestSizes
<1>2. TaskAt(place, n) \in 0..FullTask
  BY <1>1 DEF TaskAt, FullTask
<1> QED
  BY <1>1, <1>2 DEF TaskOf, FullTask

\* A task that has less to do, and no other that has more.
LEMMA FewerBelow ==
    ASSUME NEW f \in [Keys -> 0..FullTask], NEW g \in [Keys -> 0..FullTask],
           \A k \in Keys : g[k] <= f[k]
    PROVE  /\ Below(g) \subseteq Below(f)
           /\ (\E k \in Keys : g[k] < f[k]) => Below(g) # Below(f)
<1>0. FullTask \in Nat
  BY HarvestSizes
<1>1. Below(g) \subseteq Below(f)
  <2> SUFFICES ASSUME NEW k \in Keys, NEW n \in 1..FullTask, n <= g[k]
               PROVE  n <= f[k]
    BY DEF Below
  <2>1. f[k] \in 0..FullTask /\ g[k] \in 0..FullTask /\ g[k] <= f[k]
    OBVIOUS
  <2> QED
    BY <1>0, <2>1
<1>2. ASSUME NEW k \in Keys, g[k] < f[k] PROVE Below(g) # Below(f)
  <2> DEFINE n == f[k]
  <2>1. f[k] \in 0..FullTask /\ g[k] \in 0..FullTask
    OBVIOUS
  <2>2. n \in 1..FullTask /\ n <= f[k] /\ ~ (n <= g[k])
    BY <1>0, <1>2, <2>1
  <2>3. <<k, n>> \in Below(f) /\ <<k, n>> \notin Below(g)
    BY <2>2 DEF Below
  <2> QED
    BY <2>3
<1> QED
  BY <1>1, <1>2

\* A position that is further on.
LEMMA FurtherOn ==
    ASSUME NEW plan, NEW a \in Nat \X (Nat \X Nat), NEW b \in Nat \X (Nat \X Nat), Ahead(a, b)
    PROVE  /\ {e \in Positions(plan) : Ahead(b, e)} \subseteq {e \in Positions(plan) : Ahead(a, e)}
           /\ b \in Positions(plan) =>
                {e \in Positions(plan) : Ahead(b, e)} # {e \in Positions(plan) : Ahead(a, e)}
<1>1. ASSUME NEW e \in Positions(plan), Ahead(b, e) PROVE Ahead(a, e)
  <2>1. e[1] \in Int /\ e[2][1] \in Int /\ e[2][2] \in Int
    BY DEF Positions
  <2>2. /\ a[1] \in Int /\ a[2][1] \in Int /\ a[2][2] \in Int
        /\ b[1] \in Int /\ b[2][1] \in Int /\ b[2][2] \in Int
    OBVIOUS
  <2> QED
    BY <1>1, <2>1, <2>2 DEF Ahead
<1>2. ~ Ahead(b, b)
  BY DEF Ahead
<1> QED
  BY <1>1, <1>2

\* The parts of what is left, each within its range.
Ranged(p) ==
    /\ Queued(p) \in 0..Cardinality(Keys)
    /\ PhasesOf(pc[p]) \in 0..5 /\ TurnsOf(pc[p], Queued(p)) \in 0..(2 * Cardinality(Keys) + 1)
    /\ run[p].plan \in Plans \cup {<<>>}
    /\ IsFiniteSet(PagesLeft(p)) /\ IsFiniteSet(TasksLeft(p))
    /\ Cardinality(PagesLeft(p)) \in 0..Cardinality(Positions(run[p].plan))
    /\ Cardinality(TasksLeft(p)) \in 0..Cardinality(Keys \X (1..FullTask))
    /\ TaskLeft(p) \in [Keys -> 0..FullTask]

LEMMA PartSize ==
    ASSUME NEW S, IsFiniteSet(S), NEW T, T \subseteq S
    PROVE  IsFiniteSet(T) /\ Cardinality(T) \in 0..Cardinality(S)
<1>1. IsFiniteSet(T) /\ Cardinality(T) <= Cardinality(S)
  BY FS_Subset
<1>2. Cardinality(T) \in Nat /\ Cardinality(S) \in Nat
  BY <1>1, FS_CardinalityType
<1> QED
  BY <1>1, <1>2

LEMMA LeftRanged == ASSUME TypeOK, NEW p \in Procs PROVE Ranged(p)
<1>1. /\ run[p] \in RunRecord /\ todo \in [Procs -> [Keys -> SUBSET JobIds]]
  BY DEF TypeOK
<1>2. Queued(p) \in 0..Cardinality(Keys)
  <2>1. Tasks(p, "queued") \subseteq Keys
    BY DEF Tasks
  <2> QED
    BY <2>1, HarvestSizes, PartSize DEF Queued
<1>3. PhasesOf(pc[p]) \in 0..5
  BY DEF PhasesOf
<1>4. TurnsOf(pc[p], Queued(p)) \in 0..(2 * Cardinality(Keys) + 1)
  BY <1>2, HarvestSizes DEF TurnsOf
<1>5. run[p].plan \in Plans \cup {<<>>}
  BY <1>1 DEF RunRecord
<1>6. IsFiniteSet(PagesLeft(p)) /\ Cardinality(PagesLeft(p)) \in 0..Cardinality(Positions(run[p].plan))
  <2>1. PagesLeft(p) \subseteq Positions(run[p].plan)
    BY DEF PagesLeft
  <2> QED
    BY <1>5, <2>1, Positioned, PartSize
<1>7. IsFiniteSet(TasksLeft(p)) /\ Cardinality(TasksLeft(p)) \in 0..Cardinality(Keys \X (1..FullTask))
  <2>1. TasksLeft(p) \subseteq Keys \X (1..FullTask)
    BY DEF TasksLeft, Below
  <2> QED
    BY <2>1, TasksCounted, PartSize
<1>8. ASSUME NEW k \in Keys PROVE TaskOf(pc[p], at[p][k], Cardinality(todo[p][k])) \in 0..FullTask
  <2>1. Cardinality(todo[p][k]) \in 0..Cardinality(JobIds)
    BY <1>1, Fetches
  <2> QED
    BY <2>1, TaskRange
<1>9. TaskLeft(p) \in [Keys -> 0..FullTask]
  BY <1>8 DEF TaskLeft
<1> QED
  BY <1>2, <1>3, <1>4, <1>5, <1>6, <1>7, <1>9 DEF Ranged

LEMMA HarvestLeftRange ==
    ASSUME NEW p \in Procs, Ranged(p) PROVE HarvestLeft(p) \in 0..HarvestBound(run[p].plan)
<1> DEFINE places == Cardinality(Positions(run[p].plan))
           tasks == Cardinality(Keys \X (1..FullTask))
<1>1. /\ Cardinality(PagesLeft(p)) \in 0..places
      /\ Cardinality(TasksLeft(p)) \in 0..tasks
      /\ TurnsOf(pc[p], Queued(p)) \in 0..(2 * Cardinality(Keys) + 1)
      /\ PhasesOf(pc[p]) \in 0..5 /\ run[p].plan \in Plans \cup {<<>>}
  BY DEF Ranged
<1>2. HarvestBound(run[p].plan) = 6 + 2 * Cardinality(Keys) + places + tasks
  BY <1>1, Positioned, TasksCounted DEF HarvestBound
<1>3. places \in Nat /\ tasks \in Nat
  BY <1>1, Positioned, TasksCounted, FS_CardinalityType
<1> DEFINE a == PhasesOf(pc[p])
           b == TurnsOf(pc[p], Queued(p))
           c == Cardinality(PagesLeft(p))
           d == Cardinality(TasksLeft(p))
           keys == Cardinality(Keys)
           bound == HarvestBound(run[p].plan)
<1>4. a \in 0..5 /\ b \in 0..(2 * keys + 1) /\ c \in 0..places /\ d \in 0..tasks
  BY <1>1
<1>5. HarvestLeft(p) = a + b + c + d /\ bound = 6 + 2 * keys + places + tasks /\ keys \in Nat
  BY <1>2, HarvestSizes DEF HarvestLeft
<1> HIDE DEF places, tasks, a, b, c, d, keys, bound
<1>6. a + b + c + d \in 0..bound
  BY <1>3, <1>4, <1>5
<1> QED
  BY <1>5, <1>6 DEF bound

LEMMA SmallerSet ==
    ASSUME NEW S, IsFiniteSet(S), NEW T, T \subseteq S
    PROVE  /\ Cardinality(T) \in Nat /\ Cardinality(S) \in Nat
           /\ Cardinality(T) <= Cardinality(S)
           /\ T # S => Cardinality(T) < Cardinality(S)
<1>1. /\ IsFiniteSet(T) /\ Cardinality(T) <= Cardinality(S)
      /\ Cardinality(S) = Cardinality(T) => S = T
  BY FS_Subset
<1>2. Cardinality(T) \in Nat /\ Cardinality(S) \in Nat
  BY <1>1, FS_CardinalityType
<1> QED
  BY <1>1, <1>2

LEMMA LessTogether ==
    ASSUME NEW a \in Nat, NEW b \in Nat, NEW c \in Nat, NEW d \in Nat,
           NEW i \in Nat, NEW j \in Nat, NEW k \in Nat, NEW l \in Nat,
           i <= a, j <= b, k <= c, l <= d, i < a \/ j < b \/ k < c \/ l < d
    PROVE  i + j + k + l < a + b + c + d
  OBVIOUS

\* No part grows, and one becomes less.
LEMMA LessLeft ==
    ASSUME NEW p \in Procs, Ranged(p), Ranged(p)',
           PhasesOf(pc[p])' <= PhasesOf(pc[p]),
           TurnsOf(pc[p], Queued(p))' <= TurnsOf(pc[p], Queued(p)),
           PagesLeft(p)' \subseteq PagesLeft(p), TasksLeft(p)' \subseteq TasksLeft(p),
           \/ PhasesOf(pc[p])' < PhasesOf(pc[p])
           \/ TurnsOf(pc[p], Queued(p))' < TurnsOf(pc[p], Queued(p))
           \/ PagesLeft(p)' # PagesLeft(p)
           \/ TasksLeft(p)' # TasksLeft(p)
    PROVE  HarvestLeft(p)' < HarvestLeft(p)
<1> DEFINE a == PhasesOf(pc[p])
           b == TurnsOf(pc[p], Queued(p))
           c == Cardinality(PagesLeft(p))
           d == Cardinality(TasksLeft(p))
<1>1. a \in Nat /\ a' \in Nat /\ b \in Nat /\ b' \in Nat
  <2>1. Cardinality(Keys) \in Nat
    BY HarvestSizes
  <2> QED
    BY SMTT(60), <2>1 DEF Ranged
<1>2. c \in Nat /\ c' \in Nat /\ c' <= c /\ (PagesLeft(p)' # PagesLeft(p) => c' < c)
  BY SmallerSet DEF Ranged
<1>3. d \in Nat /\ d' \in Nat /\ d' <= d /\ (TasksLeft(p)' # TasksLeft(p) => d' < d)
  BY SmallerSet DEF Ranged
<1>4. a' <= a /\ b' <= b /\ (a' < a \/ b' < b \/ c' < c \/ d' < d)
  BY <1>2, <1>3
<1>5. HarvestLeft(p) = a + b + c + d /\ HarvestLeft(p)' = a' + b' + c' + d'
  BY DEF HarvestLeft
<1> HIDE DEF a, b, c, d
<1>6. a' + b' + c' + d' < a + b + c + d
  BY <1>1, <1>2, <1>3, <1>4, LessTogether
<1> QED
  BY <1>5, <1>6

\* Nothing but the last phase is left at the end.
LEMMA NothingLeft ==
    ASSUME NEW p \in Procs, Ranged(p), Ranged(p)', pc'[p] \in {"idle", "final"},
           PhasesOf(pc'[p]) < PhasesOf(pc[p])
    PROVE  HarvestLeft(p)' < HarvestLeft(p)
<1>1. pc'[p] \notin Early /\ pc'[p] \notin Collecting
  BY DEF Early, Entering, Discovering, Collecting
<1>2. PagesLeft(p)' = {}
  BY <1>1 DEF PagesLeft
<1>3. TurnsOf(pc[p], Queued(p))' <= TurnsOf(pc[p], Queued(p))
  <2>1. TurnsOf(pc'[p], Queued(p)') = 0
    BY <1>1 DEF TurnsOf, Collecting
  <2>2. TurnsOf(pc[p], Queued(p)) \in Nat
    BY HarvestSizes DEF Ranged
  <2> QED
    BY <2>1, <2>2
<1>4. TasksLeft(p)' = {}
  <2>1. \A k \in Keys : TaskLeft(p)'[k] = 0
    BY <1>1 DEF TaskLeft, TaskOf
  <2> QED
    BY <2>1 DEF TasksLeft, Below
<1> QED
  <2>1. PhasesOf(pc[p])' < PhasesOf(pc[p]) /\ PhasesOf(pc[p])' <= PhasesOf(pc[p])
    <3>1. PhasesOf(pc[p]) \in 0..5 /\ PhasesOf(pc'[p]) \in 0..5
      BY DEF Ranged
    <3> QED
      BY <3>1
  <2>2. PagesLeft(p)' \subseteq PagesLeft(p) /\ TasksLeft(p)' \subseteq TasksLeft(p)
    BY <1>2, <1>4
  <2> QED
    BY <1>3, <2>1, <2>2, LessLeft

\* Before the tasks are planned all of their work is left.
LEMMA EarlyIsFull ==
    ASSUME NEW where \in Early
    PROVE  /\ \A place, n : TaskOf(where, place, n) = FullTask
           /\ \A n : TurnsOf(where, n) = 2 * Cardinality(Keys)
<1>1. where \notin Collecting /\ where # "reevaluate" /\ where # "batch" /\ where # "gather"
  BY DEF Early, Entering, Discovering, Collecting
<1> QED
  BY <1>1 DEF TaskOf, TurnsOf

LEMMA AllTasksLeft ==
    ASSUME NEW p \in Procs
    PROVE  /\ pc[p] \in Early => TaskLeft(p) = [k \in Keys |-> FullTask]
           /\ pc'[p] \in Early => TaskLeft(p)' = [k \in Keys |-> FullTask]
  BY EarlyIsFull DEF TaskLeft

LEMMA PositionFacts ==
    ASSUME NEW where, NEW i \in Nat, NEW d \in ListingRecord
    PROVE  /\ Position(where, i, d) \in Nat \X (Nat \X Nat)
           /\ Position(where, i, d)[1] = i
           /\ Cardinality(PipelineIds \ d.new) \in 0..Cardinality(PipelineIds)
<1>1. Cardinality(PipelineIds \ d.new) \in 0..Cardinality(PipelineIds)
  BY HarvestSizes, PartSize
<1>2. d.page \in Nat
  BY DEF ListingRecord
<1> DEFINE row == 1 + Cardinality(PipelineIds \ d.new)
<1>3. row \in Nat
  BY <1>1, HarvestSizes
<1>4. Position(where, i, d) = CASE where = "page" -> <<i, <<d.page, 0>>>>
                                [] where = "put" -> <<i, <<d.page, row>>>>
                                [] OTHER -> <<i, <<0, 0>>>>
  BY DEF Position
<1> HIDE DEF row
<1> QED
  BY <1>1, <1>2, <1>3, <1>4

\* A step of the discovery: to a later phase, or further on in this one.
LEMMA DiscoveryGoesDown ==
    ASSUME NEW p \in Procs, Ranged(p), Ranged(p)', pc[p] \in Early, pc'[p] \in Early,
           run'[p].plan = run[p].plan, PhasesOf(pc'[p]) <= PhasesOf(pc[p]),
           NEW a \in Nat \X (Nat \X Nat), NEW b \in Nat \X (Nat \X Nat),
           a = Position(pc[p], run[p].index, disc[p]),
           b = Position(pc'[p], run'[p].index, disc'[p]),
           \/ a = b /\ PhasesOf(pc'[p]) < PhasesOf(pc[p])
           \/ Ahead(a, b) /\ b \in Positions(run[p].plan)
    PROVE  HarvestLeft(p)' < HarvestLeft(p)
<1>1. TasksLeft(p)' = TasksLeft(p)
  BY AllTasksLeft DEF TasksLeft, Below
<1>2. TurnsOf(pc[p], Queued(p))' <= TurnsOf(pc[p], Queued(p))
  <2>1. /\ TurnsOf(pc[p], Queued(p)) = 2 * Cardinality(Keys)
        /\ TurnsOf(pc'[p], Queued(p)') = 2 * Cardinality(Keys)
    BY EarlyIsFull
  <2> QED
    BY <2>1, HarvestSizes
<1>3. /\ PagesLeft(p) = { e \in Positions(run[p].plan) : Ahead(a, e) }
      /\ PagesLeft(p)' = { e \in Positions(run[p].plan) : Ahead(b, e) }
  <2>1. Positions(run[p].plan)' = Positions(run[p].plan)
    BY DEF Positions
  <2> QED
    BY <2>1 DEF PagesLeft
<1>4. CASE a = b /\ PhasesOf(pc'[p]) < PhasesOf(pc[p])
  <2>1. PagesLeft(p)' = PagesLeft(p)
    BY <1>3, <1>4
  <2> QED
    BY <1>1, <1>2, <1>4, <2>1, LessLeft
<1>5. CASE Ahead(a, b) /\ b \in Positions(run[p].plan)
  <2>1. PagesLeft(p)' \subseteq PagesLeft(p) /\ PagesLeft(p)' # PagesLeft(p)
    BY <1>3, <1>5, FurtherOn
  <2> QED
    BY <1>1, <1>2, <2>1, LessLeft
<1> QED
  BY <1>4, <1>5

LEMMA PhasesDiscovering ==
    /\ \A where \in Discovering : PhasesOf(where) = 3 /\ where \in Early
    /\ "resolve" \in Discovering /\ "page" \in Discovering /\ "put" \in Discovering
  BY DEF PhasesOf, Discovering, Early

\* Within the discovery only the position counts.
LEMMA PositionGoesOn ==
    ASSUME NEW p \in Procs, Ranged(p), Ranged(p)', pc[p] \in Discovering, pc'[p] \in Discovering,
           run[p].index \in Nat, disc[p] \in ListingRecord,
           run'[p].index \in Nat, disc'[p] \in ListingRecord, run'[p].plan = run[p].plan,
           Ahead(Position(pc[p], run[p].index, disc[p]), Position(pc'[p], run'[p].index, disc'[p])),
           Position(pc'[p], run'[p].index, disc'[p]) \in Positions(run[p].plan)
    PROVE  HarvestLeft(p)' < HarvestLeft(p)
<1>1. PhasesOf(pc'[p]) <= PhasesOf(pc[p]) /\ pc[p] \in Early /\ pc'[p] \in Early
  BY PhasesDiscovering
<1>2. /\ Position(pc[p], run[p].index, disc[p]) \in Nat \X (Nat \X Nat)
      /\ Position(pc'[p], run'[p].index, disc'[p]) \in Nat \X (Nat \X Nat)
  BY PositionFacts
<1> QED
  BY <1>1, <1>2, DiscoveryGoesDown

LEMMA EndListingLess ==
    ASSUME AllInv, AllInv', NEW p \in Procs, Ranged(p), Ranged(p)', pc[p] \in Discovering,
           run[p].index <= Len(run[p].plan), NEW listing, NEW state, EndListing(p, listing, state)
    PROVE  PageAllowed(p)' /\ HarvestLeft(p)' < HarvestLeft(p)
<1> DEFINE i == run[p].index
           r == [run[p] EXCEPT !.state = state, !.index = @ + 1,
                   !.listing = [@ EXCEPT ![run[p].plan[run[p].index]] = listing]]
<1>1. /\ pc[p] # "idle" /\ run[p] \in RunRecord /\ run \in [Procs -> RunRecord]
      /\ disc[p] \in ListingRecord /\ disc \in [Procs -> ListingRecord] /\ pc \in [Procs -> PcTypes]
      /\ i \in Nat \ {0} /\ Len(run[p].plan) \in Nat
  BY Alone, PlanLengths DEF Discovering, RunRecord
<1>2. run' = [run EXCEPT ![p] = r] /\ pc' = [pc EXCEPT ![p] = "resolve"]
  BY DEF EndListing
<1>3. r.plan = run[p].plan /\ r.index = i + 1
  BY <1>1 DEF RunRecord
<1> HIDE DEF r
<1>4. run'[p].plan = run[p].plan /\ run'[p].index = i + 1 /\ pc'[p] = "resolve"
  BY <1>1, <1>2, <1>3
<1>5. disc'[p] \in ListingRecord
  BY <1>1, NewRunType DEF EndListing
<1>6. PageAllowed(p)'
  BY <1>4 DEF PageAllowed
<1>7. Position(pc'[p], run'[p].index, disc'[p]) = <<i + 1, <<0, 0>>>>
  BY <1>4 DEF Position
<1>8. Position(pc[p], run[p].index, disc[p])[1] = i
  <2>1. run[p].index \in Nat /\ disc[p] \in ListingRecord
    BY <1>1
  <2> QED
    BY <2>1, PositionFacts
<1>9. Ahead(Position(pc[p], run[p].index, disc[p]), <<i + 1, <<0, 0>>>>)
  BY <1>1, <1>8 DEF Ahead
<1>10. <<i + 1, <<0, 0>>>> \in Positions(run[p].plan)
  BY SMTT(60), <1>1, HarvestSizes DEF Positions
<1>11. HarvestLeft(p)' < HarvestLeft(p)
  BY <1>1, <1>4, <1>5, <1>7, <1>9, <1>10, PhasesDiscovering, PositionGoesOn
<1> QED
  BY <1>6, <1>11

\* A process leaves its run, or goes to its report.
LEMMA LeavesLess ==
    ASSUME NEW p \in Procs, Ranged(p), Ranged(p)', pc \in [Procs -> PcTypes], pc[p] # "idle",
           \/ pc' = [pc EXCEPT ![p] = "idle"]
           \/ pc[p] # "final" /\ pc' = [pc EXCEPT ![p] = "final"]
    PROVE  PageAllowed(p)' /\ HarvestLeft(p)' < HarvestLeft(p)
<1>1. pc'[p] \in {"idle", "final"} /\ pc[p] \in PcTypes
  OBVIOUS
<1>2. PhasesOf(pc'[p]) < PhasesOf(pc[p])
  <2>1. CASE pc' = [pc EXCEPT ![p] = "idle"]
    <3>1. PhasesOf(pc'[p]) = 0
      BY <2>1 DEF PhasesOf, Discovering
    <3>2. PhasesOf(pc[p]) > 0
      BY <1>1 DEF PhasesOf, PcTypes, Discovering
    <3> QED
      BY <3>1, <3>2 DEF PhasesOf
  <2>2. CASE pc[p] # "final" /\ pc' = [pc EXCEPT ![p] = "final"]
    <3>1. PhasesOf(pc'[p]) = 1
      BY <2>2 DEF PhasesOf, Discovering
    <3>2. PhasesOf(pc[p]) > 1
      BY <1>1, <2>2 DEF PhasesOf, PcTypes, Discovering
    <3> QED
      BY <3>1, <3>2
  <2> QED
    BY <2>1, <2>2
<1>3. PageAllowed(p)'
  BY <1>1 DEF PageAllowed
<1> QED
  BY <1>1, <1>2, <1>3, NothingLeft

LEMMA EntersLess ==
    ASSUME AllInv, NEW p \in Procs, Ranged(p), Ranged(p)', OpenHarvest(p) \/ Begin(p)
    PROVE  PageAllowed(p)' /\ HarvestLeft(p)' < HarvestLeft(p)
<1>1. /\ pc[p] \in {"open_harvest", "begin"} /\ pc \in [Procs -> PcTypes]
      /\ pc'[p] = (IF pc[p] = "begin" THEN "resolve" ELSE "begin")
      /\ run'[p] = run[p] /\ disc'[p] = disc[p]
      /\ run[p].index \in Nat /\ disc[p] \in ListingRecord
  <2>1. pc[p] \in {"open_harvest", "begin"} /\ UNCHANGED <<run, disc>>
    BY DEF OpenHarvest, Begin
  <2>2. pc \in [Procs -> PcTypes] /\ run[p] \in RunRecord /\ disc[p] \in ListingRecord
    BY <2>1, Alone
  <2>3. pc'[p] = (IF pc[p] = "begin" THEN "resolve" ELSE "begin")
    BY <2>2 DEF OpenHarvest, Begin
  <2>4. run[p].index \in Nat
    BY <2>2 DEF RunRecord
  <2> QED
    BY <2>1, <2>2, <2>3, <2>4
<1>2. Position(pc'[p], run'[p].index, disc'[p]) = Position(pc[p], run[p].index, disc[p])
  BY <1>1 DEF Position
<1>3. PhasesOf(pc'[p]) < PhasesOf(pc[p]) /\ PhasesOf(pc'[p]) <= PhasesOf(pc[p])
  BY <1>1 DEF PhasesOf, Discovering
<1>4. pc[p] \in Early /\ pc'[p] \in Early
  BY <1>1 DEF Early, Entering, Discovering
<1>5. Position(pc[p], run[p].index, disc[p]) \in Nat \X (Nat \X Nat)
  BY <1>1, PositionFacts
<1>6. PageAllowed(p)'
  BY <1>1 DEF PageAllowed
<1>7. run'[p].plan = run[p].plan
  BY <1>1
<1> QED
  BY <1>2, <1>3, <1>4, <1>5, <1>6, <1>7, DiscoveryGoesDown

LEMMA ResolveLess ==
    ASSUME AllInv, AllInv', NEW p \in Procs, Ranged(p), Ranged(p)', ResolveProject(p)
    PROVE  PageAllowed(p)' /\ HarvestLeft(p)' < HarvestLeft(p)
<1>1. pc[p] = "resolve" /\ run[p].index <= Len(run[p].plan)
  BY DEF ResolveProject, MoreProjects
<1>2. /\ pc[p] \in Discovering /\ pc \in [Procs -> PcTypes] /\ run \in [Procs -> RunRecord]
      /\ run[p] \in RunRecord /\ disc \in [Procs -> ListingRecord] /\ disc[p] \in ListingRecord
      /\ run[p].index \in Nat \ {0} /\ Len(run[p].plan) \in Nat
  BY <1>1, Alone, PlanLengths DEF Discovering, RunRecord
<1>3. CASE ProviderFails(p)
  BY <1>1, <1>2, <1>3, EndListingLess DEF ProviderFails
<1>4. CASE pc' = [pc EXCEPT ![p] = "final"]
  BY <1>1, <1>2, <1>4, LeavesLess
<1>5. CASE /\ \E id \in ProjectIds \ run[p].resolved :
                /\ run' = [run EXCEPT ![p].resolved = @ \cup {id}]
                /\ disc' = [disc EXCEPT ![p] = NewListing(id)]
           /\ pc' = [pc EXCEPT ![p] = "page"]
  <2>1. PICK id \in ProjectIds : /\ run' = [run EXCEPT ![p].resolved = @ \cup {id}]
                                 /\ disc' = [disc EXCEPT ![p] = NewListing(id)]
    BY <1>5
  <2> DEFINE S == run[p].resolved \cup {id}
  <2>2. run' = [run EXCEPT ![p].resolved = S]
    BY <2>1
  <2> HIDE DEF S
  <2>3. run'[p].plan = run[p].plan /\ run'[p].index = run[p].index
    BY <1>2, <2>2 DEF RunRecord
  <2>4. pc'[p] = "page" /\ disc'[p] = NewListing(id) /\ NewListing(id) \in ListingRecord
    BY <1>2, <1>5, <2>1, NewRunType
  <2>5. disc'[p].page = 1
    BY <2>4 DEF NewListing
  <2>6. PageAllowed(p)'
    BY <2>5, HarvestSizes DEF PageAllowed
  <2>7. /\ Position(pc[p], run[p].index, disc[p]) = <<run[p].index, <<0, 0>>>>
        /\ Position(pc'[p], run'[p].index, disc'[p]) = <<run[p].index, <<1, 0>>>>
    BY <1>1, <2>3, <2>4, <2>5 DEF Position
  <2>8. Ahead(<<run[p].index, <<0, 0>>>>, <<run[p].index, <<1, 0>>>>)
    BY DEF Ahead
  <2>9. <<run[p].index, <<1, 0>>>> \in Positions(run[p].plan)
    BY SMTT(60), <1>1, <1>2, HarvestSizes DEF Positions
  <2>10. pc'[p] \in Discovering /\ run[p].index \in Nat
    BY <1>2, <2>4 DEF Discovering
  <2> QED
    BY <1>2, <2>3, <2>4, <2>6, <2>7, <2>8, <2>9, <2>10, PositionGoesOn
<1> QED
  BY <1>3, <1>4, <1>5 DEF ResolveProject

LEMMA ReadPageLess ==
    ASSUME AllInv, AllInv', NEW p \in Procs, PageAllowed(p), Ranged(p), Ranged(p)', ReadPage(p)
    PROVE  PageAllowed(p)' /\ HarvestLeft(p)' < HarvestLeft(p)
<1>1. pc[p] = "page"
  BY DEF ReadPage
<1>2. /\ pc[p] \in Discovering /\ pc \in [Procs -> PcTypes] /\ run \in [Procs -> RunRecord]
      /\ run[p] \in RunRecord /\ disc \in [Procs -> ListingRecord] /\ disc[p] \in ListingRecord
      /\ run[p].index \in Nat \ {0} /\ Len(run[p].plan) \in Nat /\ run[p].index <= Len(run[p].plan)
  BY <1>1, Alone, InRun, PlanLengths DEF Discovering, RunRecord, RunCounts
<1>3. CASE ProviderFails(p)
  BY <1>2, <1>3, EndListingLess DEF ProviderFails
<1>4. CASE EndListing(p, "invalid", run[p].state)
  BY <1>2, <1>4, EndListingLess
<1>5. ASSUME NEW new, NEW more, disc' = [disc EXCEPT ![p] = [@ EXCEPT !.new = new, !.more = more]],
             pc' = [pc EXCEPT ![p] = "put"], run' = run
      PROVE  PageAllowed(p)' /\ HarvestLeft(p)' < HarvestLeft(p)
  <2> DEFINE i == run[p].index
             g == disc[p].page
             s == 1 + Cardinality(PipelineIds \ disc'[p].new)
  <2>1. pc'[p] = "put" /\ run'[p] = run[p] /\ disc'[p].page = g
    BY <1>2, <1>5 DEF ListingRecord
  <2>2. disc'[p] \in ListingRecord
    BY DEF AllInv, TypeInv, TypeOK
  <2>3. g \in 1..MaxListPages
    BY <1>1 DEF PageAllowed
  <2>4. PageAllowed(p)'
    BY <2>1, <2>3 DEF PageAllowed
  <2>5. s \in 1..(Cardinality(PipelineIds) + 1)
    BY <2>2, PositionFacts, HarvestSizes
  <2>6. /\ Position(pc[p], run[p].index, disc[p]) = <<i, <<g, 0>>>>
        /\ Position(pc'[p], run'[p].index, disc'[p]) = <<i, <<g, s>>>>
    BY <1>1, <2>1 DEF Position
  <2>7. Ahead(<<i, <<g, 0>>>>, <<i, <<g, s>>>>)
    BY <2>5, HarvestSizes DEF Ahead
  <2>8. <<i, <<g, s>>>> \in Positions(run[p].plan)
    <3>1. i \in 1..(Len(run[p].plan) + 1) /\ g \in 0..MaxListPages /\ s \in 0..(Cardinality(PipelineIds) + 1)
      BY <1>2, <2>3, <2>5, HarvestSizes
    <3> HIDE DEF i, g, s
    <3> QED
      BY <3>1 DEF Positions
  <2>9. pc'[p] \in Discovering /\ run[p].index \in Nat
    BY <1>2, <2>1 DEF Discovering
  <2> HIDE DEF i, g, s
  <2> QED
    BY <1>2, <2>1, <2>2, <2>4, <2>6, <2>7, <2>8, <2>9, PositionGoesOn
<1> QED
  BY ZenonT(60), <1>3, <1>4, <1>5 DEF ReadPage

LEMMA PutLess ==
    ASSUME AllInv, AllInv', NEW p \in Procs, PageAllowed(p), Ranged(p), Ranged(p)', PutPipeline(p)
    PROVE  PageAllowed(p)' /\ HarvestLeft(p)' < HarvestLeft(p)
<1>1. pc[p] = "put"
  BY DEF PutPipeline
<1>2. /\ pc[p] \in Discovering /\ pc \in [Procs -> PcTypes]
      /\ run[p] \in RunRecord /\ disc \in [Procs -> ListingRecord] /\ disc[p] \in ListingRecord
      /\ run[p].index \in Nat \ {0} /\ Len(run[p].plan) \in Nat /\ run[p].index <= Len(run[p].plan)
  BY <1>1, Alone, InRun, PlanLengths DEF Discovering, RunRecord, RunCounts
<1>3. PICK id \in disc[p].new :
        \/ /\ \E selected : disc' = [disc EXCEPT ![p] =
                                      [@ EXCEPT !.new = disc[p].new \ {id}, !.selected = selected]]
           /\ UNCHANGED <<pc, run>>
        \/ pc' = [pc EXCEPT ![p] = "final"]
  BY DEF PutPipeline
<1>4. CASE pc' = [pc EXCEPT ![p] = "final"]
  BY <1>1, <1>2, <1>4, LeavesLess
<1>5. CASE /\ \E selected : disc' = [disc EXCEPT ![p] =
                                      [@ EXCEPT !.new = disc[p].new \ {id}, !.selected = selected]]
           /\ UNCHANGED <<pc, run>>
  <2> DEFINE i == run[p].index
             g == disc[p].page
             r == 1 + Cardinality(PipelineIds \ disc[p].new)
             s == 1 + Cardinality(PipelineIds \ disc'[p].new)
             new == disc[p].new \ {id}
  <2>1. PICK selected : disc' = [disc EXCEPT ![p] = [@ EXCEPT !.new = new, !.selected = selected]]
    BY <1>5
  <2>2. disc'[p].page = g /\ disc'[p].new = new
    <3> HIDE DEF new
    <3> QED
      BY <1>2, <2>1 DEF ListingRecord
  <2>3. g \in 1..MaxListPages /\ disc'[p] \in ListingRecord
    BY <1>1 DEF PageAllowed, AllInv, TypeInv, TypeOK
  <2>4. PageAllowed(p)'
    BY <2>2, <2>3 DEF PageAllowed
  <2>5. disc[p].new \subseteq PipelineIds
    BY <1>2 DEF ListingRecord
  <2>6. /\ PipelineIds \ disc[p].new \subseteq PipelineIds \ new
        /\ PipelineIds \ disc[p].new # PipelineIds \ new
    BY <1>3, <2>5
  <2>7. Cardinality(PipelineIds \ disc[p].new) < Cardinality(PipelineIds \ new)
    <3>1. IsFiniteSet(PipelineIds \ new)
      BY HarvestSizes, PartSize
    <3> QED
      BY <2>6, <3>1, SmallerSet
  <2>8. /\ Cardinality(PipelineIds \ disc[p].new) \in 0..Cardinality(PipelineIds)
        /\ Cardinality(PipelineIds \ disc'[p].new) \in 0..Cardinality(PipelineIds)
    BY HarvestSizes, PartSize
  <2>9. /\ r \in Nat /\ s \in Nat /\ r < s /\ s \in 0..(Cardinality(PipelineIds) + 1)
    BY <2>2, <2>7, <2>8, HarvestSizes
  <2>10. /\ Position(pc[p], run[p].index, disc[p]) = <<i, <<g, r>>>>
         /\ Position(pc'[p], run'[p].index, disc'[p]) = <<i, <<g, s>>>>
    BY <1>1, <1>5, <2>2 DEF Position
  <2>11. Ahead(<<i, <<g, r>>>>, <<i, <<g, s>>>>)
    BY <2>9 DEF Ahead
  <2>12. <<i, <<g, s>>>> \in Positions(run[p].plan)
    <3>1. i \in 1..(Len(run[p].plan) + 1)
      BY <1>2
    <3>2. g \in 0..MaxListPages
      <4> HIDE DEF g
      <4> QED
        BY <2>3, HarvestSizes
    <3>3. s \in 0..(Cardinality(PipelineIds) + 1)
      BY <2>9
    <3> HIDE DEF i, g, s
    <3> QED
      BY <3>1, <3>2, <3>3 DEF Positions
  <2>13. pc'[p] \in Discovering /\ run[p].index \in Nat /\ run'[p] = run[p]
    BY <1>2, <1>5
  <2> HIDE DEF i, g, r, s, new
  <2> QED
    BY <1>2, <2>3, <2>4, <2>10, <2>11, <2>12, <2>13, PositionGoesOn
<1> QED
  BY <1>3, <1>4, <1>5

LEMMA FinishPageLess ==
    ASSUME AllInv, AllInv', NEW p \in Procs, PageAllowed(p), Ranged(p), Ranged(p)', FinishPage(p)
    PROVE  PageAllowed(p)' /\ HarvestLeft(p)' < HarvestLeft(p)
<1>1. pc[p] = "put"
  BY DEF FinishPage
<1>2. /\ pc[p] \in Discovering /\ pc \in [Procs -> PcTypes]
      /\ run[p] \in RunRecord /\ disc \in [Procs -> ListingRecord] /\ disc[p] \in ListingRecord
      /\ run[p].index \in Nat \ {0} /\ Len(run[p].plan) \in Nat /\ run[p].index <= Len(run[p].plan)
  BY <1>1, Alone, InRun, PlanLengths DEF Discovering, RunRecord, RunCounts
<1>3. CASE EndListing(p, ListingState(disc[p]), run[p].state)
  BY <1>2, <1>3, EndListingLess
<1>4. CASE /\ NextPage(disc[p])
           /\ \E oldest : disc' = [disc EXCEPT ![p] =
                                    [@ EXCEPT !.page = disc[p].page + 1, !.floor = oldest, !.new = {}]]
           /\ pc' = [pc EXCEPT ![p] = "page"] /\ UNCHANGED run
  <2> DEFINE i == run[p].index
             g == disc[p].page
             next == g + 1
             r == 1 + Cardinality(PipelineIds \ disc[p].new)
  <2>1. PICK oldest : disc' = [disc EXCEPT ![p] =
                                [@ EXCEPT !.page = next, !.floor = oldest, !.new = {}]]
    BY <1>4
  <2>2. disc'[p].page = next /\ pc'[p] = "page"
    <3> HIDE DEF next
    <3> QED
      BY <1>2, <1>4, <2>1 DEF ListingRecord
  <2>3. g \in 1..MaxListPages /\ disc'[p] \in ListingRecord
    BY <1>1 DEF PageAllowed, AllInv, TypeInv, TypeOK
  <2>4. next \in 1..MaxListPages /\ g < next
    BY <1>4, <2>3, HarvestSizes DEF NextPage
  <2>5. PageAllowed(p)'
    BY <2>2, <2>4 DEF PageAllowed
  <2>6. /\ Position(pc[p], run[p].index, disc[p]) = <<i, <<g, r>>>>
        /\ Position(pc'[p], run'[p].index, disc'[p]) = <<i, <<next, 0>>>>
    BY <1>1, <1>4, <2>2 DEF Position
  <2> HIDE DEF r
  <2>7. Ahead(<<i, <<g, r>>>>, <<i, <<next, 0>>>>)
    BY <2>4 DEF Ahead
  <2>8. <<i, <<next, 0>>>> \in Positions(run[p].plan)
    <3>1. /\ i \in 1..(Len(run[p].plan) + 1) /\ next \in 0..MaxListPages
          /\ 0 \in 0..(Cardinality(PipelineIds) + 1)
      BY SMTT(60), <1>2, <2>4, HarvestSizes
    <3> HIDE DEF i, next
    <3> QED
      BY <3>1 DEF Positions
  <2>9. pc'[p] \in Discovering /\ run[p].index \in Nat /\ run'[p] = run[p]
    BY <1>2, <1>4, <2>2 DEF Discovering
  <2> HIDE DEF i, g, next
  <2> QED
    BY <1>2, <2>3, <2>5, <2>6, <2>7, <2>8, <2>9, PositionGoesOn
<1> QED
  BY <1>3, <1>4 DEF FinishPage

\* A step into the collection, or the reevaluation, or one of theirs.
LEMMA MiddleGoesDown ==
    ASSUME NEW p \in Procs, Ranged(p), Ranged(p)', pc'[p] \in {"batch", "gather", "reevaluate"},
           PhasesOf(pc'[p]) <= PhasesOf(pc[p]),
           TurnsOf(pc'[p], Queued(p)') <= TurnsOf(pc[p], Queued(p)),
           \A k \in Keys : TaskLeft(p)'[k] <= TaskLeft(p)[k],
           \/ PhasesOf(pc'[p]) < PhasesOf(pc[p])
           \/ TurnsOf(pc'[p], Queued(p)') < TurnsOf(pc[p], Queued(p))
           \/ \E k \in Keys : TaskLeft(p)'[k] < TaskLeft(p)[k]
    PROVE  PageAllowed(p)' /\ HarvestLeft(p)' < HarvestLeft(p)
<1>1. PagesLeft(p)' = {}
  BY DEF PagesLeft, Early, Entering, Discovering
<1>2. /\ TasksLeft(p)' \subseteq TasksLeft(p)
      /\ (\E k \in Keys : TaskLeft(p)'[k] < TaskLeft(p)[k]) => TasksLeft(p)' # TasksLeft(p)
  <2>1. TaskLeft(p) \in [Keys -> 0..FullTask] /\ TaskLeft(p)' \in [Keys -> 0..FullTask]
    BY DEF Ranged
  <2>2. TasksLeft(p) = Below(TaskLeft(p)) /\ TasksLeft(p)' = Below(TaskLeft(p)')
    BY DEF TasksLeft, Below
  <2> QED
    BY <2>1, <2>2, FewerBelow
<1>3. PageAllowed(p)'
  BY DEF PageAllowed
<1>4. PhasesOf(pc[p])' <= PhasesOf(pc[p]) /\ TurnsOf(pc[p], Queued(p))' <= TurnsOf(pc[p], Queued(p))
  OBVIOUS
<1>5. PagesLeft(p)' \subseteq PagesLeft(p)
  BY <1>1
<1> QED
  BY <1>2, <1>3, <1>4, <1>5, LessLeft

LEMMA OpenReevaluationLess ==
    ASSUME AllInv, NEW p \in Procs, Ranged(p), Ranged(p)', OpenReevaluation(p)
    PROVE  PageAllowed(p)' /\ HarvestLeft(p)' < HarvestLeft(p)
<1>1. pc[p] = "open_reevaluation" /\ pc[p] \in Early
  BY DEF OpenReevaluation, Early, Entering
<1>2. pc'[p] = "reevaluate"
  BY <1>1, Alone DEF OpenReevaluation
<1>3. PhasesOf(pc'[p]) < PhasesOf(pc[p]) /\ PhasesOf(pc'[p]) <= PhasesOf(pc[p])
  BY <1>1, <1>2 DEF PhasesOf, Discovering
<1>4. TurnsOf(pc'[p], Queued(p)') <= TurnsOf(pc[p], Queued(p))
  <2>1. TurnsOf(pc'[p], Queued(p)') = 0
    BY <1>2 DEF TurnsOf, Early, Entering, Discovering
  <2> QED
    BY <1>1, <2>1, EarlyIsFull, HarvestSizes
<1>5. ASSUME NEW k \in Keys PROVE TaskLeft(p)'[k] <= TaskLeft(p)[k]
  <2>1. TaskLeft(p)[k] = FullTask
    BY <1>1, AllTasksLeft
  <2>2. TaskLeft(p)'[k] \in 0..FullTask
    BY DEF Ranged
  <2> QED
    BY <2>1, <2>2
<1> QED
  BY <1>2, <1>3, <1>4, <1>5, MiddleGoesDown

LEMMA PlanCollectionLess ==
    ASSUME AllInv, NEW p \in Procs, Ranged(p), Ranged(p)', PlanCollection(p)
    PROVE  PageAllowed(p)' /\ HarvestLeft(p)' < HarvestLeft(p)
<1>1. pc[p] = "resolve" /\ pc[p] \in Early
  BY DEF PlanCollection, Early, Discovering
<1>2. pc'[p] = "batch"
  BY <1>1, Alone DEF PlanCollection
<1>3. PhasesOf(pc'[p]) < PhasesOf(pc[p]) /\ PhasesOf(pc'[p]) <= PhasesOf(pc[p])
  BY <1>1, <1>2 DEF PhasesOf, Discovering
<1>4. TurnsOf(pc'[p], Queued(p)') <= TurnsOf(pc[p], Queued(p))
  <2>1. TurnsOf(pc'[p], Queued(p)') = 2 * Queued(p)'
    BY <1>2 DEF TurnsOf, Early, Entering, Discovering
  <2>2. Queued(p)' \in 0..Cardinality(Keys)
    BY DEF Ranged
  <2> QED
    BY <1>1, <2>1, <2>2, EarlyIsFull, HarvestSizes
<1>5. ASSUME NEW k \in Keys PROVE TaskLeft(p)'[k] <= TaskLeft(p)[k]
  <2>1. TaskLeft(p)[k] = FullTask
    BY <1>1, AllTasksLeft
  <2>2. TaskLeft(p)'[k] \in 0..FullTask
    BY DEF Ranged
  <2> QED
    BY <2>1, <2>2
<1> QED
  BY <1>2, <1>3, <1>4, <1>5, MiddleGoesDown

\* In the collection a task's place decides what it has to do.
LEMMA InCollection ==
    ASSUME NEW where \in Collecting
    PROVE  /\ \A place, n : TaskOf(where, place, n) = TaskAt(place, n)
           /\ \A n : TurnsOf(where, n) = IF where = "batch" THEN 2 * n ELSE 2 * n + 1
           /\ PhasesOf(where) = 2 /\ where \in {"batch", "gather", "reevaluate"}
<1>1. where \notin Early /\ where # "reevaluate" /\ where \in {"batch", "gather"}
  BY DEF Early, Entering, Discovering, Collecting
<1> QED
  BY <1>1 DEF TaskOf, TurnsOf, PhasesOf, Discovering

LEMMA LaunchBatchLess ==
    ASSUME AllInv, NEW p \in Procs, Ranged(p), Ranged(p)', LaunchBatch(p)
    PROVE  PageAllowed(p)' /\ HarvestLeft(p)' < HarvestLeft(p)
<1>1. pc[p] = "batch" /\ pc[p] # "idle" /\ todo' = todo
  BY DEF LaunchBatch
<1>2. PICK B \in SUBSET Tasks(p, "queued") :
        /\ Cardinality(B) = IF Cardinality(Tasks(p, "queued")) < Concurrency
                            THEN Cardinality(Tasks(p, "queued")) ELSE Concurrency
        /\ at' = [at EXCEPT ![p] = [k \in Keys |-> IF k \in B THEN "start" ELSE at[p][k]]]
  BY DEF LaunchBatch
<1>3. pc'[p] = "gather" /\ TaskTypes
  BY <1>1, Alone DEF LaunchBatch
<1>4. \A k \in Keys : at'[p][k] = IF k \in B THEN "start" ELSE at[p][k]
  BY <1>2, <1>3 DEF TaskTypes
<1>5. IsFiniteSet(Tasks(p, "queued")) /\ Tasks(p, "queued") \subseteq Keys
  <2>1. Tasks(p, "queued") \subseteq Keys
    BY DEF Tasks
  <2> QED
    BY <2>1, HarvestSizes, PartSize
<1>6. B # {}
  <2>1. Tasks(p, "queued") # {}
    BY DEF LaunchBatch
  <2>2. Cardinality(Tasks(p, "queued")) # 0 /\ Concurrency # 0
    BY <1>5, <2>1, FS_EmptySet, BoundAssumption
  <2>3. Cardinality(B) # 0
    BY <1>2, <2>2
  <2> QED
    BY <2>3, FS_EmptySet
<1>7. Queued(p)' < Queued(p) /\ Queued(p)' \in Nat /\ Queued(p) \in Nat
  <2>1. Tasks(p, "queued")' \subseteq Tasks(p, "queued")
    BY <1>4 DEF Tasks
  <2>2. Tasks(p, "queued")' # Tasks(p, "queued")
    BY <1>4, <1>6 DEF Tasks
  <2> QED
    BY <1>5, <2>1, <2>2, SmallerSet DEF Queued
<1>8. /\ PhasesOf(pc'[p]) <= PhasesOf(pc[p])
      /\ TurnsOf(pc'[p], Queued(p)') < TurnsOf(pc[p], Queued(p))
      /\ TurnsOf(pc'[p], Queued(p)') <= TurnsOf(pc[p], Queued(p))
  <2>1. /\ PhasesOf(pc'[p]) = 2 /\ PhasesOf(pc[p]) = 2
        /\ TurnsOf(pc'[p], Queued(p)') = 2 * Queued(p)' + 1
        /\ TurnsOf(pc[p], Queued(p)) = 2 * Queued(p)
    BY <1>1, <1>3, InCollection DEF Collecting
  <2> QED
    BY <1>7, <2>1
<1>9. ASSUME NEW k \in Keys PROVE TaskLeft(p)'[k] <= TaskLeft(p)[k]
  <2>1. /\ TaskLeft(p)[k] = TaskAt(at[p][k], Cardinality(todo[p][k]))
        /\ TaskLeft(p)'[k] = TaskAt(at'[p][k], Cardinality(todo[p][k]))
    BY <1>1, <1>3, InCollection DEF TaskLeft, Collecting
  <2>2. CASE k \in B
    <3>1. at[p][k] = "queued" /\ at'[p][k] = "start"
      BY <1>4, <2>2 DEF Tasks
    <3>2. TaskLeft(p)[k] = FullTask /\ TaskLeft(p)'[k] = FullTask - 1
      BY <2>1, <3>1 DEF TaskAt
    <3> QED
      BY <3>2, HarvestSizes
  <2>3. CASE k \notin B
    <3>1. TaskLeft(p)'[k] = TaskLeft(p)[k]
      BY <1>4, <2>1, <2>3
    <3>2. TaskLeft(p)[k] \in 0..FullTask
      BY DEF Ranged
    <3> QED
      BY <3>1, <3>2
  <2> QED
    BY <2>2, <2>3
<1> QED
  BY <1>3, <1>8, <1>9, MiddleGoesDown

LEMMA EndBatchLess ==
    ASSUME AllInv, NEW p \in Procs, Ranged(p), Ranged(p)', EndBatch(p)
    PROVE  PageAllowed(p)' /\ HarvestLeft(p)' < HarvestLeft(p)
<1>1. pc[p] = "gather" /\ pc[p] # "idle" /\ todo' = todo /\ at' = at
  BY DEF EndBatch, taskVars
<1>2. pc'[p] = "batch"
  BY <1>1, Alone DEF EndBatch
<1>3. Queued(p)' = Queued(p) /\ Queued(p) \in Nat
  BY <1>1, HarvestSizes DEF Queued, Tasks, Ranged
<1>4. /\ PhasesOf(pc'[p]) <= PhasesOf(pc[p])
      /\ TurnsOf(pc'[p], Queued(p)') < TurnsOf(pc[p], Queued(p))
      /\ TurnsOf(pc'[p], Queued(p)') <= TurnsOf(pc[p], Queued(p))
  <2>1. /\ PhasesOf(pc'[p]) = 2 /\ PhasesOf(pc[p]) = 2
        /\ TurnsOf(pc'[p], Queued(p)') = 2 * Queued(p)'
        /\ TurnsOf(pc[p], Queued(p)) = 2 * Queued(p) + 1
    BY <1>1, <1>2, InCollection DEF Collecting
  <2> QED
    BY <1>3, <2>1
<1>5. ASSUME NEW k \in Keys PROVE TaskLeft(p)'[k] <= TaskLeft(p)[k]
  <2>1. TaskLeft(p)'[k] = TaskLeft(p)[k]
    BY <1>1, <1>2, InCollection DEF TaskLeft, Collecting
  <2>2. TaskLeft(p)[k] \in 0..FullTask
    BY DEF Ranged
  <2> QED
    BY <2>1, <2>2
<1> QED
  BY <1>2, <1>4, <1>5, MiddleGoesDown

LEMMA ReclassifyLess ==
    ASSUME AllInv, NEW p \in Procs, Ranged(p), Ranged(p)', Reclassify(p)
    PROVE  PageAllowed(p)' /\ HarvestLeft(p)' < HarvestLeft(p)
<1>1. pc[p] = "reevaluate" /\ pc[p] # "idle" /\ pc' = pc /\ at' = at
  BY DEF Reclassify
<1>2. PICK k \in Keys : \E j \in todo[p][k] : todo' = [todo EXCEPT ![p][k] = @ \ {j}]
  BY DEF Reclassify
<1>3. PICK j \in todo[p][k] : todo' = [todo EXCEPT ![p][k] = @ \ {j}]
  BY <1>2
<1>4. TaskTypes
  BY <1>1, Alone
<1>5. \A l \in Keys : todo'[p][l] = (IF l = k THEN todo[p][k] \ {j} ELSE todo[p][l])
  BY <1>3, <1>4 DEF TaskTypes
<1>6. ASSUME NEW l \in Keys
      PROVE  /\ TaskLeft(p)[l] = Cardinality(todo[p][l])
             /\ TaskLeft(p)'[l] = Cardinality(todo'[p][l])
  BY <1>1 DEF TaskLeft, TaskOf, Early, Entering, Discovering, Collecting
<1>7. TaskLeft(p)'[k] < TaskLeft(p)[k]
  <2>1. todo[p][k] \in SUBSET JobIds
    BY <1>4 DEF TaskTypes
  <2>2. /\ Cardinality(todo[p][k]) \in 0..Cardinality(JobIds)
        /\ Cardinality(todo[p][k] \ {j}) = Cardinality(todo[p][k]) - 1
    BY <2>1, Fetches
  <2> QED
    BY <1>5, <1>6, <2>2, HarvestSizes
<1>8. ASSUME NEW l \in Keys PROVE TaskLeft(p)'[l] <= TaskLeft(p)[l]
  <2>1. CASE l = k
    <3>1. TaskLeft(p)[k] \in 0..FullTask /\ TaskLeft(p)'[k] \in 0..FullTask
      BY DEF Ranged
    <3> QED
      BY <1>7, <2>1, <3>1
  <2>2. CASE l # k
    <3>1. TaskLeft(p)'[l] = TaskLeft(p)[l]
      BY <1>5, <1>6, <2>2
    <3>2. TaskLeft(p)[l] \in 0..FullTask
      BY DEF Ranged
    <3> QED
      BY <3>1, <3>2
  <2> QED
    BY <2>1, <2>2
<1>9. /\ PhasesOf(pc'[p]) <= PhasesOf(pc[p])
      /\ TurnsOf(pc'[p], Queued(p)') <= TurnsOf(pc[p], Queued(p))
  <2>1. PhasesOf(pc[p]) = 2 /\ \A n : TurnsOf(pc[p], n) = 0
    BY <1>1 DEF PhasesOf, TurnsOf, Early, Entering, Discovering
  <2> QED
    BY <1>1, <2>1
<1> QED
  BY <1>1, <1>7, <1>8, <1>9, MiddleGoesDown

\* A step of the main coroutine or a fault that ends the run, or leads to its report.
LEMMA LeavingSteps ==
    ASSUME AllInv, NEW p \in Procs, Ranged(p), Ranged(p)',
           \/ OpenRefused(p) \/ CancelBatch(p) \/ EndCollection(p) \/ Finish(p)
           \/ EndReevaluation(p)
           \/ CommitFails(p) \/ LastCommitFails(p) \/ Interrupt(p) \/ Crash(p)
    PROVE  PageAllowed(p)' /\ HarvestLeft(p)' < HarvestLeft(p)
<1>1. /\ pc[p] # "idle"
      /\ \/ pc' = [pc EXCEPT ![p] = "idle"]
         \/ pc[p] # "final" /\ pc' = [pc EXCEPT ![p] = "final"]
  BY DEF OpenRefused, CancelBatch, EndCollection, Finish, EndReevaluation, CommitFails,
         LastCommitFails, Interrupt, Crash, Release
<1>2. pc \in [Procs -> PcTypes]
  BY <1>1, Alone
<1> QED
  BY <1>1, <1>2, LeavesLess

LEMMA MainStepLess ==
    ASSUME AllInv, AllInv', NEW p \in Procs, PageAllowed(p), Ranged(p), Ranged(p)', MainStep(p)
    PROVE  PageAllowed(p)' /\ HarvestLeft(p)' < HarvestLeft(p)
<1>1. CASE OpenHarvest(p) \/ Begin(p)
  BY <1>1, EntersLess
<1>2. CASE OpenReevaluation(p) \/ PlanCollection(p) \/ LaunchBatch(p) \/ EndBatch(p) \/ Reclassify(p)
  BY <1>2, OpenReevaluationLess, PlanCollectionLess, LaunchBatchLess, EndBatchLess, ReclassifyLess
<1>3. CASE ResolveProject(p) \/ ReadPage(p) \/ PutPipeline(p) \/ FinishPage(p)
  BY <1>3, ResolveLess, ReadPageLess, PutLess, FinishPageLess
<1>4. CASE OpenRefused(p) \/ CancelBatch(p) \/ EndCollection(p) \/ Finish(p) \/ EndReevaluation(p)
  BY <1>4, LeavingSteps
<1> QED
  BY <1>1, <1>2, <1>3, <1>4 DEF MainStep

\* A task that goes on has less to do, the others as much.
LEMMA TaskGoesDown ==
    ASSUME AllInv, NEW p \in Procs, NEW k \in Keys, Ranged(p), Ranged(p)', pc' = pc,
           at[p][k] \notin {"off", "queued"}, at'[p][k] # "queued",
           \A l \in Keys : l # k => at'[p][l] = at[p][l] /\ todo'[p][l] = todo[p][l],
           TaskAt(at'[p][k], Cardinality(todo'[p][k])) < TaskAt(at[p][k], Cardinality(todo[p][k]))
    PROVE  PageAllowed(p)' /\ HarvestLeft(p)' < HarvestLeft(p)
<1>1. pc[p] \in Collecting
  BY DEF AllInv, StoreInv, TaskAgrees, Collecting
<1>2. Queued(p)' = Queued(p)
  <2>1. Tasks(p, "queued")' = Tasks(p, "queued")
    BY DEF Tasks
  <2> QED
    BY <2>1 DEF Queued
<1>3. ASSUME NEW l \in Keys
      PROVE  /\ TaskLeft(p)[l] = TaskAt(at[p][l], Cardinality(todo[p][l]))
             /\ TaskLeft(p)'[l] = TaskAt(at'[p][l], Cardinality(todo'[p][l]))
  BY <1>1, InCollection DEF TaskLeft
<1>4. TaskLeft(p)'[k] < TaskLeft(p)[k]
  BY <1>3
<1>5. ASSUME NEW l \in Keys PROVE TaskLeft(p)'[l] <= TaskLeft(p)[l]
  <2>1. TaskLeft(p)[l] \in 0..FullTask /\ TaskLeft(p)'[l] \in 0..FullTask
    BY DEF Ranged
  <2>2. CASE l = k
    BY <1>4, <2>1, <2>2
  <2>3. CASE l # k
    BY <1>3, <2>1, <2>3
  <2> QED
    BY <2>2, <2>3
<1>6. /\ PhasesOf(pc'[p]) <= PhasesOf(pc[p])
      /\ TurnsOf(pc'[p], Queued(p)') <= TurnsOf(pc[p], Queued(p))
      /\ pc'[p] \in {"batch", "gather", "reevaluate"}
  <2>1. PhasesOf(pc[p]) = 2 /\ pc[p] \in {"batch", "gather", "reevaluate"}
    BY <1>1, InCollection
  <2>2. TurnsOf(pc[p], Queued(p)) \in 0..(2 * Cardinality(Keys) + 1)
    BY DEF Ranged
  <2> QED
    BY <1>2, <2>1, <2>2, HarvestSizes
<1> QED
  BY <1>4, <1>5, <1>6, MiddleGoesDown

\* The places of a task, in the order in which it comes to them.
LEMMA PlacesInOrder ==
    ASSUME NEW n \in 0..Cardinality(JobIds)
    PROVE  /\ TaskAt("off", n) = 0 /\ TaskAt("start", n) = FullTask - 1
           /\ TaskAt("list", n) = FullTask - 2 /\ TaskAt("listed", n) = FullTask - 3
           /\ TaskAt("jobs", n) = 3 * n + 1 /\ TaskAt("trace", n) = 3 * n + 3
           /\ TaskAt("traced", n) = 3 * n + 2 /\ 3 * n + 1 <= FullTask - 4
<1>1. Cardinality(JobIds) \in Nat
  BY HarvestSizes
<1>2. /\ TaskAt("off", n) = 0 /\ TaskAt("start", n) = FullTask - 1
      /\ TaskAt("list", n) = FullTask - 2 /\ TaskAt("listed", n) = FullTask - 3
      /\ TaskAt("jobs", n) = 3 * n + 1 /\ TaskAt("trace", n) = 3 * n + 3
      /\ TaskAt("traced", n) = 3 * n + 2
  BY DEF TaskAt
<1>3. 3 * n + 1 <= FullTask - 4
  BY <1>1 DEF FullTask
<1> QED
  BY <1>2, <1>3

\* What a step of a task starts from.
LEMMA TaskFacts ==
    ASSUME AllInv, AllInv', NEW p \in Procs, NEW k \in Keys
    PROVE  /\ at \in [Procs -> [Keys -> {"off", "queued", "start", "list", "listed", "jobs", "trace",
                                         "traced"}]]
           /\ todo \in [Procs -> [Keys -> SUBSET JobIds]]
           /\ todo[p][k] \in SUBSET JobIds
           /\ Cardinality(todo[p][k]) \in 0..Cardinality(JobIds)
           /\ Cardinality(todo'[p][k]) \in 0..Cardinality(JobIds)
<1>1. TaskTypes /\ TaskTypes'
  BY DEF AllInv, TypeInv, TypeOK, TaskTypes
<1>2. todo[p][k] \in SUBSET JobIds /\ todo'[p][k] \in SUBSET JobIds
  BY <1>1 DEF TaskTypes
<1> QED
  BY <1>1, <1>2, Fetches DEF TaskTypes

LEMMA ReturnLess ==
    ASSUME AllInv, AllInv', NEW p \in Procs, NEW k \in Keys, Ranged(p), Ranged(p)', pc' = pc,
           at[p][k] \notin {"off", "queued"}, Return(p, k)
    PROVE  PageAllowed(p)' /\ HarvestLeft(p)' < HarvestLeft(p)
<1> USE TaskFacts
<1>1. /\ at'[p][k] = "off"
      /\ \A l \in Keys : l # k => at'[p][l] = at[p][l] /\ todo'[p][l] = todo[p][l]
  BY DEF Return
<1>2. TaskAt(at'[p][k], Cardinality(todo'[p][k])) < TaskAt(at[p][k], Cardinality(todo[p][k]))
  <2> DEFINE n == Cardinality(todo[p][k])
  <2>1. n \in 0..Cardinality(JobIds) /\ FullTask \in Nat /\ Cardinality(JobIds) \in Nat
    BY HarvestSizes
  <2>2. TaskAt(at'[p][k], Cardinality(todo'[p][k])) = 0
    BY <1>1, PlacesInOrder
  <2>3. at[p][k] \in {"start", "list", "listed", "jobs", "trace", "traced"}
    OBVIOUS
  <2>4. TaskAt(at[p][k], n) > 0
    BY <2>1, <2>3, PlacesInOrder
  <2> QED
    BY <2>2, <2>4
<1> QED
  BY <1>1, <1>2, TaskGoesDown

\* A task goes from one place to a later one.
LEMMA PlaceLess ==
    ASSUME AllInv, AllInv', NEW p \in Procs, NEW k \in Keys, Ranged(p), Ranged(p)', pc' = pc,
           NEW where, NEW T, at' = [at EXCEPT ![p][k] = where], todo' = [todo EXCEPT ![p][k] = T],
           \/ at[p][k] = "start" /\ where \in {"list", "listed", "jobs"}
           \/ at[p][k] = "list" /\ where = "listed"
           \/ at[p][k] = "listed" /\ where = "jobs"
           \/ at[p][k] = "jobs" /\ where \in {"trace", "traced"} /\ \E j \in todo[p][k] : T = todo[p][k] \ {j}
           \/ at[p][k] = "trace" /\ where = "traced" /\ T = todo[p][k]
           \/ at[p][k] = "traced" /\ where = "jobs" /\ T = todo[p][k]
    PROVE  PageAllowed(p)' /\ HarvestLeft(p)' < HarvestLeft(p)
<1> USE TaskFacts
<1>1. /\ at'[p][k] = where /\ todo'[p][k] = T
      /\ \A l \in Keys : l # k => at'[p][l] = at[p][l] /\ todo'[p][l] = todo[p][l]
  OBVIOUS
<1> DEFINE n == Cardinality(todo[p][k])
           m == Cardinality(T)
<1>2. n \in 0..Cardinality(JobIds) /\ m \in 0..Cardinality(JobIds) /\ FullTask \in Nat
      /\ Cardinality(JobIds) \in Nat
  <2>1. Cardinality(todo'[p][k]) \in 0..Cardinality(JobIds)
    OBVIOUS
  <2> QED
    BY <1>1, <2>1, HarvestSizes
<1>3. \A j \in todo[p][k] : Cardinality(todo[p][k] \ {j}) = n - 1
  BY Fetches
<1>4. TaskAt(where, m) < TaskAt(at[p][k], n)
  <2>1. CASE at[p][k] = "start" /\ where \in {"list", "listed", "jobs"}
    BY <1>2, <2>1, PlacesInOrder
  <2>2. CASE at[p][k] = "list" /\ where = "listed"
    BY <1>2, <2>2, PlacesInOrder
  <2>3. CASE at[p][k] = "listed" /\ where = "jobs"
    BY <1>2, <2>3, PlacesInOrder
  <2>4. CASE /\ at[p][k] = "jobs" /\ where \in {"trace", "traced"}
             /\ \E j \in todo[p][k] : T = todo[p][k] \ {j}
    <3>1. m = n - 1
      BY <1>3, <2>4
    <3> QED
      BY <1>2, <2>4, <3>1, PlacesInOrder
  <2>5. CASE at[p][k] = "trace" /\ where = "traced" /\ T = todo[p][k]
    BY <1>2, <2>5, PlacesInOrder
  <2>6. CASE at[p][k] = "traced" /\ where = "jobs" /\ T = todo[p][k]
    BY <1>2, <2>6, PlacesInOrder
  <2> QED
    BY <2>1, <2>2, <2>3, <2>4, <2>5, <2>6
<1>5. at[p][k] \notin {"off", "queued"} /\ at'[p][k] # "queued"
  BY <1>1
<1>6. TaskAt(at'[p][k], Cardinality(todo'[p][k])) < TaskAt(at[p][k], Cardinality(todo[p][k]))
  BY <1>1, <1>4
<1> QED
  BY <1>1, <1>5, <1>6, TaskGoesDown

LEMMA CollectStepLess ==
    ASSUME AllInv, AllInv', NEW p \in Procs, NEW k \in Keys, Ranged(p), Ranged(p)', CollectStep(p, k)
    PROVE  PageAllowed(p)' /\ HarvestLeft(p)' < HarvestLeft(p)
<1>0. pc' = pc /\ at[p][k] \notin {"off", "queued"}
  BY DEF CollectStep, StartTask, NextJobPage, StopTask, JobsUnreadable, JobsListed, LeaveJobs,
         FetchTrace, RecordTrace, FinishPipeline
<1>a. ASSUME Return(p, k) PROVE PageAllowed(p)' /\ HarvestLeft(p)' < HarvestLeft(p)
  BY <1>0, <1>a, ReturnLess
<1>b. todo \in [Procs -> [Keys -> SUBSET JobIds]]
  BY TaskFacts
<1>c. UNCHANGED todo => todo' = [todo EXCEPT ![p][k] = todo[p][k]]
  BY <1>b
<1>1. CASE StartTask(p, k)
  <2>1. CASE Send(p, k, "list", "listed") /\ UNCHANGED todo
    <3>1. PICK where \in {"list", "listed"} : at' = [at EXCEPT ![p][k] = where]
      BY <2>1 DEF Send
    <3>2. at[p][k] = "start"
      BY <1>1 DEF StartTask
    <3> QED
      BY <1>0, <1>c, <2>1, <3>1, <3>2, PlaceLess
  <2>2. CASE at' = [at EXCEPT ![p][k] = "jobs"] /\ todo' = [todo EXCEPT ![p][k] = Pending(k)]
    <3>1. at[p][k] = "start"
      BY <1>1 DEF StartTask
    <3> QED
      BY <1>0, <2>2, <3>1, PlaceLess
  <2> QED
    BY <1>1, <1>a, <2>1, <2>2 DEF StartTask
<1>2. CASE NextJobPage(p, k)
  <2>1. at[p][k] = "list" /\ at' = [at EXCEPT ![p][k] = "listed"] /\ UNCHANGED todo
    BY <1>2 DEF NextJobPage, Send
  <2> QED
    BY <1>0, <1>c, <2>1, PlaceLess
<1>3. CASE StopTask(p, k) \/ JobsUnreadable(p, k) \/ LeaveJobs(p, k) \/ FinishPipeline(p, k)
  BY <1>3, <1>a DEF StopTask, JobsUnreadable, LeaveJobs, FinishPipeline
<1>4. CASE JobsListed(p, k)
  <2>1. /\ at[p][k] = "listed" /\ at' = [at EXCEPT ![p][k] = "jobs"]
        /\ todo' = [todo EXCEPT ![p][k] = ans[p][k].jobs]
    BY <1>4 DEF JobsListed
  <2> QED
    BY <1>0, <2>1, PlaceLess
<1>5. CASE FetchTrace(p, k)
  <2>1. PICK j \in todo[p][k] : todo' = [todo EXCEPT ![p][k] = @ \ {j}]
    BY <1>5 DEF FetchTrace
  <2>2. PICK where \in {"trace", "traced"} : at' = [at EXCEPT ![p][k] = where]
    BY <1>5 DEF FetchTrace, Send
  <2>3. at[p][k] = "jobs" /\ todo' = [todo EXCEPT ![p][k] = todo[p][k] \ {j}]
    BY <1>5, <1>b, <2>1 DEF FetchTrace
  <2> QED
    BY <1>0, <2>2, <2>3, PlaceLess
<1>6. CASE RecordTrace(p, k)
  <2>1. at[p][k] = "traced" /\ at' = [at EXCEPT ![p][k] = "jobs"] /\ UNCHANGED todo
    BY <1>6 DEF RecordTrace
  <2> QED
    BY <1>0, <1>c, <2>1, PlaceLess
<1> QED
  BY <1>1, <1>2, <1>3, <1>4, <1>5, <1>6 DEF CollectStep

LEMMA ServerStepLess ==
    ASSUME AllInv, AllInv', NEW p \in Procs, NEW k \in Keys, Ranged(p), Ranged(p)', ServerStep(p, k)
    PROVE  PageAllowed(p)' /\ HarvestLeft(p)' < HarvestLeft(p)
<1>1. /\ pc' = pc /\ UNCHANGED todo
      /\ \/ at[p][k] = "list" /\ at' = [at EXCEPT ![p][k] = "listed"]
         \/ at[p][k] = "trace" /\ at' = [at EXCEPT ![p][k] = "traced"]
  BY DEF ServerStep, AnswerJobs, AnswerTrace, Answered
<1>2. todo' = [todo EXCEPT ![p][k] = todo[p][k]]
  BY <1>1, TaskFacts
<1>3. CASE at[p][k] = "list" /\ at' = [at EXCEPT ![p][k] = "listed"]
  BY <1>1, <1>2, <1>3, PlaceLess
<1>4. CASE at[p][k] = "trace" /\ at' = [at EXCEPT ![p][k] = "traced"]
  BY <1>1, <1>2, <1>4, PlaceLess
<1> QED
  BY <1>1, <1>3, <1>4

LEMMA FaultsLess ==
    ASSUME AllInv, AllInv', NEW p \in Procs, Ranged(p), Ranged(p)', Faults(p)
    PROVE  PageAllowed(p)' /\ HarvestLeft(p)' < HarvestLeft(p)
<1>1. ASSUME NEW k \in Keys, TaskCommitFails(p, k)
      PROVE  PageAllowed(p)' /\ HarvestLeft(p)' < HarvestLeft(p)
  <2>1. pc' = pc /\ at[p][k] \notin {"off", "queued"} /\ Return(p, k)
    BY <1>1 DEF TaskCommitFails
  <2> QED
    BY <2>1, ReturnLess
<1> QED
  BY <1>1, LeavingSteps DEF Faults

\* Only the process that has the lease goes on, and until it gives it up no other has it.
LEMMA OnlyTheHolder ==
    ASSUME AllInv, AllInv', NEW p \in Procs,
           MainStep(p) \/ Faults(p) \/ (\E k \in Keys : CollectStep(p, k) \/ ServerStep(p, k))
    PROVE  lease = p /\ \A q \in Procs : q # p => pc'[q] = "idle"
<1>1. pc[p] # "idle"
  <2>1. CASE MainStep(p)
    BY <2>1 DEF MainStep, OpenHarvest, OpenReevaluation, OpenRefused, Begin, ResolveProject, ReadPage,
         PutPipeline, FinishPage, PlanCollection, LaunchBatch, EndBatch, CancelBatch, EndCollection,
         Finish, Reclassify, EndReevaluation
  <2>2. ASSUME NEW k \in Keys, at[p][k] # "off" PROVE pc[p] # "idle"
    BY <2>2 DEF AllInv, StoreInv, TaskAgrees
  <2>3. CASE \E k \in Keys : CollectStep(p, k) \/ ServerStep(p, k)
    <3>1. PICK k \in Keys : CollectStep(p, k) \/ ServerStep(p, k)
      BY SMTT(60), <2>3
    <3>2. at[p][k] # "off"
      BY <3>1 DEF CollectStep, StartTask, NextJobPage, StopTask, JobsUnreadable, JobsListed,
           LeaveJobs, FetchTrace, RecordTrace, FinishPipeline, ServerStep, AnswerJobs, AnswerTrace
    <3> QED
      BY <2>2, <3>2
  <2>4. CASE Faults(p)
    <3>1. ASSUME NEW k \in Keys, TaskCommitFails(p, k) PROVE pc[p] # "idle"
      <4>1. at[p][k] # "off"
        BY <3>1 DEF TaskCommitFails
      <4> QED
        BY <2>2, <4>1
    <3> QED
      BY <2>4, <3>1 DEF Faults, CommitFails, LastCommitFails, Interrupt, Crash
  <2> QED
    BY SMTT(60), <2>1, <2>3, <2>4
<1>2. lease = p
  BY <1>1, Alone
<1>3. lease' = lease \/ lease' = NoOne
  <2>1. CASE MainStep(p)
    BY ZenonT(60), <1>2, <2>1 DEF MainStep, OpenHarvest, OpenReevaluation, OpenRefused, Begin, ResolveProject,
         ReadPage, PutPipeline, FinishPage, PlanCollection, LaunchBatch, EndBatch, CancelBatch,
         EndCollection, Finish, Reclassify, EndReevaluation, Release
  <2>2. CASE \E k \in Keys : CollectStep(p, k) \/ ServerStep(p, k)
    BY ZenonT(60), <2>2 DEF CollectStep, StartTask, NextJobPage, StopTask, JobsUnreadable, JobsListed,
         LeaveJobs, FetchTrace, RecordTrace, FinishPipeline, ServerStep, AnswerJobs, AnswerTrace,
         Answered
  <2>3. CASE Faults(p)
    BY <1>2, <2>3 DEF Faults, TaskCommitFails, CommitFails, LastCommitFails, Interrupt, Crash, Release
  <2> QED
    BY SMTT(60), <2>1, <2>2, <2>3
<1>4. \A q \in Procs : pc'[q] # "idle" => lease' = q
  BY DEF AllInv, StoreInv, Exclusive
<1>5. NoOne \notin Procs
  BY IdAssumption
<1> QED
  BY <1>2, <1>3, <1>4, <1>5

LEMMA NextLess ==
    ASSUME AllInv, AllInv', PagesInv, [Next]_vars, \A q \in Procs : Ranged(q) /\ Ranged(q)'
    PROVE  PagesInv' /\ [\A q \in Procs : lease = q => HarvestLeft(q)' < HarvestLeft(q)]_vars
<1>1. ASSUME NEW p \in Procs,
             MainStep(p) \/ Faults(p) \/ (\E k \in Keys : CollectStep(p, k) \/ ServerStep(p, k))
      PROVE  PagesInv' /\ \A q \in Procs : lease = q => HarvestLeft(q)' < HarvestLeft(q)
  <2>1. PageAllowed(p) /\ Ranged(p) /\ Ranged(p)'
    BY DEF PagesInv
  <2>2. PageAllowed(p)' /\ HarvestLeft(p)' < HarvestLeft(p)
    BY <1>1, <2>1, MainStepLess, FaultsLess, CollectStepLess, ServerStepLess
  <2>3. lease = p /\ \A q \in Procs : q # p => pc'[q] = "idle"
    BY <1>1, OnlyTheHolder
  <2>4. \A q \in Procs : PageAllowed(q)'
    BY <2>2, <2>3 DEF PageAllowed
  <2> QED
    BY <2>2, <2>3, <2>4 DEF PagesInv
<1>2. ASSUME NEW p \in Procs, NEW mode \in {"open_harvest", "open_reevaluation"}, Acquire(p, mode)
      PROVE  PagesInv' /\ \A q \in Procs : lease # q
  <2>1. /\ lease = NoOne /\ disc' = disc /\ pc' = [pc EXCEPT ![p] = mode]
    BY <1>2 DEF Acquire, LeaseFree
  <2>2. pc \in [Procs -> PcTypes]
    BY DEF AllInv, TypeInv, TypeOK, PcTypes
  <2>3. \A q \in Procs : PageAllowed(q)'
    BY <2>1, <2>2 DEF PagesInv, PageAllowed
  <2>4. \A q \in Procs : lease # q
    BY <2>1, IdAssumption
  <2> QED
    BY <2>3, <2>4 DEF PagesInv
<1>3. ASSUME UNCHANGED vars PROVE PagesInv'
  BY <1>3 DEF vars, PagesInv, PageAllowed
<1> QED
  BY <1>1, <1>2, <1>3 DEF Next

\* Every step of the process that has the lease leaves it less to do, whatever is answered
\* or fails: a run takes at most so many steps as the paths it was asked for and the limits
\* of pages, pipelines and jobs allow (pipeline_corpus.py, _Harvest.run and
\* reevaluate_corpus). So no listing is read for ever and no batch launched again and again.
THEOREM HarvestWindsDown ==
    Spec => /\ [](\A p \in Procs : HarvestLeft(p) \in 0..HarvestBound(run[p].plan))
            /\ [][\A p \in Procs : lease = p => HarvestLeft(p)' < HarvestLeft(p)]_vars
<1> DEFINE Parts == \A p \in Procs : Ranged(p)
<1>1. AllInv => Parts
  BY LeftRanged DEF AllInv, TypeInv
<1>2. Parts => \A p \in Procs : HarvestLeft(p) \in 0..HarvestBound(run[p].plan)
  BY HarvestLeftRange
<1>3. Init => PagesInv
  BY DEF Init, PagesInv, PageAllowed
<1>4. AllInv /\ AllInv' /\ Parts /\ Parts' /\ PagesInv /\ [Next]_vars =>
        PagesInv' /\ [\A p \in Procs : lease = p => HarvestLeft(p)' < HarvestLeft(p)]_vars
  BY NextLess
<1>5. TypeInv /\ TaskInv /\ StoreInv /\ FinishInv /\ [Next]_vars => FinishInv'
  BY NextFinish DEF AllInv
<1>6. TypeInv /\ TaskInv /\ StoreInv /\ FinishInv <=> AllInv
  BY DEF AllInv
<1> HIDE DEF Parts
<1>7. Spec => []AllInv
  BY <1>5, <1>6, InitFinish, TypesAndTasks, StoreInvariant, PTL DEF Spec
<1> QED
  BY <1>1, <1>2, <1>3, <1>4, <1>7, PTL DEF Spec

==============================================================================

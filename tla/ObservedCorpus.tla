--------------------------- MODULE ObservedCorpus ---------------------------
(***************************************************************************)
(* What the failure corpus promises its readers, without processes, tasks  *)
(* or faults: a pipeline is seen, its failed jobs are sampled once, each   *)
(* sample is observed once, the pipeline is closed when nothing of it is   *)
(* outstanding, and nothing of this is ever taken back.                    *)
(* (pipeline_corpus.py: "SQLite transactions checkpoint every selected     *)
(* pipeline and every sampled job. Resuming ... reuses completed jobs.")   *)
(***************************************************************************)
EXTENDS Naturals, FiniteSets

CONSTANTS Pipelines, Jobs

VARIABLES
    seen,    \* pipelines with a record
    sample,  \* pipeline -> job -> "none", "pending" or "observed"
    closed   \* pipelines no run will look at again

cvars == <<seen, sample, closed>>

SampledOf(k) == {j \in Jobs : sample[k][j] # "none"}
Outstanding(k) == {j \in Jobs : sample[k][j] = "pending"}

CorpusInit ==
    /\ seen = {}
    /\ sample = [k \in Pipelines |-> [j \in Jobs |-> "none"]]
    /\ closed = {}

See(k) ==
    /\ k \notin seen
    /\ seen' = seen \cup {k}
    /\ UNCHANGED <<sample, closed>>

\* The job list of a pipeline is read: its samples are fixed, for good.
Enumerate(k, S) ==
    /\ k \in seen \ closed
    /\ SampledOf(k) = {}
    /\ Cardinality(S) <= 2
    /\ sample' = [sample EXCEPT ![k] = [j \in Jobs |-> IF j \in S THEN "pending" ELSE @[j]]]
    /\ closed' = IF S = {} THEN closed \cup {k} ELSE closed
    /\ UNCHANGED seen

Observe(k, j) ==
    /\ sample[k][j] = "pending"
    /\ sample' = [sample EXCEPT ![k][j] = "observed"]
    /\ UNCHANGED <<seen, closed>>

Close(k) ==
    /\ k \in seen \ closed
    /\ Outstanding(k) = {}
    /\ closed' = closed \cup {k}
    /\ UNCHANGED <<seen, sample>>

CorpusNext == \E k \in Pipelines :
    \/ See(k)
    \/ \E S \in SUBSET Jobs : Enumerate(k, S)
    \/ \E j \in Jobs : Observe(k, j)
    \/ Close(k)

CorpusSpec == CorpusInit /\ [][CorpusNext]_cvars

=============================================================================

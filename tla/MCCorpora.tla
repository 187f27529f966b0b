------------------------------- MODULE MCCorpora -------------------------------
(* The two SQLite stores that several commands may use at once.  They share  *)
(* no file and no process, so a behaviour is one of either store.            *)
EXTENDS PublicCorpus, DatasetCorpus, TLC

CONSTANTS p1, p2, r1, r2, j1, s1, s2, t1, t2

VARIABLE store

CorporaInit == /\ store \in {"public", "dataset"}
               /\ PublicInit /\ DatasetInit

CorporaNext == \/ store = "public" /\ PublicNext /\ UNCHANGED <<store, datasetVars>>
               \/ store = "dataset" /\ DatasetNext /\ UNCHANGED <<store, publicVars>>

CorporaSpec == CorporaInit /\ [][CorporaNext]_<<store, publicVars, datasetVars>>

ProcessesAlike == Permutations({p1, p2})

GivenPlans == {{r1}}
NamedWorkflows == [run \in RunIds |-> IF run = 1 THEN "id" ELSE "neither"]
Configs == { [state |-> "captured", truncated |-> FALSE, exact |-> TRUE],
             [state |-> "captured", truncated |-> TRUE, exact |-> FALSE] }

\* Nothing yet; a store of the first version; one that has room for one run more.
LegacyRow == [jobState |-> "captured", job |-> j1, log |-> "captured", class |-> "unknown",
              config |-> "captured", truncated |-> FALSE, exact |-> FALSE,
              modified |-> "unrecorded"]
Files == { [schema |-> "absent", rows |-> <<>>],
           [schema |-> "v1", rows |-> <<r1, 1>> :> LegacyRow],
           [schema |-> "v2", rows |-> <<r2, 1>> :> [LegacyRow EXCEPT !.modified = "yes"]] }

Csvs == [s \in Sources |-> IF s = s1 THEN <<t1, Blank, t1, t2, t2>> ELSE <<t1, t2>>]
=============================================================================

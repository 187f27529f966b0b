------------------------------ MODULE Remediation ------------------------------
(*****************************************************************************)
(* Review-only proposals for the findings of an inspection (services/        *)
(* repair_context.py enrich_remediations and services/remediation.py): the   *)
(* candidate files of the first findings, the best-ranked of each, are read  *)
(* at the commit of its job's pipeline, each once, two at a time; a diff is  *)
(* proposed for an exact source only.                                        *)
(*                                                                           *)
(* The text of a file is named by its repository, ref and path, or is        *)
(* "scrubbed" when redaction changed it. What the three patch rules edit     *)
(* inside a text is left out: a file either has the wrong value or has not.  *)
(*****************************************************************************)
EXTENDS Naturals, FiniteSets, Selection, SequencesExt

CONSTANTS
    RepairPaths,       \* paths, in the pipeline's repository and in a child's
    PathOrder,         \* all of them, sorted
    DataConfigs,       \* asfdx-project*.json, read in the original too
    Manifests,         \* destructiveChanges*.xml
    Scripts, Yamls,    \* files with the suffix of a script or of YAML, and those of YAML
    Sharp,             \* *.cs
    Wrong,             \* files in which the rule finds something to edit
    Secrets,           \* file -> "none", or where redaction would change it: "away", "hunk",
                       \* or only in what an edit makes of it: "diff"
    RepairResults,     \* results of inspections: [findings, changed, known, bundle, childBundle]
    MaxResults,        \* _MAX_RESULTS: candidates of a finding, sources of a plan
    MaxRemediations, MaxCandidateReads, MaxConcurrentReads

\* A finding: [rule, repository, cited]. The repository is that of its job's snapshot: "root",
\* "child", or "none" if the job was not analysed or its run names no full commit. The
\* cited files are those that _verified_file_paths takes from its evidence.
Text(repository, ref, path) == <<repository, ref, path>>
Scrubbed(path) == <<"scrubbed", path>>

Source(repository, ref, path, text) ==
    [repository |-> repository, ref |-> ref, path |-> path, text |-> text,
     modified |-> text = Scrubbed(path)]

\* What a bundle does not mark as redacted is the text that was read.
ASSUME RemediationAssumption ==
    /\ IsFiniteSet(RepairPaths) /\ PathOrder \in Seq(RepairPaths)
    /\ \A path \in RepairPaths : \E k \in DOMAIN PathOrder : PathOrder[k] = path
    /\ DataConfigs \cup Manifests \cup Scripts \cup Sharp \cup Wrong \subseteq RepairPaths
    /\ Yamls \subseteq Scripts /\ DataConfigs \cap Scripts = {}
    /\ Secrets \in [RepairPaths -> {"none", "away", "hunk", "diff"}]
    /\ MaxResults \in Nat
    /\ MaxRemediations \in Nat /\ MaxCandidateReads \in Nat /\ MaxConcurrentReads \in Nat \ {0}
    /\ \A read \in RepairResults :
         /\ read.findings \in Seq([rule : STRING, repository : STRING, cited : SUBSET RepairPaths])
         /\ read.changed \subseteq RepairPaths /\ read.known \subseteq RepairPaths
         /\ \A s \in read.bundle \cup read.childBundle :
              s.modified \/ s.text = Text(s.repository, s.ref, s.path)

VARIABLES
    result,    \* the inspection's result, not changed
    repair     \* the reads and the plans of enrich_remediations

repairVars == <<result, repair>>

NotRepairing == [pc |-> "off", keys |-> <<>>, limited |-> {}, waiting |-> {}, reading |-> {},
                 sources |-> {}, originals |-> {}, failures |-> {}, plans |-> <<>>]

RemediationInit ==
    /\ result \in RepairResults
    /\ repair = [NotRepairing EXCEPT !.pc = "plan"]

Findings == SubSeq(result.findings, 1,
              IF Len(result.findings) < MaxRemediations THEN Len(result.findings) ELSE MaxRemediations)

-----------------------------------------------------------------------------
\* The changes and the inventory of the root are nothing to a child's job.
Changed(finding) == IF finding.repository = "root" THEN result.changed ELSE {}
Known(finding) == IF finding.repository = "root" THEN result.known ELSE {}

BundleOf(finding) == CASE finding.repository = "root" -> result.bundle
                       [] finding.repository = "child" -> result.childBundle
                       [] OTHER -> {}

\* The sources of the bundle that are of the job's own repository, at any ref.
Own(finding) == { s \in BundleOf(finding) : s.repository = finding.repository }

\* Sorted paths, and with those preferred that are in one set, and among equals in another.
Sorted(paths) == Selected(PathOrder, paths)

Preferring(paths, one, other) ==
    Sorted(paths \cap one \cap other) \o Sorted((paths \cap one) \ other)
      \o Sorted((paths \ one) \cap other) \o Sorted(paths \ (one \cup other))

\* candidate_source_paths: what the rule is about, best first.
Ranking(finding) ==
    LET changed == Changed(finding)
        scripts == Scripts \cap (Known(finding) \cup changed \cup finding.cited
                                   \cup ({ s.path : s \in Own(finding) } \cap Yamls))
    IN CASE finding.rule = "csv" ->
              Sorted(changed \cap DataConfigs) \o Preferring(scripts, finding.cited, changed)
         [] finding.rule = "metadata" -> Sorted(changed \cap Manifests)
         [] finding.rule = "sharp" -> Sorted(finding.cited \cap Sharp)
         [] finding.rule = "case" -> Preferring(changed \cap Yamls, finding.cited, {})
         [] OTHER -> <<>>

Best(ranking) == SubSeq(ranking, 1, IF Len(ranking) < MaxResults THEN Len(ranking) ELSE MaxResults)

\* Beyond the best none is considered; without a snapshot of the job there is no commit.
Candidates(finding) == IF finding.repository = "none" THEN <<>> ELSE Best(Ranking(finding))

\* A read is of a path at the commit, in a repository.
Key(source) == <<source.repository, source.path>>

\* What the bundle has at this commit is not read again. (It may be a fork's: only the ref
\* and the path are compared.)
Loaded(finding) == { s.path : s \in { c \in BundleOf(finding) : c.ref = "commit" } }

ToRead(finding) ==
    LET paths == Selected(Candidates(finding), RepairPaths \ Loaded(finding))
    IN [k \in DOMAIN paths |-> <<finding.repository, paths[k]>>]

\* The reads that are asked for, finding after finding; one that was asked for is shared,
\* and beyond the limit none is added.
Asked_Unshared(wanted, order) ==
    LET step[n \in 0..Len(order)] ==
          IF n = 0 THEN [requests |-> {}, keys |-> [i \in DOMAIN wanted |-> {}], limited |-> {}]
          ELSE LET i == order[n][1]
                   key == order[n][2]
                   was == step[n - 1]
               IN IF key \in was.requests THEN was
                  ELSE IF Cardinality(was.requests) >= MaxCandidateReads
                  THEN [was EXCEPT !.limited = @ \cup {i}]
                  ELSE [was EXCEPT !.requests = @ \cup {key}, !.keys[i] = @ \cup {key}]
    IN step[Len(order)]

Asked(wanted, order) ==
    LET step[n \in 0..Len(order)] ==
          IF n = 0 THEN [requests |-> {}, keys |-> [i \in DOMAIN wanted |-> {}], limited |-> {}]
          ELSE LET i == order[n][1]
                   key == order[n][2]
                   was == step[n - 1]
               IN IF key \notin was.requests /\ Cardinality(was.requests) >= MaxCandidateReads
                  THEN [was EXCEPT !.limited = @ \cup {i}]
                  ELSE [was EXCEPT !.requests = @ \cup {key}, !.keys[i] = @ \cup {key}]
    IN step[Len(order)]

Ordered(wanted) ==
    FlattenSeq([i \in DOMAIN wanted |-> [k \in DOMAIN wanted[i] |-> <<i, wanted[i][k]>>]])

PlanReads ==
    /\ repair.pc = "plan"
    /\ LET wanted == [i \in DOMAIN Findings |-> ToRead(Findings[i])]
           asked == Asked(wanted, Ordered(wanted))
       IN repair' = [repair EXCEPT !.pc = "read", !.keys = asked.keys,
                                   !.limited = asked.limited, !.waiting = asked.requests]
    /\ UNCHANGED result

\* fetch, under the semaphore of two.
BeginFetch ==
    \E key \in repair.waiting :
       /\ repair.pc = "read" /\ Cardinality(repair.reading) < MaxConcurrentReads
       /\ repair' = [repair EXCEPT !.waiting = @ \ {key}, !.reading = @ \cup {key}]
       /\ UNCHANGED result

\* Only the original of a data file is kept, until the plans are made.
FetchSucceeds ==
    \E key \in repair.reading :
       LET path == key[2]
           text == Text(key[1], "commit", path)
           kept == IF Secrets[path] \in {"none", "diff"} THEN text ELSE Scrubbed(path)
       IN /\ repair' = [repair EXCEPT !.reading = @ \ {key},
                !.sources = @ \cup {Source(key[1], "commit", path, kept)},
                !.originals = IF path \in DataConfigs
                              THEN @ \cup {Source(key[1], "commit", path, text)} ELSE @]
          /\ UNCHANGED result

\* Denied, of another path or ref than was asked for, or too large.
FetchFails ==
    \E key \in repair.reading :
       /\ repair' = [repair EXCEPT !.reading = @ \ {key}, !.failures = @ \cup {key}]
       /\ UNCHANGED result

-----------------------------------------------------------------------------
\* _source: the blob at the pipeline's commit in its own repository, as it is there.
Exact_AnyRef(source, finding) == source.repository = finding.repository /\ ~source.modified

Exact(source, finding) ==
    /\ source.repository = finding.repository /\ source.ref = "commit"
    /\ ~source.modified

Relevant(source, finding) ==
    CASE finding.rule = "csv" -> source.path \in DataConfigs \cup Scripts
      [] finding.rule = "metadata" -> source.path \in Manifests
      [] finding.rule = "case" -> source.path \in Changed(finding) \cap Yamls
      [] OTHER -> FALSE

\* Texts that disagree about the same source are not used.
Undisputed(source, sources) ==
    \A s \in sources : [s EXCEPT !.text = 0, !.modified = FALSE]
                          = [source EXCEPT !.text = 0, !.modified = FALSE] => s.text = source.text

\* A script is edited only if the root is known to have it.
Editable(path, finding) ==
    /\ path \in Wrong
    /\ path \in Scripts \ Yamls => path \in Known(finding) \cup Changed(finding)

\* The exact sources come first, the cited ones and data files before others, and of all
\* sources only the best are looked at.
Diffs(finding, sources) ==
    LET exact == { s \in sources : Relevant(s, finding) /\ Exact(s, finding) }
        ranking == Preferring({ s.path : s \in exact }, finding.cited, DataConfigs)
    IN { s \in exact : /\ \E k \in DOMAIN Best(ranking) : ranking[k] = s.path
                       /\ Undisputed(s, sources) /\ Editable(s.path, finding) }

\* build_verified_json_hunk: a data file with secrets, if the hunk is free of them.
Hunks(finding, keys) ==
    { s \in repair.originals : /\ finding.rule = "csv" /\ Key(s) \in keys /\ s.path \in Wrong
                               /\ Exact(s, finding) /\ Secrets[s.path] # "hunk" }

\* The last redaction withdraws every diff of a plan if it would change one.
Withheld(diffs) == \E s \in diffs : Secrets[s.path] \in {"hunk", "diff"}

PlanOf(i) ==
    LET finding == Findings[i]
        keys == repair.keys[i]
        sources == BundleOf(finding) \cup { s \in repair.sources : Key(s) \in keys }
        diffs == Diffs(finding, sources)
        chosen == IF Hunks(finding, keys) = {} THEN diffs
                  ELSE {CHOOSE s \in Hunks(finding, keys) : TRUE}
    IN [proposals |-> IF Withheld(chosen) THEN {} ELSE chosen,
        supplied |-> { s.path : s \in { c \in sources : c.ref = "commit" } },
        missing |-> { key[2] : key \in repair.failures \cap keys }, limited |-> i \in repair.limited]

BuildPlans ==
    /\ repair.pc = "read" /\ repair.waiting = {} /\ repair.reading = {}
    /\ repair' = [repair EXCEPT !.pc = "done", !.originals = {},
                                !.plans = [i \in DOMAIN Findings |-> PlanOf(i)]]
    /\ UNCHANGED result

\* The analysis request is cancelled: the reads are, and nothing is proposed.
RepairCancelled ==
    /\ repair.pc = "read" /\ repair.waiting \cup repair.reading # {}
    /\ repair' = [NotRepairing EXCEPT !.pc = "cancelled"]
    /\ UNCHANGED result

Remediate == BeginFetch \/ FetchSucceeds \/ FetchFails \/ BuildPlans

RemediationNext == PlanReads \/ Remediate \/ RepairCancelled

RemediationSpec == RemediationInit /\ [][RemediationNext]_repairVars

Repaired == repair.pc \in {"off", "done", "cancelled"}

\* Every read has a timeout. The plan of the reads awaits nothing: this is its weak fairness,
\* since PlanReads is enabled wherever the reads are not planned, and plans them.
RemediationFairness == []<>(repair.pc # "plan") /\ WF_repairVars(Remediate)

-----------------------------------------------------------------------------
\* No more reads than allowed, at once and in all, and originals are not kept.
RemediationTypeOK ==
    /\ repair.pc \in {"off", "plan", "read", "done", "cancelled"}
    /\ Cardinality(repair.reading) <= MaxConcurrentReads
    /\ Cardinality(UNION { repair.keys[i] : i \in DOMAIN repair.keys }) <= MaxCandidateReads
    /\ repair.pc \in {"done", "cancelled"} => repair.originals = {}

\* Every diff is of a file of the repository the finding is about, as it is at the
\* commit of the pipeline, and does not show what redaction would have changed.
ProposalsAreExact ==
    \A i \in DOMAIN repair.plans : \A s \in repair.plans[i].proposals :
        /\ Findings[i].repository # "none"
        /\ s.text = Text(Findings[i].repository, "commit", s.path)
        /\ Secrets[s.path] \notin {"hunk", "diff"}

\* A plan names what it lacks: of the files that its rule is about, each that ranks among
\* the best was supplied at the commit, or its failed read is mentioned, also when another
\* finding asked for it, or the limit of reads is; and that is mentioned only if all the
\* reads there may be were asked for. (What ranks behind the best is neither read nor
\* mentioned, and a finding without a snapshot says that this is what it lacks.)
LacksAreNamed ==
    repair.pc = "done" =>
      /\ \A i \in DOMAIN repair.plans :
           LET plan == repair.plans[i]
               ranking == Ranking(Findings[i])
           IN Findings[i].repository # "none" /\ ~plan.limited =>
                \A k \in DOMAIN ranking : k > MaxResults \/ ranking[k] \in plan.supplied \cup plan.missing
      /\ (\E i \in DOMAIN repair.plans : repair.plans[i].limited) =>
           Cardinality(UNION { repair.keys[i] : i \in DOMAIN repair.keys }) = MaxCandidateReads
================================================================================

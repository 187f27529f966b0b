------------------------------- MODULE CiSources -------------------------------
(*****************************************************************************)
(* One bounded load of a pipeline's CI sources (providers/gitlab.py          *)
(* load_ci_sources): the files are followed along their includes in batches  *)
(* of concurrent reads that share a cache, a budget of uncached operations   *)
(* and a limit of files, and the report says whether it is complete.         *)
(*                                                                           *)
(* A file stands for a logical key with its physical place; the external     *)
(* ones are in other projects, at a commit (pinned) or at a branch, and      *)
(* include files of their own project at the same ref; two that are included *)
(* from outside are of two projects. A remote one is named by a URL, whose   *)
(* ref and path GitLab must tell apart. What GitLab answers does not change  *)
(* during one load.                                                          *)
(*****************************************************************************)
EXTENDS Naturals, FiniteSets, Sequences

CONSTANTS
    Files,
    RootFile,          \* .gitlab-ci.yml, the entry point of a project without a CI path
    Entries,           \* how a load may begin: [ref, setting, file]: what the run names, the
                       \* project's CI path, and the file that is the entry point
    Pinned,            \* external files included at a commit
    Branched,          \* external files included at a branch or HEAD
    Remote,            \* external files named by a URL
    Misses,            \* <<file, n>>: a prefix of the URL's tail that is tried and is no ref
    Declarations,      \* the includes there may be: file -> sequence of files
    Troubles,          \* what may be wrong, sets of files: an include is not understood (odd),
                       \* the file is denied, its project is denied (hidden), its URL is of
                       \* another server (foreign) or has no ref that exists (gone)
    FileLimits,        \* max_files of the callers
    MaxIncludeDepth,   \* _max_include_depth
    RefCandidates,     \* _max_ref_candidates
    Parallel           \* _max_parallel_requests

External == Pinned \cup Branched

ASSUME CiSourcesAssumption ==
    /\ IsFiniteSet(Files)
    /\ RootFile \in Files \ External /\ External \subseteq Files /\ Pinned \cap Branched = {}
    /\ Entries \subseteq [ref : {"commit", "branch", "invalid"},
                          setting : {"default", "path", "unsafe"}, file : Files]
    /\ \A entry \in Entries : entry.setting = "default" => entry.file = RootFile
    /\ Remote \subseteq External /\ Misses \subseteq Remote \X Nat /\ IsFiniteSet(Misses)
    /\ Declarations \subseteq [Files -> Seq(Files)]
    /\ \A includes \in Declarations : \A own \in {Pinned, Branched} :
          \A file \in own : includes[file] \in Seq(own)
    /\ Troubles \subseteq [odd : SUBSET Files, denied : SUBSET Files, hidden : SUBSET Files,
                           foreign : SUBSET Remote, gone : SUBSET Remote]
    /\ FileLimits \subseteq Nat
    /\ MaxIncludeDepth \in Nat /\ RefCandidates \in Nat /\ Parallel \in Nat \ {0}
    /\ \A file \in Remote : Cardinality({ m \in Misses : m[1] = file }) < RefCandidates

VARIABLES
    asked,     \* what is loaded: its entry point, includes, troubles and limit
    load       \* the loop of _load_ci_sources

sourceVars == <<asked, load>>

Request(file, ancestors) == [file |-> file, ancestors |-> ancestors]
Stages == {"project", "reference", "commit", "file", "read", "denied", "unresolved"}
EdgeLimit == IF asked.limit = 0 THEN 1 ELSE IF 4 * asked.limit > 400 THEN 400 ELSE 4 * asked.limit

NotLoading == [pc |-> "off", pending |-> <<>>, batch |-> <<>>, stage |-> <<>>, cached |-> {},
               budget |-> 0, files |-> {}, scheduled |-> {}, configs |-> {}, processed |-> 0,
               notes |-> {}, partial |-> FALSE]

Notes == {"mutable ref", "current setting"}

\* The notes of the entry point: a run without a commit is read at a branch that moves,
\* and a CI path is the setting of today, not the one of the run.
EntryNotes ==
    (IF asked.entry.ref # "commit" THEN {"mutable ref"} ELSE {})
      \cup (IF asked.entry.setting # "default" THEN {"current setting"} ELSE {})

Enterable == asked.limit > 0 /\ asked.entry.ref # "invalid" /\ asked.entry.setting # "unsafe"

\* With no file to read, no usable ref or no safe entry point the report is given at once.
SourcesInit ==
    /\ asked \in [entry : Entries, includes : Declarations, trouble : Troubles, limit : FileLimits]
    /\ LET begun == [NotLoading EXCEPT !.notes = EntryNotes,
                                       !.budget = 3 * asked.limit + RefCandidates]
       IN load = IF Enterable
                 THEN [begun EXCEPT !.pc = "batch", !.pending = <<Request(asked.entry.file, {})>>]
                 ELSE [begun EXCEPT !.pc = "done", !.partial = TRUE]

-----------------------------------------------------------------------------
\* A project include or a URL, or an entry point that is one; inside the other project
\* the includes are local.
Elsewhere(request) == request.file \in External /\ request.ancestors \cap External = {}

TakeBatch ==
    /\ load.pc = "batch" /\ load.pending # <<>> /\ load.processed <= EdgeLimit
    /\ LET n == IF Len(load.pending) < Parallel THEN Len(load.pending) ELSE Parallel
           batch == SubSeq(load.pending, 1, n)
       IN load' = [load EXCEPT !.pc = "reading", !.batch = batch,
                     !.pending = SubSeq(@, n + 1, Len(@)),
                     !.stage = [i \in 1..n |-> IF Elsewhere(batch[i]) THEN "project" ELSE "file"]]
    /\ UNCHANGED asked

\* An operation is answered from the cache, also while it is in flight, or it costs
\* one of the budget; denied answers are cached like the others.
Unaffordable(key) == key \notin load.cached /\ load.budget = 0

Performed(key, changes) ==
    IF key \in load.cached THEN changes
    ELSE [changes EXCEPT !.cached = @ \cup {key}, !.budget = @ - 1]

Goes(i, changes, stage) == load' = [changes EXCEPT !.stage[i] = stage]

Reading(i, stage) == load.pc = "reading" /\ i \in DOMAIN load.stage /\ load.stage[i] = stage

\* _resolve_config_request: a chain that is too deep, a URL of another server, the project,
\* the ref of a URL, the commit of a branch.
TooDeep(i) == Cardinality(load.batch[i].ancestors) > MaxIncludeDepth

Resolved(file) == IF file \in Pinned THEN "file" ELSE "commit"

ReadProject(i) ==
    /\ Reading(i, "project")
    /\ LET file == load.batch[i].file
       IN IF TooDeep(i) \/ file \in asked.trouble.foreign \/ Unaffordable(<<"project", file>>)
          THEN Goes(i, load, "unresolved")
          ELSE Goes(i, Performed(<<"project", file>>, load),
                    IF file \in asked.trouble.hidden THEN "denied"
                    ELSE IF file \in Remote THEN "reference" ELSE Resolved(file))
    /\ UNCHANGED asked

\* _resolve_reference: the prefixes of a URL's tail are tried, each a lookup of a commit,
\* until one is a ref; that lookup is the one that pins a branch, too.
Untried(file) == { m \in Misses : m[1] = file /\ <<"ref", m>> \notin load.cached }

ReadReference(i) ==
    /\ Reading(i, "reference")
    /\ LET file == load.batch[i].file
           found == <<"commit", file>>
       IN \/ \E miss \in Untried(file) :
               IF load.budget = 0 THEN Goes(i, load, "unresolved")
               ELSE Goes(i, Performed(<<"ref", miss>>, load), "reference")
          \/ /\ Untried(file) = {}
             /\ IF Unaffordable(found) THEN Goes(i, load, "unresolved")
                ELSE Goes(i, Performed(found, load),
                          IF file \in asked.trouble.gone THEN "unresolved" ELSE Resolved(file))
    /\ UNCHANGED asked

\* A branch is not the history: the report is partial, whether it can be pinned or not.
ReadCommit(i) ==
    /\ Reading(i, "commit")
    /\ LET key == <<"commit", load.batch[i].file>>
           noted == [load EXCEPT !.partial = TRUE]
       IN IF Unaffordable(key) THEN Goes(i, noted, "unresolved")
          ELSE Goes(i, Performed(key, noted), "file")
    /\ UNCHANGED asked

\* read_source: no file includes itself, over others either, and the files are counted.
Readable(i) ==
    LET file == load.batch[i].file
    IN /\ ~TooDeep(i)
       /\ file \notin load.batch[i].ancestors
       /\ file \in load.files \/ Cardinality(load.files) < asked.limit

ReadFile(i) ==
    LET file == load.batch[i].file
        attempt == [load EXCEPT !.files = @ \cup {file}]
    IN /\ Reading(i, "file")
       /\ IF ~Readable(i) THEN Goes(i, load, "unresolved")
          ELSE IF Unaffordable(<<"file", file>>) THEN Goes(i, attempt, "unresolved")
          ELSE Goes(i, Performed(<<"file", file>>, attempt),
                    IF file \in asked.trouble.denied THEN "denied" ELSE "read")
       /\ UNCHANGED asked

-----------------------------------------------------------------------------
\* The results are merged in the order of the requests.

\* collect_gitlab_includes: a list is followed up to the limit of edges.
Listed_Silent(file) == [files |-> asked.includes[file], whole |-> TRUE]

Listed(file) ==
    LET all == asked.includes[file]
        n == IF Len(all) < EdgeLimit THEN Len(all) ELSE EdgeLimit
    IN [files |-> SubSeq(all, 1, n), whole |-> Len(all) <= EdgeLimit /\ file \notin asked.trouble.odd]

\* An include of a file is scheduled once.
Scheduled(now, request, include) ==
    IF <<request.file, include>> \in now.scheduled THEN now
    ELSE IF Cardinality(now.scheduled) >= EdgeLimit THEN [now EXCEPT !.partial = TRUE]
    ELSE [now EXCEPT !.scheduled = @ \cup {<<request.file, include>>},
                     !.pending = Append(@, Request(include, request.ancestors \cup {request.file}))]

Expanded(now, request) ==
    LET listed == Listed(request.file)
        after[n \in 0..Len(listed.files)] ==
            IF n = 0 THEN [now EXCEPT !.configs = @ \cup {request.file}, !.partial = @ \/ ~listed.whole]
                     ELSE Scheduled(after[n - 1], request, listed.files[n])
    IN after[Len(listed.files)]

Merged(now, i) ==
    IF load.stage[i] # "read" THEN [now EXCEPT !.partial = TRUE]
    ELSE IF load.batch[i].file \in now.configs THEN now
    ELSE Expanded(now, load.batch[i])

MergeBatch ==
    /\ load.pc = "reading"
    /\ \A i \in DOMAIN load.stage : load.stage[i] \in {"read", "denied", "unresolved"}
    /\ LET n == Len(load.batch)
           after[i \in 0..n] == IF i = 0 THEN load ELSE Merged(after[i - 1], i)
       IN load' = [after[n] EXCEPT !.pc = "batch", !.batch = <<>>, !.stage = <<>>,
                                   !.processed = @ + n]
    /\ UNCHANGED asked

LoadDone ==
    /\ load.pc = "batch" /\ (load.pending = <<>> \/ load.processed > EdgeLimit)
    /\ load' = [load EXCEPT !.pc = "done", !.partial = @ \/ load.pending # <<>>]
    /\ UNCHANGED asked

SourcesNext ==
    \/ TakeBatch \/ MergeBatch \/ LoadDone
    \/ \E i \in 1..Parallel : ReadProject(i) \/ ReadReference(i) \/ ReadCommit(i) \/ ReadFile(i)

SourcesSpec == SourcesInit /\ [][SourcesNext]_sourceVars

SourcesLoaded == load.pc \in {"off", "done"}

\* Every read has a timeout.
SourcesFairness == WF_sourceVars(SourcesNext)

-----------------------------------------------------------------------------
\* The limits the load promises: files, operations (by the budget) and edges.
SourcesTypeOK ==
    /\ load.pc \in {"off", "batch", "reading", "done"}
    /\ load.configs \subseteq load.files /\ load.files \subseteq Files
    /\ load.notes \subseteq Notes
    /\ load.pc # "off" =>
         /\ Cardinality(load.files) <= asked.limit
         /\ load.budget + Cardinality(load.cached) = 3 * asked.limit + RefCandidates
         /\ Cardinality(load.scheduled) <= EdgeLimit /\ load.processed <= EdgeLimit + 1
    /\ \A i \in DOMAIN load.stage : load.stage[i] \in Stages

Included(file) == { asked.includes[file][i] : i \in DOMAIN asked.includes[file] }

\* The files that are included in n steps or fewer from some of these.
Reached(from) ==
    LET within[n \in 0..Cardinality(Files)] ==
          IF n = 0 THEN from
          ELSE within[n - 1] \cup UNION { Included(f) : f \in within[n - 1] }
    IN within[Cardinality(Files)]

\* ConfigAccessReport.complete: no notes, and each entry was read.
Complete == ~load.partial /\ load.notes = {}

\* What a file that is entered from outside needs besides being read.
Barred == asked.trouble.hidden \cup asked.trouble.foreign \cup asked.trouble.gone

\* A report that calls itself complete is of a run's commit and of the default entry
\* point, and has every source that this includes, at the commit, and nothing else. One
\* that is partial has a reason: a source that is denied, hidden or nowhere, a declaration
\* that is not understood, a branch, a cycle, a limit, or an entry point that is unusable;
\* or the entry point is a branch's or a configured one, and then, without another of
\* these reasons, the report still has every source. (A cycle that is closed through two
\* files of one batch goes unreported.)
CompleteIsExact ==
    load.pc = "done" =>
      LET entry == asked.entry
          all == Reached({entry.file})
          historical == entry.ref = "commit" /\ entry.setting = "default"
          hurt == asked.trouble.odd \cup asked.trouble.denied \cup Branched
          lost == { f \in Barred \cap External :
                      f = entry.file \/ \E e \in all \ External : f \in Included(e) }
          readable == all \cap (hurt \cup lost) = {}
          cyclic == \E f \in all : f \in Reached(Included(f))
          limited == \/ Cardinality(all) > asked.limit
                     \/ Cardinality(all) > MaxIncludeDepth
                     \/ \E f \in all : Len(asked.includes[f]) > EdgeLimit
                     \/ Cardinality({ e \in all \X all : e[2] \in Included(e[1]) }) > EdgeLimit
                     \/ Cardinality({ m \in Misses : m[1] \in all }) > RefCandidates
      IN /\ Complete => historical /\ readable /\ load.configs = all
         /\ Enterable /\ readable /\ ~cyclic /\ ~limited =>
              load.configs = all /\ (historical => Complete)
================================================================================

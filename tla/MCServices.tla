------------------------------ MODULE MCServices ------------------------------
(*****************************************************************************)
(* An instance for TLC of the composition. Since the components share no     *)
(* state, each behaviour begins with one of them and the others at rest: the *)
(* states are the sum of the components', not the product.                   *)
(*****************************************************************************)
EXTENDS Composition

\* A service may return 0, return 3 or die of a signal.
MCCodes == {0, 3, -15}

\* Patches of a file with the lines 1, 2, 1 and a blank one, exact and not.
MCToolEvidence == {<<"log">>}
MCContent == [f \in Paths |-> IF f = "main" THEN <<1, 2, 1, 0>> ELSE <<1, 2>>]
Change(start, old, new) == [start |-> start, old |-> old, new |-> new]
Patch(path, hunks) == [path |-> path, hunks |-> hunks]
MCPatches ==
    { Patch("main", hunks) : hunks \in
        { <<Change(1, <<1>>, <<3>>)>>, <<Change(2, <<1>>, <<3>>)>>,
          <<Change(1, <<2, 1>>, <<3, 1>>)>>, <<Change(1, <<1, 2>>, <<2>>), Change(3, <<1>>, <<4>>)>>,
          <<Change(3, <<1, 0>>, <<5, 0>>)>>, <<Change(2, <<2>>, <<2>>)>>, <<Change(1, <<>>, <<7>>)>>,
          <<Change(1, <<1>>, <<3, 4>>), Change(1, <<4>>, <<5>>)>>,
          <<Change(2, <<2, 1>>, <<>>), Change(1, <<1>>, <<6>>)>> } }
      \cup { Patch(path, <<Change(2, <<2>>, <<3>>)>>) : path \in {"ci", "secret"} }

\* A pipeline of two failed jobs, and one of them analysed by a queued task too.
MCJobsOf == "pipe" :> {"j1", "j2"} @@ "queued" :> {"j1"}
MCAlike == {<<"j1", "j2">>, <<"j2", "j1">>}
MCFeedbacks == {<<"resolved", "fix">>}

\* Includes among three files of the repository, with three external projects, two of them
\* named by a URL whose ref is found at the second try; from entry points of all kinds.
MCDeclarations ==
    { [f \in Files |-> CASE f \in {"r", "a", "b"} -> own[f] [] f = "y" -> <<"z">> [] OTHER -> <<>>] :
        own \in [{"r", "a", "b"} -> {<<>>, <<"a">>, <<"b">>, <<"a", "b">>, <<"x", "y">>}] }
      \cup { [f \in Files |-> IF f = "r" THEN root ELSE <<>>] :
                root \in {<<"a", "a", "a", "a", "b">>, <<"w", "a">>, <<"w", "x">>} }
Trouble(odd, denied, hidden) ==
    [odd |-> odd, denied |-> denied, hidden |-> hidden, foreign |-> {}, gone |-> {}]
MCTroubles == { Trouble({}, {}, {}), Trouble({"a"}, {}, {}), Trouble({}, {"b"}, {"y"}),
                [Trouble({}, {}, {}) EXCEPT !.foreign = {"y"}, !.gone = {"w"}] }
Entry(ref, setting, file) == [ref |-> ref, setting |-> setting, file |-> file]
MCDefault == Entry("commit", "default", "r")
MCEntries == { MCDefault, Entry("branch", "default", "r"), Entry("invalid", "default", "r"),
               Entry("commit", "path", "a"), Entry("branch", "path", "w"), Entry("commit", "path", "x"),
               Entry("commit", "path", "y"), Entry("commit", "unsafe", "r") }
MCMisses == {<<"w", 1>>, <<"y", 1>>}

\* Three jobs, the first of which may be retried; trigger jobs of all kinds.
MCListing == <<"a", "b", "c">>
MCRetryOf == "a" :> "d"
MCByInterest == <<"c", "d", "b", "a">>
FirstOutcome(a, b) == "a" :> a @@ "b" :> b @@ "c" :> "success" @@ "d" :> "other"
Trigger(trouble, self, allowed, known, run, jobs) ==
    [trouble |-> trouble, self |-> self, allowed |-> allowed, known |-> known, run |-> run, jobs |-> jobs]
MCPipelines ==
    { [outcome |-> FirstOutcome("failed", "success"), bridges |-> <<>>],
      [outcome |-> FirstOutcome("success", "failed"),
       bridges |-> << Trigger(TRUE, TRUE, FALSE, TRUE, "failed", <<>>),
                      Trigger(TRUE, FALSE, TRUE, FALSE, "other", <<>>),
                      Trigger(FALSE, FALSE, FALSE, TRUE, "success", <<"success">>),
                      Trigger(TRUE, FALSE, FALSE, TRUE, "failed", <<"success", "failed">>) >>] }
MCReferences == { [kind |-> "job", job |-> "a"], [kind |-> "pipeline", job |-> NoJob],
                  [kind |-> "branch", job |-> NoJob] }

\* Findings of the root's jobs, of a child's and of a job without an analysis, about more
\* files than are considered; the bundles have the CI file, scrubbed or not, and files of
\* other refs and repositories.
Finding(rule, repository, cited) == [rule |-> rule, repository |-> repository, cited |-> cited]
MCPathOrder == <<"ci", "code", "data", "job", "load", "manifest", "vault", "yaml">>
MCSecrets ==
    [p \in RepairPaths |-> CASE p = "data" -> "away" [] p = "vault" -> "hunk"
                            [] p = "manifest" -> "diff" [] OTHER -> "none"]
Blob(repository, ref, path) == Source(repository, ref, path, Text(repository, ref, path))
MCRepairResults ==
    [ findings : { <<Finding("csv", "root", {}), Finding("case", "root", {"ci"}),
                     Finding("metadata", "root", {})>>,
                   <<Finding("csv", "root", {"yaml"}), Finding("csv", "root", {}),
                     Finding("csv", "child", {"load"})>>,
                   <<Finding("sharp", "child", {"code", "yaml"}), Finding("metadata", "none", {"ci"}),
                     Finding("csv", "root", {}), Finding("case", "root", {})>> },
      changed : { {"data", "manifest", "yaml"}, {"data", "vault", "yaml"}, {"manifest", "yaml", "ci"} },
      known : { {"job", "load", "yaml"} },
      bundle : { {Blob("root", "commit", "ci"), Blob("root", "commit", "load")},
                 {Source("root", "commit", "ci", Scrubbed("ci")), Blob("root", "main", "yaml"),
                  Blob("shared", "commit", "yaml")} },
      childBundle : { {Blob("child", "commit", "yaml"), Blob("child", "main", "ci"),
                       Blob("shared", "main", "ci")} } ]

-----------------------------------------------------------------------------
MCInit ==
    \/ /\ SupervisorInit
       /\ AgentIdle /\ IncidentsIdle /\ SourcesIdle /\ InspectionIdle /\ RemediationIdle
    \/ /\ AgentInit
       /\ SupervisorIdle /\ IncidentsIdle /\ SourcesIdle /\ InspectionIdle /\ RemediationIdle
    \/ /\ IncidentsInit
       /\ SupervisorIdle /\ AgentIdle /\ SourcesIdle /\ InspectionIdle /\ RemediationIdle
    \/ /\ SourcesInit
       /\ SupervisorIdle /\ AgentIdle /\ IncidentsIdle /\ InspectionIdle /\ RemediationIdle
    \/ /\ InspectionInit
       /\ SupervisorIdle /\ AgentIdle /\ IncidentsIdle /\ SourcesIdle /\ RemediationIdle
    \/ /\ RemediationInit
       /\ SupervisorIdle /\ AgentIdle /\ IncidentsIdle /\ SourcesIdle /\ InspectionIdle

MCSpec ==
    /\ MCInit /\ [][ServicesNext]_servicesVars
    /\ SupervisorFairness /\ AgentFairness /\ IncidentsFairness /\ SourcesFairness
    /\ InspectionFairness /\ RemediationFairness

-----------------------------------------------------------------------------
\* What was begun ends, whatever is denied, fails, crashes or is retried, and
\* whatever the model and the pipeline do meanwhile: the investigation, the
\* analyses, the load, the inspection and the proposals.
EveryTaskEnds == <>(AgentEnded /\ AnalysesEnd /\ SourcesLoaded /\ Inspected /\ Repaired)
================================================================================

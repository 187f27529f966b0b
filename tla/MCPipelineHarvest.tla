------------------------- MODULE MCPipelineHarvest -------------------------
(* Instances of PipelineHarvest for TLC: plans cannot be written in a .cfg, *)
(* and the symmetry of the processes is declared here. *)
EXTENDS PipelineHarvest, TLC

OnePath  == {<<"a">>}
BothPaths == {<<"a", "b">>}
EitherPath == {<<"a">>, <<"b">>}

Symmetric == Permutations(Procs) \cup Permutations(ProjectIds) \cup Permutations(JobIds)

=============================================================================

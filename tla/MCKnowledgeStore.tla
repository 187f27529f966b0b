-------------------------- MODULE MCKnowledgeStore --------------------------
(* An instance of KnowledgeStore for TLC: the label of a project may be cut by *)
(* the secrets of a call. *)
EXTENDS KnowledgeStore, TLC

CONSTANTS plain, cut, small, large

MCRawLabel == [p \in Projects |-> plain]
MCSanitizers == {[l \in Labels |-> l], [l \in Labels |-> cut]}
MCSize == small :> 1 @@ large :> 4

Symmetric == Permutations(Threads) \cup Permutations(Projects)

=============================================================================

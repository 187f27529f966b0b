-------------------------- MODULE MCCredentialVault --------------------------
(* An instance of CredentialVault for TLC: two threads of one process and one *)
(* of another. *)
EXTENDS CredentialVault, TLC

CONSTANTS t1, t2, u1, p1, p2

TwoProcesses == t1 :> p1 @@ t2 :> p1 @@ u1 :> p2

Symmetric == Permutations(Ids) \cup Permutations(Tokens) \cup Permutations(Projects)
               \cup Permutations({t1, t2})

=============================================================================

------------------------ MODULE MCInspectionService ------------------------
(* Instances of InspectionService for TLC. *)
EXTENDS InspectionService, TLC

CONSTANTS h, a, b, k1, k2, e2

For(token, project, remember, refresh) ==
    [host |-> h, project |-> project, token |-> token, connection |-> "auto",
     remember |-> remember, refresh |-> refresh]

\* A token to keep, a given token with a refresh, and requests without a token,
\* which use the configured token or what was kept for this or for another project.
MCAsks == {For(k2, a, TRUE, FALSE), For(k1, a, FALSE, TRUE), For(None, a, FALSE, FALSE),
           For(None, b, FALSE, FALSE)}

EndAsks == {For(k2, a, TRUE, FALSE), For(None, a, FALSE, FALSE)}

RefreshAsks == {For(k1, a, FALSE, FALSE), For(k1, a, FALSE, TRUE)}

MCConfigured == {[host |-> h, token |-> k1]}
\* e2 is too large for the cache.
MCSize == [e \in Evidence |-> IF e = e2 THEN 3 ELSE 1]

Symmetric == Permutations(Requests) \cup Permutations(Ids) \cup Permutations(Roots)

=============================================================================

---------------------------- MODULE MCApiClient -----------------------------
(* One browser tab with two calls under way, one direct request, one account. *)
EXTENDS ApiClient, TLC

CONSTANTS tab, a, b, d1

MCTabs == {tab}
MCLanes == {a, b}
MCDirect == {d1}
MCRequests == MCDirect \cup (MCTabs \X {a, b, "refresh"})

\* A lane is only a place for a call: the two are interchangeable.
Symmetry == Permutations(MCLanes)

=============================================================================

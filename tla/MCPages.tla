------------------------------ MODULE MCPages -------------------------------
(* One tab of a browser, a client and an administrator who signs up. *)
EXTENDS Pages, TLC

CONSTANTS ann, root, newbie, a, b

MCClients == {ann}
MCAdmins == {root}
MCLanes == {a, b}
MCOtherCalls == {"reserve"}

\* A lane is only a place for a flow.
Symmetry == Permutations(MCLanes)

=============================================================================

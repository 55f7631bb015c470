-------------------------- MODULE MCRoomCatalogue ---------------------------
(* One room, one user, three requests of which two at a time. *)
EXTENDS RoomCatalogue, TLC

CONSTANTS q1, q2, q3

MCRequests == {q1, q2, q3}
MCVariants == <<"thumbnail", "original">>
MCTtl == [k \in CacheKeys |-> IF k = Listing THEN 1 ELSE 2]
MCCacheKeys == {"room", "listing"}

Symmetry == Permutations(MCRequests)

=============================================================================

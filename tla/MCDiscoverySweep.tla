--------------------------- MODULE MCDiscoverySweep ---------------------------
(* Two runs over one provider: a query for all lots and a make's partition. *)
EXTENDS DiscoverySweep, TLC

CONSTANTS all, make

Queries == {all, make}
Partitions == {make}
Alike == Permutations(Owner)

(* Lots begin active; pages and searches make of them what else they may be.*)
MCInit == Init /\ active = known

MCSpec == MCInit /\ [][Next]_vars
=============================================================================

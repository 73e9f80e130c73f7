--------------------------------- MODULE Lists ---------------------------------
(***************************************************************************)
(* What a filter leaves of a list.                                         *)
(***************************************************************************)
EXTENDS Naturals, FiniteSets

(* The entries of a list at some of its places, in their order.            *)
Filtered(list, places) ==
    [n \in 1 .. Cardinality(places) |->
        list[CHOOSE i \in places : Cardinality({j \in places : j <= i}) = n]]
=============================================================================

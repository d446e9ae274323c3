--------------------------- MODULE MCRoutingTable ---------------------------
(* Instances of RoutingTable for TLC. *)
EXTENDS RoutingTable, TLC

Symmetry == Permutations(Ids \ {Self}) \cup Permutations(Dests)
=============================================================================

--------------------------- MODULE MCRoutingTable ---------------------------
(* IDs of three bits, so that the farthest bucket has four candidates for its *)
(* two places, and an own ID that is neither all zeros nor all ones.          *)
EXTENDS RoutingTable

MCSelf == <<0, 1, 0>>

Symmetry == Permutations(Addresses)
=============================================================================

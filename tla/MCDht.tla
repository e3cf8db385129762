------------------------------- MODULE MCDht --------------------------------
(* Two nodes on one machine join through a third, which may restart; n2 then  *)
(* looks up n3.                                                              *)
EXTENDS Dht

CONSTANTS n1, n2, n3, p1, p2

MCMachine == (n1 :> "A") @@ (n2 :> "B") @@ (n3 :> "B")

MCIDOf == (n1 :> <<<<0, 0>>, <<1, 1>>>>) @@ (n2 :> <<<<0, 1>>>>) @@ (n3 :> <<<<1, 0>>>>)

MCSeeds == (n1 :> <<>>) @@ (n2 :> <<n1>>) @@ (n3 :> <<n1>>)

MCTarget == (n1 :> None) @@ (n2 :> <<1, 0>>) @@ (n3 :> None)

MCAddresses == Endpoints

PortSymmetry == Permutations(Ports)
=============================================================================

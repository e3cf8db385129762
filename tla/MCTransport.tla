---------------------------- MODULE MCTransport ----------------------------
(* One peer that listens, known to one of the senders under a second spelling *)
(* too, and one that dials in.                                               *)
EXTENDS Transport, TLC

CONSTANTS s1, s2, A, e, localhost

Addresses == A :> A @@ e :> None @@ localhost :> A

MCTargets == s1 :> {A, e} @@ s2 :> {A, localhost}
=============================================================================

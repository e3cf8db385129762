------------------------------ MODULE MCFraming ------------------------------
(* Texts of 1 to 5 bytes around MaxMessageSize = 3 here and 4 at the peer, a    *)
(* stream request among them, prefixes of 2 bytes and a channel of one place.  *)
EXTENDS Framing

CONSTANTS w1, w2, small, maximal, large, huge, control, other

MCScript == w1 :> <<maximal, huge, control, small>> @@ w2 :> <<other, large>>

MCSize ==
    small :> 1 @@ maximal :> 3 @@ large :> 4 @@ huge :> 5 @@ control :> 2 @@ other :> 2
=============================================================================

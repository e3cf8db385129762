---------------------------- MODULE MCErasure ----------------------------
(* All files over two bytes up to a length, with two or three data shards    *)
(* and one or two parity shards; Validate refuses one of the pairs.          *)
EXTENDS Erasure

Pairs == {<<2, 1>>, <<2, 2>>, <<3, 1>>, <<0, 1>>}
==========================================================================

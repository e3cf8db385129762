---------------------------- MODULE MCChunkStore ----------------------------
(* A chunk of two parts: the least that can be half written.  The callers of  *)
(* PutChunk are interchangeable.                                             *)
EXTENDS ChunkStore, TLC

Symmetry == Permutations(Putters)
=============================================================================

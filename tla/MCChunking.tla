---------------------------- MODULE MCChunking ----------------------------
(* All files over two plain words up to five chunks, and all files of up to     *)
(* two chunks in which the IDs of the four full plain chunks occur as well.     *)
EXTENDS Chunking
=============================================================================

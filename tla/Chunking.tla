------------------------------ MODULE Chunking ------------------------------
(********************************************************************************)
(* internal/storage/chunker.go, merkle.go and filemeta.go: a file is read       *)
(* through an io.Reader that returns as many bytes at a time as it likes, cut   *)
(* into chunks that are stored one by one, and named by the Merkle root over    *)
(* the chunk IDs.                                                               *)
(*                                                                              *)
(* SHA-256 is a constructor without collisions.  A file is a sequence of words  *)
(* of the width of an ID: a plain word <<b>>, or a word that is itself an ID    *)
(* <<"sha256", content>>.  The code hashes a chunk and two concatenated IDs     *)
(* alike, so a chunk that consists of two IDs has the ID of a node above them.  *)
(********************************************************************************)
EXTENDS Naturals, Sequences, SequencesExt

CONSTANTS
    Bytes,
    MaxLen,     \* bound on the length of a file of plain words
    MaxCrafted, \* bound on the length of a file that may hold IDs as well
    ChunkSize,
    Faults      \* a subset of {"read", "put"}

ASSUME ChunkSizeAssumption == ChunkSize \in Nat \ {0} /\ MaxLen \in Nat /\ MaxCrafted \in Nat

VARIABLES
    file,       \* the bytes the reader has to give
    pos,        \* how many it has given
    buf,        \* what io.ReadFull has collected
    chunks,     \* the ChunkMeta of the chunks stored so far
    store,      \* the contents in the ChunkStore
    pc,         \* "read", "put", "meta", "merkle", "done" or "error"
    cur         \* the current level of the Merkle tree

vars == <<file, pos, buf, chunks, store, pc, cur>>

NewChunkID(content) == <<"sha256", content>>

PlainWords == {<<b>> : b \in Bytes}

(* Words that are the IDs of full chunks of plain words. *)
IDWords == {NewChunkID(c) : c \in [1..ChunkSize -> PlainWords]}

Files == BoundedSeq(PlainWords, MaxLen) \union BoundedSeq(PlainWords \union IDWords, MaxCrafted)

Init ==
    /\ file \in Files
    /\ pos = 0
    /\ buf = <<>>
    /\ chunks = <<>>
    /\ store = {}
    /\ pc = "read"
    /\ cur = <<>>

-----------------------------------------------------------------------------
(* StoreFromReader *)

(* io.ReadFull: another Read, of any number of bytes that still fit. *)
Read ==
    /\ pc = "read"
    /\ \E k \in 1..(ChunkSize - Len(buf)) :
         /\ pos + k <= Len(file)
         /\ buf' = buf \o SubSeq(file, pos + 1, pos + k)
         /\ pos' = pos + k
    /\ pc' = IF Len(buf') = ChunkSize THEN "put" ELSE "read"
    /\ UNCHANGED <<file, chunks, store, cur>>

(* io.EOF with nothing read ends the loop, io.ErrUnexpectedEOF leaves a last,   *)
(* partial chunk.                                                               *)
ReadEOF ==
    /\ pc = "read" /\ pos = Len(file)
    /\ pc' = IF buf = <<>> THEN "meta" ELSE "put"
    /\ UNCHANGED <<file, pos, buf, chunks, store, cur>>

Fail == pc' = "error" /\ UNCHANGED <<file, pos, buf, chunks, store, cur>>

ReadError == pc = "read" /\ "read" \in Faults /\ Fail

PutError == pc = "put" /\ "put" \in Faults /\ Fail

ChunkMeta(content) ==
    [index |-> Len(chunks), id |-> NewChunkID(content), size |-> Len(content)]

(* Seeded fault: the error of PutChunk is not looked at. *)
PutIgnoringErrors ==
    /\ pc = "put"
    /\ store' \in {store, store \union {buf}}
    /\ chunks' = Append(chunks, ChunkMeta(buf))
    /\ buf' = <<>>
    /\ pc' = IF Len(buf) = ChunkSize THEN "read" ELSE "meta"
    /\ UNCHANGED <<file, pos, cur>>

(* PutChunk(buf[:n]); a partial chunk is the last. *)
Put ==
    /\ pc = "put"
    /\ store' = store \union {buf}
    /\ chunks' = Append(chunks, ChunkMeta(buf))
    /\ buf' = <<>>
    /\ pc' = IF Len(buf) = ChunkSize THEN "read" ELSE "meta"
    /\ UNCHANGED <<file, pos, cur>>

-----------------------------------------------------------------------------
(* BuildFileMetaFromReader and MerkleRootForChunks *)

(* An empty file is an error; otherwise the leaves are the chunk IDs. *)
StartMerkle ==
    /\ pc = "meta"
    /\ pc' = IF chunks = <<>> THEN "error" ELSE "merkle"
    /\ cur' = [i \in DOMAIN chunks |-> chunks[i].id]
    /\ UNCHANGED <<file, pos, buf, chunks, store>>

(* Seeded fault: an odd last element is paired with itself. *)
LevelUpDuplicating(ids) ==
    [i \in 1..((Len(ids) + 1) \div 2) |->
        NewChunkID(<<ids[2 * i - 1], IF 2 * i <= Len(ids) THEN ids[2 * i] ELSE ids[2 * i - 1]>>)]

(* Seeded fault: an odd last element is put in front. *)
LevelUpRotating(ids) ==
    LET n == Len(ids)
        s == IF n % 2 = 1 THEN <<ids[n]>> \o SubSeq(ids, 1, n - 1) ELSE ids
    IN  [i \in 1..((n + 1) \div 2) |->
            IF 2 * i <= n THEN NewChunkID(<<s[2 * i - 1], s[2 * i]>>) ELSE s[n]]

(* One round of the loop: the bytes of two neighbours are hashed as the content *)
(* of a chunk is, an odd last element is promoted.                              *)
LevelUp(ids) ==
    [i \in 1..((Len(ids) + 1) \div 2) |->
        IF 2 * i <= Len(ids) THEN NewChunkID(<<ids[2 * i - 1], ids[2 * i]>>)
                             ELSE ids[2 * i - 1]]

MerkleLevel ==
    /\ pc = "merkle" /\ Len(cur) > 1
    /\ cur' = LevelUp(cur)
    /\ UNCHANGED <<file, pos, buf, chunks, store, pc>>

MerkleDone ==
    /\ pc = "merkle" /\ Len(cur) = 1
    /\ pc' = "done"
    /\ UNCHANGED <<file, pos, buf, chunks, store, cur>>

Next ==
    \/ Read \/ ReadEOF \/ ReadError \/ Put \/ PutError
    \/ StartMerkle \/ MerkleLevel \/ MerkleDone

Spec == Init /\ [][Next]_vars

Root == cur[1]

-----------------------------------------------------------------------------
(* Reference definitions *)

(* The i-th block of ChunkSize bytes of f, the last one shorter. *)
Blocks(f) ==
    LET n == (Len(f) + ChunkSize - 1) \div ChunkSize
        end(i) == IF i * ChunkSize < Len(f) THEN i * ChunkSize ELSE Len(f)
    IN  [i \in 1..n |-> SubSeq(f, (i - 1) * ChunkSize + 1, end(i))]

LeafIDs(f) == [i \in DOMAIN Blocks(f) |-> NewChunkID(Blocks(f)[i])]

(* The tree by halves: the left subtree holds the largest power of two of       *)
(* leaves that is less than all of them.                                        *)
RECURSIVE TreeByHalves(_)
TreeByHalves(ids) ==
    IF Len(ids) = 1 THEN ids[1]
    ELSE LET k == CHOOSE p \in {2 ^ i : i \in 0..Len(ids)} :
                     p < Len(ids) /\ 2 * p >= Len(ids)
         IN  NewChunkID(<<TreeByHalves(SubSeq(ids, 1, k)),
                          TreeByHalves(SubSeq(ids, k + 1, Len(ids)))>>)

(* The root the code's rounds give for a list of IDs. *)
RECURSIVE Rounds(_)
Rounds(ids) == IF Len(ids) = 1 THEN ids[1] ELSE Rounds(LevelUp(ids))

RootOf == [f \in Files \ {<<>>} |-> Rounds(LeafIDs(f))]

-----------------------------------------------------------------------------
(* Properties *)

(* Every variable has its type. *)
TypeOK ==
    /\ file \in Files
    /\ pos \in 0..Len(file)
    /\ Len(buf) \in 0..ChunkSize
    /\ \A i \in DOMAIN chunks : chunks[i].size \in 1..ChunkSize
    /\ \A c \in store : Len(c) \in 1..ChunkSize
    /\ pc \in {"read", "put", "meta", "merkle", "done", "error"}

(* A FileMeta describes the file: however the reader divides it, the chunks     *)
(* are its blocks, with the same indices and sizes everywhere, and each is in   *)
(* the store, although PutChunk may fail at any of them.                        *)
MetaDescribesTheFile ==
    pc = "done" =>
        /\ chunks = [i \in DOMAIN Blocks(file) |->
                       [index |-> i - 1, id |-> LeafIDs(file)[i],
                        size |-> Len(Blocks(file)[i])]]
        /\ Range(Blocks(file)) \subseteq store

(* The rounds of MerkleRootForChunks build the tree by halves. *)
RootIsCanonical == pc = "done" => Root = TreeByHalves(LeafIDs(file))

(* The content of a chunk that is hashed like two nodes of the tree. *)
IsPairOfIDs(content) == Len(content) = 2 /\ \A w \in Range(content) : w \notin PlainWords

(* The root and the number of chunks, which a FileMeta holds together, name the *)
(* file.  The root alone does not, since chunks and nodes are hashed alike, but *)
(* then one of the two files has a chunk that consists of two IDs: promotion    *)
(* of an odd node never gives ordinary files of different length one root.      *)
RootIdentifiesFile ==
    pc = "done" =>
        \A f \in Files \ {<<>>, file} :
            RootOf[f] = Root =>
                /\ Len(Blocks(f)) # Len(chunks)
                /\ \E c \in Range(Blocks(f)) \union Range(Blocks(file)) : IsPairOfIDs(c)
=============================================================================

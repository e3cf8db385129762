------------------------------ MODULE Erasure ------------------------------
(********************************************************************************)
(* internal/storage/erasure.go, ec_chunk.go and ec_filemeta.go, as              *)
(* Service.StoreFileWithEC runs them: a file is read in pieces, each piece is   *)
(* cut into data shards and given parity shards, and every shard is stored as   *)
(* a chunk of its own; later the file is rebuilt from what the disk has kept.   *)
(*                                                                              *)
(* The Reed-Solomon library is external.  A shard is <<0, bytes>> or            *)
(* <<j, data>>, the j-th parity of data shards that are not all equal.  When    *)
(* they are all equal the code's polynomial is constant and every parity shard  *)
(* is that same shard.  Other coincidences between a parity shard and another   *)
(* shard depend on the field and are left out.                                  *)
(*                                                                              *)
(* A chunk is named by its content, so the name of a shard is the shard.        *)
(********************************************************************************)
EXTENDS Integers, Sequences, FiniteSets, SequencesExt

CONSTANTS
    Bytes,          \* contains 0, the padding
    MaxLen,         \* bound on the length of a file
    ChunkSize,
    ParamChoices,   \* the pairs <<data, parity>> the operator may ask for
    MaxDamage,      \* bound on the number of stored chunks that are damaged
    Faults          \* a subset of {"read", "put", "write", "lose", "empty", "corrupt"}

ASSUME ErasureAssumption ==
    /\ 0 \in Bytes
    /\ ChunkSize \in Nat \ {0}
    /\ MaxLen \in Nat /\ MaxDamage \in Nat

VARIABLES
    params,     \* <<DataShards, ParityShards>>
    file,       \* the bytes the reader has to give
    pos,        \* how many it has given
    readErr,    \* what the last Read returned with them: "nil", "EOF" or "read"
    chunk,      \* buf[:n]
    ids,        \* the shard IDs of the chunk at hand, as they are stored
    layouts,    \* the ECChunkLayouts of the chunks before it
    disk,       \* the chunks that have a file
    emptied,    \* the files among them that have lost their bytes
    corrupted,  \* the files that have had wrong bytes of the right number
    damage,     \* how many chunks were lost, emptied or corrupted
    out,        \* what ReconstructFileFromECMeta has written
    next,       \* the index of the chunk it decodes next
    pc

vars == <<params, file, pos, readErr, chunk, ids, layouts, disk, emptied,
          corrupted, damage, out, next, pc>>

Files == BoundedSeq(Bytes, MaxLen)

DataShards   == params[1]
ParityShards == params[2]

-----------------------------------------------------------------------------
(* ECParams *)

TotalShards(p) == p[1] + p[2]

Validate(p) == p[1] > 0 /\ p[2] > 0 /\ TotalShards(p) <= 255

-----------------------------------------------------------------------------
(* EncodeToShards and ReconstructFromShards *)

(* The ceiling of n / DataShards. *)
ShardSize(n) == (n + DataShards - 1) \div DataShards

(* The data shards, padded with zeros. *)
DataOf(data) ==
    LET size == ShardSize(Len(data))
    IN  [i \in 1..DataShards |->
            [b \in 1..size |-> IF (i - 1) * size + b <= Len(data)
                               THEN data[(i - 1) * size + b] ELSE 0]]

(* enc.Encode: the j-th parity shard. *)
Parity(shards, j) ==
    IF \A i \in DOMAIN shards : shards[i] = shards[1]
    THEN <<0, shards[1]>>
    ELSE <<j, FlattenSeq(shards)>>

Encoded(shards) ==
    [i \in 1..(DataShards + ParityShards) |->
        IF i <= DataShards THEN <<0, shards[i]>> ELSE Parity(shards, i - DataShards)]

EncodeToShards(data) == Encoded(DataOf(data))

(* enc.Reconstruct: the data shards that give the shards at the positions       *)
(* present.                                                                     *)
Solve(shards, present, size) ==
    CHOOSE d \in [1..DataShards -> [1..size -> Bytes]] :
        \A i \in present : Encoded(d)[i] = shards[i]

(* Seeded fault: the padding is not cut off. *)
JoinPadded(shards, origSize) == FlattenSeq(shards)

Join(shards, origSize) == SubSeq(FlattenSeq(shards), 1, origSize)

-----------------------------------------------------------------------------
(* StoreFileWithEC, BuildECFileMetaFromReader and EncodeChunkWithEC *)

Init ==
    /\ params \in ParamChoices
    /\ file \in Files
    /\ pos = 0 /\ readErr = "nil" /\ chunk = <<>>
    /\ ids = <<>> /\ layouts = <<>>
    /\ disk = {} /\ emptied = {} /\ corrupted = {} /\ damage = 0
    /\ out = <<>> /\ next = 1
    /\ pc = "start"

StoreFileWithEC ==
    /\ pc = "start"
    /\ pc' = IF Validate(params) THEN "read" ELSE "buildError"
    /\ UNCHANGED <<params, file, pos, readErr, chunk, ids, layouts, disk,
                   emptied, corrupted, damage, out, next>>

(* What io.Reader may return together with the bytes up to position p. *)
ReadErrors(p) ==
    {"nil"} \union (IF p = Len(file) THEN {"EOF"} ELSE {})
            \union (Faults \intersect {"read"})

(* One Read of any length, with or without an error; the bytes are used first. *)
Read ==
    /\ pc = "read" /\ readErr = "nil"
    /\ \E n \in 0..ChunkSize :
         /\ pos + n <= Len(file)
         /\ chunk' = SubSeq(file, pos + 1, pos + n)
         /\ pos' = pos + n
         /\ readErr' \in ReadErrors(pos + n)
         /\ n = 0 => readErr' # "nil"       \* an empty Read changes nothing
         /\ pc' = IF n > 0 THEN "put" ELSE "read"
    /\ ids' = <<>>
    /\ UNCHANGED <<params, file, layouts, disk, emptied, corrupted, damage, out, next>>

(* io.EOF ends the loop, any other error the build. *)
ReadEnds ==
    /\ pc = "read" /\ readErr # "nil"
    /\ pc' = IF readErr = "EOF" THEN "decode" ELSE "buildError"
    /\ UNCHANGED <<params, file, pos, readErr, chunk, ids, layouts, disk,
                   emptied, corrupted, damage, out, next>>

(* PutChunk: a shard that has a file already is not written again. *)
PutShard ==
    /\ pc = "put" /\ Len(ids) < DataShards + ParityShards
    /\ LET shard == EncodeToShards(chunk)[Len(ids) + 1]
       IN  disk' = disk \union {shard} /\ ids' = Append(ids, shard)
    /\ UNCHANGED <<params, file, pos, readErr, chunk, layouts, emptied, corrupted, damage,
                   out, next, pc>>

PutError ==
    /\ pc = "put" /\ Len(ids) < DataShards + ParityShards
    /\ "put" \in Faults
    /\ pc' = "buildError"
    /\ UNCHANGED <<params, file, pos, readErr, chunk, ids, layouts, disk,
                   emptied, corrupted, damage, out, next>>

(* The layout of the chunk joins ECFileMeta.Chunks. *)
AppendLayout ==
    /\ pc = "put" /\ Len(ids) = DataShards + ParityShards
    /\ layouts' = Append(layouts, [shardIDs |-> ids, origSize |-> Len(chunk)])
    /\ ids' = <<>> /\ chunk' = <<>>
    /\ pc' = "read"
    /\ UNCHANGED <<params, file, pos, readErr, disk, emptied, corrupted, damage, out, next>>

-----------------------------------------------------------------------------
(* ReconstructFileFromECMeta and DecodeChunkWithEC *)

(* The positions of a layout whose shard loads. *)
Loaded(layout) == {i \in DOMAIN layout.shardIDs : layout.shardIDs[i] \in disk}

(* The positions whose shard loads with all its bytes. *)
Available(layout) ==
    {i \in Loaded(layout) : layout.shardIDs[i] \notin emptied}

(* Seeded fault: a shard that does not load is an error. *)
DecodesNeedingAll(layout) ==
    \A i \in DOMAIN layout.shardIDs : layout.shardIDs[i] \in disk \ emptied

(* A shard that loads with another size is an error, one that does not load is  *)
(* missing, and enc.Reconstruct needs DataShards of them.                       *)
Decodes(layout) ==
    /\ \A i \in Loaded(layout) : layout.shardIDs[i] \notin emptied
    /\ Cardinality(Loaded(layout)) >= DataShards

(* The positions enc.Reconstruct works from: the data shards, or the first      *)
(* DataShards of those that loaded when a data shard is missing.                *)
Used(layout) ==
    IF 1..DataShards \subseteq Loaded(layout) THEN 1..DataShards
    ELSE {i \in Loaded(layout) : Cardinality(Loaded(layout) \intersect 1..i) <= DataShards}

(* What a chunk can decode to.  Nothing compares a shard with its ID: with      *)
(* wrong bytes among the shards it is any bytes of the right number.            *)
DecodeChunkWithEC(layout) ==
    IF \E i \in Used(layout) : layout.shardIDs[i] \in corrupted
    THEN [1..layout.origSize -> Bytes]
    ELSE {Join(Solve(layout.shardIDs, Used(layout), ShardSize(layout.origSize)),
               layout.origSize)}

Decode ==
    /\ pc = "decode" /\ next <= Len(layouts)
    /\ Decodes(layouts[next])
    /\ \E data \in DecodeChunkWithEC(layouts[next]) : out' = out \o data
    /\ next' = next + 1
    /\ UNCHANGED <<params, file, pos, readErr, chunk, ids, layouts, disk,
                   emptied, corrupted, damage, pc>>

DecodeError ==
    /\ pc = "decode" /\ next <= Len(layouts)
    /\ ~Decodes(layouts[next])
    /\ pc' = "decodeError"
    /\ UNCHANGED <<params, file, pos, readErr, chunk, ids, layouts, disk,
                   emptied, corrupted, damage, out, next>>

WriteError ==
    /\ pc = "decode" /\ next <= Len(layouts)
    /\ "write" \in Faults
    /\ Decodes(layouts[next])
    /\ pc' = "writeError"
    /\ UNCHANGED <<params, file, pos, readErr, chunk, ids, layouts, disk,
                   emptied, corrupted, damage, out, next>>

DecodeDone ==
    /\ pc = "decode" /\ next > Len(layouts)
    /\ pc' = "done"
    /\ UNCHANGED <<params, file, pos, readErr, chunk, ids, layouts, disk,
                   emptied, corrupted, damage, out, next>>

-----------------------------------------------------------------------------
(* The disk *)

(* A stored chunk is deleted or can no longer be read. *)
Lose ==
    /\ "lose" \in Faults /\ pc = "decode" /\ damage < MaxDamage
    /\ \E c \in disk \ emptied : disk' = disk \ {c}
    /\ damage' = damage + 1
    /\ UNCHANGED <<params, file, pos, readErr, chunk, ids, layouts, emptied,
                   corrupted, out, next, pc>>

(* The file of a chunk is left empty, the end of a torn PutChunk (ChunkStore). *)
Empty ==
    /\ "empty" \in Faults /\ pc = "decode" /\ damage < MaxDamage
    /\ \E c \in disk \ (emptied \union corrupted) : emptied' = emptied \union {c}
    /\ damage' = damage + 1
    /\ UNCHANGED <<params, file, pos, readErr, chunk, ids, layouts, disk,
                   corrupted, out, next, pc>>

(* The disk returns wrong bytes for a chunk, as many as it had. *)
Corrupt ==
    /\ "corrupt" \in Faults /\ pc = "decode" /\ damage < MaxDamage
    /\ \E c \in disk \ (emptied \union corrupted) : corrupted' = corrupted \union {c}
    /\ damage' = damage + 1
    /\ UNCHANGED <<params, file, pos, readErr, chunk, ids, layouts, disk, emptied,
                   out, next, pc>>

Next ==
    \/ StoreFileWithEC \/ Read \/ ReadEnds \/ PutShard \/ PutError \/ AppendLayout
    \/ Decode \/ DecodeError \/ WriteError \/ DecodeDone
    \/ Lose \/ Empty \/ Corrupt

Spec == Init /\ [][Next]_vars

-----------------------------------------------------------------------------
(* Properties *)

(* Every variable has its type. *)
TypeOK ==
    /\ params \in ParamChoices
    /\ file \in Files
    /\ pos \in 0..Len(file)
    /\ readErr \in {"nil", "EOF", "read"}
    /\ Len(chunk) <= ChunkSize
    /\ \A i \in DOMAIN layouts :
         /\ Len(layouts[i].shardIDs) = DataShards + ParityShards
         /\ layouts[i].origSize \in 1..ChunkSize
    /\ emptied \subseteq disk /\ emptied \intersect corrupted = {}
    /\ damage \in 0..MaxDamage
    /\ next \in 1..(Len(layouts) + 1)
    /\ pc \in {"start", "read", "put", "decode", "done",
               "buildError", "decodeError", "writeError"}

(* The position in the file at which the i-th chunk begins, less one. *)
Start(i) == FoldLeft(LAMBDA n, layout : n + layout.origSize, 0, SubSeq(layouts, 1, i - 1))

(* The positions in the file of the chunks of which a stored shard is wrong. *)
Exposed ==
    UNION {(Start(i) + 1)..Start(i + 1) :
             i \in {k \in DOMAIN layouts : Range(layouts[k].shardIDs) \intersect corrupted # {}}}

(* Whatever the reader's divisions, the padding and the chunks that are lost    *)
(* before or during the reconstruction, what ReconstructFileFromECMeta has      *)
(* written is a beginning of the file, and all of it when it reports success.   *)
(* The exception is what the code does not look for: wrong bytes of the right   *)
(* number in a shard may come out in its own chunk, and in no other.            *)
ReconstructionIsExact ==
    /\ Len(out) <= Len(file)
    /\ \A b \in DOMAIN out : out[b] = file[b] \/ b \in Exposed
    /\ pc = "done" => Len(out) = Len(file)

(* How many chunks have lost their file. *)
Losses == damage - Cardinality(emptied \union corrupted)

(* "deleting up to ParityShards entries from the store" is "recoverable"        *)
(* (ec_chunk_test.go:120): once an ECFileMeta has been returned, every shard    *)
(* it names is stored, and reconstruction fails only when more of them have     *)
(* gone than there are parity shards, whatever the bytes of the others are.     *)
(* The exceptions are the two the code does not provide for: equal shards of a  *)
(* chunk are one stored chunk and go together, and a shard that loads without   *)
(* its bytes spoils the ones that are good.                                     *)
ToleratesParityLosses ==
    pc = "decodeError" =>
        \/ Losses > ParityShards
        \/ ~IsInjective(layouts[next].shardIDs)
        \/ Loaded(layouts[next]) # Available(layouts[next])
=============================================================================

-------------------------- MODULE FileShareProofs --------------------------
(***************************************************************************)
(* Proofs about FileShare, for any number of nodes and contacts, any file and *)
(* any of the faults.                                                        *)
(***************************************************************************)
EXTENDS FileShare, TLAPS, SequenceTheorems, FiniteSetTheorems

(* The loop over the contacts is within its bounds. *)
SendInv == upc = "send" => replicated < Needed /\ chunk <= Len(File)

(* What the uploader has once its file is stored. *)
HasFile ==
    /\ Uploader \in fileMeta
    /\ \A c \in Chunks : Content(c) \in chunks[Uploader]

StoredInv == upc \notin {"start", "failed"} => HasFile

(* There are records of the uploader only, and only of a stored file. *)
RecordInv ==
    \A n \in Nodes : \A p \in providers[n] :
      p.id = Uploader /\ p.addr.node = Uploader /\ upc \in {"announce", "done"}

(* The beginning of the file, chunk by chunk. *)
Begins(s) ==
    /\ s \in Seq(Contents) /\ Len(s) <= Len(File)
    /\ \A i \in 1..Len(s) : s[i] = Content(File[i])

(* There is one destination file at most, and it has been created before       *)
(* anything is fetched.                                                      *)
DestInv ==
    /\ dest = {} \/ \E s \in Seq(Contents) : dest = {s} /\ Begins(s)
    /\ dpc \in {"fetch", "done"} => dest # {}
    /\ dpc = "done" => \A s \in dest : Len(s) = Len(File)

(* The file has this chunk in one place only. *)
Unique(k) == \A j \in DOMAIN File : File[j] = File[k] => j = k

(* The contacts to go through are different ones, and what they are sent comes *)
(* from the chunk.                                                           *)
ClosestInv ==
    upc = "send" =>
      /\ closest \in Seq(Contacts[Uploader])
      /\ \A i, j \in 1..Len(closest) : closest[i] = closest[j] => i = j
      /\ data \subseteq {Content(File[chunk]), Torn(File[chunk])}

(* Nobody has a chunk that the loop has not come to. *)
AheadInv ==
    \A k \in DOMAIN File :
      Unique(k) /\ (k > chunk \/ (k = chunk /\ upc \in {"start", "chunk"}))
        => Replicas(k) = {}

(* A is the set of contacts counted for the chunk so far: they hold it, nobody *)
(* else does, and every other contact is in the rest of the list or cannot be  *)
(* sent it.                                                                  *)
Rest(s) == {s[i] : i \in 1..Len(s)}

Counted(A) ==
    /\ Cardinality(A) = replicated
    /\ A \subseteq Holders(chunk)
    /\ A \intersect Rest(closest) = {}
    /\ data = {Content(File[chunk])}
    /\ \A c \in Contacts[Uploader] :
         \/ IsSelf(c) \/ ~Reaches(Uploader, c.addr) \/ c \in A \union Rest(closest)
         \/ ~Fits(<<"STORE_CHUNK", {Content(File[chunk])}>>)
    /\ Unique(chunk) => \A n \in Replicas(chunk) : \E c \in A : c.addr.node = n

CountedInv ==
    upc = "send" /\ chunk \notin missed => \E A \in SUBSET Contacts[Uploader] : Counted(A)

RepInv == ClosestInv /\ AheadInv /\ CountedInv /\ ReplicasAsAsked

(* Nobody has refused before the download begins, and a stored file stays so. *)
RefusedInv ==
    /\ dpc = "start" => refused = {}
    /\ after => upc = "done"
    /\ StoredCanBeDownloaded

IInv ==
    /\ TypeOK /\ SendInv /\ StoredInv /\ RecordInv /\ RepInv /\ DestInv
    /\ RefusedInv

(* The type invariant in three parts: the network, the upload, the download. *)
NetTypes ==
    /\ setup \in Setups
    /\ alive \subseteq Nodes
    /\ chunks \in [Nodes -> SUBSET Contents]
    /\ fileMeta \subseteq Nodes
    /\ providers \in [Nodes -> SUBSET Contact]

UpTypes ==
    /\ upc \in {"start", "chunk", "send", "announce", "done", "failed"}
    /\ chunk \in 1..(Len(File) + 1)
    /\ data \subseteq Contents
    /\ closest \in Seq(Contact)
    /\ replicated \in 0..Needed
    /\ missed \subseteq DOMAIN File

DownTypes ==
    /\ dpc \in {"start", "find", "meta", "fetch", "done", "fatal"}
    /\ after \in BOOLEAN /\ fallback \in BOOLEAN
    /\ asking \subseteq Contact /\ found \subseteq Contact
    /\ source \in Addresses /\ refused \subseteq Addresses \X Messages

-----------------------------------------------------------------------------
(* Constants and operators *)

LEMMA FileFacts ==
    /\ Len(File) \in Nat \ {0} /\ DOMAIN File = 1..Len(File)
    /\ \A i \in 1..Len(File) : File[i] \in Chunks
    /\ \A c \in Chunks : \E i \in 1..Len(File) : c = File[i]
    /\ \A c \in Chunks : Content(c) \in Contents /\ Torn(c) \in Contents
<1>1. Len(File) \in Nat \ {0} /\ DOMAIN File = 1..Len(File)
  BY FileShareAssumption, LenProperties, EmptySeq
<1>2. Chunks = {File[i] : i \in 1..Len(File)}
  BY <1>1 DEF Chunks, Range
<1>3. \A c \in Chunks : Content(c) \in Contents /\ Torn(c) \in Contents
  BY DEF Content, Torn, Contents
<1>. QED BY <1>1, <1>2, <1>3

(* The contacts of the uploader are contacts, and finitely many. *)
LEMMA ContactFacts ==
    /\ Contacts[Uploader] \subseteq Contact /\ IsFiniteSet(Contacts[Uploader])
    /\ \A c \in Contacts[Uploader] : c.addr \in Addresses /\ c.addr.node \in Nodes
<1>1. Contacts[Uploader] \subseteq Contact /\ IsFiniteSet(Contacts[Uploader])
  BY FileShareAssumption
<1>. QED BY <1>1 DEF Contact, Addresses

(* A set that another one is mapped onto is not larger. *)
LEMMA ImageIsSmaller ==
    ASSUME NEW S, NEW T, NEW f \in [S -> T], IsFiniteSet(S), \A t \in T : \E x \in S : f[x] = t
    PROVE  IsFiniteSet(T) /\ Cardinality(T) <= Cardinality(S)
<1>1. f \in Surjection(S, T)
  BY DEF Surjection
<1>. QED BY <1>1, FS_Surjection

(* Whatever Lookup returns is a list of contacts with different IDs. *)
LEMMA LookupType ==
    ASSUME NEW n \in Nodes, NEW s \in Lookup(n)
    PROVE  /\ s \in Seq(Contact) /\ s \in Seq(Contacts[n]) /\ DOMAIN s = 1..Len(s)
           /\ \A i, j \in 1..Len(s) : s[i] = s[j] => i = j
<1> DEFINE ids == {c.id : c \in Contacts[n]}
<1>1. Contacts[n] \subseteq Contact /\ IsFiniteSet(Contacts[n])
  BY FileShareAssumption
<1>2. Cardinality(ids) \in Nat
  <2> DEFINE f == [c \in Contacts[n] |-> c.id]
  <2>1. f \in [Contacts[n] -> ids] /\ \A t \in ids : \E x \in Contacts[n] : f[x] = t
    OBVIOUS
  <2> HIDE DEF f, ids
  <2>2. IsFiniteSet(ids)
    BY <1>1, <2>1, ImageIsSmaller
  <2>. QED BY <2>2, FS_CardinalityType
<1> HIDE DEF ids
<1>3. PICK k \in Nat : s \in [1..k -> Contacts[n]]
  BY <1>2 DEF Lookup, ids
<1>4. \A i, j \in DOMAIN s : s[i].id = s[j].id => i = j
  BY DEF Lookup
<1>5. s \in [1..k -> Contact]
  BY <1>1, <1>3
<1>6. Len(s) = k /\ DOMAIN s = 1..Len(s)
  BY <1>3
<1>. QED BY <1>3, <1>4, <1>5, <1>6

(* Contacts that hold a chunk are at least as many as those counted. *)
LEMMA MoreHolders ==
    ASSUME NEW H \in SUBSET Contacts[Uploader], NEW A \in SUBSET H
    PROVE  /\ IsFiniteSet(A) /\ Cardinality(A) \in Nat /\ Cardinality(H) \in Nat
           /\ Cardinality(A) <= Cardinality(H)
<1>1. IsFiniteSet(H)
  BY ContactFacts, FS_Subset
<1>2. IsFiniteSet(A) /\ Cardinality(A) <= Cardinality(H)
  BY <1>1, FS_Subset
<1>. QED BY <1>1, <1>2, FS_CardinalityType

(* The nodes that were reached by some contacts are not more than they. *)
LEMMA FewerNodes ==
    ASSUME NEW A \in SUBSET Contacts[Uploader], NEW R, \A n \in R : \E c \in A : c.addr.node = n
    PROVE  Cardinality(R) \in Nat /\ Cardinality(R) <= Cardinality(A)
<1>1. IsFiniteSet(A) /\ Cardinality(A) \in Nat
  BY ContactFacts, FS_Subset, FS_CardinalityType
<1> DEFINE T == {c.addr.node : c \in A}
           f == [c \in A |-> c.addr.node]
<1>2. f \in [A -> T] /\ (\A t \in T : \E x \in A : f[x] = t) /\ R \subseteq T
  OBVIOUS
<1> HIDE DEF f, T
<1>3. IsFiniteSet(T) /\ Cardinality(T) <= Cardinality(A)
  BY <1>1, <1>2, ImageIsSmaller
<1>4. IsFiniteSet(R) /\ Cardinality(R) <= Cardinality(T)
  BY <1>2, <1>3, FS_Subset
<1>5. Cardinality(R) \in Nat /\ Cardinality(T) \in Nat
  BY <1>3, <1>4, FS_CardinalityType
<1>. QED BY <1>1, <1>3, <1>4, <1>5

(* A destination that holds the first chunks of the file is a prefix of it. *)
LEMMA BeginsIsPrefix ==
    ASSUME NEW s, Begins(s)
    PROVE  IsPrefix(s, Whole) /\ (Len(s) = Len(File) => s = Whole)
<1>1. /\ Len(s) \in Nat /\ s \in Seq(Contents) /\ Len(s) <= Len(File)
      /\ \A i \in 1..Len(s) : s[i] = Content(File[i])
  BY LenProperties DEF Begins
<1>2. /\ Whole \in Seq(Contents) /\ Len(Whole) = Len(File)
      /\ \A i \in 1..Len(File) : Whole[i] = Content(File[i])
  <2>1. Whole \in [1..Len(File) -> Contents]
    BY FileFacts DEF Whole
  <2>2. Whole \in Seq(Contents) /\ Len(Whole) = Len(File)
    BY <2>1, FileFacts
  <2>. QED BY <2>2, FileFacts DEF Whole
<1>3. \A i \in 1..Len(s) : s[i] \in Contents /\ Whole[i] \in Contents /\ s[i] = Whole[i]
  BY <1>1, <1>2, FileFacts
<1> HIDE DEF Whole
<1>4. SubSeq(s, 1, Len(s)) = SubSeq(Whole, 1, Len(s))
  <2> DEFINE a == SubSeq(s, 1, Len(s))
             b == SubSeq(Whole, 1, Len(s))
  <2>1. /\ a \in Seq(Contents) /\ Len(a) = Len(s) /\ \A i \in 1..Len(s) : a[i] = s[i]
        /\ b \in Seq(Contents) /\ Len(b) = Len(s) /\ \A i \in 1..Len(s) : b[i] = Whole[i]
    BY <1>1, <1>3, SubSeqProperties
  <2> HIDE DEF a, b
  <2>2. a = b
    BY <1>1, <1>3, <2>1, SeqEqual
  <2>. QED BY <2>2 DEF a, b
<1>5. Len(s) = Len(File) => s = Whole
  BY <1>1, <1>2, <1>3, SeqEqual
<1>. QED BY <1>1, <1>2, <1>4, <1>5 DEF IsPrefix

(* Stores and metadata only grow. *)
LEMMA GrowthKeeps ==
    ASSUME IInv, \A n \in Nodes : chunks[n] \subseteq chunks'[n], fileMeta \subseteq fileMeta'
    PROVE  (HasFile => HasFile') /\ \A k : Holders(k) \subseteq Holders(k)'
<1>1. \A k : Holders(k) \subseteq Holders(k)'
  BY ContactFacts DEF Holders, IsSelf
<1>. QED BY <1>1, FileShareAssumption DEF HasFile

(* The chunks the loop has left stay as they are when a step stores nothing,   *)
(* or only the chunk the loop is at.                                         *)
LEMMA LeftKeeps ==
    ASSUME IInv, setup' = setup, alive' \subseteq alive,
           missed \subseteq missed', chunk' \in {chunk, chunk + 1},
           \A k : Holders(k) \subseteq Holders(k)',
           \A k \in DOMAIN File : k # chunk /\ Unique(k) => Replicas(k)' = Replicas(k),
           \A k \in DOMAIN File : k = chunk /\ chunk' = chunk + 1 /\ k \notin missed' =>
             /\ \/ Cardinality(Holders(k)') >= DefaultReplicaCount - 1
                \/ \A c \in Contacts[Uploader] :
                     IsSelf(c) \/ ~Reaches(Uploader, c.addr) \/ c \in Holders(k)'
                \/ ~Fits(<<"STORE_CHUNK", {Content(File[k])}>>)
             /\ Unique(k) => Cardinality(Replicas(k)') <= DefaultReplicaCount - 1
    PROVE  ReplicasAsAsked'
<1> SUFFICES ASSUME DefaultReplicaCount > 1, NEW k \in DOMAIN File, k < chunk', k \notin missed'
             PROVE  /\ \/ Cardinality(Holders(k)') >= DefaultReplicaCount - 1
                       \/ \A c \in Contacts[Uploader] :
                            IsSelf(c) \/ ~Reaches(Uploader, c.addr)' \/ c \in Holders(k)'
                       \/ ~Fits(<<"STORE_CHUNK", {Content(File[k])}>>)'
                    /\ Unique(k) => Cardinality(Replicas(k)') <= DefaultReplicaCount - 1
  BY DEF ReplicasAsAsked, IsSelf, Unique
<1>1. \A c \in Contacts[Uploader] : ~Reaches(Uploader, c.addr) => ~Reaches(Uploader, c.addr)'
  BY DEF Reaches
<1>2. k \in Nat /\ chunk \in Nat
  BY FileFacts DEF IInv, TypeOK
<1>3. CASE k < chunk
  <2>1. /\ \/ Cardinality(Holders(k)) >= DefaultReplicaCount - 1
           \/ \A c \in Contacts[Uploader] :
                IsSelf(c) \/ ~Reaches(Uploader, c.addr) \/ c \in Holders(k)
           \/ ~Fits(<<"STORE_CHUNK", {Content(File[k])}>>)
        /\ Unique(k) => Cardinality(Replicas(k)) <= DefaultReplicaCount - 1
    BY <1>3 DEF IInv, RepInv, ReplicasAsAsked, Unique
  <2>2. Cardinality(Holders(k)) >= DefaultReplicaCount - 1
          => Cardinality(Holders(k)') >= DefaultReplicaCount - 1
    <3>1. Holders(k) \in SUBSET Contacts[Uploader] /\ Holders(k)' \in SUBSET Contacts[Uploader]
      BY DEF Holders
    <3>2. /\ Cardinality(Holders(k)) <= Cardinality(Holders(k)')
          /\ Cardinality(Holders(k)) \in Nat /\ Cardinality(Holders(k)') \in Nat
      BY <3>1, MoreHolders
    <3>. QED BY <3>2, FileShareAssumption
  <2>3. Unique(k) => Replicas(k)' = Replicas(k)
    BY <1>2, <1>3
  <2>4. ~Fits(<<"STORE_CHUNK", {Content(File[k])}>>) => ~Fits(<<"STORE_CHUNK", {Content(File[k])}>>)'
    BY DEF Fits, Content
  <2>. QED BY <1>1, <2>1, <2>2, <2>3, <2>4
<1>4. CASE ~(k < chunk)
  <2>1. k = chunk /\ chunk' = chunk + 1
    BY <1>2, <1>4
  <2>2. ~Fits(<<"STORE_CHUNK", {Content(File[k])}>>) => ~Fits(<<"STORE_CHUNK", {Content(File[k])}>>)'
    BY DEF Fits, Content
  <2>. QED BY <1>1, <2>1, <2>2
<1>. QED BY <1>3, <1>4

(* What has been replicated stays so while replication is at rest: holders     *)
(* only get more, and nobody else gets a chunk.                              *)
LEMMA RepKeeps ==
    ASSUME IInv, alive' \subseteq alive, UNCHANGED <<setup, chunk, missed>>,
           \A k : Holders(k) \subseteq Holders(k)' /\ Replicas(k)' = Replicas(k),
           upc' # "send", upc' \in {"start", "chunk"} => upc \in {"start", "chunk"}
    PROVE  RepInv'
<1>1. ClosestInv' /\ CountedInv'
  BY DEF ClosestInv, CountedInv
<1>2. AheadInv'
  BY DEF IInv, RepInv, AheadInv, Unique
<1>3. ReplicasAsAsked'
  BY LeftKeeps DEF IInv, TypeOK
<1>. QED BY <1>1, <1>2, <1>3 DEF RepInv

(* The steps after replication. *)
LEMMA RestKeeps ==
    ASSUME IInv, alive' \subseteq alive, UNCHANGED <<setup, chunks, chunk, missed>>,
           upc' \in {"announce", "done", "failed"}
    PROVE  RepInv'
<1>1. \A k : Holders(k)' = Holders(k) /\ Replicas(k)' = Replicas(k)
  BY DEF Replicas, Holders, IsSelf
<1>. QED BY <1>1, RepKeeps

(* Nothing that replication looks at has changed. *)
LEMMA RepUnchanged ==
    ASSUME IInv, UNCHANGED <<setup, alive, chunks, upc, chunk, data, closest, replicated, missed>>
    PROVE  RepInv'
<1>1. \A k : Replicas(k)' = Replicas(k) /\ Holders(k)' = Holders(k)
  BY DEF Replicas, Holders, IsSelf
<1>2. CASE upc # "send"
  BY <1>1, <1>2, RepKeeps
<1>3. CASE upc = "send"
  <2>1. ClosestInv' /\ AheadInv'
    BY <1>1 DEF IInv, RepInv, ClosestInv, AheadInv, Content, Torn
  <2>2. CountedInv'
    <3>1. Holders(chunk)' = Holders(chunk) /\ Replicas(chunk)' = Replicas(chunk)
      BY DEF Replicas, Holders, IsSelf
    <3>2. Rest(closest)' = Rest(closest)
      BY DEF Rest
    <3>3. \A A : Counted(A) => Counted(A)'
      BY <3>1, <3>2 DEF Counted, Reaches, Fits, IsSelf, Content
    <3>. QED BY <1>3, <3>3 DEF IInv, RepInv, CountedInv
  <2>3. ReplicasAsAsked'
    BY <1>1 DEF IInv, RepInv, ReplicasAsAsked, Reaches, Fits, IsSelf, Content
  <2>. QED BY <2>1, <2>2, <2>3 DEF RepInv
<1>. QED BY <1>2, <1>3

(* A step of the upload leaves the download alone, and the upload is not over. *)
LEMMA UploadKeeps ==
    ASSUME IInv, UNCHANGED <<setup, alive, downVars>>, upc # "done",
           NetTypes', UpTypes', SendInv', StoredInv', RecordInv', RepInv'
    PROVE  IInv'
<1>1. UNCHANGED <<setup, alive, dpc, after, fallback, asking, found, source, refused, dest>>
  BY DEF downVars
<1>2. TypeOK'
  BY <1>1 DEF IInv, TypeOK, NetTypes, UpTypes
<1>3. DestInv'
  BY <1>1 DEF IInv, DestInv, Begins
<1>4. RefusedInv'
  <2>1. ~after
    BY DEF IInv, RefusedInv
  <2>. QED BY <1>1, <2>1 DEF IInv, RefusedInv, StoredCanBeDownloaded
<1>. QED BY <1>2, <1>3, <1>4 DEF IInv

-----------------------------------------------------------------------------
(* The upload *)

LEMMA StoreFileInv ==
    ASSUME IInv, StoreFile
    PROVE  IInv'
<1>1. PICK k \in 0..Len(File) :
        /\ chunks' = [chunks EXCEPT ![Uploader] = @ \union {Content(File[i]) : i \in 1..k}]
        /\ IF k = Len(File)
           THEN fileMeta' = fileMeta \union {Uploader} /\ upc' = "chunk"
           ELSE fileMeta' = fileMeta /\ upc' = "failed"
  BY DEF StoreFile
<1>2. /\ upc = "start"
      /\ UNCHANGED <<setup, alive, providers, chunk, data, closest, replicated, missed, downVars>>
  BY DEF StoreFile
<1> DEFINE new == {Content(File[i]) : i \in 1..k}
<1>3. new \subseteq Contents /\ (k = Len(File) => \A c \in Chunks : Content(c) \in new)
  BY FileFacts
<1> HIDE DEF new
<1>4. /\ chunks' \in [Nodes -> SUBSET Contents]
      /\ \A n \in Nodes : chunks[n] \subseteq chunks'[n]
      /\ new \subseteq chunks'[Uploader]
      /\ \A n \in Nodes \ {Uploader} : chunks'[n] = chunks[n]
  BY <1>1, <1>3, FileShareAssumption DEF IInv, TypeOK, new
<1>5. NetTypes' /\ UpTypes'
  BY <1>1, <1>2, <1>4, FileShareAssumption DEF IInv, TypeOK, NetTypes, UpTypes
<1>6. SendInv'
  BY <1>1 DEF SendInv
<1>7. StoredInv'
  BY <1>1, <1>3, <1>4 DEF StoredInv, HasFile
<1>8. RecordInv'
  BY <1>2 DEF IInv, RecordInv
<1>9. RepInv'
  <2>1. \A j : Holders(j) \subseteq Holders(j)'
    BY <1>1, <1>4, GrowthKeeps
  <2>2. \A j : Replicas(j)' = Replicas(j)
    BY <1>4 DEF Replicas
  <2>. QED BY <1>1, <1>2, <2>1, <2>2, RepKeeps
<1>. QED BY <1>2, <1>5, <1>6, <1>7, <1>8, <1>9, UploadKeeps

(* The steps of the loop that store nothing and announce nothing. *)
LEMMA LoopInv ==
    ASSUME IInv, upc \in {"chunk", "send"}, upc' \in {"chunk", "send"},
           UpTypes', SendInv', RepInv', UNCHANGED <<netVars, downVars>>
    PROVE  IInv'
<1>1. UNCHANGED <<setup, alive, chunks, fileMeta, providers>>
  BY DEF netVars
<1>2. NetTypes'
  BY <1>1 DEF IInv, TypeOK, NetTypes
<1>3. StoredInv'
  BY <1>1 DEF IInv, StoredInv, HasFile
<1>4. RecordInv'
  BY <1>1 DEF IInv, RecordInv
<1>. QED BY <1>1, <1>2, <1>3, <1>4, UploadKeeps

LEMMA LoadChunkInv ==
    ASSUME IInv, LoadChunk
    PROVE  IInv'
<1>1. /\ upc = "chunk" /\ DefaultReplicaCount > 1 /\ chunk \in 1..Len(File) /\ replicated' = 0
      /\ UNCHANGED <<netVars, downVars>>
  BY FileFacts DEF LoadChunk, IInv, TypeOK
<1>2. 0 \in 0..Needed /\ 0 < Needed
  BY <1>1, FileShareAssumption DEF Needed
<1>a. UNCHANGED <<setup, alive, chunks>> /\ chunk \in DOMAIN File
  BY <1>1, FileFacts DEF netVars
<1>b. \A k : Replicas(k)' = Replicas(k) /\ Holders(k)' = Holders(k)
  BY <1>a DEF Replicas, Holders, IsSelf
<1>3. ASSUME NEW d \in Reads(File[chunk]), NEW s \in Lookup(Uploader) \ {<<>>},
             data' = {d}, closest' = s, upc' = "send", chunk' = chunk,
             missed' = IF d = Content(File[chunk]) /\ Contacts[Uploader] = Range(s)
                       THEN missed ELSE missed \union {chunk}
      PROVE  IInv'
  <2>1. d \in Contents /\ d \in {Content(File[chunk]), Torn(File[chunk])}
    BY <1>1, <1>3, FileFacts DEF Reads
  <2>2. /\ s \in Seq(Contact) /\ s \in Seq(Contacts[Uploader]) /\ DOMAIN s = 1..Len(s)
        /\ \A i, j \in 1..Len(s) : s[i] = s[j] => i = j
    BY <1>3, LookupType, FileShareAssumption
  <2>3. UpTypes'
    BY <1>1, <1>2, <1>3, <1>a, <2>1, <2>2 DEF IInv, TypeOK, UpTypes
  <2>4. SendInv'
    BY <1>1, <1>2, <1>3, FileFacts DEF SendInv, Needed
  <2>5. ClosestInv'
    BY <1>3, <2>1, <2>2 DEF ClosestInv, Content, Torn
  <2>6. AheadInv'
    BY <1>3, <1>b DEF IInv, RepInv, AheadInv
  <2>7. CountedInv'
    <3> SUFFICES ASSUME chunk \notin missed'
                 PROVE  Counted({})'
      BY <1>3 DEF CountedInv
    <3>1. d = Content(File[chunk]) /\ Contacts[Uploader] = Range(s)
      BY <1>3
    <3>2. Contacts[Uploader] = Rest(s)
      BY <2>2, <3>1 DEF Range, Rest
    <3>5. Replicas(chunk)' = Replicas(chunk) /\ Rest(closest)' = Rest(s)
      BY <1>3, <1>a DEF Replicas, Rest
    <3>3. Unique(chunk) => Replicas(chunk) = {}
      BY <1>1, <1>a DEF IInv, RepInv, AheadInv
    <3>4. Cardinality({}) = 0
      BY FS_EmptySet
    <3>. QED BY <1>1, <1>3, <3>1, <3>2, <3>3, <3>4, <3>5 DEF Counted, Content
  <2>8. ReplicasAsAsked'
    BY <1>1, <1>3, <1>a, <1>b, LeftKeeps DEF IInv, TypeOK
  <2>. QED BY <1>1, <1>3, <2>3, <2>4, <2>5, <2>6, <2>7, <2>8, LoopInv DEF RepInv
<1>4. ASSUME chunk' = chunk + 1, UNCHANGED <<data, closest, upc>>, missed' = missed \union {chunk}
      PROVE  IInv'
  <2>1. chunk + 1 \in 1..(Len(File) + 1)
    BY <1>1, FileFacts
  <2>2. UpTypes'
    BY <1>1, <1>2, <1>4, <1>a, <2>1 DEF IInv, TypeOK, UpTypes
  <2>3. SendInv'
    BY <1>1, <1>4 DEF SendInv
  <2>4. ClosestInv' /\ CountedInv'
    BY <1>1, <1>4 DEF ClosestInv, CountedInv
  <2>5. AheadInv'
    BY <1>1, <1>4, <1>b, FileFacts DEF IInv, RepInv, AheadInv
  <2>6. ReplicasAsAsked'
    BY <1>1, <1>4, <1>a, <1>b, LeftKeeps
  <2>. QED BY <1>1, <1>4, <2>2, <2>3, <2>4, <2>5, <2>6, LoopInv DEF RepInv
<1>. QED BY <1>3, <1>4 DEF LoadChunk

(* On to the next chunk or to the next contact. *)
LEMMA NextFacts ==
    ASSUME IInv, upc = "send", NextChunk \/ (closest # <<>> /\ NextContact)
    PROVE  /\ upc' \in {"chunk", "send"} /\ (upc' = "send" => chunk' = chunk)
           /\ chunk' \in 1..(Len(File) + 1) /\ data' \subseteq Contents /\ closest' \in Seq(Contact)
           /\ chunk \in DOMAIN File /\ chunk \in Nat
           /\ ClosestInv'
<1>1. chunk \in Nat /\ chunk \in DOMAIN File /\ chunk + 1 \in 1..(Len(File) + 1)
  BY FileFacts DEF IInv, SendInv, TypeOK
<1>2. CASE NextChunk
  BY <1>1, <1>2 DEF NextChunk, ClosestInv
<1>3. CASE closest # <<>> /\ NextContact
  <2>1. Tail(closest) \in Seq(Contact)
    BY <1>3, HeadTailProperties DEF IInv, TypeOK
  <2>2. /\ closest \in Seq(Contacts[Uploader])
        /\ \A i, j \in 1..Len(closest) : closest[i] = closest[j] => i = j
        /\ data \subseteq {Content(File[chunk]), Torn(File[chunk])}
    BY DEF IInv, RepInv, ClosestInv
  <2>3. /\ Tail(closest) \in Seq(Contacts[Uploader]) /\ Len(Tail(closest)) = Len(closest) - 1
        /\ Len(closest) \in Nat
        /\ \A i \in 1..Len(Tail(closest)) :
             i + 1 \in 1..Len(closest) /\ Tail(closest)[i] = closest[i + 1]
    BY <1>3, <2>2
  <2>4. ClosestInv'
    BY <1>3, <2>2, <2>3 DEF NextContact, ClosestInv, Content, Torn
  <2>. QED BY <1>1, <1>3, <2>1, <2>4 DEF NextContact, IInv, TypeOK
<1>. QED BY <1>2, <1>3

(* A contact of the rest is the first one or comes later. *)
LEMMA RestFacts ==
    ASSUME IInv, upc = "send", closest # <<>>
    PROVE  /\ Head(closest) \in Contacts[Uploader]
           /\ Rest(closest) = Rest(Tail(closest)) \union {Head(closest)}
           /\ Head(closest) \notin Rest(Tail(closest))
<1>1. /\ closest \in Seq(Contacts[Uploader])
      /\ \A i, j \in 1..Len(closest) : closest[i] = closest[j] => i = j
  BY DEF IInv, RepInv, ClosestInv
<1>2. /\ Len(closest) \in Nat \ {0} /\ Head(closest) = closest[1] /\ 1 \in 1..Len(closest)
      /\ Len(Tail(closest)) = Len(closest) - 1
      /\ \A j \in 1..Len(Tail(closest)) :
           j + 1 \in 1..Len(closest) /\ Tail(closest)[j] = closest[j + 1] /\ j + 1 # 1
  BY <1>1
<1>3. \A i \in 1..Len(closest) : i = 1 \/ (i - 1 \in 1..Len(Tail(closest)) /\ (i - 1) + 1 = i)
  BY <1>2
<1>4. Head(closest) \in Contacts[Uploader]
  BY <1>1, <1>2, ElementOfSeq
<1>5. \A x \in Rest(Tail(closest)) : x \in Rest(closest) /\ x # Head(closest)
  BY <1>1, <1>2 DEF Rest
<1>6. \A x \in Rest(closest) : x \in Rest(Tail(closest)) \/ x = Head(closest)
  BY <1>2, <1>3 DEF Rest
<1>7. Head(closest) \in Rest(closest)
  BY <1>2 DEF Rest
<1>. QED BY <1>4, <1>5, <1>6, <1>7

LEMMA ContactsDoneInv ==
    ASSUME IInv, ContactsDone \/ SkipSelf
    PROVE  IInv'
<1>1. /\ upc = "send" /\ (NextChunk \/ (closest # <<>> /\ NextContact))
      /\ UNCHANGED <<netVars, replicated, missed, downVars>>
  BY DEF ContactsDone, SkipSelf
<1>2. /\ upc' \in {"chunk", "send"} /\ (upc' = "send" => chunk' = chunk)
      /\ chunk' \in 1..(Len(File) + 1) /\ data' \subseteq Contents /\ closest' \in Seq(Contact)
      /\ chunk \in DOMAIN File /\ chunk \in Nat /\ ClosestInv'
  BY <1>1, NextFacts
<1>3. UpTypes'
  BY <1>1, <1>2 DEF IInv, TypeOK, UpTypes
<1>4. SendInv'
  BY <1>1, <1>2 DEF IInv, SendInv, Needed
<1>a. UNCHANGED <<setup, alive, chunks>>
  BY <1>1 DEF netVars
<1>b. \A k : Replicas(k)' = Replicas(k) /\ Holders(k)' = Holders(k)
  BY <1>a DEF Replicas, Holders, IsSelf
<1>5. AheadInv'
  BY <1>1, <1>2, <1>b, FileFacts DEF IInv, RepInv, AheadInv, NextChunk, NextContact
<1>6. CASE SkipSelf
  <2>1. /\ closest # <<>> /\ IsSelf(Head(closest)) /\ NextContact
    BY <1>6 DEF SkipSelf
  <2>2. CountedInv'
    <3> SUFFICES ASSUME chunk \notin missed
                 PROVE  \E A \in SUBSET Contacts[Uploader] : Counted(A)'
      BY <1>1, <2>1 DEF CountedInv, NextContact
    <3>1. PICK A \in SUBSET Contacts[Uploader] : Counted(A)
      BY <1>1 DEF IInv, RepInv, CountedInv
    <3>2. Holders(chunk)' = Holders(chunk) /\ Replicas(chunk)' = Replicas(chunk)
      BY <1>a, <2>1 DEF NextContact, Replicas, Holders, IsSelf
    <3>3. /\ Rest(closest) = Rest(closest)' \union {Head(closest)}
      BY <1>1, <2>1, RestFacts DEF NextContact, Rest
    <3>4. Counted(A)'
      BY <1>1, <1>a, <2>1, <3>1, <3>2, <3>3
         DEF Counted, NextContact, Reaches, Fits, IsSelf, Content
    <3>. QED BY <3>4
  <2>3. ReplicasAsAsked'
    BY <1>1, <1>2, <1>a, <1>b, <2>1, LeftKeeps DEF NextContact
  <2>. QED BY <1>1, <1>2, <1>3, <1>4, <1>5, <2>2, <2>3, LoopInv DEF RepInv
<1>7. CASE ContactsDone
  <2>1. closest = <<>> /\ NextChunk /\ upc' = "chunk" /\ chunk' = chunk + 1
    BY <1>7 DEF ContactsDone, NextChunk
  <2>2. CountedInv'
    BY <2>1 DEF CountedInv
  <2>3. ASSUME chunk \notin missed
        PROVE  /\ \/ Cardinality(Holders(chunk)) >= DefaultReplicaCount - 1
                  \/ \A c \in Contacts[Uploader] :
                       IsSelf(c) \/ ~Reaches(Uploader, c.addr) \/ c \in Holders(chunk)
                  \/ ~Fits(<<"STORE_CHUNK", {Content(File[chunk])}>>)
               /\ Unique(chunk) => Cardinality(Replicas(chunk)) <= DefaultReplicaCount - 1
    <3>1. PICK A \in SUBSET Contacts[Uploader] : Counted(A)
      BY <1>1, <2>3 DEF IInv, RepInv, CountedInv
    <3>2. Holders(chunk) \in SUBSET Contacts[Uploader]
      BY DEF Holders
    <3>3. Cardinality(A) <= Needed
      BY <1>1, <3>1, FileShareAssumption DEF Counted, IInv, SendInv, TypeOK, Needed
    <3>4. Rest(closest) = {}
      BY <2>1 DEF Rest
    <3>5. A \subseteq Holders(chunk)
      BY <3>1 DEF Counted
    <3>6. Unique(chunk) => Cardinality(Replicas(chunk)) <= DefaultReplicaCount - 1
      <4>1. Unique(chunk) => \A n \in Replicas(chunk) : \E c \in A : c.addr.node = n
        BY <3>1 DEF Counted
      <4>2. Cardinality(A) \in Nat
        BY <3>2, <3>5, MoreHolders
      <4>. QED BY <3>3, <4>1, <4>2, FewerNodes, FileShareAssumption DEF Needed
    <3>7. \A c \in Contacts[Uploader] :
            \/ IsSelf(c) \/ ~Reaches(Uploader, c.addr) \/ c \in Holders(chunk)
            \/ ~Fits(<<"STORE_CHUNK", {Content(File[chunk])}>>)
      BY <3>1, <3>4, <3>5 DEF Counted
    <3>. QED BY <3>6, <3>7
  <2>4. ReplicasAsAsked'
    BY <1>1, <1>2, <1>a, <1>b, <2>1, <2>3, LeftKeeps
  <2>. QED BY <1>1, <1>2, <1>3, <1>4, <1>5, <2>2, <2>4, LoopInv DEF RepInv
<1>. QED BY <1>6, <1>7

(* The next contact is a contact, and a peer that stores keeps what it has. *)
LEMMA StoreFacts ==
    ASSUME IInv, closest # <<>>, Store(Head(closest).addr) \/ chunks' = chunks
    PROVE  /\ Head(closest) \in Contact /\ Head(closest).addr.node \in Nodes
           /\ chunks' \in [Nodes -> SUBSET Contents]
           /\ \A n \in Nodes : chunks[n] \subseteq chunks'[n]
           /\ Store(Head(closest).addr) => data \subseteq chunks'[Head(closest).addr.node]
<1>1. Head(closest) \in Contact
  BY HeadTailProperties DEF IInv, TypeOK
<1>2. Head(closest).addr.node \in Nodes
  BY <1>1 DEF Contact, Addresses
<1> DEFINE m == Head(closest).addr.node
<1>3. CASE Store(Head(closest).addr)
  <2>1. chunks' = [chunks EXCEPT ![m] = @ \union data]
    BY <1>3 DEF Store
  <2> HIDE DEF m
  <2>2. m \in Nodes /\ chunks \in [Nodes -> SUBSET Contents] /\ data \subseteq Contents
    BY <1>2 DEF m, IInv, TypeOK
  <2>3. /\ chunks' \in [Nodes -> SUBSET Contents]
        /\ \A n \in Nodes : chunks[n] \subseteq chunks'[n]
        /\ data \subseteq chunks'[m]
    BY <2>1, <2>2
  <2>. QED BY <1>1, <1>2, <2>3 DEF m
<1>4. CASE ~Store(Head(closest).addr)
  BY <1>1, <1>2, <1>4 DEF IInv, TypeOK
<1>. QED BY <1>3, <1>4

(* Beside the chunk the loop is at, nobody gets a chunk that occurs once. *)
LEMMA StoreReplicas ==
    ASSUME IInv, upc = "send", closest # <<>>, Store(Head(closest).addr) \/ chunks' = chunks
    PROVE  /\ \A k : Holders(k) \subseteq Holders(k)'
           /\ \A k \in DOMAIN File : k # chunk /\ Unique(k) => Replicas(k)' = Replicas(k)
<1> DEFINE m == Head(closest).addr.node
<1>1. /\ m \in Nodes /\ chunks' \in [Nodes -> SUBSET Contents]
      /\ \A n \in Nodes : chunks[n] \subseteq chunks'[n]
  BY StoreFacts
<1>2. \A n \in Nodes : chunks'[n] = chunks[n] \/ (n = m /\ chunks'[n] = chunks[n] \union data)
  BY <1>1 DEF Store, IInv, TypeOK
<1>3. chunk \in DOMAIN File /\ data \subseteq {Content(File[chunk]), Torn(File[chunk])}
  BY FileFacts DEF IInv, RepInv, ClosestInv, SendInv, TypeOK
<1> HIDE DEF m
<1>4. \A k : Holders(k) \subseteq Holders(k)'
  BY <1>1, ContactFacts DEF Holders, IsSelf
<1>5. ASSUME NEW k \in DOMAIN File, k # chunk, Unique(k)
      PROVE  Replicas(k)' = Replicas(k)
  <2>1. Content(File[k]) \notin data
    BY <1>3, <1>5 DEF Unique, Content, Torn
  <2>. QED BY <1>2, <2>1 DEF Replicas, Content
<1>. QED BY <1>4, <1>5

LEMMA ReplicateInv ==
    ASSUME IInv, Replicate
    PROVE  IInv'
<1> DEFINE c == Head(closest)
           m == c.addr.node
<1>1. /\ upc = "send" /\ closest # <<>> /\ Store(c.addr) /\ ~IsSelf(c)
      /\ replicated' = replicated + 1
      /\ IF replicated + 1 >= Needed THEN NextChunk ELSE NextContact
      /\ UNCHANGED <<setup, alive, fileMeta, providers, missed, downVars>>
  BY DEF Replicate
<1>2. /\ m \in Nodes /\ chunks' \in [Nodes -> SUBSET Contents]
      /\ \A n \in Nodes : chunks[n] \subseteq chunks'[n]
      /\ data \subseteq chunks'[m]
  BY <1>1, StoreFacts
<1>a. /\ \A k : Holders(k) \subseteq Holders(k)'
      /\ \A k \in DOMAIN File : k # chunk /\ Unique(k) => Replicas(k)' = Replicas(k)
      /\ c \in Contacts[Uploader]
  BY <1>1, StoreReplicas, RestFacts
<1>3. /\ upc' \in {"chunk", "send"} /\ (upc' = "send" => chunk' = chunk)
      /\ chunk' \in 1..(Len(File) + 1) /\ data' \subseteq Contents /\ closest' \in Seq(Contact)
      /\ chunk \in DOMAIN File /\ chunk \in Nat /\ ClosestInv'
  BY <1>1, NextFacts
<1>4. replicated \in Nat /\ Needed \in Int /\ replicated < Needed /\ chunk <= Len(File)
  BY <1>1, FileShareAssumption DEF IInv, TypeOK, SendInv, Needed
<1>5. UpTypes'
  <2>1. replicated + 1 \in 0..Needed
    BY <1>4
  <2>. QED BY <1>1, <1>3, <2>1 DEF UpTypes, IInv, TypeOK
<1>6. NetTypes'
  BY <1>1, <1>2 DEF IInv, TypeOK, NetTypes
<1>7. SendInv'
  <2>1. upc' = "send" => ~(replicated + 1 >= Needed)
    BY <1>1 DEF NextChunk
  <2>2. upc' = "send" => replicated' < Needed
    BY <1>1, <1>4, <2>1
  <2>. QED BY <1>3, <1>4, <2>2 DEF SendInv, Needed
<1>8. StoredInv'
  BY <1>1, <1>2, <1>3, GrowthKeeps DEF IInv, StoredInv
<1>9. RecordInv'
  BY <1>1 DEF IInv, RecordInv
<1>10. AheadInv'
  BY <1>1, <1>3, <1>a, FileFacts DEF IInv, RepInv, AheadInv, NextChunk, NextContact
<1>11. ASSUME chunk \notin missed
       PROVE  \E B \in SUBSET Contacts[Uploader] :
                /\ Cardinality(B) = replicated + 1
                /\ \A x \in B : x \in {y \in Contacts[Uploader] : ~IsSelf(y) /\
                                         Content(File[chunk]) \in chunks'[y.addr.node]}
                /\ B \intersect Rest(Tail(closest)) = {}
                /\ \A x \in Contacts[Uploader] :
                     \/ IsSelf(x) \/ ~Reaches(Uploader, x.addr)
                     \/ x \in B \union Rest(Tail(closest))
                     \/ ~Fits(<<"STORE_CHUNK", {Content(File[chunk])}>>)
                /\ Unique(chunk) =>
                     \A n \in {y \in Nodes \ {Uploader} : Content(File[chunk]) \in chunks'[y]} :
                       \E x \in B : x.addr.node = n
  <2>1. PICK A \in SUBSET Contacts[Uploader] : Counted(A)
    BY <1>1, <1>11 DEF IInv, RepInv, CountedInv
  <2>2. c \notin A
    <3>1. c \in Rest(closest)
      BY <1>1, RestFacts
    <3>. QED BY <2>1, <3>1 DEF Counted
  <2> DEFINE B == A \union {c}
  <2>3. Cardinality(B) = replicated + 1
    BY <2>1, <2>2, ContactFacts, FS_Subset, FS_AddElement DEF Counted
  <2>4. \A x \in B : x \in {y \in Contacts[Uploader] : ~IsSelf(y) /\
                              Content(File[chunk]) \in chunks'[y.addr.node]}
    BY <1>1, <1>2, <1>a, <2>1, ContactFacts DEF Counted, Holders
  <2>5. /\ B \intersect Rest(Tail(closest)) = {}
        /\ \A x \in Contacts[Uploader] :
             \/ IsSelf(x) \/ ~Reaches(Uploader, x.addr) \/ x \in B \union Rest(Tail(closest))
             \/ ~Fits(<<"STORE_CHUNK", {Content(File[chunk])}>>)
    <3>1. /\ Rest(closest) = Rest(Tail(closest)) \union {c}
          /\ c \notin Rest(Tail(closest))
      BY <1>1, RestFacts
    <3> HIDE DEF c
    <3>. QED BY <2>1, <3>1 DEF Counted
  <2>6. ASSUME Unique(chunk), NEW n \in Nodes \ {Uploader}, Content(File[chunk]) \in chunks'[n]
        PROVE  \E x \in B : x.addr.node = n
    <3>1. n \in Replicas(chunk) \/ n = m
      <4>1. n = m \/ chunks'[n] = chunks[n]
        BY <1>1, <1>2 DEF Store, IInv, TypeOK
      <4>. QED BY <2>6, <4>1 DEF Replicas
    <3>. QED BY <2>1, <2>6, <3>1 DEF Counted
  <2>7. B \in SUBSET Contacts[Uploader]
    BY <1>a
  <2> HIDE DEF B
  <2>. QED BY <2>3, <2>4, <2>5, <2>6, <2>7
<1>12. CountedInv'
  <2> SUFFICES ASSUME upc' = "send", chunk' \notin missed'
               PROVE  \E A \in SUBSET Contacts[Uploader] : Counted(A)'
    BY DEF CountedInv
  <2>1. chunk \notin missed /\ NextContact
    BY <1>1, <1>3 DEF NextChunk
  <2>2. data = {Content(File[chunk])}
    BY <1>1, <2>1 DEF IInv, RepInv, CountedInv, Counted
  <2>3. /\ Holders(chunk)' = {y \in Contacts[Uploader] :
                                 ~IsSelf(y) /\ Content(File[chunk]) \in chunks'[y.addr.node]}
        /\ Replicas(chunk)' = {y \in Nodes \ {Uploader} : Content(File[chunk]) \in chunks'[y]}
        /\ Rest(closest)' = Rest(Tail(closest))
    BY <2>1 DEF NextContact, Holders, Replicas, IsSelf, Content, Rest
  <2>4. /\ chunk' = chunk /\ data' = data /\ replicated' = replicated + 1
        /\ alive' = alive /\ setup' = setup
    BY <1>1, <2>1 DEF NextContact
  <2>5. PICK B \in SUBSET Contacts[Uploader] :
          /\ Cardinality(B) = replicated + 1
          /\ B \subseteq Holders(chunk)'
          /\ B \intersect Rest(closest)' = {}
          /\ \A x \in Contacts[Uploader] :
               \/ IsSelf(x) \/ ~Reaches(Uploader, x.addr) \/ x \in B \union Rest(closest)'
               \/ ~Fits(<<"STORE_CHUNK", {Content(File[chunk])}>>)
          /\ Unique(chunk) => \A n \in Replicas(chunk)' : \E x \in B : x.addr.node = n
    BY <1>11, <2>1, <2>3
  <2>6. Counted(B)'
    BY <2>2, <2>4, <2>5 DEF Counted, Reaches, Fits, IsSelf, Content
  <2>. QED BY <2>6
<1>13. ReplicasAsAsked'
  <2>1. ASSUME NEW k \in DOMAIN File, k = chunk, chunk' = chunk + 1, k \notin missed
        PROVE  /\ Cardinality(Holders(k)') >= DefaultReplicaCount - 1
               /\ Unique(k) => Cardinality(Replicas(k)') <= DefaultReplicaCount - 1
    <3>1. replicated + 1 >= Needed
      BY <1>1, <1>3, <2>1 DEF NextContact
    <3> DEFINE H == Holders(k)'
               R == Replicas(k)'
    <3>2. PICK B \in SUBSET Contacts[Uploader] :
            /\ Cardinality(B) = replicated + 1
            /\ B \subseteq H
            /\ Unique(k) => \A n \in R : \E x \in B : x.addr.node = n
      BY <1>11, <2>1 DEF Holders, Replicas, IsSelf, Content
    <3> HIDE DEF H, R
    <3>3. Cardinality(B) = Needed
      BY <1>4, <3>1, <3>2
    <3>4. H \in SUBSET Contacts[Uploader]
      BY DEF H, Holders
    <3>5. /\ Cardinality(H) >= DefaultReplicaCount - 1
          /\ Unique(k) => Cardinality(R) <= DefaultReplicaCount - 1
      BY <1>4, <3>2, <3>3, <3>4, MoreHolders, FewerNodes, FileShareAssumption DEF Needed
    <3>. QED BY <3>5 DEF H, R
  <2>. QED BY <1>1, <1>3, <1>a, <2>1, LeftKeeps DEF NextChunk, NextContact
<1>. QED BY <1>1, <1>3, <1>5, <1>6, <1>7, <1>8, <1>9, <1>10, <1>12, <1>13, UploadKeeps DEF RepInv

LEMMA ReplicateErrorInv ==
    ASSUME IInv, ReplicateError
    PROVE  IInv'
<1> DEFINE c == Head(closest)
<1>1. /\ upc = "send" /\ closest # <<>> /\ NextContact
      /\ Store(c.addr) \/ chunks' = chunks
      /\ UNCHANGED <<setup, alive, fileMeta, providers, replicated, downVars>>
  BY DEF ReplicateError
<1>2. /\ chunks' \in [Nodes -> SUBSET Contents]
      /\ \A n \in Nodes : chunks[n] \subseteq chunks'[n]
  BY <1>1, StoreFacts
<1>a. /\ \A k : Holders(k) \subseteq Holders(k)'
      /\ \A k \in DOMAIN File : k # chunk /\ Unique(k) => Replicas(k)' = Replicas(k)
  BY <1>1, StoreReplicas
<1>3. /\ upc' = "send" /\ chunk' = chunk
      /\ chunk' \in 1..(Len(File) + 1) /\ data' \subseteq Contents /\ closest' \in Seq(Contact)
      /\ chunk \in DOMAIN File /\ chunk \in Nat /\ ClosestInv'
  BY <1>1, NextFacts DEF NextContact
<1>b. /\ missed \subseteq missed' /\ missed' \subseteq DOMAIN File
      /\ chunk \notin missed' =>
           /\ missed' = missed /\ chunks' = chunks
           /\ ~Reaches(Uploader, c.addr) \/ ~Fits(<<"STORE_CHUNK", data>>)
  BY <1>3 DEF ReplicateError, IInv, TypeOK
<1>4. NetTypes' /\ UpTypes'
  BY <1>1, <1>2, <1>3, <1>b DEF IInv, TypeOK, NetTypes, UpTypes
<1>5. SendInv'
  BY <1>1, <1>3 DEF IInv, SendInv, Needed
<1>6. StoredInv'
  BY <1>1, <1>2, <1>3, GrowthKeeps DEF IInv, StoredInv
<1>7. RecordInv'
  BY <1>1 DEF IInv, RecordInv
<1>8. AheadInv'
  BY <1>3, <1>a, FileFacts DEF IInv, RepInv, AheadInv
<1>9. CountedInv'
  <2> SUFFICES ASSUME chunk \notin missed'
               PROVE  \E A \in SUBSET Contacts[Uploader] : Counted(A)'
    BY <1>3 DEF CountedInv
  <2>1. PICK A \in SUBSET Contacts[Uploader] : Counted(A)
    BY <1>1, <1>b DEF IInv, RepInv, CountedInv
  <2>2. ~Reaches(Uploader, c.addr) \/ ~Fits(<<"STORE_CHUNK", {Content(File[chunk])}>>)
    BY <1>b, <2>1 DEF Counted
  <2>3. Holders(chunk)' = Holders(chunk) /\ Replicas(chunk)' = Replicas(chunk)
    BY <1>3, <1>b DEF Replicas, Holders, IsSelf
  <2>4. Rest(closest) = Rest(closest)' \union {c}
    BY <1>1, RestFacts DEF NextContact, Rest
  <2> HIDE DEF c
  <2>5. Counted(A)'
    BY <1>1, <1>3, <2>1, <2>2, <2>3, <2>4
       DEF Counted, NextContact, Reaches, Fits, IsSelf, Content
  <2>. QED BY <2>5
<1>10. ReplicasAsAsked'
  BY <1>1, <1>3, <1>a, <1>b, LeftKeeps
<1>. QED BY <1>1, <1>3, <1>4, <1>5, <1>6, <1>7, <1>8, <1>9, <1>10, UploadKeeps DEF RepInv

(* A node that records the uploader records one of the uploader's addresses. *)
LEMMA RecordFacts ==
    ASSUME IInv, NEW m \in Nodes, NEW a \in Addresses, a.node = Uploader,
           providers' = [providers EXCEPT ![m] = @ \union {[id |-> Uploader, addr |-> a]}],
           upc \in {"chunk", "announce"}, upc' = "announce"
    PROVE  providers' \in [Nodes -> SUBSET Contact] /\ RecordInv'
<1> DEFINE new == [id |-> Uploader, addr |-> a]
<1>1. new \in Contact /\ new.id = Uploader /\ new.addr.node = Uploader
  BY FileShareAssumption DEF Contact
<1> HIDE DEF new
<1>2. providers' = [providers EXCEPT ![m] = @ \union {new}]
  BY DEF new
<1>3. providers' \in [Nodes -> SUBSET Contact]
  BY <1>1, <1>2 DEF IInv, TypeOK
<1>4. \A n \in Nodes : \A p \in providers'[n] : p = new \/ p \in providers[n]
  BY <1>2 DEF IInv, TypeOK
<1>. QED BY <1>1, <1>3, <1>4 DEF IInv, RecordInv

LEMMA AnnounceInv ==
    ASSUME IInv, Announce
    PROVE  IInv'
<1>1. /\ upc = "chunk" /\ upc' = "announce" /\ closest' \in Lookup(Uploader)
      /\ providers' = [providers EXCEPT ![Uploader] = @ \union
                        {[id |-> Uploader, addr |-> Own(Uploader)]}]
      /\ UNCHANGED <<setup, alive, chunks, fileMeta, chunk, data, replicated, missed, downVars>>
  BY DEF Announce
<1>2. closest' \in Seq(Contact)
  BY <1>1, LookupType, FileShareAssumption
<1>3. providers' \in [Nodes -> SUBSET Contact] /\ RecordInv'
  <2>1. Own(Uploader) \in Addresses /\ Own(Uploader).node = Uploader
    BY FileShareAssumption DEF Addresses, Own
  <2>. QED BY <1>1, <2>1, RecordFacts, FileShareAssumption
<1>4. NetTypes' /\ UpTypes'
  BY <1>1, <1>2, <1>3 DEF IInv, TypeOK, NetTypes, UpTypes
<1>5. SendInv' /\ StoredInv'
  BY <1>1 DEF IInv, SendInv, StoredInv, HasFile
<1>6. RepInv'
  BY <1>1, RestKeeps
<1>. QED BY <1>1, <1>3, <1>4, <1>5, <1>6, UploadKeeps

LEMMA SendProviderInv ==
    ASSUME IInv, SendProvider
    PROVE  IInv'
<1> DEFINE a == Head(closest).addr
<1>1. /\ upc = "announce" /\ closest # <<>> /\ NextContact
      /\ \/ providers' = [providers EXCEPT ![a.node] = @ \union
                             {[id |-> Uploader, addr |-> From(Uploader, a)]}]
         \/ providers' = providers
      /\ UNCHANGED <<setup, alive, chunks, fileMeta, replicated, missed, downVars>>
  BY DEF SendProvider
<1>2. a \in Addresses /\ a.node \in Nodes /\ Tail(closest) \in Seq(Contact)
  <2>1. Head(closest) \in Contact /\ Tail(closest) \in Seq(Contact)
    BY <1>1, HeadTailProperties DEF IInv, TypeOK
  <2>2. a \in Addresses
    BY <2>1 DEF Contact
  <2>. QED BY <2>1, <2>2 DEF Addresses
<1> HIDE DEF a
<1>3. upc' = upc /\ chunk' = chunk /\ data' = data /\ closest' \in Seq(Contact)
  BY <1>1, <1>2 DEF NextContact
<1>4. providers' \in [Nodes -> SUBSET Contact] /\ RecordInv'
  <2>1. CASE providers' = providers
    BY <1>1, <1>3, <2>1 DEF IInv, TypeOK, RecordInv
  <2>2. CASE providers' = [providers EXCEPT ![a.node] = @ \union
                             {[id |-> Uploader, addr |-> From(Uploader, a)]}]
    <3> DEFINE f == From(Uploader, a)
    <3>1. f \in Addresses /\ f.node = Uploader
      BY <1>2, FileShareAssumption DEF From, Addresses
    <3> HIDE DEF f
    <3>2. providers' = [providers EXCEPT ![a.node] = @ \union {[id |-> Uploader, addr |-> f]}]
      BY <2>2 DEF f
    <3>. QED BY <1>1, <1>2, <1>3, <3>1, <3>2, RecordFacts
  <2>. QED BY <1>1, <2>1, <2>2
<1>5. NetTypes' /\ UpTypes'
  BY <1>1, <1>3, <1>4 DEF IInv, TypeOK, NetTypes, UpTypes
<1>6. SendInv' /\ StoredInv'
  BY <1>1, <1>3 DEF IInv, SendInv, StoredInv, HasFile
<1>7. RepInv'
  BY <1>1, <1>3, RestKeeps
<1>. QED BY <1>1, <1>4, <1>5, <1>6, <1>7, UploadKeeps

LEMMA UploadDoneInv ==
    ASSUME IInv, UploadDone
    PROVE  IInv'
<1>1. /\ upc = "announce" /\ upc' = "done"
      /\ UNCHANGED <<setup, alive, chunks, fileMeta, providers, chunk, data, closest, replicated,
                     missed, downVars>>
  BY DEF UploadDone, netVars
<1>2. NetTypes' /\ UpTypes'
  BY <1>1 DEF IInv, TypeOK, NetTypes, UpTypes
<1>3. SendInv' /\ StoredInv' /\ RecordInv'
  BY <1>1 DEF IInv, SendInv, StoredInv, HasFile, RecordInv
<1>4. RepInv'
  BY <1>1, RestKeeps
<1>. QED BY <1>1, <1>2, <1>3, <1>4, UploadKeeps

(* The exit of the uploader takes nothing back; what could not be reached      *)
(* still cannot.                                                             *)
LEMMA ExitInv ==
    ASSUME IInv, Exit
    PROVE  IInv'
<1>1. /\ alive' = alive \ {Uploader} /\ upc \in {"done", "failed"}
      /\ UNCHANGED <<setup, chunks, fileMeta, providers, upc, chunk, data, closest, replicated, missed>>
      /\ UNCHANGED <<dpc, after, fallback, asking, found, source, refused, dest>>
  BY DEF Exit, upVars, downVars
<1>2. TypeOK'
  BY <1>1 DEF IInv, TypeOK, Needed
<1>3. SendInv' /\ StoredInv' /\ RecordInv' /\ RepInv'
  BY <1>1, RestKeeps DEF IInv, SendInv, StoredInv, HasFile, RecordInv, Needed
<1>4. DestInv'
  BY <1>1 DEF IInv, DestInv, Begins
<1>5. RefusedInv'
  BY <1>1 DEF IInv, RefusedInv, StoredCanBeDownloaded, Reaches, Fits
<1>. QED BY <1>2, <1>3, <1>4, <1>5 DEF IInv

-----------------------------------------------------------------------------
(* The download *)

(* A step of the download leaves the network and the upload alone. *)
LEMMA DownloadKeeps ==
    ASSUME IInv, UNCHANGED <<netVars, upVars>>, DownTypes', DestInv', RefusedInv'
    PROVE  IInv'
<1>1. UNCHANGED <<setup, alive, chunks, fileMeta, providers, upc, chunk, data, closest, replicated,
                  missed>>
  BY DEF netVars, upVars
<1>2. TypeOK'
  <2>1. Cardinality(dest') <= 1 /\ \A s \in dest' : s \in Seq(Contents)
    <3>1. dest' = {} \/ \E s \in Seq(Contents) : dest' = {s}
      BY DEF DestInv
    <3>2. Cardinality({}) = 0 /\ \A s : Cardinality({s}) = 1
      BY FS_EmptySet, FS_Singleton
    <3>3. CASE dest' = {}
      BY <3>2, <3>3
    <3>4. ASSUME NEW s \in Seq(Contents), dest' = {s}
          PROVE  Cardinality(dest') <= 1 /\ \A t \in dest' : t \in Seq(Contents)
      <4>1. Cardinality(dest') = 1
        BY <3>2, <3>4, Zenon
      <4>. QED BY <3>4, <4>1
    <3>. QED BY <3>1, <3>3, <3>4
  <2>. QED BY <1>1, <2>1 DEF IInv, TypeOK, DownTypes
<1>3. SendInv' /\ StoredInv' /\ RecordInv' /\ RepInv'
  BY <1>1, RepUnchanged DEF IInv, SendInv, StoredInv, HasFile, RecordInv, Needed
<1>. QED BY <1>2, <1>3 DEF IInv

LEMMA FindFileProvidersInv ==
    ASSUME IInv, FindFileProviders
    PROVE  IInv'
<1>1. /\ dpc = "start" /\ dpc' = "find" /\ after' = (upc = "done")
      /\ UNCHANGED <<netVars, upVars, fallback, found, source, refused, dest>>
  BY DEF FindFileProviders
<1>2. asking' \subseteq Contact
  <2>1. PICK s \in Lookup(Downloader) : asking' = {s[i] : i \in {j \in DOMAIN s : j <= Alpha}}
    BY DEF FindFileProviders
  <2>2. s \in Seq(Contact)
    BY LookupType, FileShareAssumption
  <2>3. \A i \in DOMAIN s : s[i] \in Contact
    BY <2>2, LenProperties, ElementOfSeq
  <2>. QED BY <2>1, <2>3
<1>3. DownTypes'
  BY <1>1, <1>2 DEF IInv, TypeOK, DownTypes
<1>4. DestInv'
  BY <1>1 DEF IInv, DestInv, Begins
<1>5. RefusedInv'
  BY <1>1 DEF IInv, RefusedInv, StoredCanBeDownloaded, upVars
<1>. QED BY <1>1, <1>3, <1>4, <1>5, DownloadKeeps

LEMMA HearProvidersInv ==
    ASSUME IInv, HearProviders
    PROVE  IInv'
<1>1. /\ dpc = "find"
      /\ UNCHANGED <<netVars, upVars, dpc, after, fallback, source, refused, dest>>
  BY DEF HearProviders
<1>2. PICK c \in asking :
        /\ asking' = asking \ {c}
        /\ found' = found \union providers[c.addr.node] \/ found' = found
  BY DEF HearProviders
<1>3. c.addr.node \in Nodes
  BY DEF IInv, TypeOK, Contact, Addresses
<1>4. DownTypes'
  BY <1>1, <1>2, <1>3 DEF IInv, TypeOK, DownTypes
<1>5. DestInv'
  BY <1>1 DEF IInv, DestInv, Begins
<1>6. RefusedInv'
  BY <1>1 DEF IInv, RefusedInv, StoredCanBeDownloaded, Reaches, Fits, upVars, netVars
<1>. QED BY <1>1, <1>4, <1>5, <1>6, DownloadKeeps

(* An error of DownloadFile, after a refusal or not. *)
LEMMA DownloadErrorInv ==
    ASSUME IInv, DownloadError, dpc \in {"find", "meta", "fetch"}, NEW m \in Messages,
           UNCHANGED <<netVars, upVars, after, asking, found, dest>>,
           refused' = refused \/ refused' = refused \union {<<source, m>>},
           refused' # refused /\ after /\ source.node = Uploader
             => ~Reaches(Downloader, source) \/ ~Fits(m)
    PROVE  IInv'
<1>1. dpc' \in {"fatal", "meta"} /\ fallback' \in BOOLEAN /\ source' \in Addresses
  <2>1. setup.bootstrap \in {{}} \union {{a} : a \in Addresses}
    BY FileShareAssumption DEF IInv, TypeOK, Setup
  <2>2. \A x \in setup.bootstrap : x \in Addresses
    BY <2>1
  <2>. QED BY <2>2 DEF DownloadError, IInv, TypeOK
<1>2. DownTypes'
  BY <1>1, FileShareAssumption DEF IInv, TypeOK, DownTypes
<1>3. DestInv'
  BY <1>1 DEF IInv, DestInv, Begins
<1>4. RefusedInv'
  <2>1. ASSUME after, NEW r \in refused', r[1].node = Uploader
        PROVE  ~Reaches(Downloader, r[1]) \/ ~Fits(r[2])
    <3>1. CASE r \in refused
      BY <2>1, <3>1 DEF IInv, RefusedInv, StoredCanBeDownloaded
    <3>2. CASE r \notin refused
      BY <2>1, <3>2
    <3>. QED BY <3>1, <3>2
  <2>2. alive' = alive /\ upc' = upc /\ setup' = setup
    BY DEF netVars, upVars
  <2>. QED BY <1>1, <2>1, <2>2 DEF IInv, RefusedInv, StoredCanBeDownloaded, Reaches, Fits
<1>. QED BY <1>2, <1>3, <1>4, DownloadKeeps

LEMMA PickProviderInv ==
    ASSUME IInv, PickProvider
    PROVE  IInv'
<1>1. CASE DownloadError /\ found = {}
  <2>1. <<"FILE_META", {}>> \in Messages
    BY DEF Messages
  <2>. QED BY <1>1, <2>1, DownloadErrorInv DEF PickProvider
<1>2. ASSUME NEW p \in found, source' = p.addr, dpc' = "meta", fallback' = fallback
      PROVE  IInv'
  <2>1. p.addr \in Addresses
    BY DEF IInv, TypeOK, Contact
  <2>2. UNCHANGED <<netVars, upVars, after, asking, found, refused, dest>>
    BY DEF PickProvider
  <2>3. DownTypes'
    BY <1>2, <2>1, <2>2 DEF IInv, TypeOK, DownTypes
  <2>4. DestInv'
    BY <1>2, <2>2 DEF IInv, DestInv, Begins
  <2>5. RefusedInv'
    BY <1>2, <2>2 DEF IInv, RefusedInv, StoredCanBeDownloaded, Reaches, Fits, upVars, netVars
  <2>. QED BY <2>2, <2>3, <2>4, <2>5, DownloadKeeps
<1>. QED BY <1>1, <1>2 DEF PickProvider

LEMMA FetchMetaInv ==
    ASSUME IInv, FetchMeta
    PROVE  IInv'
<1>1. /\ dpc = "meta" /\ dpc' = "fetch" /\ dest' = {<<>>}
      /\ UNCHANGED <<netVars, upVars, after, fallback, asking, found, source, refused>>
  BY DEF FetchMeta
<1>2. DownTypes'
  BY <1>1 DEF IInv, TypeOK, DownTypes
<1>3. DestInv'
  <2>1. <<>> \in Seq(Contents) /\ Begins(<<>>)
    BY EmptySeq, FileFacts DEF Begins
  <2>2. \E s \in Seq(Contents) : dest' = {s} /\ Begins(s)
    BY <1>1, <2>1
  <2>. QED BY <1>1, <2>2 DEF DestInv, Begins
<1>4. RefusedInv'
  BY <1>1 DEF IInv, RefusedInv, StoredCanBeDownloaded, Reaches, Fits, upVars, netVars
<1>. QED BY <1>1, <1>2, <1>3, <1>4, DownloadKeeps

LEMMA FetchMetaErrorInv ==
    ASSUME IInv, FetchMetaError
    PROVE  IInv'
<1> DEFINE m == <<"FILE_META", {}>>
<1>1. m \in Messages
  BY DEF Messages
<1>2. /\ refused' = refused \/ refused' = refused \union {<<source, m>>}
      /\ refused' # refused /\ after /\ source.node = Uploader
           => ~Reaches(Downloader, source) \/ ~Fits(m)
  BY DEF FetchMetaError, IInv, RefusedInv, StoredInv, HasFile
<1> HIDE DEF m
<1>. QED BY <1>1, <1>2, DownloadErrorInv DEF FetchMetaError

(* What the loop of DownloadFile has written so far. *)
LEMMA WrittenFacts ==
    ASSUME IInv, dpc = "fetch"
    PROVE  /\ dest = {Written} /\ Begins(Written) /\ Written \in Seq(Contents)
           /\ Len(Written) \in Nat
           /\ Len(Written) < Len(File) => Wanted \in Chunks
<1>1. PICK s \in Seq(Contents) : dest = {s} /\ Begins(s)
  BY DEF IInv, DestInv
<1>2. Written = s
  BY <1>1 DEF Written
<1>3. Len(s) \in Nat
  BY LenProperties
<1>4. Len(s) < Len(File) => Len(s) + 1 \in 1..Len(File)
  BY <1>3, FileFacts
<1>. QED BY <1>1, <1>2, <1>3, <1>4, FileFacts DEF Wanted

LEMMA FetchChunkInv ==
    ASSUME IInv, FetchChunk
    PROVE  IInv'
<1>1. /\ dpc = "fetch" /\ Len(Written) < Len(File)
      /\ UNCHANGED <<netVars, upVars, dpc, after, fallback, asking, found, source, refused>>
  BY DEF FetchChunk
<1>2. dest' = {Append(Written, Content(Wanted))}
  BY DEF FetchChunk, Matches
<1>3. /\ Begins(Written) /\ Written \in Seq(Contents) /\ Len(Written) \in Nat
      /\ Wanted \in Chunks /\ Wanted = File[Len(Written) + 1]
  BY <1>1, WrittenFacts DEF Wanted
<1> DEFINE w == Written
           t == Append(w, Content(Wanted))
<1> HIDE DEF w
<1>4. /\ t \in Seq(Contents) /\ Len(t) = Len(w) + 1
      /\ \A i \in 1..Len(w) : t[i] = w[i]
      /\ t[Len(w) + 1] = Content(File[Len(w) + 1])
  BY <1>3, FileFacts DEF w
<1> HIDE DEF t
<1>5. Begins(t)
  <2>1. Len(t) <= Len(File)
    BY <1>1, <1>3, <1>4, FileFacts DEF w
  <2>2. \A i \in 1..Len(t) : i \in 1..Len(w) \/ i = Len(w) + 1
    BY <1>3, <1>4 DEF w
  <2>. QED BY <1>3, <1>4, <2>1, <2>2 DEF Begins, w
<1>6. DestInv'
  <2>1. \E s \in Seq(Contents) : dest' = {s} /\ Begins(s)
    BY <1>2, <1>4, <1>5 DEF t, w
  <2>. QED BY <1>1, <2>1 DEF DestInv, Begins
<1>7. DownTypes'
  BY <1>1 DEF IInv, TypeOK, DownTypes
<1>8. RefusedInv'
  BY <1>1 DEF IInv, RefusedInv, StoredCanBeDownloaded, Reaches, Fits, upVars, netVars
<1>. QED BY <1>1, <1>6, <1>7, <1>8, DownloadKeeps

LEMMA FetchChunkErrorInv ==
    ASSUME IInv, FetchChunkError
    PROVE  IInv'
<1> DEFINE m == <<"CHUNK_DATA", {Content(Wanted)}>>
<1>1. Wanted \in Chunks
  BY WrittenFacts DEF FetchChunkError
<1>2. m \in Messages
  BY <1>1, FileFacts DEF Messages
<1>3. /\ refused' = refused \/ refused' = refused \union {<<source, m>>}
      /\ refused' # refused /\ after /\ source.node = Uploader
           => ~Reaches(Downloader, source) \/ ~Fits(m)
  BY <1>1 DEF FetchChunkError, IInv, RefusedInv, StoredInv, HasFile
<1> HIDE DEF m
<1>. QED BY <1>2, <1>3, DownloadErrorInv DEF FetchChunkError

LEMMA DownloadDoneInv ==
    ASSUME IInv, DownloadDone
    PROVE  IInv'
<1>1. /\ dpc = "fetch" /\ dpc' = "done" /\ Len(Written) = Len(File)
      /\ UNCHANGED <<netVars, upVars, after, fallback, asking, found, source, refused, dest>>
  BY DEF DownloadDone
<1>2. DownTypes'
  BY <1>1 DEF IInv, TypeOK, DownTypes
<1>3. DestInv'
  <2>1. dest = {Written}
    BY <1>1, WrittenFacts
  <2>. QED BY <1>1, <2>1 DEF IInv, DestInv, Begins
<1>4. RefusedInv'
  BY <1>1 DEF IInv, RefusedInv, StoredCanBeDownloaded, Reaches, Fits, upVars, netVars
<1>. QED BY <1>1, <1>2, <1>3, <1>4, DownloadKeeps

-----------------------------------------------------------------------------
(* The theorems *)

LEMMA InitInv == Init => IInv
<1> SUFFICES ASSUME Init
             PROVE  IInv
  OBVIOUS
<1>1. TypeOK
  <2>1. 0 \in 0..Needed /\ 1 \in 1..(Len(File) + 1)
    BY FileFacts, FileShareAssumption DEF Needed
  <2>2. closest \in Seq(Contact)
    BY EmptySeq DEF Init
  <2>3. Cardinality(dest) <= 1
    BY FS_EmptySet DEF Init
  <2>4. source \in Addresses
    BY FileShareAssumption DEF Init, Own, Addresses
  <2>. QED BY <2>1, <2>2, <2>3, <2>4, FileShareAssumption DEF Init, TypeOK
<1>2. SendInv /\ StoredInv /\ RecordInv
  BY DEF Init, SendInv, StoredInv, RecordInv
<1>4. RepInv
  <2>1. \A k : Replicas(k) = {}
    BY DEF Init, Replicas
  <2>2. \A k \in DOMAIN File : ~(k < chunk)
    BY FileFacts DEF Init
  <2>. QED BY <2>1, <2>2 DEF Init, RepInv, ClosestInv, AheadInv, CountedInv, ReplicasAsAsked
<1>3. DestInv /\ RefusedInv
  BY DEF Init, DestInv, RefusedInv, StoredCanBeDownloaded
<1>. QED BY <1>1, <1>2, <1>3, <1>4 DEF IInv

LEMMA NextInv == IInv /\ [Next]_vars => IInv'
<1> SUFFICES ASSUME IInv, [Next]_vars
             PROVE  IInv'
  OBVIOUS
<1>1. CASE UploadStep
  BY <1>1, StoreFileInv, LoadChunkInv, ContactsDoneInv, ReplicateInv, ReplicateErrorInv,
     AnnounceInv, SendProviderInv, UploadDoneInv DEF UploadStep
<1>2. CASE DownloadStep
  BY <1>2, FindFileProvidersInv, HearProvidersInv, PickProviderInv, FetchMetaInv,
     FetchMetaErrorInv, FetchChunkInv, FetchChunkErrorInv, DownloadDoneInv DEF DownloadStep
<1>3. CASE UNCHANGED vars
  <2>1. UNCHANGED <<netVars, upVars>>
    BY <1>3 DEF vars
  <2>2. UNCHANGED <<dpc, after, fallback, asking, found, source, refused, dest>>
    BY <1>3 DEF vars, downVars
  <2>3. DownTypes'
    BY <2>2 DEF IInv, TypeOK, DownTypes
  <2>4. DestInv'
    BY <2>2 DEF IInv, DestInv, Begins
  <2>5. RefusedInv'
    BY <2>1, <2>2 DEF IInv, RefusedInv, StoredCanBeDownloaded, Reaches, Fits, upVars, netVars
  <2>. QED BY <2>1, <2>3, <2>4, <2>5, DownloadKeeps
<1>. QED BY <1>1, <1>2, <1>3, ExitInv DEF Next

(* The inductive invariant. *)
THEOREM Invariance == Spec => []IInv
BY InitInv, NextInv, PTL DEF Spec

(* Both commands and the stores are well formed. *)
THEOREM TypeCorrect == Spec => []TypeOK
<1>1. IInv => TypeOK
  BY DEF IInv
<1>. QED BY <1>1, Invariance, PTL

(* ReplicateFileChunks leaves every chunk with as many replicas as it was asked *)
(* for, neither fewer nor more, up to the exceptions ReplicasAsAsked lists.      *)
THEOREM ReplicationIsAsAsked == Spec => []ReplicasAsAsked
<1>1. IInv => ReplicasAsAsked
  BY DEF IInv, RepInv
<1>. QED BY <1>1, Invariance, PTL

(* Every provider record names a node that has the whole file. *)
THEOREM RecordsAreTrue == Spec => []ProvidersHaveTheFile
<1>1. IInv => ProvidersHaveTheFile
  BY DEF IInv, RecordInv, StoredInv, HasFile, ProvidersHaveTheFile
<1>. QED BY <1>1, Invariance, PTL

(* The destination is a beginning of the file, and all of it after success,    *)
(* for any file and any combination of faults.                               *)
THEOREM DownloadIsTheFile == Spec => []DestIsTheFile
<1>1. ASSUME IInv
      PROVE  DestIsTheFile
  <2>1. CASE dest = {}
    BY <1>1, <2>1 DEF IInv, DestInv, DestIsTheFile
  <2>2. ASSUME NEW s \in Seq(Contents), dest = {s}, Begins(s)
        PROVE  DestIsTheFile
    <3>1. IsPrefix(s, Whole) /\ (Len(s) = Len(File) => s = Whole)
      BY <2>2, BeginsIsPrefix
    <3>2. dpc = "done" => Len(s) = Len(File)
      BY <1>1, <2>2 DEF IInv, DestInv
    <3>. QED BY <2>2, <3>1, <3>2 DEF DestIsTheFile
  <2>. QED BY <1>1, <2>1, <2>2 DEF IInv, DestInv
<1>. QED BY <1>1, Invariance, PTL

(* An uploader that has ended its upload refuses a later download only when it *)
(* cannot be reached or its answer does not fit a frame.                     *)
THEOREM StoredFilesAreServed == Spec => []StoredCanBeDownloaded
<1>1. IInv => StoredCanBeDownloaded
  BY DEF IInv, RefusedInv
<1>. QED BY <1>1, Invariance, PTL
=============================================================================

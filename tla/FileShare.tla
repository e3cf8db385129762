----------------------------- MODULE FileShare -----------------------------
(********************************************************************************)
(* File sharing (dht/service.go, and the store-file and download-root commands  *)
(* of cmd/node/main.go): one node stores and announces a file, another finds a  *)
(* provider and downloads it, at the same time or later.                        *)
(*                                                                              *)
(* A remote call is what RemoteCall promises: it succeeds with a true answer,   *)
(* or fails, executed or not.  Lookup returns some of the contacts a node may   *)
(* know, in some order (Dht).  The chunk store is content-addressed; a read     *)
(* may meet a chunk that is being stored again by somebody else and return      *)
(* less than the whole (ChunkStore, run chunk_store_torn).                      *)
(********************************************************************************)
EXTENDS Naturals, Sequences, SequencesExt, FiniteSets

CONSTANTS
    Nodes, Uploader, Downloader,
    Gone,               \* IDs of nodes that have been restarted under another ID
    File,               \* the chunks of the file, in order
    Contacts,           \* Contacts[n]: the contacts Lookup at n may find
    DefaultReplicaCount, \* 3 in the code
    Alpha,              \* 3 in the code
    Setups              \* the circumstances the two commands may run in

Chunks == Range(File)
Contents == [chunk : Chunks, whole : BOOLEAN]

(* The messages that can be too large, by type and content. *)
Messages == ({"STORE_CHUNK", "CHUNK_DATA"} \X {{d} : d \in Contents})
              \union {<<"FILE_META", {}>>}

(* Addresses: a node's listening address, or the port of its end of the         *)
(* connection it has dialled to node port.                                      *)
Addresses == [node : Nodes, port : Nodes \union {"listen"}]
Contact == [id : Nodes \union Gone, addr : Addresses]

(* What may fail, the messages above MaxMessageSize (codec.go), which depend    *)
(* on the file and on -chunk-size, and the first -bootstrap address of the      *)
(* downloader, if it has one.                                                   *)
Setup == [faults : SUBSET {"network", "torn", "disk"},
          oversize : SUBSET Messages,
          bootstrap : {{}} \union {{a} : a \in Addresses}]

ASSUME FileShareAssumption ==
    /\ Uploader \in Nodes /\ Downloader \in Nodes /\ Uploader # Downloader
    /\ File \in Seq(Chunks) /\ File # <<>>
    /\ Contacts \in [Nodes -> SUBSET Contact]
    /\ \A n \in Nodes : IsFiniteSet(Contacts[n])
    /\ Setups \subseteq Setup
    /\ DefaultReplicaCount \in Nat \ {0} /\ Alpha \in Nat

VARIABLES
    setup,      \* one of the Setups
    alive,      \* the nodes that run
    chunks,     \* chunks[n]: the contents in its ChunkStore, which are their own IDs
    fileMeta,   \* the nodes that have registered the FileMeta of the file
    providers,  \* providers[n]: the provider records of the file at n
    upc,        \* where StoreFileLocalAndAnnounce is
    chunk,      \* the chunk it replicates: an index into File
    data,       \* the content it has loaded for that chunk
    closest,    \* the rest of the contacts it goes through
    replicated, \* how many of them have stored the chunk
    missed,     \* history: the chunks for which a read, Lookup or a call failed
    dpc,        \* where the download command is
    after,      \* history: it began after the upload had ended
    fallback,   \* it has fallen back to the bootstrap peer
    asking,     \* the contacts FindFileProviders still waits for
    found,      \* the providers it has heard of
    source,     \* the address it downloads from, once it has one
    refused,    \* history: the answers that did not come, and from which address,
                \* although no message was lost, no disk failed, no read was torn
    dest        \* the destination file: absent ({}) or {its contents}

upVars == <<upc, chunk, data, closest, replicated, missed>>
downVars == <<dpc, after, fallback, asking, found, source, refused, dest>>
netVars == <<setup, alive, chunks, fileMeta, providers>>
vars == <<netVars, upVars, downVars>>

(* What a store returns for a chunk: its content, or part of it. *)
Content(c) == [chunk |-> c, whole |-> TRUE]
Torn(c) == [chunk |-> c, whole |-> FALSE]
Reads(c) == {Content(c)} \union (IF "torn" \in setup.faults THEN {Torn(c)} ELSE {})
Whole == [i \in DOMAIN File |-> Content(File[i])]

Own(n) == [node |-> n, port |-> "listen"]

Init ==
    /\ setup \in Setups
    /\ alive = Nodes
    /\ chunks = [n \in Nodes |-> {}]
    /\ fileMeta = {}
    /\ providers = [n \in Nodes |-> {}]
    /\ upc = "start"
    /\ chunk = 1
    /\ data = {}
    /\ closest = <<>>
    /\ replicated = 0
    /\ missed = {}
    /\ dpc = "start"
    /\ after = FALSE
    /\ fallback = FALSE
    /\ asking = {}
    /\ found = {}
    /\ source = Own(Downloader)
    /\ refused = {}
    /\ dest = {}

(* Send from n arrives at an address: its node runs, and listens there or has   *)
(* a connection to n from there.                                                *)
Reaches(n, a) == a.node \in alive /\ a.port \in {"listen", n}

(* Encode refuses a message above MaxMessageSize: a request fails, an answer is *)
(* only logged as failed by the peer, and the caller runs into its timeout.     *)
Fits(m) == m \notin setup.oversize

(* rpc.From at the receiver, when n sends to address a. *)
From(n, a) == [node |-> n, port |-> IF a.port = "listen" THEN a.node ELSE "listen"]

(* Lookup finds all the contacts there are, or fewer when messages get lost.  *)
Lookup(n) ==
    LET all == Cardinality({c.id : c \in Contacts[n]})
        least == IF "network" \in setup.faults THEN 0 ELSE all
    IN  {s \in UNION {[1..k -> Contacts[n]] : k \in least..all} :
            \A i, j \in DOMAIN s : s[i].id = s[j].id => i = j}

-----------------------------------------------------------------------------
(* StoreFileLocalAndAnnounce *)

(* Seeded fault: the error of StoreFileWithMerkle does not end the upload. *)
StoreFileAnyway ==
    /\ upc = "start"
    /\ \E k \in 0..Len(File) :
         /\ k = Len(File) \/ "disk" \in setup.faults
         /\ chunks' = [chunks EXCEPT ![Uploader] =
                          @ \union {Content(File[i]) : i \in 1..k}]
    /\ fileMeta' = fileMeta \union {Uploader}
    /\ upc' = "chunk"
    /\ UNCHANGED <<setup, alive, providers, chunk, data, closest, replicated, missed,
                   downVars>>

(* Seeded fault: the metadata are not registered. *)
StoreFileUnregistered ==
    /\ upc = "start"
    /\ chunks' = [chunks EXCEPT ![Uploader] = @ \union {Content(c) : c \in Chunks}]
    /\ upc' = "chunk"
    /\ UNCHANGED <<setup, alive, fileMeta, providers, chunk, data, closest, replicated,
                   missed, downVars>>

(* StoreFileWithMerkle stores the chunks in order, up to an error; then the     *)
(* metadata are registered.                                                     *)
StoreFile ==
    /\ upc = "start"
    /\ \E k \in 0..Len(File) :
         /\ k = Len(File) \/ "disk" \in setup.faults
         /\ chunks' = [chunks EXCEPT ![Uploader] =
                          @ \union {Content(File[i]) : i \in 1..k}]
         /\ IF k = Len(File)
            THEN fileMeta' = fileMeta \union {Uploader} /\ upc' = "chunk"
            ELSE fileMeta' = fileMeta /\ upc' = "failed"
    /\ UNCHANGED <<setup, alive, providers, chunk, data, closest, replicated, missed,
                   downVars>>

(* ReplicateFileChunks, the beginning of an iteration: load the chunk and       *)
(* look for peers; an error or an empty list goes on to the next chunk.         *)
LoadChunk ==
    /\ upc = "chunk"
    /\ DefaultReplicaCount > 1
    /\ chunk <= Len(File)
    /\ \/ \E d \in Reads(File[chunk]), s \in Lookup(Uploader) \ {<<>>} :
            /\ data' = {d}
            /\ closest' = s
            /\ upc' = "send"
            /\ chunk' = chunk
            /\ missed' = IF d = Content(File[chunk]) /\ Contacts[Uploader] = Range(s)
                         THEN missed ELSE missed \union {chunk}
       \/ /\ "disk" \in setup.faults \/ <<>> \in Lookup(Uploader)
          /\ chunk' = chunk + 1
          /\ missed' = missed \union {chunk}
          /\ UNCHANGED <<data, closest, upc>>
    /\ replicated' = 0
    /\ UNCHANGED <<netVars, downVars>>

(* Seeded fault: the local copy is subtracted twice. *)
NeededLess == DefaultReplicaCount - 2

(* replicaCount - 1 *)
Needed == DefaultReplicaCount - 1

NextChunk == upc' = "chunk" /\ chunk' = chunk + 1 /\ closest' = <<>> /\ data' = {}

NextContact == closest' = Tail(closest) /\ UNCHANGED <<upc, chunk, data>>

IsSelf(c) == c.id = Uploader \/ c.addr = Own(Uploader)

(* The end of the loop over the closest contacts. *)
ContactsDone ==
    /\ upc = "send"
    /\ closest = <<>>
    /\ NextChunk
    /\ UNCHANGED <<netVars, replicated, missed, downVars>>

(* The uploader itself is skipped. *)
SkipSelf ==
    /\ upc = "send" /\ closest # <<>>
    /\ IsSelf(Head(closest))
    /\ NextContact
    /\ UNCHANGED <<netVars, replicated, missed, downVars>>

(* The peer of the call stores what it is sent. *)
Store(a) == chunks' = [chunks EXCEPT ![a.node] = @ \union data]

(* StoreChunkRemote succeeds: one more replica, and perhaps the last. *)
Replicate ==
    /\ upc = "send" /\ closest # <<>>
    /\ LET c == Head(closest)
       IN  /\ ~IsSelf(c)
           /\ Reaches(Uploader, c.addr) /\ Fits(<<"STORE_CHUNK", data>>)
           /\ Store(c.addr)
    /\ replicated' = replicated + 1
    /\ IF replicated + 1 >= Needed THEN NextChunk ELSE NextContact
    /\ UNCHANGED <<setup, alive, fileMeta, providers, missed, downVars>>

(* StoreChunkRemote fails: the request could not be sent, or it was and the     *)
(* peer executed it or not.  On to the next contact.                            *)
ReplicateError ==
    /\ upc = "send" /\ closest # <<>>
    /\ LET c == Head(closest)
           sent == Reaches(Uploader, c.addr) /\ Fits(<<"STORE_CHUNK", data>>)
       IN  /\ ~IsSelf(c)
           /\ \/ ~sent /\ chunks' = chunks /\ missed' = missed
              \/ /\ sent /\ {"network", "disk"} \intersect setup.faults # {}
                 /\ chunks' = chunks \/ Store(c.addr)
                 /\ missed' = missed \union {chunk}
    /\ NextContact
    /\ UNCHANGED <<setup, alive, fileMeta, providers, replicated, downVars>>

(* AnnounceFile: the own record, then Lookup. *)
Announce ==
    /\ upc = "chunk"
    /\ chunk > Len(File) \/ DefaultReplicaCount <= 1
    /\ providers' = [providers EXCEPT ![Uploader] = @ \union
                        {[id |-> Uploader, addr |-> Own(Uploader)]}]
    /\ closest' \in Lookup(Uploader)
    /\ upc' = "announce"
    /\ UNCHANGED <<setup, alive, chunks, fileMeta, chunk, data, replicated, missed,
                   downVars>>

(* STORE_FILE_PROVIDER to the next contact, which records the sender under      *)
(* rpc.From, unless it is the sender; nobody waits for an answer.               *)
SendProvider ==
    /\ upc = "announce" /\ closest # <<>>
    /\ LET a == Head(closest).addr
       IN  \/ /\ Reaches(Uploader, a) /\ a.node # Uploader
              /\ providers' = [providers EXCEPT ![a.node] = @ \union
                                  {[id |-> Uploader, addr |-> From(Uploader, a)]}]
           \/ /\ ~Reaches(Uploader, a) \/ a.node = Uploader \/ "network" \in setup.faults
              /\ providers' = providers
    /\ NextContact
    /\ UNCHANGED <<setup, alive, chunks, fileMeta, replicated, missed, downVars>>

UploadDone ==
    /\ upc = "announce" /\ closest = <<>>
    /\ upc' = "done"
    /\ UNCHANGED <<netVars, chunk, data, closest, replicated, missed, downVars>>

(* The store-file command returns from main and takes its node with it.       *)
Exit ==
    /\ upc \in {"done", "failed"}
    /\ Uploader \in alive
    /\ alive' = alive \ {Uploader}
    /\ UNCHANGED <<setup, chunks, fileMeta, providers, upVars, downVars>>

-----------------------------------------------------------------------------
(* The download command *)

(* A remote call of the downloader to address a does not come back. *)
CallFails(a) == ~Reaches(Downloader, a) \/ "network" \in setup.faults

(* FindFileProviders: Lookup, and a request to each of the first Alpha.       *)
FindFileProviders ==
    /\ dpc = "start"
    /\ \E s \in Lookup(Downloader) :
         asking' = {s[i] : i \in {j \in DOMAIN s : j <= Alpha}}
    /\ dpc' = "find"
    /\ after' = (upc = "done")
    /\ UNCHANGED <<netVars, upVars, fallback, found, source, refused, dest>>

(* One of them answers or fails. *)
HearProviders ==
    /\ dpc = "find"
    /\ \E c \in asking :
         /\ asking' = asking \ {c}
         /\ \/ Reaches(Downloader, c.addr) /\ found' = found \union providers[c.addr.node]
            \/ CallFails(c.addr) /\ found' = found
    /\ UNCHANGED <<netVars, upVars, dpc, after, fallback, source, refused, dest>>

(* Seeded fault: the fallback is tried again and again. *)
DownloadErrorRetries ==
    \/ /\ setup.bootstrap = {}
       /\ dpc' = "fatal"
       /\ UNCHANGED <<fallback, source>>
    \/ /\ dpc' = "meta"
       /\ fallback' = TRUE
       /\ source' \in setup.bootstrap

(* An error of DownloadFile leads to the bootstrap peer; without one, and after *)
(* a second error, it ends the command.                                         *)
DownloadError ==
    \/ /\ fallback \/ setup.bootstrap = {}
       /\ dpc' = "fatal"
       /\ UNCHANGED <<fallback, source>>
    \/ /\ ~fallback
       /\ dpc' = "meta"
       /\ fallback' = TRUE
       /\ source' \in setup.bootstrap

(* All have answered: DownloadFile takes the first provider in map order. *)
PickProvider ==
    /\ dpc = "find" /\ asking = {}
    /\ \/ \E p \in found : source' = p.addr /\ dpc' = "meta" /\ fallback' = fallback
       \/ found = {} /\ DownloadError
    /\ UNCHANGED <<netVars, upVars, after, asking, found, refused, dest>>

(* FetchFileMetaFromProvider and os.Create. *)
FetchMeta ==
    /\ dpc = "meta"
    /\ Reaches(Downloader, source) /\ source.node \in fileMeta
    /\ Fits(<<"FILE_META", {}>>)
    /\ dest' = {<<>>}
    /\ dpc' = "fetch"
    /\ UNCHANGED <<netVars, upVars, after, fallback, asking, found, source, refused>>

(* The peer is gone, has no such file or cannot send its metadata; or the       *)
(* destination cannot be created.                                               *)
FetchMetaError ==
    /\ dpc = "meta"
    /\ \/ /\ \/ ~Reaches(Downloader, source) \/ source.node \notin fileMeta
             \/ ~Fits(<<"FILE_META", {}>>)
          /\ refused' = refused \union {<<source, <<"FILE_META", {}>>>>}
       \/ /\ {"network", "disk"} \intersect setup.faults # {}
          /\ refused' = refused
    /\ DownloadError
    /\ UNCHANGED <<netVars, upVars, after, asking, found, dest>>

Written == CHOOSE s \in dest : TRUE

(* The chunk the loop is at. *)
Wanted == File[Len(Written) + 1]

(* Seeded fault: the content is not compared with its ID. *)
MatchesAnything(d, c) == TRUE

(* NewChunkID(data) equals the ID asked for. *)
Matches(d, c) == d = Content(c)

(* FetchChunkRemote, the comparison of hashes, and the write. *)
FetchChunk ==
    /\ dpc = "fetch" /\ Len(Written) < Len(File)
    /\ Reaches(Downloader, source)
    /\ Content(Wanted) \in chunks[source.node]
    /\ \E d \in Reads(Wanted) :
         /\ Fits(<<"CHUNK_DATA", {d}>>) /\ Matches(d, Wanted)
         /\ dest' = {Append(Written, d)}
    /\ UNCHANGED <<netVars, upVars, dpc, after, fallback, asking, found, source, refused>>

(* Any of them fails: what has been written stays. *)
FetchChunkError ==
    /\ dpc = "fetch" /\ Len(Written) < Len(File)
    /\ \/ /\ \/ ~Reaches(Downloader, source) \/ Content(Wanted) \notin chunks[source.node]
             \/ ~Fits(<<"CHUNK_DATA", {Content(Wanted)}>>)
          /\ refused' = refused \union {<<source, <<"CHUNK_DATA", {Content(Wanted)}>>>>}
       \/ /\ \/ {"network", "disk"} \intersect setup.faults # {}
             \/ \E d \in Reads(Wanted) : ~Matches(d, Wanted)
          /\ refused' = refused
    /\ DownloadError
    /\ UNCHANGED <<netVars, upVars, after, asking, found, dest>>

DownloadDone ==
    /\ dpc = "fetch" /\ Len(Written) = Len(File)
    /\ dpc' = "done"
    /\ UNCHANGED <<netVars, upVars, after, fallback, asking, found, source, refused, dest>>

UploadStep ==
    \/ StoreFile \/ LoadChunk \/ ContactsDone \/ SkipSelf \/ Replicate \/ ReplicateError
    \/ Announce \/ SendProvider \/ UploadDone

DownloadStep ==
    \/ FindFileProviders \/ HearProviders \/ PickProvider \/ FetchMeta \/ FetchMetaError
    \/ FetchChunk \/ FetchChunkError \/ DownloadDone

Next == UploadStep \/ Exit \/ DownloadStep

Spec == Init /\ [][Next]_vars

(* Both commands go on: remote calls return (ServiceRpc, CallsReturn).        *)
FairSpec == Spec /\ WF_vars(UploadStep) /\ WF_vars(DownloadStep)

-----------------------------------------------------------------------------
(* Properties *)

(* Every variable has its type. *)
TypeOK ==
    /\ setup \in Setups
    /\ alive \subseteq Nodes
    /\ chunks \in [Nodes -> SUBSET Contents]
    /\ fileMeta \subseteq Nodes
    /\ providers \in [Nodes -> SUBSET Contact]
    /\ upc \in {"start", "chunk", "send", "announce", "done", "failed"}
    /\ chunk \in 1..(Len(File) + 1)
    /\ data \subseteq Contents
    /\ closest \in Seq(Contact)
    /\ replicated \in 0..Needed
    /\ missed \subseteq DOMAIN File
    /\ dpc \in {"start", "find", "meta", "fetch", "done", "fatal"}
    /\ after \in BOOLEAN /\ fallback \in BOOLEAN
    /\ asking \subseteq Contact /\ found \subseteq Contact
    /\ source \in Addresses /\ refused \subseteq Addresses \X Messages
    /\ Cardinality(dest) <= 1 /\ \A s \in dest : s \in Seq(Contents)

(* Whatever fails and whatever a provider reads back, the destination holds     *)
(* the beginning of the file, and all of it when the command reports success,   *)
(* also when the fallback overwrites what a first attempt has left.             *)
DestIsTheFile ==
    /\ \A s \in dest : IsPrefix(s, Whole)
    /\ dpc = "done" => dest = {Whole}

(* The nodes beside the uploader, and the contacts of the uploader, that have   *)
(* chunk k in their store.                                                      *)
Replicas(k) == {n \in Nodes \ {Uploader} : Content(File[k]) \in chunks[n]}
Holders(k) == {c \in Contacts[Uploader] :
                 ~IsSelf(c) /\ Content(File[k]) \in chunks[c.addr.node]}

(* ReplicateFileChunks leaves every chunk with DefaultReplicaCount - 1 contacts *)
(* that hold it, or with all that can be reached, or its STORE_CHUNK does not   *)
(* fit a frame; and on no more than DefaultReplicaCount - 1 nodes.  Contacts,   *)
(* not nodes: a peer known under the IDs of two lives is counted twice.  Except *)
(* where the chunk could not be read whole (a torn read is sent and counted all *)
(* the same), Lookup missed contacts or a call failed that may have stored the  *)
(* chunk (then there may be more).  A content that the file repeats has the     *)
(* replicas of all its places.                                                  *)
ReplicasAsAsked ==
    DefaultReplicaCount > 1 =>
      \A k \in DOMAIN File : k < chunk /\ k \notin missed =>
        /\ \/ Cardinality(Holders(k)) >= DefaultReplicaCount - 1
           \/ \A c \in Contacts[Uploader] :
                IsSelf(c) \/ ~Reaches(Uploader, c.addr) \/ c \in Holders(k)
           \/ ~Fits(<<"STORE_CHUNK", {Content(File[k])}>>)
        /\ \/ Cardinality(Replicas(k)) <= DefaultReplicaCount - 1
           \/ \E j \in DOMAIN File : j # k /\ File[j] = File[k]

(* A provider record, wherever it is kept, has an address of the node it        *)
(* names, and that node can answer for the metadata and for every chunk of the  *)
(* file as long as it runs.                                                     *)
ProvidersHaveTheFile ==
    \A n \in Nodes : \A p \in providers[n] :
        /\ p.addr.node = p.id
        /\ p.id \in alive => /\ p.id \in fileMeta
                             /\ \A c \in Chunks : Content(c) \in chunks[p.id]

(* A download that begins after the upload has ended, and during which nothing  *)
(* fails, is refused by the node that has stored the file only if it has        *)
(* exited, or is known by the port of its connection to somebody else, or the   *)
(* answer is too large for a frame.                                             *)
StoredCanBeDownloaded ==
    after => \A r \in refused :
               r[1].node = Uploader => ~Reaches(Downloader, r[1]) \/ ~Fits(r[2])

(* README.md:7, "stored across multiple peers for redundancy and fault          *)
(* tolerance": once the uploader is gone, a later download that meets no        *)
(* failure fails only if some chunk is on no node that still runs.              *)
SurvivesTheUploader ==
    after /\ dpc = "fatal" /\ Uploader \notin alive /\ setup.faults = {}
      => \E c \in Chunks : \A n \in alive : Content(c) \notin chunks[n]

(* Both commands come to an end. *)
CommandsEnd == <>(upc \in {"done", "failed"}) /\ <>(dpc \in {"done", "fatal"})
=============================================================================

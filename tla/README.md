# A TLA+ verification of decentfs

decentfs is a small content-addressed file system over a Kademlia-style DHT,
written in Go. Files are cut into chunks named by their SHA-256; a Merkle root
over the chunks names the file; nodes find each other, and the providers of a
file, through a DHT that runs over TCP.

This directory holds TLA+ models of its core, the TLC configurations that check
them on small instances, and TLAPS proofs about them for every instance.
`PROJECT.json` lists the components, runs, seeded faults, source map, findings,
hazards and theorems in machine-readable form.

## 1. Inventory

| Component | State | Operations | Interacts with |
|---|---|---|---|
| **Remote calls** (`internal/dht/service.go`, `node.go`) | `pending`: RequestID to channel of capacity 1, under `s.mu`; the node's chunks, provider records and metadata | `StoreChunkRemote`, `FetchChunkRemote`, `requestFileProvidersFrom`, `FetchFileMetaFromProvider`; the reader goroutine `readLoop`; the request cases of `HandleRPC` | the transport (Send, Consume), the chunk store |
| **Routing table** (`routing_table.go`, `id.go`) | 160 buckets of at most K contacts, most recently seen first | `AddContact` (`touch`, `add`, eviction), `FindClosest` | called by the handlers and by Lookup |
| **Peer discovery** (`node.go`, `client.go`, `lookup.go`) | the routing table; Lookup's local `queried`, `prevClosest`, round | PING, PONG, FIND_NODE, NODES; `SendPing`, `SendFindNode`, `Lookup` | the transport, which gives messages their `rpc.From` |
| **Chunk store** (`storage/store.go`, `chunkid.go`) | one file per chunk | `PutChunk`, `GetChunk`, `DeleteChunk`, `HasChunk`, `ListChunks` | the file system; shared by local uploads, the reader, and every node started in one directory |
| **TCP transport** (`p2p/tcp_transport.go`) | `peers` by remote address, `rpcCh` (1024) | `Dial`, `Send`, accept loop, `handleConn` | the codec, the service |
| **Frame codec** (`p2p/codec.go`) | none | `Encode`, `Decode`, `MaxMessageSize` | connections |
| **File sharing** (`service.go`) | provider records, metadata, destination files | `AnnounceFile`, `FindFileProviders`, `StoreFileLocalAndAnnounce`, `ReplicateFileChunks`, `DownloadFile` | Lookup, remote calls, chunk store |
| **Chunker, Merkle tree, file metadata** (`storage/`) | none | `StoreFromReader`, `MerkleRootForChunks`, `BuildFileMetaFromReader`, `StoreFileWithMerkle` | chunk store |
| **Erasure coding** (`storage/`) | none | `Validate`, `EncodeToShards`, `ReconstructFromShards`, `EncodeChunkWithEC`, `DecodeChunkWithEC`, `BuildECFileMetaFromReader`, `ReconstructFileFromECMeta` | chunk store, a Reed-Solomon library |
| **cmd/node** | flags | bootstrap, lookup, store and download commands | everything |

What is hard in it:

* one reader goroutine per node both serves requests and delivers answers, and
  shares every answer channel with a caller that may time out at any moment;
* requests and answers are lost, late or never sent; an executed request may
  look failed to its caller;
* a connection is known by different names at its two ends, and the names one
  end learns are handed on to nodes for which they mean nothing;
* a node draws a new ID at every start, and its peers keep the old one;
* writers of the same content share one temporary file;
* the routing table changes while Lookup works on it;
* several goroutines write to one connection and register, find and delete
  entries of one map of peers, which is keyed by an address in one of several
  spellings;
* every buffer is bounded and whoever finds one full waits without a timeout,
  the only reader of the node included;
* an upload and a download are long sequences of steps each of which may fail
  alone, and nothing is rolled back;
* content addressing merges what is equal, copies that redundancy counts on
  being separate included.

What makes each component correct is stated by the properties of section 3.

## 2. Modules

| Module | Models |
|---|---|
| `RemoteCall` | what a remote call promises: at most one execution, a success carries the value of that execution, an error says nothing |
| `ServiceRpc` | the remote calls: callers, pending tables, channels, readers, handlers |
| `MCServiceRpc`, `ServiceRpcProofs` | its instance for TLC, its theorems |
| `KadID` | IDs, XOR, order, prefix length |
| `Buckets` | the routing table as operators on a value |
| `RoutingTable` | one table as a state machine |
| `MCRoutingTable`, `RoutingTableProofs` | its instance, its theorems |
| `Dht` | peer discovery: a routing table per node, connections, messages, bootstrap and Lookup |
| `MCDht`, `DhtProofs` | its instance (two nodes join through a third, which may restart), its theorems |
| `ChunkStore` | FSChunkStore on a file system of names and inodes |
| `MCChunkStore`, `ChunkStoreProofs` | its instance, its theorems |
| `Framing` | one direction of a connection: `Encode`, the byte stream, `Decode`, the read loop and `rpcCh` |
| `MCFraming`, `FramingProofs` | its instance, its theorems |
| `Transport` | one node's peers map, its senders, and the `handleConn` goroutines of its connections |
| `MCTransport`, `TransportProofs` | its instance, its theorems |
| `Backpressure` | the buffers between several nodes and who waits for which |
| `MCBackpressure`, `BackpressureProofs` | its instance, its theorems |
| `FileShare` | an upload and a download among several nodes |
| `MCFileShare`, `FileShareProofs` | its instance, its theorems |
| `Chunking`, `MCChunking` | the chunker, file metadata and Merkle root |
| `Erasure`, `MCErasure` | erasure-coded storage and reconstruction |

The transport is seen at four levels, each as fine as its question needs.
`Framing` follows bytes and one connection, `Transport` connections and one
node, `Backpressure` full buffers and several nodes, `Dht` the names under which
several nodes reach each other. `ServiceRpc` and `FileShare` take from them that
a message arrives or is lost, and `FileShare` takes from `ServiceRpc` what
`RemoteCall` states: a call succeeds with a true answer or fails, executed or
not.

Definitions named "Seeded fault" in a comment are plausible bugs of the
definition that follows them. They are used by no specification; replacing the
definition by its faulty form must make TLC refute the property `PROJECT.json`
pairs it with.

### ServiceRpc

`pc[c]` is the program point of the goroutine of call `c`: `sending` after
`registerPending`, `waiting` in the select, `sendFailed` and `timedOut` before
the `takePending` of the two error paths, `closing` between that and
`close(ch)`, `returned`. `reader[n]` is `readLoop` of node `n`: `recv`,
`deliver` (holds a channel it took), `close`, `reply` (holds an answer). A
channel is `buf[c]` and membership in `closed`. A step is what a goroutine does
between two points where another can interfere: a critical section of `s.mu`, a
channel operation, a send.

The four calls differ only in the message they build and in how they read the
answer, so one process models all four. A call stands for its RequestID: two
calls are assumed never to draw the same 160 random bits. `NewChunkID` is assumed
injective. Metadata and provider lists are abstracted to the root and to sets of
nodes. Messages in flight are sets: they overtake each other and may be lost.
Peers follow the protocol. An empty ChunkID or FileRoot is never sent, so the
handlers' checks for them are not reached. STORE_CHUNK and GET_CHUNK go through the
store in one step each. What that step can meet is taken from `ChunkStore`, which
opens it up: while somebody stores the same content again, `GetChunk` may read a
file that has been truncated, so GET_CHUNK is answered with the whole content or
with a part of it (`Torn`), at any time. `Workload` gives the requests each call
may be, for the run; the proofs allow any.

### KadID, Buckets, RoutingTable

IDs are functions from bit positions to bits and the code's byte-wise loops
become bit-wise, which gives the same order and prefix. `LastSeen` is a logical
clock read inside the critical section, as in the code. `AddContact` and
`FindClosest` hold the table's lock throughout and are one step each.
`SortByDistance` puts every contact at the position its `Rank` says, which is
what any correct sort does: the IDs of a table differ, so their distances do.

### Dht

A node is a `host:port` at which one process after another may run. Each process
draws an ID when it starts (`cmd/node/main.go:39`): `IDOf[n]` is the sequence of
the IDs drawn at `n`, `life[n]` says how many processes there have been, and
`Restart` ends one and starts the next, with an empty table, no connections and
the bootstrap before it. `IDOfAssumption` says no more than that two draws of 160
random bits differ: one address stands under as many IDs as the node has lives.

A connection `<<dialler, acceptor, port>>` is named `Listen(acceptor)` by its
dialler, and by the dialler's machine and ephemeral port by its acceptor, as
`RemoteAddr` returns it. Several nodes may be on one machine and share its ports. A
port is free again when its connection is closed, so the same ephemeral name may
belong now to one node of the machine and now to another. `Outcomes` is
`transport.Send`: write to the peer registered under the address, else dial (only
listening addresses accept), else fail. A broken connection is forgotten at both
ends; what it carried may still arrive or be lost. Listening addresses are taken
to be dialable `host:port` names of one node, as in the repository's examples; a
wildcard such as `:4000` is outside the model, and so is a port that is now
ephemeral and now a listening port. `AddressesAssumption` says that the tables can
hold both kinds of names. `LastSeen` stands still here, because nothing reads it.
History variables: `faulty` says that a dial failed, a connection broke, a message
was lost or a node restarted, `asked` lists what a Lookup sent, with the contact's
ID, its address and the round. `LearnAll` and `ToQuery` are the code's loops, over
the entries of a NODES answer and over Lookup's shortlist.

Lookup is split at its sends, so that the reader of the same node may learn
contacts between them; the 500 ms sleep is the freedom of the next round to be
early or late with respect to every answer.

### ChunkStore

Only calls with the same content meet, so the module follows one ChunkID: its
path, its temporary path, and inodes with the set of content parts written since
the last truncation. `os.WriteFile` is an open with truncation and one write per
part at the writer's own offset; `os.Rename` moves whatever the temporary name
designates at that moment. A new file takes the first inode that neither a name
nor an open descriptor uses. Three history variables delimit the properties:
`met` are the calls that found another call of the same content past its `Stat`,
`shared` the inodes such a call has put under the final path, and `failed` says
that the disk has failed or a process has crashed in the middle of a call.

### Framing

`wpc[w]` separates the two `conn.Write` calls of `Encode`; a `net.Conn`
serialises calls of `Write`, so each is one step. `reading` is the point of
`handleConn`: in the first or second half of `Decode`, in `wg.Wait` of a stream,
or stopped. A byte knows the message it belongs to and its place in it, which lets
the model decide what `Decode` sees without numbers: a prefix read as JSON is no JSON, because its
first byte is 0 for every length up to `MaxMessageSize`, and a piece of an object
is not an object. `PeerLimit` is the `MaxMessageSize` of the sender, for nodes of
different builds. A zero length is never written by `Encode`. Two history
variables: `mixed` says that an `Encode` began between the two writes of another;
`framed` lists what `Encode` returned nil for, without the streams, because
`handleConn` does not put those into `rpcCh`. `CloseStream` may be called, since it
is part of the peer's interface, and need not be: nothing in the repository calls
it.

### Transport

`handler[c]` is `handleConn` of connection `c`: started, registered and in the
handshake, in its loop, on the way out (`exit`, then `close` once the entry is
deleted). The loop has three places: in `Decode` (`read`), in `peer.wg.Wait` of a
stream (`stream`) and at the send on `rpcCh` (`deliver`); only in the first does it
notice that the connection is cut. `pc[s]` is `Send`: the look-up, `Dial`, the sleep, the second look-up,
`Encode`. Nothing is assumed of the 50 ms: `handleConn` may register a connection
before or after the second look-up. `Resolve` gives the listening address behind
each spelling. The history variable `doubled` has the connections that were
registered while another was registered under the same name. An ephemeral port is not used again while an old socket
with it exists. TLS changes what carries the bytes and when `Dial` fails, and is
left out.

### Backpressure

A call is a request and then its answer; a connection carries kinds of messages,
and `rpcCh` keeps the sender with each. `Write` and `Reply` wait for room in the
socket, `Deliver` for room in `rpcCh`, and `readLoop` does nothing else while it
replies. Nothing in the code limits the messages under way (a caller that times
out leaves its message behind and may send another), and nothing here does:
`MaxCalls` bounds the run and is large enough to fill every buffer. `Ring` is the
state in which nodes wait for each other for ever: each has a full `rpcCh` and a
`readLoop` that writes an answer to the next one over a full connection.

### FileShare

`upc` follows `StoreFileLocalAndAnnounce` through the loops of
`ReplicateFileChunks` and `AnnounceFile`, `dpc` the download command through
`DownloadFile`, `DownloadFileFromProvider` and the fallback of `main`. `Lookup`
returns the contacts in some order, or fewer when messages are lost; a contact may
be the former ID of a node that has restarted (`Gone`), so that one peer stands in
the list twice. An address is a node together with `"listen"` or with the node its
ephemeral port is connected to: `Reaches` says who can use it. A content is a
chunk, whole or in part; the store is content-addressed, so a part is stored under
an ID of its own. `setup` is what the two commands find: the `faults` (`network`:
calls fail, executed or not; `disk`; `torn`: a read meets a chunk that is being
written, as in `chunk_store_torn`), the messages that are `oversize`, and the
bootstrap peer of the downloader, if it has one. `Fits` is the refusal of `Encode`:
a request that is too large fails at its sender, an answer that is too large is
only logged at the peer, and the caller runs into its timeout. What is too large
depends on `-chunk-size` and on the number of chunks; one content may fit
STORE_CHUNK and not CHUNK_DATA. `Exit` is the end of the uploading process, which
`main` makes right after the command. The history variables are `missed`, the
chunks for which a read, a Lookup or a call failed, `refused`, the answers that did
not come although no message was lost, no disk failed and no read was torn, and
`after`: the download began when the upload had ended.

### Chunking

The reader gives any number of words at a time. SHA-256 is a constructor, which
makes it injective, and has no tag, as in the code: a chunk and two concatenated
IDs are hashed alike. A file consists of words of the width of an ID. A plain word
is nobody's ID; other words are the IDs of chunks, so that files occur whose data
are the inner nodes of another file's tree. `Blocks` and `TreeByHalves` are the
reference definitions of the chunks and the tree; `RootOf` tabulates the roots of
all files of the instance, so that every pair of them is compared.

### Erasure

`Read` may return bytes together with an error, which the code handles by using
the bytes first. Shards are put one at a time. The library is a constructor with
two properties: `DataShards` shards determine the data, and the parity of equal
shards is that same shard. A shard is named by its content, as in the store. The
loads of one chunk's shards are one step, which is no restriction because damage
to different chunks commutes. A stored chunk may be lost, left empty (what a torn
`PutChunk` leaves), or come back with wrong bytes of the right number
(`Corrupt`): nothing compares a shard with its ID, so a chunk that is decoded from
a wrong shard may be any bytes of its size. `Validate` adds in a 64-bit `int` and
the model in the integers: parameters for which the sum wraps round are refused
by the library. Chunks are never empty here (`n > 0`), so the branches for empty
input are not reached.

## 3. Runs

| Run | Shows | Bounds |
|---|---|---|
| `remote_calls` | `ChannelSafe`, `NoLostAnswer`, `NoLeakedPending`, `SuccessIsGenuine`, the refinement `ImplementsRemoteCall`, and `CallsReturn`, `ReaderResumes` | 2 nodes, of which one has a store; 2 concurrent calls: a fetch from the store, and any other request to it or a request the other way; torn reads |
| `routing_table` | `NoDuplicates`, `PlacedByDistance`, `RecencyOrder`, `EvictsTheOldest`; `ClosestIsRight` against the numeric distance | 3-bit IDs, K = 2, 2 addresses, clock 0..1 |
| `chunk_store` | `VisibleIsComplete`, `ReadsAreComplete`, `WholeAtRest`, `PutReturnsTruth` | 2 writers, 1 reader, each of which may call again; 2 parts, 5 inodes; disk errors, crashes, deletions |
| `chunk_store_torn` | *violated:* `WritesAtomically` | 2 writers, no failures |
| `dht` | `AddressesAreTruthful`, `AsksOnce`, `JoinIsMutual` | 3 nodes, K = 2, Alpha = 2, 3 rounds; two of the nodes are on one machine, 2 ephemeral ports, and the third, their bootstrap peer, may restart under a new ID; failed dials, broken connections, lost messages |
| `framing` | `DecoderReverses`, `InOrder`, `EverythingArrives` | 2 writers, messages of 1 to 5 bytes around `MaxMessageSize` = 3 and a peer's limit of 4, one of them a stream; `rpcCh` of 1; a cut at any byte |
| `transport` | `NoStaleEntry`, `LiveIsFindable`, `GivesUpOnlyUnconnected`, `DeadIsForgotten` | 2 senders to one peer, one of which also uses a second spelling of its address and the other an accepted connection; 2 connections |
| `backpressure` | `StuckOnlyInARing`, `CallsAreAnswered` | 2 nodes, 5 calls in each direction, sockets of 1, `rpcCh` of 2 |
| `file_share` | `ReplicasAsAsked`, `ProvidersHaveTheFile`, `DestIsTheFile`, `StoredCanBeDownloaded`, `CommandsEnd` | 4 nodes, 2 chunks, 3 replicas; the uploader's contacts include its own former ID and one peer under two IDs; six setups: network faults, disk faults with torn reads, no bootstrap peer, and three kinds of oversized messages; an uploader that exits |
| `file_share_gone` | *violated:* `SurvivesTheUploader` | the same network, and nothing fails |
| `chunking` | `MetaDescribesTheFile`, `RootIsCanonical`, `RootIdentifiesFile` | files of up to 9 plain words in chunks of 2, and of up to 4 words some of which are IDs; read and store errors |
| `erasure` | `ReconstructionIsExact`, `ToleratesParityLosses` | files of up to 5 bytes in chunks of at most 4; 2+1, 2+2 and 3+1 shards, and 0+1, which `Validate` refuses; 2 stored chunks lost, emptied or with wrong bytes; read, store and write errors |

Why the bounds are enough: two calls are what it takes to confuse two answers,
and a reader's deliveries to different calls do not share state beyond the
table (the proofs remove the bound). Two parts are the least that can be half
written, and two writers that may call again meet in every state one of them can
leave behind; five inodes are as many as names and descriptors can use at once,
so that a file that is still open is never taken for a new one. With 3-bit IDs
the farthest bucket has four candidates for its two places. Three nodes are the
least for hearsay; with two ports for the two nodes of one machine a port can pass
from one to the other, and one restart gives one address two IDs. Five calls each
way are as many as fill both connections, both `rpcCh` and both `readLoop`s. Sizes
on both sides of both limits and an `rpcCh` of one place put every limit of the
codec within reach of the messages sent. Two connections to one address are the
least for one to overwrite the other. Five chunks give Merkle trees in which the
odd node is promoted at two levels; files of two chunks of two IDs each are the
inner nodes of the trees of four plain chunks. A `Read` may return fewer bytes than
the buffer holds, so erasure-coded chunks have every size from 1 to 4. Those of
three bytes on two data shards have one shard with and one without padding, those
of four bytes on three data shards have one of nothing but padding, and five
bytes make the file at least two chunks.

The runs of `ServiceRpc` and `RoutingTable` also check the type invariant. The
`TypeOK` of `Dht`, `ChunkStore`, `Framing`, `Transport`, `Backpressure` and
`FileShare` is proved (section 4) and not repeated in the runs; that of `Chunking`
and `Erasure` documents their variables.

Lookup has no termination property: it counts its rounds up to a constant.

Deadlock is not checked where a finite workload comes to an end (`ServiceRpc`,
`Dht`, `Framing`, `Backpressure`, `FileShare`, `Chunking`, `Erasure`), and is checked
elsewhere. What is left of it in `Backpressure`, to stop with messages under way,
is the property `StuckOnlyInARing`.

Fairness. `remote_calls` assumes that `transport.Send` returns, that a select whose
timer has fired is eventually executed, and that the reader finishes a delivery
whose channel has room and a reply it began; it assumes nothing of the network.
That Send returns is a real assumption, since there is no write deadline:
`backpressure` shows that it holds unless the nodes end in a ring. `framing` assumes
that writers and read loop go on and that the service consumes, and nothing of
`CloseStream`. `transport` assumes that `handleConn` goroutines run and that `Decode`
notices a cut connection once it has read what had arrived (strong fairness,
because the loop may first deliver such frames); it assumes neither that a stream
is closed nor that `rpcCh` gets room. `backpressure` assumes that every goroutine
that can go on does (weak fairness). `file_share` assumes that both commands go on,
because remote calls return (`CallsReturn`).

### What the code does not promise

Two findings are runs of their own.

`chunk_store_torn`: `PutChunk` says "Write atomically", and is not atomic for two
writers of the same content. The temporary name is the same for both; one
truncates the file the other has completed and is about to rename, and the
truncated file is visible until the second writer is done (for good, if it stops
there). `WholeAtRest` shows that without failures the damage is transient.

`file_share_gone`: the repository's README promises chunks "stored across multiple
peers for redundancy and fault tolerance". The store-file command exits after the
upload, and its node with it; only that node has the metadata, and
`DownloadFileFromProvider` takes metadata and every chunk from one address. So the
download fails although live peers hold every chunk: nothing ever reads a replica.

Other limits appear in what the properties leave open. Where it is an exception
in the property's statement, the model reaches it:

* `SuccessIsGenuine`: data from `FetchChunkRemote` are the content asked for or a
  part of it. The peer may have read a torn file, and the caller does not hash what
  it gets (`DownloadFileFromProvider` does, the fetch-from command does not).
* `PutReturnsTruth`: of two writers of one content that met, the second to rename
  returns an error although the chunk is stored; and an ID may be returned for a
  torn file, by the shortcut for files that exist or after a rename. The property
  says when: only while one of the calls that met has yet to write all that is
  missing, or after one of them failed. `ReadsAreComplete` has the same exception
  for `GetChunk`.
* `AddressesAreTruthful` confines what goes wrong to a machine and says no more. A
  listening address stands with an ID that was drawn there, and what is sent to it
  reaches the process that runs there now, under whatever ID. An ephemeral address
  is one of the contact's machine; once its port has been given away, what is
  sent to it reaches another process of that machine. Ephemeral addresses are
  recorded because `SendPing` and `SendFindNode` leave `NodeAddr` empty, contrary to
  the comment on the field (`src/internal/dht/node.go:61-64`), which says that it
  makes peers record a dialable address. A node that reconnects is recorded under a
  new port each time.
* `AsksOnce`: a Lookup asks a restarted peer twice in one round, once under each of
  its IDs, because `queried` is read before the sends of a round and written during
  them.
* `JoinIsMutual`: bootstrap does not try again, so one failure undoes it. It is a
  property of networks of at most K + 1 nodes, as in the run and in the theorem:
  in a larger one a bootstrap peer that has K fresher contacts in the bucket of
  the newcomer evicts it again, and a node that is told to bootstrap from itself
  never records itself.
* `DecoderReverses`: two goroutines that send on one connection interleave the
  two writes of `Encode`, and the receiver drops the connection. `InOrder` shows
  that no wrong message comes out of it. A peer of a build with a larger
  `MaxMessageSize` ends the connection with one message.
* `EverythingArrives`, `DeadIsForgotten`: a stream stops the read loop until somebody
  calls `CloseStream`, which nobody does. Everything behind it stays unread, and when
  the connection is cut its entry stays in the map; so does the entry of a
  connection whose read loop waits for room in `rpcCh`.
* `LiveIsFindable`: of two connections to one address the first to end deletes
  the map entry of the other. `NoStaleEntry` still holds: the map forgets live
  connections and never keeps one whose `handleConn` has ended.
* `GivesUpOnlyUnconnected`: `Send` never finds a connection it dialled by host
  name, because the map has it under the numeric address.
* `CallsAreAnswered`: nodes that call each other faster than they answer end in a
  ring and stay there (`RingIsForGood`). The run reaches it; it takes 1024 messages
  in the `rpcCh` of each.
* `ReplicasAsAsked` counts contacts: a peer that stands in the table under two IDs is
  sent a chunk twice and counted twice, so there may be fewer nodes with the chunk
  than asked for. A chunk that `GetChunk` read while it was being written is sent,
  stored and counted, in part. A call that failed although it was executed leaves a
  replica that is not counted, and another is made. A chunk whose STORE_CHUNK exceeds
  `MaxMessageSize` has no replica at all, and the upload reports success.
* `StoredCanBeDownloaded`: besides the exit of the uploader, a provider record with the
  port of its connection to somebody else is of no use, and neither is a file one of
  whose chunks, or whose metadata, does not fit into one frame: it is announced, and
  every download of it times out.
* `RootIdentifiesFile`: a file with a chunk that consists of two IDs can have the root
  of a file with other chunks. Root and number of chunks together, both of which
  `FileMeta` holds, do identify the file.
* `ReconstructionIsExact`: a shard with wrong bytes of the right number is decoded
  without an error; the wrong bytes stay within its chunk.
* `ToleratesParityLosses`: equal shards are one stored chunk and are lost
  together; a shard that loads without its bytes is not treated as missing, and
  spoils a decoding the others would have sufficed for.

## 4. Proofs

`ServiceRpcProofs`, for any sets of nodes, stores, calls, contents, files and
requests (assumptions `StoresAssumption`, `AnnouncersAssumption`,
`EmptyAssumption`, `WorkloadAssumption`, `NilAssumption`):

* `Invariance`: `Spec => []IInv`, one lemma per action. `ChannelSafe` is not
  inductive: that a reader about to send finds an open, empty channel depends on
  the entry having been untouched while it was in the table (`PendingInv`), on
  the reader being the only goroutine left to use it once it is out
  (`HandoverInv`), and on each call having at most one answer in existence,
  which in turn depends on the request being consumed by its execution
  (`ExecutionInv`) and on nothing existing before the send (`UnsentInv`).
  `AnswersInv` carries the truth of an answer from its execution to the caller,
  torn or whole: the files in a store, provider records and metadata only grow.
* `TypeCorrect`, `ChannelsAreSafe`, `AnswersAreNotLost`, `PendingDoesNotLeak`,
  `SuccessesAreGenuine` follow from it.
* `Refinement`: `Spec => RemoteCall!Spec`; a caller's return is `Succeed` or
  `Fail`, `HandleRequest` is `Execute`, everything else stutters.

`RoutingTableProofs`, for any ID length, K, own ID and addresses
(`IDBitsAssumption`, `KAssumption`, `SelfAssumption`): `Invariance` of
`GoodBucket` for every bucket, from lemmas on what `touch` and `add` do to a
sequence; `TypeCorrect`, `TableHasNoDuplicates`, `BucketsAreOrdered`; and
`EvictionIsLRU`, the action property `EvictsTheOldest`. That no ID occurs in two
buckets needs the conjunct of `GoodBucket` that places every contact in the
bucket of its ID. `BucketsFollowDistance` (`PlacedByDistance`) compares that place
with the distance as a number. `Value` computes it bit by bit with a recursive
function; `ValueFacts` shows that the function exists and `FirstOneDecides` that
the first 1 decides between which powers of two the number lies, both by
`NatSetInduction`: a set of naturals that has 0 and is closed under successor is
`Nat`. `FindClosestIsRight` is `ClosestIsRight`, the contract of `FindClosest`, in
three parts. `CloserIsNearer`: of two IDs the one the code's comparison puts first
has the smaller distance as a number, because the first differing bit decides.
`SortSorts`: the comparison is total on different IDs, so the ranks are different,
every rank is reached, and the sort is an ordered permutation. `AllContactsFacts`:
the concatenation of the buckets has every ID once and nothing else
(`DistinctIDs`), which is again `GoodBucket`.

`TransportProofs`, for any connections, senders, names and spellings
(`TransportAssumption`). The map never holds a dead connection because the entry
of a connection is deleted before its handler ends (`EntryInv`), and it loses a
live one only to another of the same name (`DoubledInv`, `FindableInv`).
`EntriesAreFresh` and `LiveConnectionsAreFound` follow. `GivingUpIsJustified` is
the action property `GivesUpOnlyUnconnected`; it needs `SenderInv`: the connection
a `Send` has dialled keeps the name of the address it was dialled for while the
`Send` sleeps.

`ChunkStoreProofs`, for any number of writers, readers and parts
(`PartsAssumption`, `InodesAssumption`: finitely many processes, and an inode for
every name and descriptor). `NewInodeIsFree` counts: there is always an inode
that nothing uses. `AloneInv` says that a call that has met no other one owns the
temporary file; `MetInv` that calls under way together have met. From them
`PutIsAtomicAlone` (`VisibleIsComplete`). The rest needs `HandsInv`: as long as
nothing fails, whatever a reachable file lacks is still to be written by one call
that has it open. So once no call is left it lacks nothing (`RestIsWhole`,
`WholeAtRest`), and a torn file is read (`ReadersSeeWholeChunks`, `ReadsAreComplete`)
or acknowledged (`PutChunkIsTruthful`, the action property `PutReturnsTruth`) only
while such a call is at work or after a failure.

`FramingProofs`, for any goroutines, scripts, message sizes, limits, prefix size
and channel capacity (`FramingAssumption`): `TypeCorrect`,
`DecoderReversesEncode` (`DecoderReverses`), `DeliveryInOrder` (`InOrder`). Neither
property is inductive: both are about what `Decode` will make of bytes that are
still in the stream. While the read loop runs, `IInv` says what those bytes are
(`Shaped`):

* `Layout`: they are whole writes one after the other; on a connection that is cut
  the end may be missing;
* `Parsed`: the first `c` writes alternate between prefixes and the texts they
  announce, as `Decode` expects; if there are more, the next is a prefix where a
  text is expected, and then `mixed` holds;
* `Numbered`: the messages in this clean part are, in order, the entries of
  `framed` that follow the ones delivered. What lies behind it will never be
  decoded, so it need not be numbered;
* `Pending`: while nothing is mixed, a goroutine is between its two writes exactly
  when the last write is its own prefix. So a text always follows the prefix
  that announces it, until a second goroutine writes a prefix in between.

`Shaped` quantifies over the list of writes, where each ends, `c` and the
numbering; each action has a lemma that gives the new ones: a write appends one
element, a decode drops the first, a cut shortens the bytes and leaves the rest.

`BackpressureProofs`, for any number of nodes and calls and any capacities
(`CapacityAssumption`); the traffic is not limited. `TypeCorrect` is the invariant the
rest needs: buffers never hold more than their capacity, and nobody answers itself.
`StandstillIsARing` is `StuckOnlyInARing`: when nothing moves, a connection that has
something in it is full and ends at a full `rpcCh` (`FullEnd`, `FullConnection`),
whose `readLoop` must be writing an answer over a full connection to another such
node (`NextInRing`); so the nodes whose `readLoop` is writing are a ring.
`RingIsForGood`: every step preserves every ring.

`FileShareProofs`, for any file, network, contacts, replica count and setups
(`FileShareAssumption`). Records name only the uploader, and only once it has
stored the file (`RecordInv`, `StoredInv`), whence `RecordsAreTrue`
(`ProvidersHaveTheFile`). `ReplicationIsAsAsked` (`ReplicasAsAsked`) follows the loop of
`ReplicateFileChunks`: as long as nothing was missed there is a set of contacts as
large as the counter that hold the chunk; no other node has it; and every other
contact is still in the list, or cannot be reached or sent the chunk (`CountedInv`).
It needs that contacts come once in the list (`ClosestInv`) and that nobody has a
chunk the loop has not come to (`AheadInv`). The one destination file is always a
beginning of the file (`DestInv`), whence `DownloadIsTheFile` (`DestIsTheFile`);
`StoredFilesAreServed` is `StoredCanBeDownloaded`.

`DhtProofs`, for any nodes, IDs, bootstrap lists and lookups (`IDOfAssumption`,
`SeedsAssumption`, `TargetAssumption`, `BoundsAssumption`, `AddressesAssumption`,
and those of `Buckets`):

* what the operators do. `FoldLeft` and `FlattenSeq` are recursive functions, and
  a fact about them is shown with `NatSetInduction` again. `LearnAllSteps`,
  `ToQuerySteps` and `FlattenFacts` show that the folds exist and what one step of
  each does, `LearnAllGood`, `ToQueryFacts` and `AllContactsFacts` what comes out.
  `SortPermutes`: the ranks of the contacts are different, so an injection of n
  positions into n ranks reaches each of them and the sort is a permutation;
* `Invariance` of `IInv`, in which what is true is relative to the lives of the nodes.
  `LifeInv`: no node has more lives than IDs, and without a fault it has had one.
  `TableInv`: every contact is in the bucket of its ID, once, under an address of
  the node that drew it, in this life or an earlier one. `NetInv`: a message is on a
  connection between its sender and its receiver, which is what makes `rpc.From` an
  address of the sender, and all it says of itself and of others is true; no two
  open connections of an acceptor have the same ephemeral name. A restart only adds
  an ID, so what was true stays true (`OlderTruths`). `LookupInv`: what a Lookup has
  asked is marked; what it is about to ask has different IDs and was asked neither
  in an earlier round nor, for the same ID, in this one.
  `SeedsInv`, `JoinInv`: of every bootstrap peer a node is done with, either a
  request is under way, or the peer knows the node and its answer is under way, or
  both know each other; and the connection of every message is open, so that
  requests are answered, unless the network has failed;
* `TypeCorrect`, `Truth` (`AddressesAreTruthful`), `LookupAsksOnce` (`AsksOnce`).
  `JoinMutual` is `JoinIsMutual` for networks of at most K + 1 nodes in which
  nobody bootstraps from itself (`SmallNetwork`): there no bucket can overflow,
  because its contacts are other nodes and all different (`RoomLeft`).

The invariants were checked by TLC on the instances of the runs before they were
proved.

## 5. Only model-checked

* Liveness under fairness (`CallsReturn`, `ReaderResumes`, `EverythingArrives`,
  `DeadIsForgotten`, `CallsAreAnswered`, `CommandsEnd`) is out of the prover's
  reach.
* `RootIsCanonical` and `RootIdentifiesFile` of `Chunking` compare the code with
  recursive operators (`TreeByHalves`, `Rounds`), which the prover cannot use; that
  the roots of two files differ is an induction over trees.
  `MetaDescribesTheFile` is in the same module.
* `ReconstructionIsExact` and `ToleratesParityLosses` of `Erasure` have not been
  proved. They need that cutting a chunk into padded shards can be undone, which
  is arithmetic with products and quotients of variables, and that any `DataShards`
  of the shards determine the others.

## 6. Not modelled

Left out:

* flag parsing (`parseECParams` beyond `Validate`), logging and file names of
  `cmd/node`, and the order in which one process runs several commands: no state
  of the system depends on them beyond what the modules start from;
* JSON and hexadecimal text, TLS, the arithmetic of the Reed-Solomon library:
  libraries, modelled by what the code uses of them;
* `HasChunk`, `ListChunks` and the accessors, which only read;
* `TCPPeer.Send`, which nothing calls;
* the commented-out first half of `lookup.go`;
* wildcard listening addresses, and ports that are now ephemeral and now listening:
  with either, a recorded address may belong to any node of the network.

----------------------------- MODULE ServiceRpc -----------------------------
(***************************************************************************)
(* The request/response machinery of internal/dht/service.go: the four       *)
(* remote calls StoreChunkRemote, FetchChunkRemote, requestFileProvidersFrom *)
(* and FetchFileMetaFromProvider, the table of pending requests they share   *)
(* with the reader goroutine readLoop, the capacity-1 channels the answers    *)
(* travel through, and the handlers of Node.HandleRPC that answer them.       *)
(*                                                                           *)
(* Every goroutine is a process: the callers (one per call) and one reader    *)
(* per node.  A step is what a goroutine does between two points where        *)
(* another one can interfere: a critical section of s.mu, a channel           *)
(* operation, a send on the transport.  Requests and answers in flight are    *)
(* sets: frames of different connections overtake each other, and any of      *)
(* them may be lost (a connection that breaks, a peer that stops, a frame     *)
(* over MaxMessageSize that the answering node cannot encode).                *)
(*                                                                           *)
(* A call stands for its RequestID: MustRandomID draws 160 random bits, and   *)
(* the model assumes that two calls never draw the same ones.                 *)
(***************************************************************************)
EXTENDS Sequences

CONSTANTS
    Nodes,      \* the services
    Stores,     \* the nodes configured with a ChunkStore (ServiceOpts.Store)
    Calls,      \* the remote calls that are ever made
    Data,       \* chunk contents
    Empty,      \* the chunk content of length 0
    Roots,      \* Merkle roots of files
    Announcers, \* the nodes that ever announce a file
    Workload,   \* Workload[c]: the requests call c may be
    None,       \* Go's nil
    Failure     \* a Message with a non-empty Error; a non-nil Go error

ASSUME StoresAssumption == Stores \subseteq Nodes
ASSUME AnnouncersAssumption == Announcers \subseteq Nodes
ASSUME EmptyAssumption == Empty \notin Data

VARIABLES
    pc,             \* pc[c]: where the goroutine of call c is
    request,        \* request[c]: the Message it sent
    pending,        \* pending[n]: the keys of s.pending at node n
    buf,            \* buf[c]: the message in c's channel (capacity 1), or None
    closed,         \* the calls whose channel is closed
    requests,       \* the calls whose request is on its way
    responses,      \* the answers on their way
    reader,         \* reader[n]: where readLoop of node n is, and with what
    result,         \* result[c]: what the call returned (None until it returns)
    chunks,         \* chunks[n]: the contents with a file in n's ChunkStore
    fileProviders,  \* fileProviders[n][r]: n.fileProviders, as sets of nodes
    fileMeta,       \* fileMeta[n]: the keys of n.fileMeta
    executions      \* history: the answers HandleRPC computed for each call

callVars == <<pc, request, result>>
chanVars == <<buf, closed>>
nodeVars == <<chunks, fileProviders, fileMeta>>
vars == <<callVars, pending, chanVars, requests, responses, reader, nodeVars,
          executions>>

-----------------------------------------------------------------------------
(* Messages *)

(* storage.NewChunkID: the SHA-256 of the content, taken to be injective. *)
NewChunkID(d) == <<"sha256", d>>

ChunkIDs == {NewChunkID(d) : d \in Data}

(* What GetChunk reads of a file that a second PutChunk of the same content   *)
(* has truncated and not yet written again: a proper prefix (module           *)
(* ChunkStore has the steps that lead there).                                *)
Torn(d) == <<"part", d>>

(* The four request messages, by type.  An empty ChunkID or FileRoot is never *)
(* sent: the callers format a storage.ChunkID, which is never "".             *)
Requests ==
    [op : {"STORE_CHUNK"}, from : Nodes, to : Nodes, arg : Data \union {Empty}]
      \union
    [op : {"GET_CHUNK"}, from : Nodes, to : Nodes, arg : ChunkIDs]
      \union
    [op : {"GET_FILE_PROVIDERS", "GET_FILE_META"},
       from : Nodes, to : Nodes, arg : Roots]

ASSUME WorkloadAssumption == Workload \in [Calls -> SUBSET Requests]

(* The answers: an error, or a message of the type of its first element. *)
Values ==
    ({"STORE_CHUNK_RESULT"} \X ChunkIDs)
      \union ({"CHUNK_DATA"} \X (Data \union {Torn(d) : d \in Data}))
      \union ({"FILE_PROVIDERS"} \X SUBSET Nodes)
      \union ({"FILE_META"} \X Roots)

Bodies == Values \union {Failure}

ASSUME NilAssumption == None \notin Bodies /\ Failure \notin Values

Responses == [call : Calls, body : Bodies]

Idle == [at |-> "recv", call |-> None, body |-> None]

ReaderStates ==
    {Idle} \union [at : {"deliver", "close", "reply"}, call : Calls,
                   body : Bodies]

Init ==
    /\ pc = [c \in Calls |-> "idle"]
    /\ request = [c \in Calls |-> None]
    /\ pending = [n \in Nodes |-> {}]
    /\ buf = [c \in Calls |-> None]
    /\ closed = {}
    /\ requests = {}
    /\ responses = {}
    /\ reader = [n \in Nodes |-> Idle]
    /\ result = [c \in Calls |-> None]
    /\ chunks = [n \in Nodes |-> {}]
    /\ fileProviders = [n \in Nodes |-> [r \in Roots |-> {}]]
    /\ fileMeta = [n \in Nodes |-> {}]
    /\ executions = [c \in Calls |-> <<>>]

-----------------------------------------------------------------------------
(* The pending table (under s.mu) *)

(* Seeded fault: the entry is not in the table when the request leaves.      *)
registerPendingLate(p, n, c) == p

registerPending(p, n, c) == [p EXCEPT ![n] = @ \union {c}]

(* Seeded fault: the lookup without the delete. *)
takePendingKeeps(p, n, c) == p

takePending(p, n, c) == [p EXCEPT ![n] = @ \ {c}]

-----------------------------------------------------------------------------
(* The goroutine of a call *)

(* Build the message, register the channel, start sending. *)
Start(c) ==
    /\ pc[c] = "idle"
    /\ \E r \in Workload[c] :
         /\ request' = [request EXCEPT ![c] = r]
         /\ pending' = registerPending(pending, r.from, c)
    /\ pc' = [pc EXCEPT ![c] = "sending"]
    /\ UNCHANGED <<result, chanVars, requests, responses, reader, nodeVars,
                   executions>>

(* transport.Send returned nil: the request is in the hands of TCP. *)
SendOK(c) ==
    /\ pc[c] = "sending"
    /\ requests' = requests \union {c}
    /\ pc' = [pc EXCEPT ![c] = "waiting"]
    /\ UNCHANGED <<request, result, pending, chanVars, responses, reader,
                   nodeVars, executions>>

(* transport.Send failed: no complete frame left this node. *)
SendFail(c) ==
    /\ pc[c] = "sending"
    /\ pc' = [pc EXCEPT ![c] = "sendFailed"]
    /\ UNCHANGED <<request, result, pending, chanVars, requests, responses,
                   reader, nodeVars, executions>>

(* What a call returns for the message it took from its channel; a closed,   *)
(* empty channel yields nil, which the callers turn into an error.           *)
Outcome(msg) == IF msg = None THEN Failure ELSE msg

(* case resp := <-respCh: *)
Receive(c) ==
    /\ pc[c] = "waiting"
    /\ buf[c] # None \/ c \in closed
    /\ result' = [result EXCEPT ![c] = Outcome(buf[c])]
    /\ buf' = [buf EXCEPT ![c] = None]
    /\ pc' = [pc EXCEPT ![c] = "returned"]
    /\ UNCHANGED <<request, pending, closed, requests, responses, reader,
                   nodeVars, executions>>

(* Seeded fault: a select without its timeout case. *)
TimeoutMissing(c) == FALSE /\ UNCHANGED vars

(* case <-time.After(...): the select may take it at any moment, with an     *)
(* answer already in the channel too.                                        *)
Timeout(c) ==
    /\ pc[c] = "waiting"
    /\ pc' = [pc EXCEPT ![c] = "timedOut"]
    /\ UNCHANGED <<request, result, pending, chanVars, requests, responses,
                   reader, nodeVars, executions>>

(* Seeded fault: the error paths return without touching the table. *)
CleanUpMissing(c) ==
    /\ pc[c] \in {"sendFailed", "timedOut"}
    /\ pc' = [pc EXCEPT ![c] = "returned"]
    /\ result' = [result EXCEPT ![c] = Failure]
    /\ UNCHANGED <<request, pending, chanVars, requests, responses, reader,
                   nodeVars, executions>>

(* The clean-up of both error paths: take the channel back if the reader has  *)
(* not taken it, and close it; else return at once.                          *)
CleanUp(c) ==
    LET n == request[c].from
    IN  /\ pc[c] \in {"sendFailed", "timedOut"}
        /\ pending' = takePending(pending, n, c)
        /\ \/ /\ c \in pending[n]
              /\ pc' = [pc EXCEPT ![c] = "closing"]
              /\ UNCHANGED result
           \/ /\ c \notin pending[n]
              /\ pc' = [pc EXCEPT ![c] = "returned"]
              /\ result' = [result EXCEPT ![c] = Failure]
        /\ UNCHANGED <<request, chanVars, requests, responses, reader,
                       nodeVars, executions>>

(* close(ch) on the error path, and the return that follows it. *)
CallerClose(c) ==
    /\ pc[c] = "closing"
    /\ closed' = closed \union {c}
    /\ pc' = [pc EXCEPT ![c] = "returned"]
    /\ result' = [result EXCEPT ![c] = Failure]
    /\ UNCHANGED <<request, pending, buf, requests, responses, reader,
                   nodeVars, executions>>

-----------------------------------------------------------------------------
(* The reader goroutine of a node *)

(* Seeded fault: the answer goes to whichever call waits for this peer.       *)
ReadResponseByPeer(n) ==
    /\ reader[n] = Idle
    /\ \E m \in responses, c \in pending[n] :
         /\ request[m.call].from = n
         /\ request[m.call].to = request[c].to
         /\ responses' = responses \ {m}
         /\ pending' = takePending(pending, n, c)
         /\ reader' = [reader EXCEPT ![n] = [at |-> "deliver", call |-> c,
                                             body |-> m.body]]
    /\ UNCHANGED <<callVars, chanVars, requests, nodeVars, executions>>

(* An answer arrives: the reader takes the channel of its RequestID out of    *)
(* the table, or, when nobody waits any more, lets HandleRPC drop the stray   *)
(* response.                                                                 *)
ReadResponse(n) ==
    /\ reader[n] = Idle
    /\ \E m \in responses :
         /\ request[m.call].from = n
         /\ responses' = responses \ {m}
         /\ pending' = takePending(pending, n, m.call)
         /\ reader' = IF m.call \in pending[n]
                      THEN [reader EXCEPT ![n] = [at |-> "deliver",
                                                  call |-> m.call,
                                                  body |-> m.body]]
                      ELSE reader
    /\ UNCHANGED <<callVars, chanVars, requests, nodeVars, executions>>

(* Seeded fault: make(chan *Message), a channel without buffer. *)
HasRoomUnbuffered(c) == buf[c] = None /\ pc[c] = "waiting"

(* Room in a channel made by make(chan *Message, 1). *)
HasRoom(c) == buf[c] = None

(* ch <- msg *)
Deliver(n) ==
    LET c == reader[n].call
    IN  /\ reader[n].at = "deliver"
        /\ HasRoom(c)
        /\ buf' = [buf EXCEPT ![c] = reader[n].body]
        /\ reader' = [reader EXCEPT ![n].at = "close"]
        /\ UNCHANGED <<callVars, pending, closed, requests, responses,
                       nodeVars, executions>>

(* close(ch) *)
ReaderClose(n) ==
    /\ reader[n].at = "close"
    /\ closed' = closed \union {reader[n].call}
    /\ reader' = [reader EXCEPT ![n] = Idle]
    /\ UNCHANGED <<callVars, pending, buf, requests, responses, nodeVars,
                   executions>>

(* The answers of HandleRPC at node n to request r.  "io" tells what          *)
(* FSChunkStore met: a file system that did what was asked, a file that was   *)
(* torn when it was read, or an error.                                       *)
(* Seeded fault: no check for empty chunk data. *)
StoreChunkAnswerAnyData(n, r, io) ==
    IF n \in Stores /\ io # "error"
    THEN <<"STORE_CHUNK_RESULT", NewChunkID(r.arg)>>
    ELSE Failure

StoreChunkAnswer(n, r, io) ==
    IF n \in Stores /\ r.arg # Empty /\ io # "error"
    THEN <<"STORE_CHUNK_RESULT", NewChunkID(r.arg)>>
    ELSE Failure

(* The answer carries whatever the file held; nobody compares it with the ID. *)
GetChunkAnswer(n, r, io) ==
    LET held == {x \in chunks[n] : NewChunkID(x) = r.arg}
        d == CHOOSE x \in held : TRUE
    IN  IF n \in Stores /\ io # "error" /\ held # {}
        THEN <<"CHUNK_DATA", IF io = "torn" THEN Torn(d) ELSE d>>
        ELSE Failure

FileMetaAnswer(n, r) ==
    IF r.arg \in fileMeta[n] THEN <<"FILE_META", r.arg>> ELSE Failure

Answer(n, r, io) ==
    CASE r.op = "STORE_CHUNK" -> StoreChunkAnswer(n, r, io)
      [] r.op = "GET_CHUNK" -> GetChunkAnswer(n, r, io)
      [] r.op = "GET_FILE_PROVIDERS" ->
           <<"FILE_PROVIDERS", fileProviders[n][r.arg]>>
      [] r.op = "GET_FILE_META" -> FileMetaAnswer(n, r)

(* The chunks of n after it handled r: StoreLocalChunk's PutChunk. *)
ChunksAfter(n, r, io) ==
    IF r.op = "STORE_CHUNK" /\ StoreChunkAnswer(n, r, io) # Failure
    THEN [chunks EXCEPT ![n] = @ \union {r.arg}]
    ELSE chunks

(* Seeded fault: the request is handled and left to be handled again. *)
ConsumeNothing(c) == requests

(* The frames still to be read after the reader took the request of c. *)
Consume(c) == requests \ {c}

(* A request arrives: HandleRPC executes it and builds the answer. *)
HandleRequest(n) ==
    /\ reader[n] = Idle
    /\ \E c \in requests, io \in {"ok", "torn", "error"} :
         /\ request[c].to = n
         /\ requests' = Consume(c)
         /\ chunks' = ChunksAfter(n, request[c], io)
         /\ LET body == Answer(n, request[c], io)
            IN  /\ reader' = [reader EXCEPT ![n] = [at |-> "reply", call |-> c,
                                                    body |-> body]]
                /\ executions' = [executions EXCEPT ![c] = Append(@, body)]
    /\ UNCHANGED <<callVars, pending, chanVars, responses, fileProviders,
                   fileMeta>>

(* transport.Send(rpc.From, out): the answer echoes the RequestID; an error   *)
(* is only logged.                                                           *)
Reply(n) ==
    /\ reader[n].at = "reply"
    /\ responses' \in {responses, responses \union
           {[call |-> reader[n].call, body |-> reader[n].body]}}
    /\ reader' = [reader EXCEPT ![n] = Idle]
    /\ UNCHANGED <<callVars, pending, chanVars, requests, nodeVars, executions>>

(* Node n records p as a provider of r; a second record changes nothing. *)
addFileProvider(n, r, p) == [fileProviders EXCEPT ![n][r] = @ \union {p}]

(* A STORE_FILE_PROVIDER message of node p arrives: fire and forget.         *)
HandleStoreFileProvider(n) ==
    /\ reader[n] = Idle
    /\ \E p \in Announcers \ {n}, r \in Roots :
         fileProviders' = addFileProvider(n, r, p)
    /\ UNCHANGED <<callVars, pending, chanVars, requests, responses, reader,
                   chunks, fileMeta, executions>>

-----------------------------------------------------------------------------
(* What else changes the state the handlers read: local uploads, under the    *)
(* node's own locks and not through the reader.                              *)

StoreLocalChunk(n) ==
    /\ n \in Stores
    /\ \E d \in Data : chunks' = [chunks EXCEPT ![n] = @ \union {d}]
    /\ UNCHANGED <<callVars, pending, chanVars, requests, responses, reader,
                   fileProviders, fileMeta, executions>>

addFileMeta(n) ==
    /\ \E r \in Roots : fileMeta' = [fileMeta EXCEPT ![n] = @ \union {r}]
    /\ UNCHANGED <<callVars, pending, chanVars, requests, responses, reader,
                   chunks, fileProviders, executions>>

(* AnnounceFile begins by recording the node itself. *)
AnnounceLocally(n) ==
    /\ n \in Announcers
    /\ \E r \in Roots : fileProviders' = addFileProvider(n, r, n)
    /\ UNCHANGED <<callVars, pending, chanVars, requests, responses, reader,
                   chunks, fileMeta, executions>>

(* The network loses a request or an answer. *)
LoseRequest ==
    /\ \E c \in requests : requests' = requests \ {c}
    /\ UNCHANGED <<callVars, pending, chanVars, responses, reader, nodeVars,
                   executions>>

LoseResponse ==
    /\ \E m \in responses : responses' = responses \ {m}
    /\ UNCHANGED <<callVars, pending, chanVars, requests, reader, nodeVars,
                   executions>>

CallStep(c) ==
    \/ Start(c) \/ SendOK(c) \/ SendFail(c) \/ Receive(c) \/ Timeout(c)
    \/ CleanUp(c) \/ CallerClose(c)

ReaderStep(n) ==
    \/ ReadResponse(n) \/ Deliver(n) \/ ReaderClose(n) \/ HandleRequest(n)
    \/ Reply(n) \/ HandleStoreFileProvider(n)

LocalStep(n) == StoreLocalChunk(n) \/ addFileMeta(n) \/ AnnounceLocally(n)

Next ==
    \/ \E c \in Calls : CallStep(c)
    \/ \E n \in Nodes : ReaderStep(n) \/ LocalStep(n)
    \/ LoseRequest \/ LoseResponse

Spec == Init /\ [][Next]_vars

(* A caller's goroutine never stops between two steps: Send returns, a timer  *)
(* fires when the answer does not come, and the clean-up runs.  The reader    *)
(* finishes what it is doing as soon as the channel lets it; nothing obliges  *)
(* the network to bring it anything.                                         *)
CallerFairness(c) ==
    /\ WF_vars(SendOK(c) \/ SendFail(c))
    /\ WF_vars(Receive(c) \/ Timeout(c))
    /\ WF_vars(CleanUp(c))
    /\ WF_vars(CallerClose(c))

ReaderFairness(n) ==
    WF_vars(Deliver(n)) /\ WF_vars(ReaderClose(n)) /\ WF_vars(Reply(n))

FairSpec ==
    /\ Spec
    /\ \A c \in Calls : CallerFairness(c)
    /\ \A n \in Nodes : ReaderFairness(n)

-----------------------------------------------------------------------------
(* Properties *)

(* Every variable has its type. *)
TypeOK ==
    /\ pc \in [Calls -> {"idle", "sending", "waiting", "sendFailed",
                          "timedOut", "closing", "returned"}]
    /\ request \in [Calls -> Requests \union {None}]
    /\ \A c \in Calls : pc[c] # "idle" => request[c] \in Requests
    /\ pending \in [Nodes -> SUBSET Calls]
    /\ buf \in [Calls -> Bodies \union {None}]
    /\ closed \subseteq Calls
    /\ requests \subseteq Calls
    /\ responses \subseteq Responses
    /\ reader \in [Nodes -> ReaderStates]
    /\ result \in [Calls -> Bodies \union {None}]
    /\ chunks \in [Nodes -> SUBSET Data]
    /\ fileProviders \in [Nodes -> [Roots -> SUBSET Nodes]]
    /\ fileMeta \in [Nodes -> SUBSET Roots]
    /\ executions \in [Calls -> Seq(Bodies)]

(* No goroutine panics on a channel and the reader is never stuck on one:     *)
(* when readLoop is about to send, the channel is open and empty, and nobody  *)
(* is about to close a channel that is closed already (service.go:112-113     *)
(* against the close(ch) of the error and timeout paths).                    *)
ChannelSafe ==
    /\ \A n \in Nodes :
         /\ reader[n].at = "deliver" =>
              reader[n].call \notin closed /\ HasRoom(reader[n].call)
         /\ reader[n].at = "close" => reader[n].call \notin closed
    /\ \A c \in Calls : pc[c] = "closing" => c \notin closed

(* No answer is lost between the table and the waiting caller: once readLoop  *)
(* has taken the entry of a call that still waits, the answer is in the       *)
(* channel or the reader is about to put it there; in particular the caller   *)
(* never sees the "nil response" of a closed, empty channel.                 *)
NoLostAnswer ==
    \A c \in Calls :
      LET n == request[c].from
      IN  (pc[c] = "waiting" /\ c \notin pending[n]) =>
            \/ buf[c] # None
            \/ reader[n].at = "deliver" /\ reader[n].call = c

(* The table does not leak: a call that has returned, whichever of its paths  *)
(* it took, has no entry left in s.pending of any node.                      *)
NoLeakedPending ==
    \A c \in Calls, n \in Nodes : pc[c] = "returned" => c \notin pending[n]

(* v is a true answer to the request of c, given the peer's present state. *)
Genuine(c, v) ==
    LET r == request[c]
    IN  \/ /\ r.op = "STORE_CHUNK"
           /\ v = <<"STORE_CHUNK_RESULT", NewChunkID(r.arg)>>
           /\ r.arg \in chunks[r.to]
        \/ /\ r.op = "GET_CHUNK"
           /\ \E d \in chunks[r.to] :
                /\ NewChunkID(d) = r.arg
                /\ v \in {<<"CHUNK_DATA", d>>, <<"CHUNK_DATA", Torn(d)>>}
        \/ /\ r.op = "GET_FILE_PROVIDERS"
           /\ \E P \in SUBSET fileProviders[r.to][r.arg] :
                v = <<"FILE_PROVIDERS", P>>
        \/ /\ r.op = "GET_FILE_META"
           /\ v = <<"FILE_META", r.arg>>
           /\ r.arg \in fileMeta[r.to]

(* A result that is not an error answers the caller's own question: an        *)
(* acknowledged chunk has a file in the peer's store under the ID returned,   *)
(* fetched data is the content of the chunk asked for or, when the peer read  *)
(* a torn file, a part of that content and never of another chunk's, the      *)
(* providers are ones the peer recorded for that root, the metadata is that   *)
(* file's; with several calls in progress no answer reaches the wrong caller. *)
(* That fetched data HAS the ID asked for is not promised: FetchChunkRemote   *)
(* (service.go:241-260) does not hash it.                                    *)
SuccessIsGenuine ==
    \A c \in Calls : result[c] \notin {None, Failure} => Genuine(c, result[c])

(* The calls keep the promise of RemoteCall: at most one execution per        *)
(* request, and a successful caller is told what that execution answered,     *)
(* whatever timed out, was lost or arrived late in between.                  *)
phaseOf(c) == CASE pc[c] = "idle" -> "idle"
                [] pc[c] = "returned" -> "done"
                [] OTHER -> "open"

Abstract == INSTANCE RemoteCall WITH
    phase <- [c \in Calls |-> phaseOf(c)],
    outcome <- [c \in Calls |-> Outcome(result[c])]

ImplementsRemoteCall == Abstract!Spec

(* The parts of the inductive invariant behind these properties.            *)

(* An entry of the table: its call has not reached its clean-up, and its      *)
(* channel is as make left it.                                               *)
PendingInv ==
    \A n \in Nodes : \A c \in pending[n] :
      /\ pc[c] \in {"sending", "waiting", "sendFailed", "timedOut"}
      /\ request[c].from = n
      /\ buf[c] = None
      /\ c \notin closed

(* A call that has not sent anything has not been executed, and one that is   *)
(* about to send is in the table.                                            *)
UnsentInv ==
    \A c \in Calls :
      /\ pc[c] = "sending" => c \in pending[request[c].from]
      /\ pc[c] \in {"idle", "sending", "sendFailed"} =>
           c \notin requests /\ executions[c] = <<>>
      /\ pc[c] = "idle" => buf[c] = None /\ c \notin closed

(* One execution per request; what is in flight, in a reader's hands or in a  *)
(* channel is the answer of that execution.                                  *)
ExecutionInv ==
    /\ \A c \in requests : executions[c] = <<>>
    /\ \A m \in responses : executions[m.call] = <<m.body>>
    /\ \A n \in Nodes :
         reader[n].at # "recv" => executions[reader[n].call] = <<reader[n].body>>
    /\ \A c \in Calls : buf[c] # None => executions[c] = <<buf[c]>>
    /\ \A c \in Calls :
         /\ result[c] # None => pc[c] = "returned"
         /\ result[c] \notin {None, Failure} => executions[c] = <<result[c]>>

(* The reader that took an entry is the only one left to use the channel. *)
HandoverInv ==
    /\ \A n \in Nodes :
         reader[n].at \in {"deliver", "close"} =>
           LET c == reader[n].call
           IN  /\ request[c].from = n
               /\ \A m \in Nodes : c \notin pending[m]
               /\ pc[c] \in {"waiting", "timedOut", "returned"}
               /\ c \notin closed
               /\ reader[n].at = "deliver" => buf[c] = None
    /\ \A c \in Calls :
         pc[c] = "closing" => c \notin closed /\ \A n \in Nodes : c \notin pending[n]

(* Every answer computed is an error or a true one. *)
AnswersInv ==
    \A c \in Calls, v \in Values : executions[c] = <<v>> => Genuine(c, v)

IInv ==
    /\ TypeOK
    /\ PendingInv
    /\ UnsentInv
    /\ ExecutionInv
    /\ HandoverInv
    /\ NoLostAnswer
    /\ AnswersInv

(* Every call that registers itself returns, answer or not. *)
CallsReturn == \A c \in Calls : pc[c] = "sending" ~> pc[c] = "returned"

(* The single reader of a node always gets back to its queue: no call, timed  *)
(* out or not, can stop it from serving the others.                          *)
ReaderResumes == \A n \in Nodes : reader[n].at # "recv" ~> reader[n].at = "recv"
=============================================================================

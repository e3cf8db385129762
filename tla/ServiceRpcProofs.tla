-------------------------- MODULE ServiceRpcProofs --------------------------
(***************************************************************************)
(* Proofs about ServiceRpc, for any number of nodes, calls, contents and     *)
(* files.                                                                    *)
(***************************************************************************)
EXTENDS ServiceRpc, TLAPS

-----------------------------------------------------------------------------
(* The operators *)

(* The fields of a request. *)
LEMMA RequestFields ==
    \A r \in Requests :
      /\ r.from \in Nodes
      /\ r.to \in Nodes
      /\ r.op \in {"STORE_CHUNK", "GET_CHUNK", "GET_FILE_PROVIDERS",
                   "GET_FILE_META"}
      /\ r.op = "STORE_CHUNK" => r.arg \in Data \union {Empty}
      /\ r.op \in {"GET_FILE_PROVIDERS", "GET_FILE_META"} => r.arg \in Roots
BY DEF Requests

(* The fields of a reader's state. *)
LEMMA ReaderFields ==
    \A s \in ReaderStates :
      /\ s = Idle <=> s.at = "recv"
      /\ s.at # "recv" => /\ s.at \in {"deliver", "close", "reply"}
                          /\ s.call \in Calls
                          /\ s.body \in Bodies
BY DEF ReaderStates, Idle

(* HandleRPC answers every request with a well-formed message. *)
LEMMA AnswerType ==
    ASSUME TypeOK, NEW n \in Nodes, NEW r \in Requests, NEW io
    PROVE  Answer(n, r, io) \in Bodies
<1>1. CASE r.op = "STORE_CHUNK"
  <2>1. r.arg \in Data \union {Empty}
    BY <1>1, RequestFields
  <2>2. StoreChunkAnswer(n, r, io) \in Bodies
    BY <2>1 DEF StoreChunkAnswer, Bodies, Values, ChunkIDs
  <2>. QED BY <1>1, <2>2 DEF Answer
<1>2. CASE r.op = "GET_CHUNK"
  <2>1. chunks[n] \subseteq Data
    BY DEF TypeOK
  <2>2. GetChunkAnswer(n, r, io) \in Bodies
    BY <2>1 DEF GetChunkAnswer, Bodies, Values
  <2>. QED BY <1>2, <2>2 DEF Answer
<1>3. CASE r.op = "GET_FILE_PROVIDERS"
  <2>1. r.arg \in Roots
    BY <1>3, RequestFields
  <2>2. fileProviders[n][r.arg] \in SUBSET Nodes
    BY <2>1 DEF TypeOK
  <2>. QED BY <1>3, <2>2 DEF Answer, Bodies, Values
<1>4. CASE r.op = "GET_FILE_META"
  <2>1. r.arg \in Roots
    BY <1>4, RequestFields
  <2>. QED BY <1>4, <2>1 DEF Answer, FileMetaAnswer, Bodies, Values
<1>. QED BY <1>1, <1>2, <1>3, <1>4, RequestFields

(* Executing a request only ever adds a non-empty chunk to the store. *)
LEMMA ChunksAfterType ==
    ASSUME TypeOK, NEW n \in Nodes, NEW r \in Requests, NEW io
    PROVE  /\ ChunksAfter(n, r, io) \in [Nodes -> SUBSET Data]
           /\ \A m \in Nodes : chunks[m] \subseteq ChunksAfter(n, r, io)[m]
<1>1. CASE r.op = "STORE_CHUNK" /\ StoreChunkAnswer(n, r, io) # Failure
  <2>1. r.arg \in Data
    BY <1>1, RequestFields DEF StoreChunkAnswer
  <2>2. ChunksAfter(n, r, io) = [chunks EXCEPT ![n] = @ \union {r.arg}]
    BY <1>1 DEF ChunksAfter
  <2>. QED BY <2>1, <2>2 DEF TypeOK
<1>2. CASE ~(r.op = "STORE_CHUNK" /\ StoreChunkAnswer(n, r, io) # Failure)
  BY <1>2 DEF ChunksAfter, TypeOK
<1>. QED BY <1>1, <1>2

-----------------------------------------------------------------------------
(* The steps *)

(* The answer HandleRPC computes is true once the request is executed. *)
LEMMA AnswerGenuine ==
    ASSUME TypeOK, NEW c \in Calls, NEW io, NEW v, request[c] \in Requests,
           request' = request, fileProviders' = fileProviders,
           fileMeta' = fileMeta,
           chunks' = ChunksAfter(request[c].to, request[c], io),
           v = Answer(request[c].to, request[c], io),
           v # Failure
    PROVE  Genuine(c, v)'
<1> DEFINE r == request[c]
<1>1. CASE r.op = "STORE_CHUNK"
  <2>1. v = StoreChunkAnswer(r.to, r, io)
    BY <1>1 DEF Answer
  <2>2. v = <<"STORE_CHUNK_RESULT", NewChunkID(r.arg)>>
    BY <2>1 DEF StoreChunkAnswer
  <2>3. r.to \in Nodes /\ chunks' = [chunks EXCEPT ![r.to] = @ \union {r.arg}]
    BY <1>1, <2>1, RequestFields DEF ChunksAfter
  <2>4. r.arg \in chunks'[r.to]
    BY <2>3 DEF TypeOK
  <2>. QED BY <1>1, <2>2, <2>4 DEF Genuine
<1>2. CASE r.op = "GET_CHUNK"
  <2>1. v = GetChunkAnswer(r.to, r, io)
    BY <1>2 DEF Answer
  <2>2. \E d \in chunks[r.to] :
          /\ NewChunkID(d) = r.arg
          /\ v \in {<<"CHUNK_DATA", d>>, <<"CHUNK_DATA", Torn(d)>>}
    BY <2>1 DEF GetChunkAnswer
  <2>3. chunks' = chunks
    BY <1>2 DEF ChunksAfter
  <2>. QED BY <1>2, <2>2, <2>3 DEF Genuine
<1>3. CASE r.op = "GET_FILE_PROVIDERS"
  <2>1. v = <<"FILE_PROVIDERS", fileProviders[r.to][r.arg]>>
    BY <1>3 DEF Answer
  <2>. QED BY <1>3, <2>1 DEF Genuine
<1>4. CASE r.op = "GET_FILE_META"
  <2>1. v = FileMetaAnswer(r.to, r)
    BY <1>4 DEF Answer
  <2>. QED BY <1>4, <2>1 DEF FileMetaAnswer, Genuine
<1>. QED BY <1>1, <1>2, <1>3, <1>4, RequestFields

(* A true answer stays true: stores and tables only grow, and a request does  *)
(* not change once it is made.                                               *)
LEMMA GenuineStable ==
    ASSUME NEW c \in Calls, NEW v, Genuine(c, v),
           request[c] \in Requests, request'[c] = request[c],
           \A n \in Nodes : /\ chunks[n] \subseteq chunks'[n]
                            /\ fileMeta[n] \subseteq fileMeta'[n]
                            /\ \A r \in Roots : fileProviders[n][r]
                                                \subseteq fileProviders'[n][r]
    PROVE  Genuine(c, v)'
<1>1. /\ request[c].to \in Nodes
      /\ request[c].op = "GET_FILE_PROVIDERS" => request[c].arg \in Roots
  BY RequestFields
<1>. QED BY <1>1 DEF Genuine, NewChunkID

(* A step that executes nothing keeps the answers true. *)
LEMMA AnswersStable ==
    ASSUME TypeOK, UnsentInv, AnswersInv, executions' = executions,
           \A c \in Calls : pc[c] # "idle" => request'[c] = request[c],
           \A n \in Nodes : /\ chunks[n] \subseteq chunks'[n]
                            /\ fileMeta[n] \subseteq fileMeta'[n]
                            /\ \A r \in Roots : fileProviders[n][r]
                                                \subseteq fileProviders'[n][r]
    PROVE  AnswersInv'
<1> SUFFICES ASSUME NEW c \in Calls, NEW v \in Values, executions[c] = <<v>>
             PROVE  Genuine(c, v)'
  BY DEF AnswersInv
<1>1. pc[c] # "idle"
  BY DEF UnsentInv
<1>2. request[c] \in Requests /\ request'[c] = request[c]
  BY <1>1 DEF TypeOK
<1>3. Genuine(c, v)
  BY DEF AnswersInv
<1>. QED BY <1>2, <1>3, GenuineStable

(* A call starts. *)
LEMMA StartStep ==
    ASSUME IInv, NEW c \in Calls, Start(c)
    PROVE  IInv'
<1>0. Workload[c] \subseteq Requests
  BY WorkloadAssumption
<1>. USE RequestFields, ReaderFields, NilAssumption
     DEF IInv, Start, registerPending, chanVars, nodeVars
<1>1. TypeOK'
  BY <1>0 DEF TypeOK
<1>2. PendingInv'
  BY DEF TypeOK, PendingInv, ExecutionInv, UnsentInv
<1>3. UnsentInv'
  BY <1>0 DEF TypeOK, UnsentInv, ExecutionInv
<1>4. ExecutionInv'
  BY DEF TypeOK, ExecutionInv, UnsentInv
<1>5. HandoverInv'
  BY DEF TypeOK, HandoverInv, PendingInv, UnsentInv, ExecutionInv
<1>6. NoLostAnswer'
  BY DEF TypeOK, NoLostAnswer, PendingInv, UnsentInv, HandoverInv, ExecutionInv
<1>7. AnswersInv'
  BY AnswersStable DEF TypeOK, nodeVars, callVars
<1>. QED BY <1>1, <1>2, <1>3, <1>4, <1>5, <1>6, <1>7

(* A request leaves. *)
LEMMA SendOKStep ==
    ASSUME IInv, NEW c \in Calls, SendOK(c)
    PROVE  IInv'
<1>. USE RequestFields, ReaderFields, NilAssumption DEF IInv, SendOK, chanVars, nodeVars
<1>1. TypeOK'
  BY DEF TypeOK
<1>2. PendingInv'
  BY DEF TypeOK, PendingInv, ExecutionInv, UnsentInv
<1>3. UnsentInv'
  BY DEF TypeOK, UnsentInv, ExecutionInv
<1>4. ExecutionInv'
  BY DEF TypeOK, ExecutionInv, UnsentInv
<1>5. HandoverInv'
  BY DEF TypeOK, HandoverInv, PendingInv, UnsentInv, ExecutionInv
<1>6. NoLostAnswer'
  BY DEF TypeOK, NoLostAnswer, PendingInv, UnsentInv, HandoverInv, ExecutionInv
<1>7. AnswersInv'
  BY AnswersStable DEF TypeOK, nodeVars, callVars
<1>. QED BY <1>1, <1>2, <1>3, <1>4, <1>5, <1>6, <1>7

(* A send fails. *)
LEMMA SendFailStep ==
    ASSUME IInv, NEW c \in Calls, SendFail(c)
    PROVE  IInv'
<1>. USE RequestFields, ReaderFields, NilAssumption DEF IInv, SendFail, chanVars, nodeVars
<1>1. TypeOK'
  BY DEF TypeOK
<1>2. PendingInv'
  BY DEF TypeOK, PendingInv, ExecutionInv, UnsentInv
<1>3. UnsentInv'
  BY DEF TypeOK, UnsentInv, ExecutionInv
<1>4. ExecutionInv'
  BY DEF TypeOK, ExecutionInv, UnsentInv
<1>5. HandoverInv'
  BY DEF TypeOK, HandoverInv, PendingInv, UnsentInv, ExecutionInv
<1>6. NoLostAnswer'
  BY DEF TypeOK, NoLostAnswer, PendingInv, UnsentInv, HandoverInv, ExecutionInv
<1>7. AnswersInv'
  BY AnswersStable DEF TypeOK, nodeVars, callVars
<1>. QED BY <1>1, <1>2, <1>3, <1>4, <1>5, <1>6, <1>7

(* A call takes its answer. *)
LEMMA ReceiveStep ==
    ASSUME IInv, NEW c \in Calls, Receive(c)
    PROVE  IInv'
<1>. USE RequestFields, ReaderFields, NilAssumption DEF IInv, Receive, Outcome, nodeVars, Bodies
<1>1. TypeOK'
  BY DEF TypeOK
<1>2. PendingInv'
  BY DEF TypeOK, PendingInv, ExecutionInv, UnsentInv
<1>3. UnsentInv'
  BY DEF TypeOK, UnsentInv, ExecutionInv
<1>4. ExecutionInv'
  BY DEF TypeOK, ExecutionInv, UnsentInv
<1>5. HandoverInv'
  BY DEF TypeOK, HandoverInv, PendingInv, UnsentInv, ExecutionInv
<1>6. NoLostAnswer'
  BY DEF TypeOK, NoLostAnswer, PendingInv, UnsentInv, HandoverInv, ExecutionInv
<1>7. AnswersInv'
  BY AnswersStable DEF TypeOK, nodeVars, callVars
<1>. QED BY <1>1, <1>2, <1>3, <1>4, <1>5, <1>6, <1>7

(* A timer fires. *)
LEMMA TimeoutStep ==
    ASSUME IInv, NEW c \in Calls, Timeout(c)
    PROVE  IInv'
<1>. USE RequestFields, ReaderFields, NilAssumption DEF IInv, Timeout, chanVars, nodeVars
<1>1. TypeOK'
  BY DEF TypeOK
<1>2. PendingInv'
  BY DEF TypeOK, PendingInv, ExecutionInv, UnsentInv
<1>3. UnsentInv'
  BY DEF TypeOK, UnsentInv, ExecutionInv
<1>4. ExecutionInv'
  BY DEF TypeOK, ExecutionInv, UnsentInv
<1>5. HandoverInv'
  BY DEF TypeOK, HandoverInv, PendingInv, UnsentInv, ExecutionInv
<1>6. NoLostAnswer'
  BY DEF TypeOK, NoLostAnswer, PendingInv, UnsentInv, HandoverInv, ExecutionInv
<1>7. AnswersInv'
  BY AnswersStable DEF TypeOK, nodeVars, callVars
<1>. QED BY <1>1, <1>2, <1>3, <1>4, <1>5, <1>6, <1>7

(* An error path takes its entry back. *)
LEMMA CleanUpStep ==
    ASSUME IInv, NEW c \in Calls, CleanUp(c)
    PROVE  IInv'
<1>a. /\ pc[c] \in {"sendFailed", "timedOut"}
      /\ request[c] \in Requests
      /\ request[c].from \in Nodes
  BY RequestFields DEF IInv, TypeOK, CleanUp
<1>b. /\ pending' \in [Nodes -> SUBSET Calls]
      /\ \A m \in Nodes : c \notin pending'[m] /\ pending'[m] \subseteq pending[m]
      /\ \A m \in Nodes, d \in Calls \ {c} : d \in pending[m] => d \in pending'[m]
  BY <1>a DEF IInv, TypeOK, PendingInv, CleanUp, takePending
<1>c. /\ \A d \in Calls \ {c} : pc'[d] = pc[d] /\ result'[d] = result[d]
      /\ \/ /\ pc'[c] = "closing"
            /\ c \in pending[request[c].from]
            /\ result'[c] = result[c]
         \/ pc'[c] = "returned" /\ result'[c] = Failure
  BY <1>a DEF IInv, TypeOK, CleanUp
<1>d. UNCHANGED <<request, buf, closed, requests, responses, reader, chunks,
                  fileProviders, fileMeta, executions>>
  BY DEF CleanUp, chanVars, nodeVars
<1>1. TypeOK'
  <2>1. Failure \in Bodies
    BY DEF Bodies
  <2>2. /\ pc' \in [Calls -> {"idle", "sending", "waiting", "sendFailed",
                              "timedOut", "closing", "returned"}]
        /\ result' \in [Calls -> Bodies \union {None}]
    BY <2>1 DEF IInv, TypeOK, CleanUp
  <2>. QED BY <1>a, <1>b, <1>c, <1>d, <2>2 DEF IInv, TypeOK
<1>2. PendingInv'
  <2> SUFFICES ASSUME NEW n \in Nodes, NEW d \in pending'[n]
               PROVE  /\ pc'[d] \in {"sending", "waiting", "sendFailed",
                                     "timedOut"}
                      /\ request'[d].from = n
                      /\ buf'[d] = None
                      /\ d \notin closed'
    BY DEF PendingInv
  <2>1. d \in Calls \ {c} /\ d \in pending[n]
    BY <1>b
  <2>. QED BY <1>c, <1>d, <2>1 DEF IInv, PendingInv
<1>3. UnsentInv'
  BY <1>a, <1>b, <1>c, <1>d, RequestFields DEF IInv, TypeOK, UnsentInv
<1>4. ExecutionInv'
  BY <1>a, <1>c, <1>d DEF IInv, TypeOK, ExecutionInv
<1>5. HandoverInv'
  <2>1. \A n \in Nodes : reader[n].at \in {"deliver", "close"} =>
          /\ reader[n].call \in Calls
          /\ pc'[reader[n].call] \in {"waiting", "timedOut", "returned"}
    <3> SUFFICES ASSUME NEW n \in Nodes, reader[n].at \in {"deliver", "close"}
                 PROVE  /\ reader[n].call \in Calls
                        /\ pc'[reader[n].call] \in {"waiting", "timedOut",
                                                   "returned"}
      OBVIOUS
    <3>1. /\ reader[n].call \in Calls
          /\ pc[reader[n].call] \in {"waiting", "timedOut", "returned"}
          /\ \A m \in Nodes : reader[n].call \notin pending[m]
      BY ReaderFields DEF IInv, TypeOK, HandoverInv
    <3>2. reader[n].call = c => pc'[c] = "returned"
      BY <1>a, <1>c, <3>1
    <3>. QED BY <1>c, <3>1, <3>2
  <2>2. pc'[c] = "closing" => c \notin closed
    BY <1>a, <1>c DEF IInv, PendingInv
  <2>. QED BY <1>b, <1>c, <1>d, <2>1, <2>2 DEF IInv, HandoverInv
<1>6. NoLostAnswer'
  BY <1>a, <1>b, <1>c, <1>d, RequestFields DEF IInv, TypeOK, NoLostAnswer
<1>7. AnswersInv'
  BY <1>d, AnswersStable DEF IInv, TypeOK
<1>. QED BY <1>1, <1>2, <1>3, <1>4, <1>5, <1>6, <1>7 DEF IInv

(* An error path closes its channel. *)
LEMMA CallerCloseStep ==
    ASSUME IInv, NEW c \in Calls, CallerClose(c)
    PROVE  IInv'
<1>. USE RequestFields, ReaderFields, NilAssumption DEF IInv, CallerClose, nodeVars, Bodies
<1>1. TypeOK'
  BY DEF TypeOK
<1>2. PendingInv'
  BY DEF TypeOK, PendingInv, ExecutionInv, UnsentInv
<1>3. UnsentInv'
  BY DEF TypeOK, UnsentInv, ExecutionInv
<1>4. ExecutionInv'
  BY DEF TypeOK, ExecutionInv, UnsentInv
<1>5. HandoverInv'
  BY DEF TypeOK, HandoverInv, PendingInv, UnsentInv, ExecutionInv
<1>6. NoLostAnswer'
  BY DEF TypeOK, NoLostAnswer, PendingInv, UnsentInv, HandoverInv, ExecutionInv
<1>7. AnswersInv'
  BY AnswersStable DEF TypeOK, nodeVars, callVars
<1>. QED BY <1>1, <1>2, <1>3, <1>4, <1>5, <1>6, <1>7

(* The reader takes an answer from its queue. *)
LEMMA ReadResponseStep ==
    ASSUME IInv, NEW n \in Nodes, ReadResponse(n)
    PROVE  IInv'
<1>. USE RequestFields, ReaderFields, NilAssumption DEF IInv, ReadResponse, takePending, callVars, chanVars, nodeVars
<1>a. PICK m \in responses : ReadResponse(n)!2!(m)
  OBVIOUS
<1>b. m.call \in Calls /\ m.body \in Bodies /\ executions[m.call] = <<m.body>>
  BY DEF TypeOK, ExecutionInv, Responses
<1>c. pc[m.call] \notin {"idle", "sending", "sendFailed"}
  BY <1>b DEF UnsentInv
<1>d. /\ pending' \in [Nodes -> SUBSET Calls]
      /\ \A k \in Nodes : m.call \notin pending'[k]
      /\ \A k \in Nodes, d \in Calls \ {m.call} :
           d \in pending[k] <=> d \in pending'[k]
  BY <1>a, <1>b DEF TypeOK, PendingInv
<1>e. \/ m.call \notin pending[n] /\ reader' = reader
      \/ /\ m.call \in pending[n]
         /\ reader'[n] = [at |-> "deliver", call |-> m.call, body |-> m.body]
         /\ \A k \in Nodes \ {n} : reader'[k] = reader[k]
  BY <1>a DEF TypeOK
<1>f. reader' \in [Nodes -> ReaderStates]
  BY <1>a, <1>b DEF TypeOK, ReaderStates
<1>1. TypeOK'
  BY <1>a, <1>b, <1>c, <1>d, <1>e, <1>f DEF TypeOK
<1>2. PendingInv'
  BY <1>a, <1>b, <1>c, <1>d, <1>e, <1>f DEF TypeOK, PendingInv, ExecutionInv, UnsentInv
<1>3. UnsentInv'
  BY <1>a, <1>b, <1>c, <1>d, <1>e, <1>f DEF TypeOK, UnsentInv, ExecutionInv
<1>4. ExecutionInv'
  BY <1>a, <1>b, <1>c, <1>d, <1>e, <1>f DEF TypeOK, ExecutionInv, UnsentInv
<1>5. HandoverInv'
  BY <1>a, <1>b, <1>c, <1>d, <1>e, <1>f DEF TypeOK, HandoverInv, PendingInv, UnsentInv, ExecutionInv
<1>6. NoLostAnswer'
  BY <1>a, <1>b, <1>c, <1>d, <1>e, <1>f DEF TypeOK, NoLostAnswer, PendingInv, UnsentInv, HandoverInv, ExecutionInv
<1>7. AnswersInv'
  BY AnswersStable DEF TypeOK, nodeVars, callVars
<1>. QED BY <1>1, <1>2, <1>3, <1>4, <1>5, <1>6, <1>7

(* The reader sends on a channel. *)
LEMMA DeliverStep ==
    ASSUME IInv, NEW n \in Nodes, Deliver(n)
    PROVE  IInv'
<1> DEFINE c == reader[n].call
           b == reader[n].body
<1>a. /\ reader[n].at = "deliver" /\ c \in Calls /\ b \in Bodies /\ b # None
      /\ executions[c] = <<b>>
      /\ pc[c] \in {"waiting", "timedOut", "returned"}
      /\ request[c].from = n
      /\ \A m \in Nodes : c \notin pending[m]
      /\ c \notin closed
  BY ReaderFields, NilAssumption
     DEF IInv, TypeOK, ExecutionInv, HandoverInv, Deliver
<1>b. /\ reader' \in [Nodes -> ReaderStates]
      /\ reader'[n] = [at |-> "close", call |-> c, body |-> b]
      /\ \A m \in Nodes \ {n} : reader'[m] = reader[m]
  <2>1. [reader[n] EXCEPT !.at = "close"]
          = [at |-> "close", call |-> c, body |-> b]
    BY <1>a DEF IInv, TypeOK, ReaderStates, Idle
  <2>2. reader' = [reader EXCEPT ![n] = [at |-> "close", call |-> c, body |-> b]]
    BY <2>1 DEF Deliver
  <2>. QED BY <1>a, <2>2 DEF IInv, TypeOK, ReaderStates
<1>c. /\ buf' \in [Calls -> Bodies \union {None}]
      /\ buf'[c] = b
      /\ \A d \in Calls \ {c} : buf'[d] = buf[d]
  BY <1>a DEF IInv, TypeOK, Deliver
<1>d. UNCHANGED <<pc, request, result, pending, closed, requests, responses,
                  chunks, fileProviders, fileMeta, executions>>
  BY DEF Deliver, callVars, nodeVars
<1> HIDE DEF c, b
<1>1. TypeOK'
  BY <1>b, <1>c, <1>d DEF IInv, TypeOK
<1>2. PendingInv'
  BY <1>a, <1>c, <1>d DEF IInv, TypeOK, PendingInv
<1>3. UnsentInv'
  BY <1>a, <1>c, <1>d DEF IInv, UnsentInv
<1>4. ExecutionInv'
  <2>1. \A m \in Nodes : reader'[m].at # "recv" =>
          executions'[reader'[m].call] = <<reader'[m].body>>
    <3>1. executions'[reader'[n].call] = <<reader'[n].body>>
      BY <1>a, <1>b, <1>d
    <3>. QED BY <1>b, <1>d, <3>1 DEF IInv, ExecutionInv
  <2>2. \A d \in Calls : buf'[d] # None => executions'[d] = <<buf'[d]>>
    BY <1>a, <1>c, <1>d DEF IInv, ExecutionInv
  <2>. QED BY <1>d, <2>1, <2>2 DEF IInv, ExecutionInv
<1>5. HandoverInv'
  <2> SUFFICES ASSUME NEW m \in Nodes, reader'[m].at \in {"deliver", "close"}
               PROVE  LET d == reader'[m].call
                      IN  /\ request'[d].from = m
                          /\ \A k \in Nodes : d \notin pending'[k]
                          /\ pc'[d] \in {"waiting", "timedOut", "returned"}
                          /\ d \notin closed'
                          /\ reader'[m].at = "deliver" => buf'[d] = None
    BY <1>d DEF IInv, HandoverInv
  <2>1. CASE m = n
    BY <1>a, <1>b, <1>d, <2>1
  <2>2. CASE m # n
    <3>1. /\ reader'[m] = reader[m]
          /\ reader[m].call \in Calls
          /\ request[reader[m].call].from = m
      BY <1>b, <2>2, ReaderFields DEF IInv, TypeOK, HandoverInv
    <3>2. reader[m].call # c
      BY <1>a, <2>2, <3>1
    <3>. QED BY <1>c, <1>d, <3>1, <3>2 DEF IInv, HandoverInv
  <2>. QED BY <2>1, <2>2
<1>6. NoLostAnswer'
  <2> SUFFICES ASSUME NEW d \in Calls, pc[d] = "waiting",
                      d \notin pending[request[d].from]
               PROVE  LET m == request[d].from
                      IN  \/ buf'[d] # None
                          \/ reader'[m].at = "deliver" /\ reader'[m].call = d
    BY <1>d DEF NoLostAnswer
  <2>1. CASE d = c
    BY <1>a, <1>c, <2>1
  <2>2. CASE d # c
    <3>1. request[d].from \in Nodes
      BY RequestFields DEF IInv, TypeOK
    <3>2. ~(reader[n].at = "deliver" /\ reader[n].call = d)
      BY <2>2 DEF c
    <3>. QED BY <1>b, <1>c, <2>2, <3>1, <3>2 DEF IInv, NoLostAnswer
  <2>. QED BY <2>1, <2>2
<1>7. AnswersInv'
  BY <1>d, AnswersStable DEF IInv, TypeOK
<1>. QED BY <1>1, <1>2, <1>3, <1>4, <1>5, <1>6, <1>7 DEF IInv

(* The reader closes a channel. *)
LEMMA ReaderCloseStep ==
    ASSUME IInv, NEW n \in Nodes, ReaderClose(n)
    PROVE  IInv'
<1> DEFINE c == reader[n].call
<1>a. /\ reader[n].at = "close" /\ c \in Calls
      /\ executions[c] # <<>>
      /\ pc[c] \in {"waiting", "timedOut", "returned"}
      /\ request[c].from = n
      /\ \A m \in Nodes : c \notin pending[m]
  <2>1. reader[n].at = "close" /\ c \in Calls
    BY ReaderFields DEF IInv, TypeOK, ReaderClose
  <2>2. executions[c] = <<reader[n].body>>
    BY <2>1 DEF IInv, ExecutionInv
  <2>. QED BY <2>1, <2>2 DEF IInv, HandoverInv
<1>b. /\ reader' \in [Nodes -> ReaderStates]
      /\ reader'[n] = Idle
      /\ reader'[n].at = "recv"
      /\ \A m \in Nodes \ {n} : reader'[m] = reader[m]
  BY DEF IInv, TypeOK, ReaderClose, ReaderStates, Idle
<1>c. closed' = closed \union {c}
  BY DEF ReaderClose
<1>d. UNCHANGED <<pc, request, result, pending, buf, requests, responses,
                  chunks, fileProviders, fileMeta, executions>>
  BY DEF ReaderClose, callVars, nodeVars
<1> HIDE DEF c
<1>1. TypeOK'
  BY <1>a, <1>b, <1>c, <1>d DEF IInv, TypeOK
<1>2. PendingInv'
  BY <1>a, <1>c, <1>d DEF IInv, TypeOK, PendingInv
<1>3. UnsentInv'
  BY <1>a, <1>c, <1>d DEF IInv, UnsentInv
<1>4. ExecutionInv'
  <2>1. \A m \in Nodes : reader'[m].at # "recv" =>
          executions'[reader'[m].call] = <<reader'[m].body>>
    BY <1>b, <1>d DEF IInv, ExecutionInv
  <2>. QED BY <1>d, <2>1 DEF IInv, ExecutionInv
<1>5. HandoverInv'
  <2>1. \A d \in Calls : pc[d] = "closing" => d \notin closed'
    BY <1>a, <1>c DEF IInv, HandoverInv
  <2>2. \A m \in Nodes : reader'[m].at \in {"deliver", "close"} =>
          m # n /\ reader'[m] = reader[m]
    BY <1>b
  <2>3. \A m \in Nodes \ {n} :
          reader[m].at \in {"deliver", "close"} => reader[m].call \notin closed'
    BY <1>a, <1>c DEF IInv, HandoverInv
  <2>. QED BY <1>d, <2>1, <2>2, <2>3 DEF IInv, HandoverInv
<1>6. NoLostAnswer'
  <2> SUFFICES ASSUME NEW d \in Calls, pc[d] = "waiting",
                      d \notin pending[request[d].from]
               PROVE  LET m == request[d].from
                      IN  \/ buf[d] # None
                          \/ reader'[m].at = "deliver" /\ reader'[m].call = d
    BY <1>d DEF NoLostAnswer
  <2>1. request[d].from \in Nodes
    BY RequestFields DEF IInv, TypeOK
  <2>2. \/ buf[d] # None
        \/ /\ reader[request[d].from].at = "deliver"
           /\ reader[request[d].from].call = d
    BY DEF IInv, NoLostAnswer
  <2>. QED BY <1>a, <1>b, <2>1, <2>2
<1>7. AnswersInv'
  BY <1>d, AnswersStable DEF IInv, TypeOK
<1>. QED BY <1>1, <1>2, <1>3, <1>4, <1>5, <1>6, <1>7 DEF IInv

(* The reader executes a request. *)
LEMMA HandleRequestStep ==
    ASSUME IInv, NEW n \in Nodes, HandleRequest(n)
    PROVE  IInv'
<1>. USE RequestFields, ReaderFields, NilAssumption DEF IInv, HandleRequest, callVars, chanVars
<1>a. PICK c \in requests, io \in {"ok", "torn", "error"} : HandleRequest(n)!2!(c, io)
  OBVIOUS
<1> DEFINE body == Answer(n, request[c], io)
<1>b. c \in Calls /\ executions[c] = <<>>
  BY DEF TypeOK, ExecutionInv
<1>c. pc[c] \notin {"idle", "sending", "sendFailed"} /\ request[c] \in Requests
  BY <1>b DEF UnsentInv, TypeOK
<1>d. body \in Bodies
  BY <1>c, AnswerType
<1>e. /\ executions' \in [Calls -> Seq(Bodies)]
      /\ executions'[c] = <<body>>
      /\ \A d \in Calls \ {c} : executions'[d] = executions[d]
  <2>1. Append(executions[c], body) = <<body>> /\ <<body>> \in Seq(Bodies)
    BY <1>b, <1>d
  <2>2. executions' = [executions EXCEPT ![c] = <<body>>]
    BY <1>a, <2>1
  <2>. QED BY <1>b, <2>1, <2>2 DEF TypeOK
<1>f. /\ reader' \in [Nodes -> ReaderStates]
      /\ reader'[n] = [at |-> "reply", call |-> c, body |-> body]
      /\ \A m \in Nodes \ {n} : reader'[m] = reader[m]
  BY <1>a, <1>b, <1>d DEF TypeOK, ReaderStates
<1>g. /\ chunks' \in [Nodes -> SUBSET Data]
      /\ \A m \in Nodes : chunks[m] \subseteq chunks'[m]
  BY <1>a, <1>c, ChunksAfterType
<1>h. requests' = requests \ {c}
  BY <1>a DEF Consume
<1> HIDE DEF body
<1>1. TypeOK'
  BY <1>a, <1>b, <1>c, <1>d, <1>e, <1>f, <1>g, <1>h DEF TypeOK
<1>2. PendingInv'
  BY <1>a, <1>b, <1>c, <1>d, <1>e, <1>f, <1>g, <1>h DEF TypeOK, PendingInv, ExecutionInv, UnsentInv
<1>3. UnsentInv'
  BY <1>a, <1>b, <1>c, <1>d, <1>e, <1>f, <1>g, <1>h DEF TypeOK, UnsentInv, ExecutionInv
<1>4. ExecutionInv'
  BY <1>a, <1>b, <1>c, <1>d, <1>e, <1>f, <1>g, <1>h DEF TypeOK, ExecutionInv, UnsentInv
<1>5. HandoverInv'
  BY <1>a, <1>b, <1>c, <1>d, <1>e, <1>f, <1>g, <1>h DEF TypeOK, HandoverInv, PendingInv, UnsentInv, ExecutionInv
<1>6. NoLostAnswer'
  BY <1>a, <1>b, <1>c, <1>d, <1>e, <1>f, <1>g, <1>h DEF TypeOK, NoLostAnswer, PendingInv, UnsentInv, HandoverInv, ExecutionInv
<1>7. AnswersInv'
  <2> SUFFICES ASSUME NEW d \in Calls, NEW v \in Values, executions'[d] = <<v>>
               PROVE  Genuine(d, v)'
    BY DEF AnswersInv
  <2>1. CASE d = c
    <3>1. v = body /\ body # Failure
      BY <1>e, <2>1
    <3>2. request[c].to = n /\ chunks' = ChunksAfter(n, request[c], io)
      BY <1>a
    <3>. QED BY <1>c, <2>1, <3>1, <3>2, AnswerGenuine DEF body
  <2>2. CASE d # c
    <3>1. executions[d] = <<v>>
      BY <1>e, <2>2
    <3>2. Genuine(d, v)
      BY <3>1 DEF AnswersInv
    <3>3. executions[d] # <<>>
      BY <3>1
    <3>4. request[d] \in Requests
      BY <3>3 DEF UnsentInv, TypeOK
    <3>. QED BY <1>g, <3>2, <3>4, GenuineStable
  <2>. QED BY <2>1, <2>2
<1>. QED BY <1>1, <1>2, <1>3, <1>4, <1>5, <1>6, <1>7

(* The reader sends an answer. *)
LEMMA ReplyStep ==
    ASSUME IInv, NEW n \in Nodes, Reply(n)
    PROVE  IInv'
<1> DEFINE m0 == [call |-> reader[n].call, body |-> reader[n].body]
<1>a. /\ reader[n].at = "reply"
      /\ m0 \in Responses
      /\ executions[m0.call] = <<m0.body>>
  BY ReaderFields DEF IInv, TypeOK, ExecutionInv, Reply, Responses
<1>b. /\ reader' \in [Nodes -> ReaderStates]
      /\ reader'[n] = Idle
      /\ reader'[n].at = "recv"
      /\ \A m \in Nodes \ {n} : reader'[m] = reader[m]
  BY DEF IInv, TypeOK, Reply, ReaderStates, Idle
<1>c. responses' \subseteq responses \union {m0}
  BY DEF Reply
<1>d. UNCHANGED <<pc, request, result, pending, buf, closed, requests, chunks,
                  fileProviders, fileMeta, executions>>
  BY DEF Reply, callVars, chanVars, nodeVars
<1> HIDE DEF m0
<1>1. TypeOK'
  BY <1>a, <1>b, <1>c, <1>d DEF IInv, TypeOK
<1>2. PendingInv'
  BY <1>d DEF IInv, PendingInv
<1>3. UnsentInv'
  BY <1>d DEF IInv, UnsentInv
<1>4. ExecutionInv'
  <2>1. \A m \in Nodes : reader'[m].at # "recv" =>
          executions'[reader'[m].call] = <<reader'[m].body>>
    BY <1>b, <1>d DEF IInv, ExecutionInv
  <2>2. \A m \in responses' : executions'[m.call] = <<m.body>>
    BY <1>a, <1>c, <1>d DEF IInv, ExecutionInv
  <2>. QED BY <1>d, <2>1, <2>2 DEF IInv, ExecutionInv
<1>5. HandoverInv'
  <2>1. \A m \in Nodes : reader'[m].at \in {"deliver", "close"} =>
          reader'[m] = reader[m]
    BY <1>b
  <2>. QED BY <1>d, <2>1 DEF IInv, HandoverInv
<1>6. NoLostAnswer'
  <2> SUFFICES ASSUME NEW d \in Calls, pc[d] = "waiting",
                      d \notin pending[request[d].from]
               PROVE  LET m == request[d].from
                      IN  \/ buf[d] # None
                          \/ reader'[m].at = "deliver" /\ reader'[m].call = d
    BY <1>d DEF NoLostAnswer
  <2>1. request[d].from \in Nodes
    BY RequestFields DEF IInv, TypeOK
  <2>2. \/ buf[d] # None
        \/ /\ reader[request[d].from].at = "deliver"
           /\ reader[request[d].from].call = d
    BY DEF IInv, NoLostAnswer
  <2>. QED BY <1>a, <1>b, <2>1, <2>2
<1>7. AnswersInv'
  BY <1>d, AnswersStable DEF IInv, TypeOK
<1>. QED BY <1>1, <1>2, <1>3, <1>4, <1>5, <1>6, <1>7 DEF IInv

(* The reader records a provider. *)
LEMMA HandleStoreFileProviderStep ==
    ASSUME IInv, NEW n \in Nodes, HandleStoreFileProvider(n)
    PROVE  IInv'
<1>. USE RequestFields, ReaderFields, NilAssumption, AnnouncersAssumption
    DEF IInv, HandleStoreFileProvider, addFileProvider, callVars, chanVars
<1>1. TypeOK'
  BY DEF TypeOK
<1>2. PendingInv'
  BY DEF TypeOK, PendingInv, ExecutionInv, UnsentInv
<1>3. UnsentInv'
  BY DEF TypeOK, UnsentInv, ExecutionInv
<1>4. ExecutionInv'
  BY DEF TypeOK, ExecutionInv, UnsentInv
<1>5. HandoverInv'
  BY DEF TypeOK, HandoverInv, PendingInv, UnsentInv, ExecutionInv
<1>6. NoLostAnswer'
  BY DEF TypeOK, NoLostAnswer, PendingInv, UnsentInv, HandoverInv, ExecutionInv
<1>7. AnswersInv'
  BY AnswersStable DEF TypeOK, nodeVars, callVars
<1>. QED BY <1>1, <1>2, <1>3, <1>4, <1>5, <1>6, <1>7

(* A local upload stores a chunk. *)
LEMMA StoreLocalChunkStep ==
    ASSUME IInv, NEW n \in Nodes, StoreLocalChunk(n)
    PROVE  IInv'
<1>. USE RequestFields, ReaderFields, NilAssumption DEF IInv, StoreLocalChunk, callVars, chanVars
<1>1. TypeOK'
  BY DEF TypeOK
<1>2. PendingInv'
  BY DEF TypeOK, PendingInv, ExecutionInv, UnsentInv
<1>3. UnsentInv'
  BY DEF TypeOK, UnsentInv, ExecutionInv
<1>4. ExecutionInv'
  BY DEF TypeOK, ExecutionInv, UnsentInv
<1>5. HandoverInv'
  BY DEF TypeOK, HandoverInv, PendingInv, UnsentInv, ExecutionInv
<1>6. NoLostAnswer'
  BY DEF TypeOK, NoLostAnswer, PendingInv, UnsentInv, HandoverInv, ExecutionInv
<1>7. AnswersInv'
  BY AnswersStable DEF TypeOK, nodeVars, callVars
<1>. QED BY <1>1, <1>2, <1>3, <1>4, <1>5, <1>6, <1>7

(* A local upload records a file. *)
LEMMA addFileMetaStep ==
    ASSUME IInv, NEW n \in Nodes, addFileMeta(n)
    PROVE  IInv'
<1>. USE RequestFields, ReaderFields, NilAssumption DEF IInv, addFileMeta, callVars, chanVars
<1>1. TypeOK'
  BY DEF TypeOK
<1>2. PendingInv'
  BY DEF TypeOK, PendingInv, ExecutionInv, UnsentInv
<1>3. UnsentInv'
  BY DEF TypeOK, UnsentInv, ExecutionInv
<1>4. ExecutionInv'
  BY DEF TypeOK, ExecutionInv, UnsentInv
<1>5. HandoverInv'
  BY DEF TypeOK, HandoverInv, PendingInv, UnsentInv, ExecutionInv
<1>6. NoLostAnswer'
  BY DEF TypeOK, NoLostAnswer, PendingInv, UnsentInv, HandoverInv, ExecutionInv
<1>7. AnswersInv'
  BY AnswersStable DEF TypeOK, nodeVars, callVars
<1>. QED BY <1>1, <1>2, <1>3, <1>4, <1>5, <1>6, <1>7

(* A node records itself as a provider. *)
LEMMA AnnounceLocallyStep ==
    ASSUME IInv, NEW n \in Nodes, AnnounceLocally(n)
    PROVE  IInv'
<1>. USE RequestFields, ReaderFields, NilAssumption, AnnouncersAssumption
    DEF IInv, AnnounceLocally, addFileProvider, callVars, chanVars
<1>1. TypeOK'
  BY DEF TypeOK
<1>2. PendingInv'
  BY DEF TypeOK, PendingInv, ExecutionInv, UnsentInv
<1>3. UnsentInv'
  BY DEF TypeOK, UnsentInv, ExecutionInv
<1>4. ExecutionInv'
  BY DEF TypeOK, ExecutionInv, UnsentInv
<1>5. HandoverInv'
  BY DEF TypeOK, HandoverInv, PendingInv, UnsentInv, ExecutionInv
<1>6. NoLostAnswer'
  BY DEF TypeOK, NoLostAnswer, PendingInv, UnsentInv, HandoverInv, ExecutionInv
<1>7. AnswersInv'
  BY AnswersStable DEF TypeOK, nodeVars, callVars
<1>. QED BY <1>1, <1>2, <1>3, <1>4, <1>5, <1>6, <1>7

(* A request is lost. *)
LEMMA LoseRequestStep ==
    ASSUME IInv, LoseRequest
    PROVE  IInv'
<1>. USE RequestFields, ReaderFields, NilAssumption DEF IInv, LoseRequest, callVars, chanVars, nodeVars
<1>1. TypeOK'
  BY DEF TypeOK
<1>2. PendingInv'
  BY DEF TypeOK, PendingInv, ExecutionInv, UnsentInv
<1>3. UnsentInv'
  BY DEF TypeOK, UnsentInv, ExecutionInv
<1>4. ExecutionInv'
  BY DEF TypeOK, ExecutionInv, UnsentInv
<1>5. HandoverInv'
  BY DEF TypeOK, HandoverInv, PendingInv, UnsentInv, ExecutionInv
<1>6. NoLostAnswer'
  BY DEF TypeOK, NoLostAnswer, PendingInv, UnsentInv, HandoverInv, ExecutionInv
<1>7. AnswersInv'
  BY AnswersStable DEF TypeOK, nodeVars, callVars
<1>. QED BY <1>1, <1>2, <1>3, <1>4, <1>5, <1>6, <1>7

(* An answer is lost. *)
LEMMA LoseResponseStep ==
    ASSUME IInv, LoseResponse
    PROVE  IInv'
<1>. USE RequestFields, ReaderFields, NilAssumption DEF IInv, LoseResponse, callVars, chanVars, nodeVars
<1>1. TypeOK'
  BY DEF TypeOK
<1>2. PendingInv'
  BY DEF TypeOK, PendingInv, ExecutionInv, UnsentInv
<1>3. UnsentInv'
  BY DEF TypeOK, UnsentInv, ExecutionInv
<1>4. ExecutionInv'
  BY DEF TypeOK, ExecutionInv, UnsentInv
<1>5. HandoverInv'
  BY DEF TypeOK, HandoverInv, PendingInv, UnsentInv, ExecutionInv
<1>6. NoLostAnswer'
  BY DEF TypeOK, NoLostAnswer, PendingInv, UnsentInv, HandoverInv, ExecutionInv
<1>7. AnswersInv'
  BY AnswersStable DEF TypeOK, nodeVars, callVars
<1>. QED BY <1>1, <1>2, <1>3, <1>4, <1>5, <1>6, <1>7

(* A step that changes nothing. *)
LEMMA StutterStep ==
    ASSUME IInv, UNCHANGED vars
    PROVE  IInv'
<1>1. UNCHANGED <<pc, request, result, pending, buf, closed, requests,
                  responses, reader, chunks, fileProviders, fileMeta,
                  executions>>
  BY DEF vars, callVars, chanVars, nodeVars
<1>2. TypeOK'
  BY <1>1 DEF IInv, TypeOK
<1>3. PendingInv' /\ UnsentInv' /\ ExecutionInv'
  BY <1>1 DEF IInv, PendingInv, UnsentInv, ExecutionInv
<1>4. HandoverInv' /\ NoLostAnswer'
  BY <1>1 DEF IInv, HandoverInv, NoLostAnswer
<1>5. AnswersInv'
  BY <1>1, AnswersStable DEF IInv
<1>. QED BY <1>2, <1>3, <1>4, <1>5 DEF IInv

-----------------------------------------------------------------------------
(* The theorems *)

(* The invariant holds initially. *)
LEMMA InitInv == Init => IInv
<1> SUFFICES ASSUME Init PROVE IInv
  OBVIOUS
<1>. USE DEF Init
<1>1. TypeOK
  BY DEF TypeOK, ReaderStates
<1>2. PendingInv /\ UnsentInv /\ NoLostAnswer
  BY DEF PendingInv, UnsentInv, NoLostAnswer
<1>3. ExecutionInv /\ HandoverInv
  BY DEF ExecutionInv, HandoverInv, Idle
<1>4. AnswersInv
  BY DEF AnswersInv
<1>. QED BY <1>1, <1>2, <1>3, <1>4 DEF IInv

(* Every step of the service keeps the invariant. *)
LEMMA NextInv == IInv /\ [Next]_vars => IInv'
<1> SUFFICES ASSUME IInv, [Next]_vars PROVE IInv'
  OBVIOUS
<1>1. ASSUME NEW c \in Calls, CallStep(c) PROVE IInv'
  BY <1>1, StartStep, SendOKStep, SendFailStep, ReceiveStep, TimeoutStep,
     CleanUpStep, CallerCloseStep DEF CallStep
<1>2. ASSUME NEW n \in Nodes, ReaderStep(n) PROVE IInv'
  BY <1>2, ReadResponseStep, DeliverStep, ReaderCloseStep, HandleRequestStep,
     ReplyStep, HandleStoreFileProviderStep DEF ReaderStep
<1>3. ASSUME NEW n \in Nodes, LocalStep(n) PROVE IInv'
  BY <1>3, StoreLocalChunkStep, addFileMetaStep, AnnounceLocallyStep
  DEF LocalStep
<1>. QED BY <1>1, <1>2, <1>3, LoseRequestStep, LoseResponseStep, StutterStep
         DEF Next

(* The inductive invariant, from which everything below follows. *)
THEOREM Invariance == Spec => []IInv
BY InitInv, NextInv, PTL DEF Spec

(* Every variable of the request/response machinery keeps its type. *)
THEOREM TypeCorrect == Spec => []TypeOK
<1>1. IInv => TypeOK
  BY DEF IInv
<1>. QED BY <1>1, Invariance, PTL

(* readLoop and the callers never send on, or close, a closed channel, and    *)
(* readLoop never blocks on one, for any number of concurrent calls.         *)
THEOREM ChannelsAreSafe == Spec => []ChannelSafe
<1>1. IInv => ChannelSafe
  BY ReaderFields DEF IInv, HandoverInv, ChannelSafe, HasRoom
<1>. QED BY <1>1, Invariance, PTL

(* A waiting caller whose entry the reader took gets its answer. *)
THEOREM AnswersAreNotLost == Spec => []NoLostAnswer
<1>1. IInv => NoLostAnswer
  BY DEF IInv
<1>. QED BY <1>1, Invariance, PTL

(* No path through a remote call leaves an entry in the pending table. *)
THEOREM PendingDoesNotLeak == Spec => []NoLeakedPending
<1>1. IInv => NoLeakedPending
  BY DEF IInv, PendingInv, NoLeakedPending
<1>. QED BY <1>1, Invariance, PTL

(* What a remote call returns without error is true of the peer. *)
THEOREM SuccessesAreGenuine == Spec => []SuccessIsGenuine
<1>1. IInv => SuccessIsGenuine
  <2> SUFFICES ASSUME IInv, NEW c \in Calls, result[c] \notin {None, Failure}
               PROVE  Genuine(c, result[c])
    BY DEF SuccessIsGenuine
  <2>1. result[c] \in Values
    BY DEF IInv, TypeOK, Bodies
  <2>2. executions[c] = <<result[c]>>
    BY DEF IInv, ExecutionInv
  <2>. QED BY <2>1, <2>2 DEF IInv, AnswersInv
<1>. QED BY <1>1, Invariance, PTL

(* The calls of the service implement RemoteCall: at-most-once execution, and *)
(* a success that reports that execution.                                    *)
THEOREM Refinement == Spec => ImplementsRemoteCall
<1> DEFINE Phase == [c \in Calls |-> phaseOf(c)]
           Told == [c \in Calls |-> Outcome(result[c])]
<1>1. Init => Abstract!Init
  BY DEF Init, Abstract!Init, phaseOf, Outcome
<1>2. ASSUME IInv, [Next]_vars PROVE [Abstract!Next]_(Abstract!vars)
  <2>. USE <1>2
  <2>1. ASSUME UNCHANGED pc, UNCHANGED result, UNCHANGED executions
        PROVE  UNCHANGED Abstract!vars
    BY <2>1 DEF Abstract!vars, phaseOf, Outcome
  <2>2. ASSUME NEW c \in Calls, Start(c) PROVE Abstract!Begin(c)
    <3>1. /\ phaseOf(c) = "idle"
          /\ phaseOf(c)' = "open"
          /\ \A d \in Calls \ {c} : phaseOf(d)' = phaseOf(d)
      BY <2>2 DEF Start, IInv, TypeOK, phaseOf
    <3>2. Phase[c] = "idle" /\ Phase' = [Phase EXCEPT ![c] = "open"]
      BY <3>1
    <3>3. UNCHANGED <<executions, Told>>
      BY <2>2 DEF Start, Outcome
    <3>. QED BY <3>2, <3>3 DEF Abstract!Begin
  <2>3. ASSUME NEW c \in Calls, SendOK(c) \/ SendFail(c) \/ Timeout(c)
        PROVE  UNCHANGED Abstract!vars
    <3>1. \A d \in Calls : phaseOf(d)' = phaseOf(d)
      BY <2>3 DEF SendOK, SendFail, Timeout, IInv, TypeOK, phaseOf
    <3>2. UNCHANGED <<executions, result>>
      BY <2>3 DEF SendOK, SendFail, Timeout
    <3>. QED BY <3>1, <3>2 DEF Abstract!vars, Outcome
  <2>4. ASSUME NEW c \in Calls, Receive(c) PROVE Abstract!Succeed(c)
    <3>1. /\ phaseOf(c) = "open"
          /\ phaseOf(c)' = "done"
          /\ \A d \in Calls \ {c} : phaseOf(d)' = phaseOf(d)
      BY <2>4 DEF Receive, IInv, TypeOK, phaseOf
    <3>2. c \notin pending[request[c].from] => buf[c] # None \/ c \notin closed
      <4>1. pc[c] = "waiting" /\ request[c].from \in Nodes
        BY <2>4, RequestFields DEF Receive, IInv, TypeOK
      <4>2. reader[request[c].from].at = "deliver"
              /\ reader[request[c].from].call = c => c \notin closed
        BY <4>1 DEF IInv, HandoverInv
      <4>. QED BY <4>1, <4>2 DEF IInv, NoLostAnswer
    <3>3. buf[c] # None
      BY <2>4, <3>2, RequestFields DEF Receive, IInv, TypeOK, PendingInv
    <3>4. executions[c] = <<buf[c]>> /\ Outcome(buf[c]) = buf[c]
      BY <3>3 DEF IInv, ExecutionInv, Outcome
    <3>5. /\ result' = [result EXCEPT ![c] = buf[c]]
          /\ executions' = executions
      BY <2>4, <3>4 DEF Receive
    <3>6. Told' = [Told EXCEPT ![c] = buf[c]]
      BY <3>3, <3>5 DEF IInv, TypeOK, Outcome
    <3>7. Phase[c] = "open" /\ Phase' = [Phase EXCEPT ![c] = "done"]
      BY <3>1
    <3>. QED BY <3>4, <3>5, <3>6, <3>7 DEF Abstract!Succeed
  <2>5. ASSUME NEW c \in Calls, CleanUp(c) \/ CallerClose(c)
        PROVE  Abstract!Fail(c) \/ UNCHANGED Abstract!vars
    <3>1. /\ result[c] = None
          /\ executions' = executions
          /\ result' \in {result, [result EXCEPT ![c] = Failure]}
          /\ result' # result => pc'[c] = "returned"
      BY <2>5 DEF CleanUp, CallerClose, IInv, TypeOK, ExecutionInv
    <3>2. /\ phaseOf(c) = "open"
          /\ phaseOf(c)' \in {"open", "done"}
          /\ \A d \in Calls \ {c} : phaseOf(d)' = phaseOf(d)
      BY <2>5 DEF CleanUp, CallerClose, IInv, TypeOK, phaseOf
    <3>3. UNCHANGED Told
      BY <3>1 DEF IInv, TypeOK, Outcome
    <3>4. /\ Phase[c] = "open"
          /\ \/ Phase' = [Phase EXCEPT ![c] = "done"]
             \/ Phase' = Phase
      BY <3>2
    <3>. QED BY <3>1, <3>3, <3>4 DEF Abstract!Fail, Abstract!vars
  <2>6. ASSUME NEW n \in Nodes, HandleRequest(n)
        PROVE  \E c \in Calls : Abstract!Execute(c)
    <3>1. PICK c \in requests, io \in {"ok", "torn", "error"} :
            HandleRequest(n)!2!(c, io)
      BY <2>6 DEF HandleRequest
    <3>2. c \in Calls /\ executions[c] = <<>> /\ pc[c] # "idle"
      BY DEF IInv, TypeOK, ExecutionInv, UnsentInv
    <3>3. request[c] \in Requests
      BY <3>2 DEF IInv, TypeOK
    <3>4. Answer(n, request[c], io) \in Bodies
      BY <3>3, AnswerType DEF IInv
    <3>5. executions' = [executions EXCEPT ![c] = <<Answer(n, request[c], io)>>]
      BY <3>1, <3>2
    <3>6. UNCHANGED <<Phase, Told>>
      BY <2>6 DEF HandleRequest, callVars, phaseOf, Outcome
    <3>7. Phase[c] # "idle"
      BY <3>2 DEF phaseOf
    <3>8. Abstract!Execute(c)
      BY <3>2, <3>4, <3>5, <3>6, <3>7 DEF Abstract!Execute
    <3>. QED BY <3>2, <3>8
  <2>7. ASSUME NEW c \in Calls, CallStep(c)
        PROVE  [Abstract!Next]_(Abstract!vars)
    BY <2>2, <2>3, <2>4, <2>5, <2>7 DEF CallStep, Abstract!Next
  <2>8. ASSUME NEW n \in Nodes, ReaderStep(n) \/ LocalStep(n)
        PROVE  [Abstract!Next]_(Abstract!vars)
    <3>1. CASE HandleRequest(n)
      BY <2>6, <3>1 DEF Abstract!Next
    <3>2. CASE ~HandleRequest(n)
      <4>1. UNCHANGED <<pc, result, executions>>
        BY <2>8, <3>2 DEF ReaderStep, LocalStep, ReadResponse, Deliver,
           ReaderClose, Reply, HandleStoreFileProvider, StoreLocalChunk,
           addFileMeta, AnnounceLocally, callVars
      <4>. QED BY <2>1, <4>1
    <3>. QED BY <3>1, <3>2
  <2>9. ASSUME LoseRequest \/ LoseResponse \/ UNCHANGED vars
        PROVE  UNCHANGED Abstract!vars
    BY <2>1, <2>9 DEF LoseRequest, LoseResponse, vars, callVars
  <2>. QED BY <2>7, <2>8, <2>9 DEF Next
<1>. QED BY <1>1, <1>2, Invariance, PTL
         DEF Spec, ImplementsRemoteCall, Abstract!Spec
=============================================================================

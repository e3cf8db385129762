------------------------------ MODULE Framing ------------------------------
(********************************************************************************)
(* internal/p2p/codec.go and the read loop of tcp_transport.go: one direction   *)
(* of one connection, from the goroutines that call Encode on it, through the   *)
(* byte stream, to Decode in handleConn and the bounded channel rpcCh.          *)
(*                                                                              *)
(* A byte is <<"len", m, i>> (byte i of the length prefix of message m) or      *)
(* <<"json", m, i>> (byte i of its JSON text).  A net.Conn serialises its       *)
(* Write calls, so one Write is one step; Encode makes two of them.             *)
(********************************************************************************)
EXTENDS Naturals, Sequences, SequencesExt

CONSTANTS
    Writers,            \* the goroutines that send on this connection
    Script,             \* Script[w]: the messages goroutine w sends, in order
    Size,               \* Size[m]: the length of the JSON text of m
    Streams,            \* the messages with RPC.Stream set
    MaxMessageSize,     \* 4 MiB in the code
    PeerLimit,          \* MaxMessageSize as the sending node was built
    PrefixSize,         \* 4 in the code
    RpcChCapacity       \* 1024 in the code

Messages == UNION {Range(Script[w]) : w \in Writers}

ASSUME FramingAssumption ==
    /\ {MaxMessageSize, PeerLimit} \subseteq Nat /\ PrefixSize \in Nat \ {0}
    /\ RpcChCapacity \in Nat \ {0}
    /\ Script \in [Writers -> Seq(Messages)]
    /\ Size \in [Messages -> Nat \ {0}]
    /\ Streams \subseteq Messages

VARIABLES
    next,       \* next[w]: position of w in its script
    wpc,        \* wpc[w]: "idle", or "payload" between the two writes
    stream,     \* the bytes written and not yet read
    conn,       \* "open", "cut" by the network or the peer, or "closed" here
    framed,     \* history: what Encode returned nil for, in order, streams apart
    mixed,      \* history: an Encode began between the two writes of another
    reading,    \* where handleConn is: "prefix", "payload", "stream", "stopped"
    length,     \* the length Decode has read
    failure,    \* why the read loop stopped
    rpcCh,      \* messages delivered and not yet consumed
    holding,    \* the message handleConn has decoded and not yet delivered
    consumed    \* history: what the consumer has taken from rpcCh

writeVars == <<next, wpc, framed, mixed>>
readVars == <<reading, length, failure, holding>>
vars == <<writeVars, stream, conn, readVars, rpcCh, consumed>>

Prefix(m) == [i \in 1..PrefixSize |-> <<"len", m, i>>]

Payload(m) == [i \in 1..Size[m] |-> <<"json", m, i>>]

Init ==
    /\ next = [w \in Writers |-> 1]
    /\ wpc = [w \in Writers |-> "idle"]
    /\ stream = <<>>
    /\ conn = "open"
    /\ framed = <<>>
    /\ mixed = FALSE
    /\ reading = "prefix"
    /\ length = 0
    /\ failure = "none"
    /\ rpcCh = <<>>
    /\ holding = <<>>
    /\ consumed = <<>>

-----------------------------------------------------------------------------
(* Encode *)

(* len(data) > MaxMessageSize is an error. *)
Fits(m) == Size[m] <= PeerLimit

Current(w) == Script[w][next[w]]

(* Encode has returned nil for m. *)
Framed(m) == IF m \in Streams THEN framed ELSE Append(framed, m)

(* Encode returns: the goroutine goes on to its next message. *)
EncodeReturns(w) ==
    /\ next' = [next EXCEPT ![w] = @ + 1]
    /\ wpc' = [wpc EXCEPT ![w] = "idle"]

(* The early return for a message that is too large. *)
EncodeTooLarge(w) ==
    /\ next[w] <= Len(Script[w])
    /\ wpc[w] = "idle"
    /\ ~Fits(Current(w))
    /\ EncodeReturns(w)
    /\ UNCHANGED <<framed, mixed, stream, conn, readVars, rpcCh, consumed>>

(* The first conn.Write: the length. *)
WriteLength(w) ==
    /\ next[w] <= Len(Script[w])
    /\ wpc[w] = "idle"
    /\ Fits(Current(w))
    /\ conn = "open"
    /\ stream' = stream \o Prefix(Current(w))
    /\ wpc' = [wpc EXCEPT ![w] = "payload"]
    /\ mixed' = (mixed \/ \E v \in Writers : wpc[v] = "payload")
    /\ UNCHANGED <<next, framed, conn, readVars, rpcCh, consumed>>

(* The second conn.Write: the JSON text. *)
WritePayload(w) ==
    /\ wpc[w] = "payload"
    /\ conn = "open"
    /\ stream' = stream \o Payload(Current(w))
    /\ framed' = Framed(Current(w))
    /\ EncodeReturns(w)
    /\ UNCHANGED <<mixed, conn, readVars, rpcCh, consumed>>

(* Either Write on a connection that is no longer open fails, or leaves the     *)
(* bytes in a buffer that is never sent.                                        *)
WriteLost(w) ==
    /\ next[w] <= Len(Script[w])
    /\ conn # "open"
    /\ wpc[w] = "idle" => Fits(Current(w))
    /\ framed' \in {framed, Framed(Current(w))}
    /\ EncodeReturns(w)
    /\ UNCHANGED <<mixed, stream, conn, readVars, rpcCh, consumed>>

-----------------------------------------------------------------------------
(* handleConn *)

Drop(n) == SubSeq(stream, n + 1, Len(stream))

(* The read loop returns, and its deferred function closes the connection.   *)
StopReading(why) ==
    /\ reading' = "stopped"
    /\ failure' = why
    /\ conn' = IF conn = "open" THEN "closed" ELSE conn
    /\ UNCHANGED <<writeVars, stream, length, rpcCh, holding, consumed>>

(* Seeded fault: a message of exactly the maximal size is refused. *)
AcceptsBelowMax(n) == n > 0 /\ n < MaxMessageSize

(* Decode refuses length 0 and more than MaxMessageSize. *)
Accepts(n) == n > 0 /\ n <= MaxMessageSize

(* Decode, first half: io.ReadFull of the prefix and the checks on it.  The     *)
(* bytes are one prefix: a Write is never split by another, and the first       *)
(* frame that is not contiguous ends the loop.                                  *)
DecodeLength ==
    /\ reading = "prefix" /\ holding = <<>>
    /\ Len(stream) >= PrefixSize
    /\ LET n == Size[stream[1][2]]
       IN  \/ /\ Accepts(n)
              /\ reading' = "payload"
              /\ length' = n
              /\ stream' = Drop(PrefixSize)
              /\ UNCHANGED <<writeVars, conn, failure, holding, rpcCh, consumed>>
           \/ /\ ~Accepts(n)
              /\ StopReading("length")

(* io.ReadFull and json.Unmarshal accept nothing but one whole JSON text: the   *)
(* first byte of a prefix is 0 for every length up to MaxMessageSize, which     *)
(* JSON does not allow anywhere, and a part of an object is not an object.      *)
IsText(bytes) == \E m \in Messages : bytes = Payload(m)

(* Seeded fault: text that is no JSON is skipped and the loop goes on. *)
TakePayloadSkips(n) ==
    LET bytes == SubSeq(stream, 1, n)
        m == bytes[1][2]
    IN  /\ reading' = IF IsText(bytes) /\ m \in Streams THEN "stream" ELSE "prefix"
        /\ holding' = IF IsText(bytes) /\ m \notin Streams THEN <<m>> ELSE <<>>
        /\ stream' = Drop(n)
        /\ UNCHANGED <<writeVars, conn, length, failure, rpcCh, consumed>>

(* The next n bytes are the payload; then handleConn branches on rpc.Stream. *)
TakePayload(n) ==
    LET bytes == SubSeq(stream, 1, n)
        m == bytes[1][2]
    IN  \/ /\ IsText(bytes)
           /\ reading' = IF m \in Streams THEN "stream" ELSE "prefix"
           /\ holding' = IF m \in Streams THEN <<>> ELSE <<m>>
           /\ stream' = Drop(n)
           /\ UNCHANGED <<writeVars, conn, length, failure, rpcCh, consumed>>
        \/ /\ ~IsText(bytes)
           /\ StopReading("json")

(* Decode, second half: io.ReadFull of the payload. *)
DecodePayload ==
    /\ reading = "payload"
    /\ Len(stream) >= length
    /\ TakePayload(length)

(* The connection ends before a whole prefix or payload has arrived. *)
DecodeEOF ==
    /\ conn = "cut"
    /\ holding = <<>>
    /\ \/ reading = "prefix" /\ Len(stream) < PrefixSize
       \/ reading = "payload" /\ Len(stream) < length
    /\ StopReading("eof")

(* t.rpcCh <- rpc waits for room. *)
Deliver ==
    /\ holding # <<>>
    /\ Len(rpcCh) < RpcChCapacity
    /\ rpcCh' = rpcCh \o holding
    /\ holding' = <<>>
    /\ UNCHANGED <<writeVars, stream, conn, reading, length, failure, consumed>>

(* Seeded fault: the end of a stream also ends the read loop. *)
CloseStreamReturns ==
    /\ reading = "stream"
    /\ StopReading("none")

(* TCPPeer.CloseStream: wg.Wait returns and the loop goes on. *)
CloseStream ==
    /\ reading = "stream"
    /\ reading' = "prefix"
    /\ UNCHANGED <<writeVars, stream, conn, length, failure, holding, rpcCh, consumed>>

(* The service takes a message from Consume(). *)
Consume ==
    /\ rpcCh # <<>>
    /\ consumed' = Append(consumed, Head(rpcCh))
    /\ rpcCh' = Tail(rpcCh)
    /\ UNCHANGED <<writeVars, stream, conn, readVars>>

(* The network or the peer cuts the connection; any suffix of what is on the    *)
(* way is lost.                                                                 *)
Break ==
    /\ conn = "open"
    /\ conn' = "cut"
    /\ \E n \in 0..Len(stream) : stream' = SubSeq(stream, 1, n)
    /\ UNCHANGED <<writeVars, readVars, rpcCh, consumed>>

WriterStep(w) ==
    EncodeTooLarge(w) \/ WriteLength(w) \/ WritePayload(w) \/ WriteLost(w)

ReadStep == DecodeLength \/ DecodePayload \/ DecodeEOF \/ Deliver

Next ==
    \/ \E w \in Writers : WriterStep(w)
    \/ ReadStep \/ CloseStream \/ Consume \/ Break

Spec == Init /\ [][Next]_vars

(* Writers and the read loop run, and the consumer takes what there is.         *)
(* Nothing obliges anyone to end a stream: CloseStream is part of the peer's    *)
(* interface, and nothing in the repository calls it.                           *)
FairSpec ==
    /\ Spec
    /\ \A w \in Writers : WF_vars(WriterStep(w))
    /\ WF_vars(ReadStep)
    /\ WF_vars(Consume)

-----------------------------------------------------------------------------
(* Properties *)

(* Every variable has its type. *)
TypeOK ==
    /\ next \in [Writers -> Nat \ {0}]
    /\ wpc \in [Writers -> {"idle", "payload"}]
    /\ conn \in {"open", "cut", "closed"}
    /\ framed \in Seq(Messages) /\ mixed \in BOOLEAN
    /\ reading \in {"prefix", "payload", "stream", "stopped"}
    /\ length \in 0..MaxMessageSize
    /\ failure \in {"none", "length", "json", "eof"}
    /\ rpcCh \in Seq(Messages) /\ Len(rpcCh) <= RpcChCapacity
    /\ holding \in {<<>>} \union {<<m>> : m \in Messages}
    /\ consumed \in Seq(Messages)

(* "The Decoder reverses this process" (codec.go:21).  Decode fails on a        *)
(* connection that is not cut for two reasons only: it finds no JSON when two   *)
(* goroutines have mixed their frames, and it refuses a length when that is     *)
(* the length of a message this node does not accept and its peer may send.     *)
(* A message of MaxMessageSize passes, one that Encode refuses does no harm to  *)
(* the next, and the text of a message is never taken for a length.             *)
DecoderReverses ==
    /\ failure = "json" => mixed
    /\ failure = "length" =>
         stream[1] \in {<<"len", m, 1>> : m \in {n \in Messages : Size[n] > MaxMessageSize}}

(* What the consumer sees is what was sent, in order, without gaps, whatever    *)
(* is cut in the middle of a frame, however full rpcCh is, and even when two    *)
(* goroutines mix their frames or the peer sends more than we accept: then the  *)
(* connection ends and no wrong message is delivered.                           *)
InOrder == IsPrefix(consumed \o rpcCh \o holding, framed)

(* A message whose Encode returned nil is consumed, unless the connection is    *)
(* cut, Decode fails for the reasons above, or the loop waits for good in       *)
(* peer.wg.Wait (tcp_transport.go:268) for a stream that nobody closes, which   *)
(* holds back everything behind it.  A full channel, and a stream that is       *)
(* closed, delay a message and nothing else.                                    *)
EverythingArrives ==
    \A m \in Messages \ Streams :
        m \in Range(framed) ~>
            \/ conn = "cut" \/ mixed \/ failure = "length"
            \/ m \in Range(consumed)
            \/ [](reading = "stream")
=============================================================================

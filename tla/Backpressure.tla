---------------------------- MODULE Backpressure ----------------------------
(********************************************************************************)
(* Flow control between the services of several nodes: tcp_transport.go         *)
(* (handleConn's send on rpcCh, the blocking Write of Encode) and readLoop of   *)
(* dht/service.go, which takes from rpcCh and answers on the same connections.  *)
(* Whoever finds a buffer full waits, without a timeout, and nothing limits the *)
(* messages in flight: a ring of nodes whose buffers are full waits for ever.   *)
(*                                                                              *)
(* A call is one request and its answer.  A caller that times out leaves its    *)
(* message where it is and may make another call, so the calls under way are    *)
(* messages and not callers.  What a message says does not matter here: a       *)
(* connection carries kinds of messages, and rpcCh keeps rpc.From with each.    *)
(********************************************************************************)
EXTENDS Integers, Sequences

CONSTANTS
    Nodes,
    MaxCalls,           \* bound: the calls that a node ever makes to another
    SocketCapacity,     \* frames that fit into the buffers of a connection
    RpcChCapacity       \* 1024 in the code

ASSUME CapacityAssumption ==
    /\ MaxCalls \in Nat
    /\ SocketCapacity \in Nat \ {0} /\ RpcChCapacity \in Nat \ {0}

VARIABLES
    made,       \* made[l]: the calls that l[1] has made to l[2]
    open,       \* open[l]: those of them that are not answered
    sending,    \* sending[l]: the goroutines of l[1] in Send with a request to l[2]
    socket,     \* socket[l]: frames written by l[1] and not yet read by l[2]
    hand,       \* hand[l]: what handleConn of l[2] has decoded
    rpcCh,      \* rpcCh[n]: what waits for readLoop of n, with its sender
    reply       \* reply[n]: the node whose answer readLoop of n is sending

callVars == <<made, open, sending>>
vars == <<callVars, socket, hand, rpcCh, reply>>

Links == {l \in Nodes \X Nodes : l[1] # l[2]}

Kinds == {"request", "answer"}

Init ==
    /\ made = [l \in Links |-> 0]
    /\ open = [l \in Links |-> 0]
    /\ sending = [l \in Links |-> 0]
    /\ socket = [l \in Links |-> <<>>]
    /\ hand = [l \in Links |-> <<>>]
    /\ rpcCh = [n \in Nodes |-> <<>>]
    /\ reply = [n \in Nodes |-> <<>>]

(* A goroutine calls transport.Send. *)
Issue(l) ==
    /\ made[l] < MaxCalls
    /\ made' = [made EXCEPT ![l] = @ + 1]
    /\ open' = [open EXCEPT ![l] = @ + 1]
    /\ sending' = [sending EXCEPT ![l] = @ + 1]
    /\ UNCHANGED <<socket, hand, rpcCh, reply>>

(* conn.Write returns once the frame fits into the buffers. *)
Fits(l) == Len(socket[l]) < SocketCapacity

Write(l) ==
    /\ sending[l] > 0
    /\ Fits(l)
    /\ socket' = [socket EXCEPT ![l] = Append(@, "request")]
    /\ sending' = [sending EXCEPT ![l] = @ - 1]
    /\ UNCHANGED <<made, open, hand, rpcCh, reply>>

(* Decode. *)
Receive(l) ==
    /\ hand[l] = <<>>
    /\ socket[l] # <<>>
    /\ hand' = [hand EXCEPT ![l] = <<Head(socket[l])>>]
    /\ socket' = [socket EXCEPT ![l] = Tail(@)]
    /\ UNCHANGED <<callVars, rpcCh, reply>>

(* Seeded fault: rpcCh is made with one place. *)
HasRoomForOne(n) == Len(rpcCh[n]) < 1

HasRoom(n) == Len(rpcCh[n]) < RpcChCapacity

(* t.rpcCh <- rpc *)
Deliver(l) ==
    /\ hand[l] # <<>>
    /\ HasRoom(l[2])
    /\ rpcCh' = [rpcCh EXCEPT ![l[2]] = Append(@, <<hand[l][1], l[1]>>)]
    /\ hand' = [hand EXCEPT ![l] = <<>>]
    /\ UNCHANGED <<callVars, socket, reply>>

(* Seeded fault: readLoop continues without sending the answer. *)
HandleRequestUnanswered(n) ==
    /\ reply[n] = <<>>
    /\ rpcCh[n] # <<>>
    /\ Head(rpcCh[n])[1] = "request"
    /\ rpcCh' = [rpcCh EXCEPT ![n] = Tail(@)]
    /\ UNCHANGED <<callVars, socket, hand, reply>>

(* readLoop takes a request and begins to answer it. *)
HandleRequest(n) ==
    /\ reply[n] = <<>>
    /\ rpcCh[n] # <<>>
    /\ Head(rpcCh[n])[1] = "request"
    /\ rpcCh' = [rpcCh EXCEPT ![n] = Tail(@)]
    /\ reply' = [reply EXCEPT ![n] = <<Head(rpcCh[n])[2]>>]
    /\ UNCHANGED <<callVars, socket, hand>>

(* readLoop takes an answer, for which the caller's channel has a place.      *)
TakeAnswer(n) ==
    /\ reply[n] = <<>>
    /\ rpcCh[n] # <<>>
    /\ Head(rpcCh[n])[1] = "answer"
    /\ rpcCh' = [rpcCh EXCEPT ![n] = Tail(@)]
    /\ open' = [open EXCEPT ![<<n, Head(rpcCh[n])[2]>>] = @ - 1]
    /\ UNCHANGED <<made, sending, socket, hand, reply>>

(* transport.Send(rpc.From, out) in readLoop. *)
Reply(n) ==
    /\ reply[n] # <<>>
    /\ LET l == <<n, reply[n][1]>>
       IN  Fits(l) /\ socket' = [socket EXCEPT ![l] = Append(@, "answer")]
    /\ reply' = [reply EXCEPT ![n] = <<>>]
    /\ UNCHANGED <<callVars, hand, rpcCh>>

Next ==
    \/ \E l \in Links : Issue(l) \/ Write(l) \/ Receive(l) \/ Deliver(l)
    \/ \E n \in Nodes : HandleRequest(n) \/ TakeAnswer(n) \/ Reply(n)

Spec == Init /\ [][Next]_vars

(* Goroutines that can go on do. *)
FairSpec ==
    /\ Spec
    /\ \A l \in Links : WF_vars(Write(l)) /\ WF_vars(Receive(l)) /\ WF_vars(Deliver(l))
    /\ \A n \in Nodes : WF_vars(HandleRequest(n) \/ TakeAnswer(n)) /\ WF_vars(Reply(n))

-----------------------------------------------------------------------------
(* Properties *)

(* Every variable has its type. *)
TypeOK ==
    /\ made \in [Links -> 0..MaxCalls]
    /\ open \in [Links -> Int]
    /\ sending \in [Links -> Nat]
    /\ socket \in [Links -> Seq(Kinds)]
    /\ \A l \in Links : Len(socket[l]) <= SocketCapacity
    /\ hand \in [Links -> {<<>>} \union {<<k>> : k \in Kinds}]
    /\ rpcCh \in [Nodes -> Seq(Kinds \X Nodes)]
    /\ \A n \in Nodes : Len(rpcCh[n]) <= RpcChCapacity
    /\ \A n \in Nodes : \A i \in 1..Len(rpcCh[n]) : rpcCh[n][i][2] # n
    /\ reply \in [Nodes -> {<<>>} \union {<<n>> : n \in Nodes}]
    /\ \A n \in Nodes : reply[n] # <<n>>

(* The nodes of S wait for each other: the readLoop of each is writing an       *)
(* answer to another, whose end of the connection is full because its           *)
(* handleConn finds all RpcChCapacity places of rpcCh taken, which only that    *)
(* node's readLoop could free.                                                  *)
Ring(S) ==
    /\ S # {}
    /\ \A n \in S :
         /\ Len(rpcCh[n]) = RpcChCapacity
         /\ reply[n] # <<>>
         /\ reply[n][1] \in S \ {n}
         /\ Len(socket[<<n, reply[n][1]>>]) = SocketCapacity
         /\ hand[<<n, reply[n][1]>>] # <<>>

Deadlocked == \E S \in SUBSET Nodes : Ring(S)

(* A message is under way, and no goroutine can take it a step further. *)
Stuck ==
    /\ \/ \E l \in Links : sending[l] > 0 \/ socket[l] # <<>> \/ hand[l] # <<>>
       \/ \E n \in Nodes : rpcCh[n] # <<>> \/ reply[n] # <<>>
    /\ \A l \in Links :
         /\ sending[l] > 0 => ~Fits(l)
         /\ socket[l] # <<>> => hand[l] # <<>>
         /\ hand[l] # <<>> => ~HasRoom(l[2])
    /\ \A n \in Nodes :
         /\ rpcCh[n] # <<>> => reply[n] # <<>>
         /\ reply[n] # <<>> => ~Fits(<<n, reply[n][1]>>)

(* The system stops with messages under way in one way only: in a ring of at    *)
(* least two nodes each of which has all 1024 places of rpcCh and the buffers   *)
(* of a connection full (tcp_transport.go:84, 274; service.go:142).  A full     *)
(* connection, a slow readLoop or a full rpcCh by themselves stop nobody for    *)
(* good.                                                                        *)
StuckOnlyInARing == Stuck => Deadlocked

(* Every Send returns and every request is answered, unless such a ring forms:  *)
(* nothing in the code keeps the traffic below what fills it.                   *)
CallsAreAnswered ==
    \A l \in Links : open[l] > 0 ~> open[l] = 0 \/ Deadlocked
=============================================================================

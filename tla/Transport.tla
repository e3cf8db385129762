----------------------------- MODULE Transport -----------------------------
(********************************************************************************)
(* internal/p2p/tcp_transport.go: the peers map of one node, the goroutines     *)
(* that call Send, and one handleConn goroutine per connection.  What the       *)
(* connections carry is the subject of Framing; here a frame is the place where *)
(* handleConn waits with it: for the end of a stream, or for room in rpcCh.     *)
(*                                                                              *)
(* A connection is known by its RemoteAddr: the numeric listening address of    *)
(* the peer if this node dialled, an ephemeral port of the peer if it           *)
(* accepted.  Callers of Send may spell a listening address differently         *)
(* (localhost:4000), and may hold an ephemeral address (rpc.From).              *)
(********************************************************************************)
EXTENDS FiniteSets

CONSTANTS
    Senders,    \* the goroutines that call Send
    Targets,    \* Targets[s]: the addresses s sends to
    Listen,     \* the listening addresses of the peers, as RemoteAddr prints them
    Ephemeral,  \* the peers' ends of connections they dial
    Resolve,    \* Resolve[a]: the listening address behind a, or None
    Conns,      \* a pool of connections
    None

Names == Listen \union Ephemeral
Addrs == DOMAIN Resolve

ASSUME TransportAssumption ==
    /\ Names \subseteq Addrs
    /\ Resolve \in [Addrs -> Listen \union {None}]
    /\ \A a \in Listen : Resolve[a] = a
    /\ \A e \in Ephemeral : Resolve[e] = None
    /\ Targets \in [Senders -> SUBSET Addrs]
    /\ None \notin Names \union Conns

VARIABLES
    peers,      \* t.peers: from names to connections
    listening,  \* the listener is open
    socket,     \* socket[c]: "open", "cut" by the peer or the network, "closed" here
    name,       \* name[c]: its RemoteAddr, or None once it is closed
    handler,    \* handler[c]: where its handleConn is
    pc,         \* pc[s]: where a Send is
    target,     \* target[s]: the address of that Send
    peer,       \* peer[s]: the connection it found
    dialled,    \* dialled[s]: the connection its Dial opened
    ret,        \* ret[s]: what the last Send of s returned
    doubled     \* history: connections registered at the same time as another
                \* one of the same name

connVars == <<socket, name, handler>>
sendVars == <<pc, target, peer, dialled, ret>>
vars == <<peers, listening, connVars, sendVars, doubled>>

Init ==
    /\ peers = [a \in Addrs |-> None]
    /\ listening = TRUE
    /\ socket = [c \in Conns |-> "closed"]
    /\ name = [c \in Conns |-> None]
    /\ handler = [c \in Conns |-> "none"]
    /\ pc = [s \in Senders |-> "idle"]
    /\ target = [s \in Senders |-> None]
    /\ peer = [s \in Senders |-> None]
    /\ dialled = [s \in Senders |-> None]
    /\ ret = [s \in Senders |-> "none"]
    /\ doubled = {}

Unused(c) ==
    /\ socket[c] = "closed" /\ handler[c] = "none"
    /\ \A s \in Senders : c \notin {peer[s], dialled[s]}

(* A connection is established and go handleConn(conn, ...) started. *)
Connect(c, n) ==
    /\ socket' = [socket EXCEPT ![c] = "open"]
    /\ name' = [name EXCEPT ![c] = n]
    /\ handler' = [handler EXCEPT ![c] = "start"]

-----------------------------------------------------------------------------
(* Send *)

Return(s, result) ==
    /\ pc' = [pc EXCEPT ![s] = "idle"]
    /\ target' = [target EXCEPT ![s] = None]
    /\ peer' = [peer EXCEPT ![s] = None]
    /\ dialled' = [dialled EXCEPT ![s] = None]
    /\ ret' = [ret EXCEPT ![s] = result]

(* Send looks the address up, under the read lock. *)
Find(s) ==
    /\ pc[s] = "idle"
    /\ \E a \in Targets[s] :
         /\ target' = [target EXCEPT ![s] = a]
         /\ peer' = [peer EXCEPT ![s] = peers[a]]
         /\ pc' = [pc EXCEPT ![s] = IF peers[a] = None THEN "dial" ELSE "encode"]
    /\ ret' = [ret EXCEPT ![s] = "none"]
    /\ UNCHANGED <<peers, listening, connVars, dialled, doubled>>

(* Dial succeeds; Send goes to sleep. *)
Dial(s) ==
    /\ pc[s] = "dial"
    /\ Resolve[target[s]] # None
    /\ \E c \in Conns :
         /\ Unused(c)
         /\ Connect(c, Resolve[target[s]])
         /\ dialled' = [dialled EXCEPT ![s] = c]
    /\ pc' = [pc EXCEPT ![s] = "sleep"]
    /\ UNCHANGED <<peers, listening, target, peer, ret, doubled>>

(* Nobody listens at the address, or not now. *)
DialError(s) ==
    /\ pc[s] = "dial"
    /\ Return(s, "dial error")
    /\ UNCHANGED <<peers, listening, connVars, doubled>>

(* Seeded fault: the first look-up is used again. *)
WakeStale(s) ==
    /\ pc[s] = "sleep"
    /\ Return(s, "could not connect")
    /\ UNCHANGED <<peers, listening, connVars, doubled>>

(* 50 ms later: the second look-up. *)
Wake(s) ==
    /\ pc[s] = "sleep"
    /\ \/ /\ peers[target[s]] = None
          /\ Return(s, "could not connect")
       \/ /\ peers[target[s]] # None
          /\ peer' = [peer EXCEPT ![s] = peers[target[s]]]
          /\ pc' = [pc EXCEPT ![s] = "encode"]
          /\ UNCHANGED <<target, dialled, ret>>
    /\ UNCHANGED <<peers, listening, connVars, doubled>>

(* Encode: a connection that is cut may still swallow what is written to it. *)
Encode(s) ==
    /\ pc[s] = "encode"
    /\ \/ socket[peer[s]] # "closed" /\ Return(s, "sent")
       \/ socket[peer[s]] # "open" /\ Return(s, "write error")
    /\ UNCHANGED <<peers, listening, connVars, doubled>>

-----------------------------------------------------------------------------
(* The accept loop and handleConn *)

(* Accept: the peer's address and port are not in use by another connection     *)
(* of ours whose socket still exists.                                           *)
Accept ==
    /\ listening
    /\ \E c \in Conns, e \in Ephemeral :
         /\ Unused(c)
         /\ \A d \in Conns : socket[d] # "closed" => name[d] # e
         /\ Connect(c, e)
    /\ UNCHANGED <<peers, listening, sendVars, doubled>>

(* TCPTransport.Close: "existing connections are not force-closed". *)
Close ==
    /\ listening
    /\ listening' = FALSE
    /\ UNCHANGED <<peers, connVars, sendVars, doubled>>

SetHandler(c, h) == handler' = [handler EXCEPT ![c] = h]

(* handleConn is in its loop: in Decode, in peer.wg.Wait, or at t.rpcCh <- rpc. *)
Looping == {"read", "stream", "deliver"}

Registered(c) == handler[c] \in Looping \union {"handshake", "exit"}

HandlerStates == Looping \union {"none", "start", "handshake", "exit", "close"}

(* The peer is put into the map, whoever is there. *)
Register(c) ==
    /\ handler[c] = "start"
    /\ peers' = [peers EXCEPT ![name[c]] = c]
    /\ SetHandler(c, "handshake")
    /\ LET others == {d \in Conns : name[d] = name[c] /\ Registered(d)}
       IN  doubled' = IF others = {} THEN doubled ELSE doubled \union others \union {c}
    /\ UNCHANGED <<listening, socket, name, sendVars>>

(* Seeded fault: a peer that fails the handshake is not taken out of the map. *)
HandshakeKeeps(c) ==
    /\ handler[c] = "handshake"
    /\ \E h \in {"read", "close"} : SetHandler(c, h)
    /\ UNCHANGED <<peers, listening, socket, name, sendVars, doubled>>

(* HandshakeFunc and OnPeer, either of which may fail. *)
Handshake(c) ==
    /\ handler[c] = "handshake"
    /\ \E h \in {"read", "exit"} : SetHandler(c, h)
    /\ UNCHANGED <<peers, listening, socket, name, sendVars, doubled>>

(* Decode returns a frame, which may have been on its way when the connection   *)
(* was cut: handleConn waits for the stream it opens, or for room in rpcCh.     *)
Decode(c) ==
    /\ handler[c] = "read"
    /\ \E h \in {"stream", "deliver"} : SetHandler(c, h)
    /\ UNCHANGED <<peers, listening, socket, name, sendVars, doubled>>

(* There is room in rpcCh. *)
Deliver(c) ==
    /\ handler[c] = "deliver"
    /\ SetHandler(c, "read")
    /\ UNCHANGED <<peers, listening, socket, name, sendVars, doubled>>

(* Somebody calls CloseStream, and peer.wg.Wait returns. *)
CloseStream(c) ==
    /\ handler[c] = "stream"
    /\ SetHandler(c, "read")
    /\ UNCHANGED <<peers, listening, socket, name, sendVars, doubled>>

(* Seeded fault: a decoding error does not end the loop. *)
DecodeErrorIgnored(c) ==
    /\ handler[c] = "read"
    /\ UNCHANGED vars

(* Decode fails: the connection is cut, or a frame is bad. *)
DecodeError(c) ==
    /\ handler[c] = "read"
    /\ SetHandler(c, "exit")
    /\ UNCHANGED <<peers, listening, socket, name, sendVars, doubled>>

(* The deferred function, first half: delete(t.peers, peer.Addr()). *)
Unregister(c) ==
    /\ handler[c] = "exit"
    /\ peers' = [peers EXCEPT ![name[c]] = None]
    /\ SetHandler(c, "close")
    /\ UNCHANGED <<listening, socket, name, sendVars, doubled>>

(* The deferred function, second half: peer.Close(). *)
ClosePeer(c) ==
    /\ handler[c] = "close"
    /\ socket' = [socket EXCEPT ![c] = "closed"]
    /\ name' = [name EXCEPT ![c] = None]
    /\ SetHandler(c, "none")
    /\ doubled' = doubled \ {c}
    /\ UNCHANGED <<peers, listening, sendVars>>

(* The peer or the network ends a connection. *)
Cut(c) ==
    /\ socket[c] = "open"
    /\ socket' = [socket EXCEPT ![c] = "cut"]
    /\ UNCHANGED <<peers, listening, name, handler, sendVars, doubled>>

SendStep(s) == Find(s) \/ Dial(s) \/ DialError(s) \/ Wake(s) \/ Encode(s)

(* Seeded fault: the deferred function closes the connection before it takes    *)
(* it out of the map.                                                           *)
HandlerStepCloseFirst(c) ==
    \/ Register(c) \/ Handshake(c)
    \/ /\ handler[c] = "exit"
       /\ socket' = [socket EXCEPT ![c] = "closed"]
       /\ SetHandler(c, "close")
       /\ UNCHANGED <<peers, listening, name, sendVars, doubled>>
    \/ /\ handler[c] = "close"
       /\ peers' = [peers EXCEPT ![name[c]] = None]
       /\ name' = [name EXCEPT ![c] = None]
       /\ SetHandler(c, "none")
       /\ UNCHANGED <<listening, socket, sendVars, doubled>>

(* handleConn of c, except for its read loop. *)
HandlerStep(c) == Register(c) \/ Handshake(c) \/ Unregister(c) \/ ClosePeer(c)

Next ==
    \/ \E s \in Senders : SendStep(s)
    \/ \E c \in Conns : \/ HandlerStep(c) \/ Decode(c) \/ DecodeError(c)
                       \/ Deliver(c) \/ CloseStream(c) \/ Cut(c)
    \/ Accept \/ Close

Spec == Init /\ [][Next]_vars

(* A handleConn goroutine runs, and Decode notices that its connection is cut   *)
(* once it has read the frames that had arrived: it may return some of them     *)
(* first, but not for ever.  Nothing is assumed of the two places where         *)
(* handleConn waits for others: nobody in the repository calls CloseStream,     *)
(* and rpcCh has room only if its reader comes round (module Backpressure).     *)
FairSpec ==
    /\ Spec
    /\ \A c \in Conns : WF_vars(HandlerStep(c))
                     /\ SF_vars(socket[c] = "cut" /\ DecodeError(c))

-----------------------------------------------------------------------------
(* Properties *)

(* Every variable has its type. *)
TypeOK ==
    /\ peers \in [Addrs -> Conns \union {None}]
    /\ listening \in BOOLEAN
    /\ socket \in [Conns -> {"open", "cut", "closed"}]
    /\ name \in [Conns -> Names \union {None}]
    /\ handler \in [Conns -> HandlerStates]
    /\ pc \in [Senders -> {"idle", "dial", "sleep", "encode"}]
    /\ \A s \in Senders : pc[s] = "encode" => peer[s] # None
    /\ target \in [Senders -> Addrs \union {None}]
    /\ peer \in [Senders -> Conns \union {None}]
    /\ dialled \in [Senders -> Conns \union {None}]
    /\ ret \in [Senders -> {"none", "dial error", "could not connect", "sent",
                            "write error"}]
    /\ doubled \subseteq {c \in Conns : handler[c] \notin {"none", "start"}}

Active(c) == socket[c] = "open" /\ handler[c] \in Looping \union {"handshake"}

(* A name in the map designates a connection of that name whose handleConn is   *)
(* still there to take it out: otherwise every later Send to the address would  *)
(* write to a dead connection.                                                  *)
NoStaleEntry ==
    \A a \in Addrs : peers[a] # None =>
        /\ name[peers[a]] = a
        /\ handler[peers[a]] \notin {"none", "start"}

(* "active peers by address" (tcp_transport.go:76): as long as handleConn       *)
(* serves a live connection, the map has it under its address and Send does not *)
(* dial another.  The exception are two connections of one name at a time,      *)
(* which senders that dial together bring about: the second takes the place of  *)
(* the first, and the end of either takes the entry away.                       *)
LiveIsFindable ==
    \A c \in Conns \ doubled : Active(c) => peers[name[c]] = c

(* Send says "could not connect" while the connection it opened is open and     *)
(* being served only in the two cases the code does not provide for: the        *)
(* address is not spelled the way RemoteAddr spells it, or another connection   *)
(* of that name has come between.  Otherwise the connection is lost, refused by *)
(* the handshake, or not registered within the 50 ms.                           *)
GivesUpOnlyUnconnected ==
    [][\A s \in Senders :
         pc[s] = "sleep" /\ ret'[s] = "could not connect" =>
            ~Active(dialled[s]) \/ target[s] \notin Names \/ dialled[s] \in doubled]_vars

(* A connection that is cut does not keep its name, so that a later Send to the *)
(* address dials again, unless its handleConn waits for good somewhere else     *)
(* than in Decode, where it does not notice: for a stream that nobody closes    *)
(* (tcp_transport.go:268) or for room in rpcCh (274).                           *)
DeadIsForgotten ==
    \A c \in Conns, a \in Names :
        peers[a] = c /\ socket[c] = "cut" ~>
            \/ peers[a] # c
            \/ [](handler[c] = "stream")
            \/ [](handler[c] = "deliver")
=============================================================================

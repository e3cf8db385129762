--------------------------------- MODULE Dht --------------------------------
(***************************************************************************)
(* Peer discovery: the PING, PONG, FIND_NODE and NODES handlers of            *)
(* internal/dht/node.go, SendPing and SendFindNode of client.go, the          *)
(* iterative Lookup of lookup.go and the bootstrap of cmd/node, composed with *)
(* the routing tables of Buckets and with what internal/p2p does to           *)
(* addresses.                                                                *)
(*                                                                           *)
(* A node is a host:port at which one process after another may run, each     *)
(* with an ID of its own.  A TCP connection has two ends and so two names: the *)
(* process that dialled it knows its peer by the listening address it dialled, *)
(* the one that accepted it knows its peer by the dialler's machine and an     *)
(* ephemeral port.  The transport keeps its peers under those names, so an     *)
(* ephemeral address can be sent to by the accepting process alone, while the  *)
(* connection lasts; afterwards its port may be given to another connection    *)
(* from that machine.  (A port that is now ephemeral and now listening is not  *)
(* modelled.)                                                                *)
(***************************************************************************)
EXTENDS Buckets

CONSTANTS
    Nodes,      \* the addresses nodes are started at
    Machine,    \* Machine[n]: the machine of n
    Ports,      \* the ephemeral ports of a machine
    IDOf,       \* IDOf[n]: the IDs the processes at n draw, one at each start
    Seeds,      \* Seeds[n]: the nodes n is told to bootstrap from, in order
    Target,     \* Target[n]: the ID n looks up, or None
    Alpha,      \* how many contacts Lookup asks per round
    MaxRounds,  \* Lookup's bound on its rounds
    None

(* Random IDs of 160 bits do not coincide. *)
ASSUME IDOfAssumption ==
    /\ IDOf \in [Nodes -> Seq(ID)]
    /\ \A n \in Nodes : IDOf[n] # <<>>
    /\ \A m, n \in Nodes : \A j \in 1..Len(IDOf[m]), k \in 1..Len(IDOf[n]) :
         IDOf[m][j] = IDOf[n][k] => m = n /\ j = k
ASSUME SeedsAssumption == Seeds \in [Nodes -> Seq(Nodes)]
ASSUME TargetAssumption == Target \in [Nodes -> ID \union {None}]
ASSUME BoundsAssumption == Alpha \in Nat \ {0} /\ MaxRounds \in Nat

(* <<dialler, acceptor, the dialler's port>> *)
Connections == Nodes \X Nodes \X Ports

Listen(n) == <<"listen", n>>
Eph(c) == <<"ephemeral", Machine[c[1]], c[3]>>

Endpoints == {Listen(n) : n \in Nodes} \union {Eph(c) : c \in Connections}

ASSUME AddressesAssumption == Endpoints \subseteq Addresses

VARIABLES
    life,       \* life[n]: how many processes have been started at n
    rt,         \* rt[n]: the routing table of n
    conns,      \* the open connections
    net,        \* the messages sent and not yet handled
    faulty,     \* history: a dial failed, a connection broke, a message was lost or
                \* a node restarted
    boot,       \* boot[n]: what n's bootstrap does next
    seeds,      \* seeds[n]: the bootstrap peers it has not finished with
    lookup,     \* lookup[n]: the progress of n's Lookup
    asked       \* history: asked[n]: whom n's Lookup wrote to, where and in which round

netVars == <<conns, net, faulty>>
bootVars == <<boot, seeds>>
lookupVars == <<lookup, asked>>
vars == <<life, rt, netVars, bootVars, lookupVars>>

NoLookup == [at |-> "idle", round |-> 0, prev |-> None, queried |-> {},
             todo |-> <<>>]

Init ==
    /\ life = [n \in Nodes |-> 1]
    /\ rt = [n \in Nodes |-> NewRoutingTable]
    /\ conns = {}
    /\ net = {}
    /\ faulty = FALSE
    /\ boot = [n \in Nodes |-> "dial"]
    /\ seeds = Seeds
    /\ lookup = [n \in Nodes |-> NoLookup]
    /\ asked = [n \in Nodes |-> <<>>]

-----------------------------------------------------------------------------
(* The processes *)

(* The ID of the process that runs at n, and the IDs of all that have. *)
SelfID(n) == IDOf[n][life[n]]
PastIDs(n) == {IDOf[n][k] : k \in 1..life[n]}

-----------------------------------------------------------------------------
(* The transport *)

(* The connection n has under addr in its peers map, if any.  With two of     *)
(* them the map holds the one registered last; the model lets it be either.   *)
PeersAt(n, addr) ==
    {c \in conns : \/ c[1] = n /\ addr = Listen(c[2])
                   \/ c[2] = n /\ addr = Eph(c)}

(* A message in the network: its connection, the end that receives it and     *)
(* what it says.  Sent to the name of the acceptor it goes to end 2.         *)
Mail(c, addr, msg) ==
    [conn |-> c, end |-> IF addr = Listen(c[2]) THEN 2 ELSE 1, msg |-> msg]

To(m) == m.conn[m.end]
Sender(m) == m.conn[3 - m.end]

(* peer.Addr(), which the receiver of m finds in rpc.From. *)
RemoteAddr(m) == IF m.end = 1 THEN Listen(m.conn[2]) ELSE Eph(m.conn)

Now == [conns |-> conns, net |-> net, faulty |-> faulty]

(* The connections transport.Dial(addr) of node n can open: only a listening  *)
(* address accepts, and no two open connections to it have the same name.    *)
Dialled(n, addr) ==
    {c \in Connections : /\ c[1] = n /\ addr = Listen(c[2])
                         /\ \A d \in conns : d[2] = c[2] => Eph(d) # Eph(c)}

Opened(c) == [Now EXCEPT !.conns = @ \union {c}]

(* Any dial may fail; to an ephemeral address that is no fault. *)
DialFails(addr) == [Now EXCEPT !.faulty = @ \/ \E n \in Nodes : addr = Listen(n)]

(* What transport.Send(addr, msg) of node n can do: write to the connection   *)
(* it has, or else to the one it dials, or fail.                             *)
Outcomes(n, addr, msg) ==
    LET Over(s, c) == [s EXCEPT !.net = @ \union {Mail(c, addr, msg)}]
    IN  IF PeersAt(n, addr) # {}
        THEN {Over(Now, c) : c \in PeersAt(n, addr)}
        ELSE {Over(Opened(c), c) : c \in Dialled(n, addr)} \union {DialFails(addr)}

Becomes(s) == conns' = s.conns /\ net' = s.net /\ faulty' = s.faulty

Send(n, addr, msg) ==
    \E s \in Outcomes(n, addr, msg) : Becomes(s)

(* A connection breaks: both ends forget it.  What it carried may still be    *)
(* waiting to be handled, or be lost.                                        *)
Break ==
    /\ \E c \in conns : conns' = conns \ {c}
    /\ faulty' = TRUE
    /\ UNCHANGED <<life, rt, net, bootVars, lookupVars>>

Lose ==
    /\ \E m \in net : net' = net \ {m}
    /\ faulty' = TRUE
    /\ UNCHANGED <<life, rt, conns, bootVars, lookupVars>>

(* The process at n ends and another is started there: it draws an ID, its    *)
(* table is empty and it bootstraps anew.  The connections of the old one and  *)
(* what it had received are gone; what it had sent may still be handled.      *)
Restart(n) ==
    /\ life[n] < Len(IDOf[n])
    /\ life' = [life EXCEPT ![n] = @ + 1]
    /\ rt' = [rt EXCEPT ![n] = NewRoutingTable]
    /\ conns' = {c \in conns : c[1] # n /\ c[2] # n}
    /\ net' = {m \in net : To(m) # n}
    /\ faulty' = TRUE
    /\ boot' = [boot EXCEPT ![n] = "dial"]
    /\ seeds' = [seeds EXCEPT ![n] = Seeds[n]]
    /\ lookup' = [lookup EXCEPT ![n] = NoLookup]
    /\ asked' = [asked EXCEPT ![n] = <<>>]

-----------------------------------------------------------------------------
(* Messages.  Requests leave NodeAddr empty, answers carry it. *)

Ping(n) ==
    [type |-> "PING", from |-> SelfID(n), addr |-> None, target |-> None, nodes |-> <<>>]

FindNode(n, target) ==
    [type |-> "FIND_NODE", from |-> SelfID(n), addr |-> None, target |-> target,
     nodes |-> <<>>]

Pong(n) ==
    [type |-> "PONG", from |-> SelfID(n), addr |-> Listen(n), target |-> None,
     nodes |-> <<>>]

(* Seeded fault: every entry is sent with the answering node's own address. *)
NodesMsgOwnAddr(n, closest) ==
    [type |-> "NODES", from |-> SelfID(n), addr |-> Listen(n), target |-> None,
     nodes |-> [i \in 1..Len(closest) |->
                  [id |-> closest[i].id, addr |-> Listen(n)]]]

NodesMsg(n, closest) ==
    [type |-> "NODES", from |-> SelfID(n), addr |-> Listen(n), target |-> None,
     nodes |-> [i \in 1..Len(closest) |->
                  [id |-> closest[i].id, addr |-> closest[i].addr]]]

(* The address the handlers record for the sender of m. *)
SenderAddr(m) == IF m.msg.addr # None THEN m.msg.addr ELSE RemoteAddr(m)

(* The table of n with one more contact.  Nothing reads LastSeen, so the      *)
(* clock stands still here.                                                  *)
Learn(table, n, id, addr) == AddContact(table, SelfID(n), id, addr, 0)

(* Seeded fault: only senders that announce an address are learned. *)
LearnSenderAnnounced(table, m) ==
    IF m.msg.addr = None THEN table
    ELSE Learn(table, To(m), m.msg.from, m.msg.addr)

LearnSender(table, m) == Learn(table, To(m), m.msg.from, SenderAddr(m))

(* Handling a message takes it out of the queue before the answer is sent. *)
Handled(m) == net' = net \ {m} /\ UNCHANGED <<conns, faulty>>

Answered(m, answer) ==
    \E s \in Outcomes(To(m), RemoteAddr(m), answer) :
      Becomes([s EXCEPT !.net = @ \ {m}])

HandlePing(m) ==
    /\ m.msg.type = "PING"
    /\ rt' = [rt EXCEPT ![To(m)] = LearnSender(@, m)]
    /\ Answered(m, Pong(To(m)))
    /\ UNCHANGED <<life, bootVars, lookupVars>>

HandlePong(m) ==
    /\ m.msg.type = "PONG"
    /\ rt' = [rt EXCEPT ![To(m)] = LearnSender(@, m)]
    /\ Handled(m)
    /\ UNCHANGED <<life, bootVars, lookupVars>>

(* The requester is learned first, so it may be among the closest. *)
HandleFindNode(m) ==
    LET table == LearnSender(rt[To(m)], m)
        closest == FindClosest(table, m.msg.target, K)
    IN  /\ m.msg.type = "FIND_NODE"
        /\ rt' = [rt EXCEPT ![To(m)] = table]
        /\ Answered(m, NodesMsg(To(m), closest))
        /\ UNCHANGED <<life, bootVars, lookupVars>>

(* The entries of a NODES message are learned in their order... *)
LearnAll(table, n, nodes) ==
    FoldLeft(LAMBDA t, c : Learn(t, n, c.id, c.addr), table, nodes)

(* ...and the sender last. *)
HandleNodes(m) ==
    /\ m.msg.type = "NODES"
    /\ rt' = [rt EXCEPT ![To(m)] = LearnSender(LearnAll(@, To(m), m.msg.nodes), m)]
    /\ Handled(m)
    /\ UNCHANGED <<life, bootVars, lookupVars>>

HandleRPC(m) ==
    HandlePing(m) \/ HandlePong(m) \/ HandleFindNode(m) \/ HandleNodes(m)

-----------------------------------------------------------------------------
(* Bootstrap: for each of its peers a node dials, sends a PING and then        *)
(* FIND_NODE(self); a peer it cannot dial is skipped.                        *)

BootDial(n) ==
    /\ boot[n] = "dial"
    /\ seeds[n] # <<>>
    /\ LET addr == Listen(Head(seeds[n]))
       IN  \/ /\ \E c \in Dialled(n, addr) : Becomes(Opened(c))
              /\ boot' = [boot EXCEPT ![n] = "ping"]
              /\ UNCHANGED seeds
           \/ /\ Becomes(DialFails(addr))
              /\ seeds' = [seeds EXCEPT ![n] = Tail(@)]
              /\ UNCHANGED boot
    /\ UNCHANGED <<life, rt, lookupVars>>

SendPing(n) ==
    /\ boot[n] = "ping"
    /\ Send(n, Listen(Head(seeds[n])), Ping(n))
    /\ boot' = [boot EXCEPT ![n] = "findNode"]
    /\ UNCHANGED <<life, rt, seeds, lookupVars>>

SendFindNode(n) ==
    /\ boot[n] = "findNode"
    /\ Send(n, Listen(Head(seeds[n])), FindNode(n, SelfID(n)))
    /\ boot' = [boot EXCEPT ![n] = "dial"]
    /\ seeds' = [seeds EXCEPT ![n] = Tail(@)]
    /\ UNCHANGED <<life, rt, lookupVars>>

BootStep(n) == BootDial(n) \/ SendPing(n) \/ SendFindNode(n)

-----------------------------------------------------------------------------
(* Lookup *)

LookupStart(n) ==
    /\ seeds[n] = <<>>
    /\ Target[n] # None
    /\ lookup[n].at = "idle"
    /\ lookup' = [lookup EXCEPT ![n].at = "round"]
    /\ UNCHANGED <<life, rt, netVars, bootVars, asked>>

(* The first Alpha contacts of the shortlist whose address has not been asked. *)
ToQuery(n, shortlist) ==
    FoldLeft(LAMBDA q, c : IF Len(q) < Alpha /\ c.addr \notin lookup[n].queried
                           THEN Append(q, c) ELSE q,
             <<>>, shortlist)

(* One iteration of the loop up to its sends: stop when the table is empty,   *)
(* the rounds are used up, the closest contact is the same as before or there *)
(* is nobody new to ask.                                                     *)
LookupRound(n) ==
    LET l == lookup[n]
        shortlist == FindClosest(rt[n], Target[n], K)
        toQuery == ToQuery(n, shortlist)
    IN  /\ l.at = "round"
        /\ IF \/ l.round = MaxRounds
              \/ shortlist = <<>>
              \/ shortlist[1].id = l.prev
              \/ toQuery = <<>>
           THEN lookup' = [lookup EXCEPT ![n].at = "done"]
           ELSE lookup' = [lookup EXCEPT ![n].at = "sending",
                                         ![n].prev = shortlist[1].id,
                                         ![n].todo = toQuery]
        /\ UNCHANGED <<life, rt, netVars, bootVars, asked>>

(* Seeded fault: an address is marked only when the send succeeded at once. *)
MarkIfConnected(n, q, addr) ==
    IF PeersAt(n, addr) # {} THEN q \union {addr} ELSE q

(* queried[c.Address] = true *)
Mark(n, q, addr) == q \union {addr}

(* Mark and send to the next contact; after the last one, sleep and go on to  *)
(* the next round.                                                           *)
LookupSend(n) ==
    LET l == lookup[n]
        c == Head(l.todo)
        last == Len(l.todo) = 1
    IN  /\ l.at = "sending"
        /\ Send(n, c.addr, FindNode(n, Target[n]))
        /\ lookup' = [lookup EXCEPT ![n] =
             [at |-> IF last THEN "round" ELSE "sending",
              round |-> IF last THEN l.round + 1 ELSE l.round,
              prev |-> l.prev,
              queried |-> Mark(n, l.queried, c.addr),
              todo |-> Tail(l.todo)]]
        /\ asked' = [asked EXCEPT ![n] = Append(@, [id |-> c.id, addr |-> c.addr, round |-> l.round])]
        /\ UNCHANGED <<life, rt, bootVars>>

LookupStep(n) == LookupStart(n) \/ LookupRound(n) \/ LookupSend(n)

Next ==
    \/ \E m \in net : HandleRPC(m)
    \/ \E n \in Nodes : BootStep(n) \/ LookupStep(n) \/ Restart(n)
    \/ Break
    \/ Lose

Spec == Init /\ [][Next]_vars

-----------------------------------------------------------------------------
(* Properties *)

Contacts(n) == ToSet(AllContacts(rt[n]))

Knows(n, m) == \E c \in Contacts(n) : c.id = SelfID(m)

(* The addresses by which n is known. *)
AddressesOf(n) == {Listen(n)} \union {<<"ephemeral", Machine[n], p>> : p \in Ports}

(* The tables and the messages are well formed. *)
TypeOK ==
    /\ life \in [Nodes -> Nat \ {0}]
    /\ rt \in [Nodes -> Tables]
    /\ conns \subseteq Connections
    /\ faulty \in BOOLEAN
    /\ boot \in [Nodes -> {"dial", "ping", "findNode"}]
    /\ seeds \in [Nodes -> Seq(Nodes)]
    /\ \A m \in net : /\ m.conn \in Connections /\ m.end \in {1, 2}
                      /\ m.msg.type \in {"PING", "PONG", "FIND_NODE", "NODES"}
                      /\ m.msg.from \in PastIDs(Sender(m))

(* No node is ever recorded under another node's address, directly or by       *)
(* hearsay, whatever connections are opened, broken and reopened and whichever *)
(* nodes restart meanwhile: an ID stands with the listening address it was     *)
(* drawn at, or with an ephemeral port of that machine.  What is sent to the   *)
(* former reaches the contact or the process that has taken its place, what is *)
(* sent to the latter nobody, or a process on the contact's machine.          *)
AddressesAreTruthful ==
    \A n \in Nodes : \A c \in Contacts(n) :
      \E m \in Nodes : c.id \in PastIDs(m) /\ c.addr \in AddressesOf(m)

(* A Lookup asks an address again only in the same round and for another ID,   *)
(* although the routing table changes under it while it sends: "queried" is    *)
(* read before the sends of a round and written during them, so a peer that    *)
(* restarted and is known by both of its IDs is asked twice.                  *)
AsksOnce ==
    \A n \in Nodes : \A i, j \in 1..Len(asked[n]) :
      i # j /\ asked[n][i].addr = asked[n][j].addr =>
        asked[n][i].round = asked[n][j].round /\ asked[n][i].id # asked[n][j].id

(* When a bootstrap is over and all it has caused has been handled, the node   *)
(* and each of its bootstrap peers know each other, in whatever order the      *)
(* PINGs, FIND_NODEs and their answers arrived, unless the network failed or   *)
(* a node restarted: nothing is tried again.  It is meant for networks of at   *)
(* most K + 1 nodes, where no bucket overflows.                               *)
JoinIsMutual ==
    \A n \in Nodes :
      seeds[n] = <<>> /\ net = {} /\ ~faulty =>
        \A s \in ToSet(Seeds[n]) : Knows(n, s) /\ Knows(s, n)
=============================================================================

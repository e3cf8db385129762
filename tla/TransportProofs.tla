-------------------------- MODULE TransportProofs --------------------------
(***************************************************************************)
(* Proofs about Transport, for any number of senders, connections, addresses *)
(* and spellings of addresses.                                               *)
(***************************************************************************)
EXTENDS Transport, TLAPS

(* The places of a handleConn are few enough to have them expanded everywhere. *)
USE DEF Looping, HandlerStates

(* Entries of the map are connections under their own names whose handleConn  *)
(* has yet to take them out.                                                 *)
EntryInv ==
    \A a \in Addrs : peers[a] # None => name[peers[a]] = a /\ Registered(peers[a])

(* A connection has a name as long as it has a handleConn. *)
NameInv == \A c \in Conns : handler[c] # "none" => name[c] \in Names

(* Registered connections that share a name are marked. *)
DoubledInv ==
    \A c, d \in Conns :
      c # d /\ Registered(c) /\ Registered(d) /\ name[c] = name[d]
        => c \in doubled /\ d \in doubled

(* The others are what the map has under their names. *)
FindableInv == \A c \in Conns \ doubled : Registered(c) => peers[name[c]] = c

(* While Send sleeps, the connection it has dialled is not used for another   *)
(* address, and it has returned nothing.                                     *)
SenderInv ==
    \A s \in Senders :
      /\ pc[s] # "idle" => target[s] \in Addrs /\ ret[s] = "none"
      /\ pc[s] = "sleep" =>
           /\ dialled[s] \in Conns
           /\ Resolve[target[s]] \in Listen
           /\ handler[dialled[s]] # "none" => name[dialled[s]] = Resolve[target[s]]

IInv == TypeOK /\ EntryInv /\ NameInv /\ DoubledInv /\ FindableInv /\ SenderInv

-----------------------------------------------------------------------------
(* The steps of Send: they leave the map and the connections alone, except    *)
(* that Dial opens one.                                                      *)

(* A step of Send that touches neither the map nor the connections keeps what  *)
(* is said of them.                                                          *)
LEMMA ConnsUntouched ==
    ASSUME IInv, UNCHANGED <<peers, listening, connVars, doubled>>
    PROVE  EntryInv' /\ NameInv' /\ DoubledInv' /\ FindableInv'
BY DEF IInv, connVars, EntryInv, NameInv, DoubledInv, FindableInv, Registered

LEMMA ReturnInv ==
    ASSUME IInv, NEW s \in Senders,
           NEW r \in {"dial error", "could not connect", "sent", "write error"},
           Return(s, r), UNCHANGED <<peers, listening, connVars, doubled>>
    PROVE  IInv'
<1>1. TypeOK'
  BY DEF IInv, TypeOK, Return, connVars
<1>2. SenderInv'
  <2>1. /\ pc'[s] = "idle"
        /\ \A t \in Senders \ {s} : /\ pc'[t] = pc[t] /\ target'[t] = target[t]
                                    /\ ret'[t] = ret[t] /\ dialled'[t] = dialled[t]
    BY DEF IInv, TypeOK, Return
  <2>2. handler' = handler /\ name' = name
    BY DEF connVars
  <2>. QED BY <2>1, <2>2 DEF IInv, SenderInv
<1>. QED BY <1>1, <1>2, ConnsUntouched DEF IInv

LEMMA FindInv ==
    ASSUME IInv, NEW s \in Senders, Find(s)
    PROVE  IInv'
<1>1. PICK a \in Targets[s] :
        /\ target' = [target EXCEPT ![s] = a]
        /\ peer' = [peer EXCEPT ![s] = peers[a]]
        /\ pc' = [pc EXCEPT ![s] = IF peers[a] = None THEN "dial" ELSE "encode"]
  BY DEF Find
<1>2. a \in Addrs /\ peers[a] \in Conns \union {None}
  BY TransportAssumption DEF IInv, TypeOK
<1>3. TypeOK'
  BY <1>1, <1>2 DEF IInv, TypeOK, Find, connVars
<1>4. SenderInv'
  BY <1>1, <1>2 DEF IInv, TypeOK, SenderInv, Find, connVars
<1>. QED BY <1>3, <1>4, ConnsUntouched DEF IInv, Find

(* A new connection is not registered yet, and no sender has it. *)
LEMMA ConnectInv ==
    ASSUME IInv, NEW c \in Conns, NEW n \in Names, Unused(c), Connect(c, n),
           UNCHANGED <<peers, listening, doubled>>
    PROVE  /\ socket' \in [Conns -> {"open", "cut", "closed"}]
           /\ name' \in [Conns -> Names \union {None}]
           /\ handler' \in [Conns -> HandlerStates]
           /\ doubled' \subseteq {d \in Conns : handler'[d] \notin {"none", "start"}}
           /\ EntryInv' /\ NameInv' /\ DoubledInv' /\ FindableInv'
<1>1. \A d \in Conns : Registered(d)' <=> Registered(d) /\ d # c
  BY DEF IInv, TypeOK, Unused, Connect, Registered
<1>2. \A d \in Conns \ {c} : name'[d] = name[d] /\ handler'[d] = handler[d]
  BY DEF IInv, TypeOK, Connect
<1>3. handler[c] = "none" /\ handler'[c] = "start" /\ name'[c] = n
  BY DEF IInv, TypeOK, Unused, Connect
<1>4. EntryInv'
  <2> SUFFICES ASSUME NEW a \in Addrs, peers[a] # None
               PROVE  name'[peers[a]] = a /\ Registered(peers[a])'
    BY DEF EntryInv
  <2>1. peers[a] \in Conns /\ name[peers[a]] = a /\ Registered(peers[a])
    <3>1. peers[a] \in Conns \union {None}
      BY DEF IInv, TypeOK
    <3>. QED BY <3>1 DEF IInv, EntryInv
  <2>2. peers[a] # c
    BY <2>1, <1>3 DEF Registered
  <2>. QED BY <2>1, <2>2, <1>1, <1>2
<1>5. NameInv'
  BY <1>2, <1>3 DEF IInv, NameInv
<1>6. DoubledInv'
  BY <1>1, <1>2 DEF IInv, DoubledInv
<1>7. FindableInv'
  BY <1>1, <1>2 DEF IInv, FindableInv
<1>. QED BY <1>2, <1>3, <1>4, <1>5, <1>6, <1>7 DEF IInv, TypeOK, Connect

LEMMA DialInv ==
    ASSUME IInv, NEW s \in Senders, Dial(s)
    PROVE  IInv'
<1>1. PICK c \in Conns :
        /\ Unused(c) /\ Connect(c, Resolve[target[s]])
        /\ dialled' = [dialled EXCEPT ![s] = c]
  BY DEF Dial
<1>2. target[s] \in Addrs /\ Resolve[target[s]] \in Listen
  BY TransportAssumption DEF IInv, SenderInv, Dial
<1>3. TypeOK' /\ EntryInv' /\ NameInv' /\ DoubledInv' /\ FindableInv'
  <2>1. Resolve[target[s]] \in Names /\ UNCHANGED <<peers, listening, doubled>>
    BY <1>2 DEF Names, Dial
  <2>2. /\ socket' \in [Conns -> {"open", "cut", "closed"}]
        /\ name' \in [Conns -> Names \union {None}]
        /\ handler' \in [Conns -> HandlerStates]
        /\ doubled' \subseteq {d \in Conns : handler'[d] \notin {"none", "start"}}
        /\ EntryInv' /\ NameInv' /\ DoubledInv' /\ FindableInv'
    BY <1>1, <2>1, ConnectInv
  <2>3. pc'[s] = "sleep"
    BY DEF IInv, TypeOK, Dial
  <2>4. TypeOK'
    BY <1>1, <2>1, <2>2, <2>3 DEF IInv, TypeOK, Dial
  <2>. QED BY <2>2, <2>4
<1>4. SenderInv'
  <2> SUFFICES ASSUME NEW t \in Senders
               PROVE  /\ pc'[t] # "idle" => target'[t] \in Addrs /\ ret'[t] = "none"
                      /\ pc'[t] = "sleep" =>
                           /\ dialled'[t] \in Conns
                           /\ Resolve[target'[t]] \in Listen
                           /\ handler'[dialled'[t]] # "none"
                                => name'[dialled'[t]] = Resolve[target'[t]]
    BY DEF SenderInv
  <2>1. CASE t = s
    <3>1. /\ pc[s] # "idle" /\ target'[s] = target[s] /\ ret'[s] = ret[s]
          /\ dialled'[s] = c
      BY <1>1 DEF IInv, TypeOK, Dial
    <3>2. name'[c] = Resolve[target[s]]
      BY <1>1 DEF IInv, TypeOK, Connect
    <3>. QED BY <1>2, <2>1, <3>1, <3>2 DEF IInv, SenderInv
  <2>2. CASE t # s
    <3>1. /\ pc'[t] = pc[t] /\ target'[t] = target[t] /\ ret'[t] = ret[t]
          /\ dialled'[t] = dialled[t]
      BY <1>1, <2>2 DEF IInv, TypeOK, Dial
    <3>2. dialled[t] # c
      BY <1>1 DEF Unused
    <3>3. dialled[t] \in Conns => /\ handler'[dialled[t]] = handler[dialled[t]]
                                  /\ name'[dialled[t]] = name[dialled[t]]
      BY <1>1, <3>2 DEF IInv, TypeOK, Connect
    <3>. QED BY <3>1, <3>3 DEF IInv, SenderInv
  <2>. QED BY <2>1, <2>2
<1>. QED BY <1>3, <1>4 DEF IInv

LEMMA WakeInv ==
    ASSUME IInv, NEW s \in Senders, Wake(s)
    PROVE  IInv'
<1>1. CASE peers[target[s]] = None
  BY <1>1, ReturnInv DEF Wake
<1>2. CASE peers[target[s]] # None
  <2>1. target[s] \in Addrs /\ peers[target[s]] \in Conns
    <3>1. pc[s] # "idle" /\ target[s] \in Addrs
      BY DEF IInv, SenderInv, Wake
    <3>2. peers[target[s]] \in Conns \union {None}
      BY <3>1 DEF IInv, TypeOK
    <3>. QED BY <1>2, <3>1, <3>2
  <2>2. /\ peer' = [peer EXCEPT ![s] = peers[target[s]]]
        /\ pc' = [pc EXCEPT ![s] = "encode"]
        /\ UNCHANGED <<target, dialled, ret, peers, listening, socket, name, handler, doubled>>
    BY <1>2 DEF Wake, connVars
  <2>3. TypeOK'
    <3>1. \A t \in Senders : pc'[t] = "encode" => peer'[t] # None
      BY <1>2, <2>2 DEF IInv, TypeOK
    <3>. QED BY <2>1, <2>2, <3>1 DEF IInv, TypeOK
  <2>4. SenderInv'
    <3>1. /\ pc[s] = "sleep" /\ pc'[s] = "encode"
          /\ \A t \in Senders \ {s} : pc'[t] = pc[t]
      BY <2>2 DEF IInv, TypeOK, Wake
    <3>. QED BY <2>2, <3>1 DEF IInv, SenderInv
  <2>. QED BY <2>3, <2>4, ConnsUntouched DEF IInv, Wake
<1>. QED BY <1>1, <1>2

LEMMA SendStepInv ==
    ASSUME IInv, NEW s \in Senders, SendStep(s)
    PROVE  IInv'
<1>1. CASE DialError(s)
  BY <1>1, ReturnInv DEF DialError
<1>2. CASE Encode(s)
  BY <1>2, ReturnInv DEF Encode
<1>. QED BY <1>1, <1>2, FindInv, DialInv, WakeInv DEF SendStep

-----------------------------------------------------------------------------
(* The accept loop and handleConn.  They leave the senders alone. *)

(* Nothing a handleConn does to its own connection disturbs a sender: the     *)
(* connection keeps its name until it has no handleConn any more.            *)
LEMMA SendersUntouched ==
    ASSUME IInv, UNCHANGED sendVars,
           \A c \in Conns : (\E s \in Senders : dialled[s] = c) /\ handler'[c] # "none"
                             => handler[c] # "none" /\ name'[c] = name[c]
    PROVE  SenderInv'
BY DEF IInv, SenderInv, sendVars

LEMMA AcceptInv ==
    ASSUME IInv, Accept
    PROVE  IInv'
<1>1. PICK c \in Conns, e \in Ephemeral : Unused(c) /\ Connect(c, e)
  BY DEF Accept
<1>2. /\ socket' \in [Conns -> {"open", "cut", "closed"}]
      /\ name' \in [Conns -> Names \union {None}]
      /\ handler' \in [Conns -> HandlerStates]
      /\ doubled' \subseteq {d \in Conns : handler'[d] \notin {"none", "start"}}
      /\ EntryInv' /\ NameInv' /\ DoubledInv' /\ FindableInv'
  BY <1>1, ConnectInv DEF Accept, Names
<1>3. TypeOK'
  BY <1>2 DEF IInv, TypeOK, Accept, sendVars
<1>4. SenderInv'
  <2>1. \A d \in Conns : (\E s \in Senders : dialled[s] = d) =>
          handler'[d] = handler[d] /\ name'[d] = name[d]
    BY <1>1 DEF IInv, TypeOK, Unused, Connect
  <2>. QED BY <2>1, SendersUntouched DEF Accept
<1>. QED BY <1>2, <1>3, <1>4 DEF IInv

(* What the map has, it has under the name of a registered connection. *)
LEMMA EntryInvPrimed ==
    ASSUME TypeOK',
           \A a \in Addrs, d \in Conns :
             peers'[a] = d => name'[d] = a /\ handler'[d] \in Looping \union {"handshake", "exit"}
    PROVE  EntryInv'
<1>1. \A a \in Addrs : peers'[a] \in Conns \union {None}
  BY DEF TypeOK
<1>. QED BY <1>1 DEF EntryInv, Registered

(* A handleConn between its registration and its deferred function. *)
LEMMA MoveInv ==
    ASSUME IInv, NEW c \in Conns, NEW h \in Looping \union {"exit"},
           handler[c] \in Looping \union {"handshake"}, SetHandler(c, h),
           UNCHANGED <<peers, listening, socket, name, sendVars, doubled>>
    PROVE  IInv'
<1>1. /\ \A d \in Conns \ {c} : handler'[d] = handler[d]
      /\ handler'[c] = h
  BY DEF IInv, TypeOK, SetHandler
<1>2. TypeOK'
  BY DEF IInv, TypeOK, SetHandler, sendVars
<1>3. EntryInv'
  <2>1. \A a \in Addrs, d \in Conns :
          peers[a] = d => name[d] = a /\ handler'[d] \in Looping \union {"handshake", "exit"}
    BY <1>1, TransportAssumption DEF IInv, EntryInv, Registered
  <2>. QED BY <1>2, <2>1, EntryInvPrimed
<1>4. NameInv' /\ DoubledInv' /\ FindableInv'
  BY <1>1 DEF IInv, NameInv, DoubledInv, FindableInv, Registered
<1>5. SenderInv'
  <2>1. \A d \in Conns : handler'[d] # "none" => handler[d] # "none" /\ name'[d] = name[d]
    BY <1>1
  <2>. QED BY <2>1, SendersUntouched
<1>. QED BY <1>2, <1>3, <1>4, <1>5 DEF IInv

LEMMA RegisterInv ==
    ASSUME IInv, NEW c \in Conns, Register(c)
    PROVE  IInv'
<1> DEFINE others == {d \in Conns : name[d] = name[c] /\ Registered(d)}
<1>1. name[c] \in Names /\ name[c] \in Addrs /\ handler[c] = "start" /\ name' = name
  BY TransportAssumption DEF IInv, NameInv, Register
<1>2. /\ \A d \in Conns \ {c} : handler'[d] = handler[d]
      /\ handler'[c] = "handshake"
      /\ handler' \in [Conns -> HandlerStates]
  BY DEF IInv, TypeOK, Register, SetHandler
<1>3. /\ \A a \in Addrs \ {name[c]} : peers'[a] = peers[a]
      /\ peers'[name[c]] = c
      /\ peers' \in [Addrs -> Conns \union {None}]
  BY <1>1 DEF IInv, TypeOK, Register
<1>4. doubled' = IF others = {} THEN doubled ELSE doubled \union others \union {c}
  BY DEF Register
<1> HIDE DEF others
<1>5. \A d \in Conns : d \in others <=> name[d] = name[c] /\ Registered(d)
  BY DEF others
<1>6. TypeOK'
  <2>1. others \subseteq Conns
    BY DEF others
  <2>2. \A d \in doubled' : d \in Conns /\ handler'[d] \notin {"none", "start"}
    BY <1>1, <1>2, <1>4, <1>5, <2>1 DEF IInv, TypeOK, Registered
  <2>3. UNCHANGED <<listening, socket, name, pc, target, peer, dialled, ret>>
    BY DEF Register, sendVars
  <2>. QED BY <1>2, <1>3, <2>2, <2>3 DEF IInv, TypeOK
<1>7. EntryInv'
  <2>1. ASSUME NEW a \in Addrs, NEW d \in Conns, peers'[a] = d
        PROVE  name[d] = a /\ handler'[d] \in Looping \union {"handshake", "exit"}
    <3>1. CASE a = name[c]
      BY <1>2, <1>3, <2>1, <3>1
    <3>2. CASE a # name[c]
      BY <1>2, <1>3, <2>1, <3>2, TransportAssumption DEF IInv, EntryInv, Registered
    <3>. QED BY <3>1, <3>2
  <2>. QED BY <1>1, <1>6, <2>1, EntryInvPrimed
<1>8. NameInv'
  BY <1>1, <1>2 DEF IInv, NameInv
<1>9. DoubledInv'
  BY <1>1, <1>2, <1>4, <1>5 DEF IInv, DoubledInv, Registered
<1>10. FindableInv'
  <2> SUFFICES ASSUME NEW d \in Conns \ doubled', Registered(d)'
               PROVE  peers'[name[d]] = d
    BY <1>1 DEF FindableInv
  <2>1. CASE d = c
    BY <1>3, <2>1
  <2>2. CASE d # c
    <3>1. Registered(d)
      BY <1>2, <2>2 DEF Registered
    <3>2. d \notin doubled /\ d \notin others
      BY <1>4
    <3>3. name[d] # name[c]
      BY <1>5, <3>1, <3>2
    <3>4. peers[name[d]] = d /\ name[d] \in Addrs
      BY <3>1, <3>2, TransportAssumption DEF IInv, FindableInv, NameInv, Registered
    <3>. QED BY <1>3, <3>3, <3>4
  <2>. QED BY <2>1, <2>2
<1>11. SenderInv'
  <2>1. \A d \in Conns : handler'[d] # "none" => handler[d] # "none" /\ name'[d] = name[d]
    BY <1>1, <1>2
  <2>. QED BY <2>1, SendersUntouched DEF Register
<1>. QED BY <1>6, <1>7, <1>8, <1>9, <1>10, <1>11 DEF IInv

(* The deferred function takes out what the map has under its name; a         *)
(* connection that is not marked does not lose its entry to another one.     *)
LEMMA UnregisterInv ==
    ASSUME IInv, NEW c \in Conns, Unregister(c)
    PROVE  IInv'
<1>1. name[c] \in Addrs /\ handler[c] = "exit" /\ name' = name /\ doubled' = doubled
  BY TransportAssumption DEF IInv, NameInv, Unregister
<1>2. /\ \A d \in Conns \ {c} : handler'[d] = handler[d]
      /\ handler'[c] = "close"
      /\ handler' \in [Conns -> HandlerStates]
  BY DEF IInv, TypeOK, Unregister, SetHandler
<1>3. /\ \A a \in Addrs \ {name[c]} : peers'[a] = peers[a]
      /\ peers'[name[c]] = None
      /\ peers' \in [Addrs -> Conns \union {None}]
  BY <1>1 DEF IInv, TypeOK, Unregister
<1>4. TypeOK'
  <2>1. \A d \in doubled : d \in Conns /\ handler'[d] \notin {"none", "start"}
    BY <1>1, <1>2 DEF IInv, TypeOK
  <2>2. UNCHANGED <<listening, socket, name, pc, target, peer, dialled, ret, doubled>>
    BY DEF Unregister, sendVars
  <2>. QED BY <1>2, <1>3, <2>1, <2>2 DEF IInv, TypeOK
<1>5. EntryInv'
  <2>1. ASSUME NEW a \in Addrs, NEW d \in Conns, peers'[a] = d
        PROVE  name[d] = a /\ handler'[d] \in Looping \union {"handshake", "exit"}
    <3>1. a # name[c] /\ peers[a] = d
      BY <1>3, <2>1, TransportAssumption
    <3>2. name[d] = a /\ Registered(d)
      BY <3>1, TransportAssumption DEF IInv, EntryInv
    <3>. QED BY <1>2, <3>1, <3>2 DEF Registered
  <2>. QED BY <1>1, <1>4, <2>1, EntryInvPrimed
<1>6. NameInv'
  BY <1>1, <1>2 DEF IInv, NameInv
<1>7. DoubledInv'
  BY <1>1, <1>2 DEF IInv, DoubledInv, Registered
<1>8. FindableInv'
  <2> SUFFICES ASSUME NEW d \in Conns \ doubled, Registered(d)'
               PROVE  peers'[name[d]] = d
    BY <1>1 DEF FindableInv
  <2>1. Registered(d) /\ d # c
    BY <1>2 DEF Registered
  <2>2. peers[name[d]] = d /\ name[d] \in Addrs
    BY <2>1, TransportAssumption DEF IInv, FindableInv, NameInv, Registered
  <2>3. name[d] # name[c]
    BY <1>1, <2>1 DEF IInv, DoubledInv, Registered
  <2>. QED BY <1>3, <2>2, <2>3
<1>9. SenderInv'
  <2>1. \A d \in Conns : handler'[d] # "none" => handler[d] # "none" /\ name'[d] = name[d]
    BY <1>1, <1>2
  <2>. QED BY <2>1, SendersUntouched DEF Unregister
<1>. QED BY <1>4, <1>5, <1>6, <1>7, <1>8, <1>9 DEF IInv

LEMMA ClosePeerInv ==
    ASSUME IInv, NEW c \in Conns, ClosePeer(c)
    PROVE  IInv'
<1>1. handler[c] = "close" /\ peers' = peers /\ doubled' = doubled \ {c}
  BY DEF ClosePeer
<1>2. /\ \A d \in Conns \ {c} : name'[d] = name[d] /\ handler'[d] = handler[d]
      /\ handler'[c] = "none"
      /\ handler' \in [Conns -> HandlerStates]
      /\ name' \in [Conns -> Names \union {None}]
  BY DEF IInv, TypeOK, ClosePeer, SetHandler
<1>3. TypeOK'
  <2>1. \A d \in doubled' : d \in Conns /\ handler'[d] \notin {"none", "start"}
    BY <1>1, <1>2 DEF IInv, TypeOK
  <2>2. socket' \in [Conns -> {"open", "cut", "closed"}]
    BY DEF IInv, TypeOK, ClosePeer
  <2>3. UNCHANGED <<listening, pc, target, peer, dialled, ret>>
    BY DEF ClosePeer, sendVars
  <2>. QED BY <1>1, <1>2, <2>1, <2>2, <2>3 DEF IInv, TypeOK
<1>4. EntryInv'
  <2>1. ASSUME NEW a \in Addrs, NEW d \in Conns, peers[a] = d
        PROVE  name'[d] = a /\ handler'[d] \in Looping \union {"handshake", "exit"}
    <3>1. name[d] = a /\ Registered(d)
      BY <2>1, TransportAssumption DEF IInv, EntryInv
    <3>. QED BY <1>1, <1>2, <3>1 DEF Registered
  <2>. QED BY <1>1, <1>3, <2>1, EntryInvPrimed
<1>5. NameInv'
  BY <1>2 DEF IInv, NameInv
<1>6. DoubledInv'
  BY <1>1, <1>2 DEF IInv, DoubledInv, Registered
<1>7. FindableInv'
  BY <1>1, <1>2 DEF IInv, FindableInv, Registered
<1>8. SenderInv'
  BY <1>2, SendersUntouched DEF ClosePeer
<1>. QED BY <1>3, <1>4, <1>5, <1>6, <1>7, <1>8 DEF IInv

-----------------------------------------------------------------------------
(* The theorems *)

LEMMA InitInv == Init => IInv
<1> SUFFICES ASSUME Init
             PROVE  IInv
  OBVIOUS
<1>1. TypeOK
  BY DEF Init, TypeOK
<1>. QED BY <1>1 DEF Init, IInv, EntryInv, NameInv, DoubledInv, FindableInv, SenderInv,
                     Registered

LEMMA NextInv == IInv /\ [Next]_vars => IInv'
<1> SUFFICES ASSUME IInv, [Next]_vars
             PROVE  IInv'
  OBVIOUS
<1>1. ASSUME NEW s \in Senders, SendStep(s)
      PROVE  IInv'
  BY <1>1, SendStepInv
<1>2. ASSUME NEW c \in Conns, HandlerStep(c)
      PROVE  IInv'
  <2>1. CASE Handshake(c)
    BY <2>1, MoveInv DEF Handshake
  <2>. QED BY <1>2, <2>1, RegisterInv, UnregisterInv, ClosePeerInv DEF HandlerStep
<1>3. ASSUME NEW c \in Conns, Decode(c) \/ DecodeError(c) \/ Deliver(c) \/ CloseStream(c)
      PROVE  IInv'
  BY <1>3, MoveInv DEF Decode, DecodeError, Deliver, CloseStream
<1>4. ASSUME NEW c \in Conns, Cut(c)
      PROVE  IInv'
  <2>1. TypeOK'
    BY <1>4 DEF IInv, TypeOK, Cut, sendVars
  <2>. QED BY <1>4, <2>1 DEF Cut, sendVars, IInv, EntryInv, NameInv, DoubledInv, FindableInv,
                             SenderInv, Registered
<1>5. CASE Close
  <2>1. TypeOK'
    BY <1>5 DEF IInv, TypeOK, Close, sendVars, connVars
  <2>. QED BY <1>5, <2>1 DEF Close, sendVars, connVars, IInv, EntryInv, NameInv, DoubledInv,
                             FindableInv, SenderInv, Registered
<1>6. CASE UNCHANGED vars
  BY <1>6 DEF vars, sendVars, connVars, IInv, TypeOK, EntryInv, NameInv, DoubledInv,
              FindableInv, SenderInv, Registered
<1>. QED BY <1>1, <1>2, <1>3, <1>4, <1>5, <1>6, AcceptInv DEF Next

(* The inductive invariant. *)
THEOREM Invariance == Spec => []IInv
BY InitInv, NextInv, PTL DEF Spec

(* The map, the goroutines and the connections are well formed. *)
THEOREM TypeCorrect == Spec => []TypeOK
<1>1. IInv => TypeOK
  BY DEF IInv
<1>. QED BY <1>1, Invariance, PTL

(* The peers map never holds a connection that handleConn has left, nor one   *)
(* under another name, for any number of connections and senders.            *)
THEOREM EntriesAreFresh == Spec => []NoStaleEntry
<1>1. IInv => NoStaleEntry
  BY DEF IInv, EntryInv, NoStaleEntry, Registered
<1>. QED BY <1>1, Invariance, PTL

(* A live connection that never shared its name is found by Send. *)
THEOREM LiveConnectionsAreFound == Spec => []LiveIsFindable
<1>1. IInv => LiveIsFindable
  BY DEF IInv, FindableInv, LiveIsFindable, Active, Registered
<1>. QED BY <1>1, Invariance, PTL

(* Send says "could not connect" beside a connection of its own that works    *)
(* only when the address is spelled otherwise or the name was shared.        *)
THEOREM GivingUpIsJustified == Spec => GivesUpOnlyUnconnected
<1> DEFINE Justified(s) ==
      pc[s] = "sleep" /\ ret'[s] = "could not connect" =>
        ~Active(dialled[s]) \/ target[s] \notin Names \/ dialled[s] \in doubled
<1>1. ASSUME IInv, [Next]_vars, NEW s \in Senders
      PROVE  Justified(s)
  <2> SUFFICES ASSUME pc[s] = "sleep", ret'[s] = "could not connect",
                      Active(dialled[s]), target[s] \in Names, dialled[s] \notin doubled
               PROVE  FALSE
    OBVIOUS
  <2>1. ret[s] = "none" /\ dialled[s] \in Conns
    BY <1>1 DEF IInv, SenderInv
  <2>2. ret' # ret
    BY <2>1
  <2>3. PICK t \in Senders : SendStep(t)
    BY <1>1, <2>2 DEF Next, vars, sendVars, HandlerStep, Register, Handshake, Unregister,
                      ClosePeer, Decode, DecodeError, Deliver, CloseStream, Cut, Accept, Close
  <2>4. t = s
    BY <1>1, <2>1, <2>3 DEF SendStep, Find, Dial, DialError, Wake, Encode, Return, IInv, TypeOK
  <2>5. peers[target[s]] = None
    BY <1>1, <2>1, <2>3, <2>4 DEF SendStep, Find, Dial, DialError, Wake, Encode, IInv, TypeOK
  <2>6. name[dialled[s]] = target[s]
    <3>1. Resolve[target[s]] \in Listen
      BY <1>1 DEF IInv, SenderInv
    <3>2. Resolve[target[s]] = target[s]
      BY <3>1, TransportAssumption DEF Names
    <3>. QED BY <1>1, <3>2 DEF IInv, SenderInv, Active
  <2>7. peers[name[dialled[s]]] = dialled[s]
    BY <1>1, <2>1 DEF IInv, FindableInv, Active, Registered
  <2>. QED BY <2>1, <2>5, <2>6, <2>7, TransportAssumption
<1>2. ASSUME IInv, [Next]_vars
      PROVE  [\A s \in Senders : Justified(s)]_vars
  BY <1>1, <1>2
<1>. QED BY <1>2, Invariance, PTL DEF Spec, GivesUpOnlyUnconnected
=============================================================================

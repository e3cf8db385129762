------------------------- MODULE BackpressureProofs -------------------------
(***************************************************************************)
(* Proofs about Backpressure, for any number of nodes and calls and any       *)
(* capacities.                                                               *)
(***************************************************************************)
EXTENDS Backpressure, TLAPS, SequenceTheorems

-----------------------------------------------------------------------------
(* Queues *)

LEMMA AppendFacts ==
    ASSUME NEW T, NEW s \in Seq(T), NEW x \in T
    PROVE  /\ Append(s, x) \in Seq(T)
           /\ Len(Append(s, x)) = Len(s) + 1
           /\ \A i \in 1..Len(s) : Append(s, x)[i] = s[i]
           /\ Append(s, x)[Len(s) + 1] = x
BY AppendProperties

LEMMA TailFacts ==
    ASSUME NEW T, NEW s \in Seq(T), s # <<>>
    PROVE  /\ Head(s) = s[1] /\ s[1] \in T /\ 1 \in 1..Len(s)
           /\ Tail(s) \in Seq(T) /\ Len(Tail(s)) = Len(s) - 1
           /\ \A i \in 1..Len(Tail(s)) : Tail(s)[i] = s[i + 1] /\ i + 1 \in 1..Len(s)
<1>1. /\ Len(s) \in Nat \ {0} /\ Head(s) = s[1] /\ s[1] \in T
      /\ Tail(s) \in Seq(T) /\ Len(Tail(s)) = Len(s) - 1
      /\ \A i \in 1..Len(Tail(s)) : Tail(s)[i] = s[i + 1]
  BY HeadTailProperties, EmptySeq, LenProperties
<1>2. \A i \in 1..Len(Tail(s)) : i + 1 \in 1..Len(s)
  BY <1>1
<1>. QED BY <1>1, <1>2

(* A queue with at least one element is not empty. *)
LEMMA NotEmpty ==
    ASSUME NEW T, NEW s \in Seq(T), Len(s) >= 1
    PROVE  s # <<>>
BY EmptySeq

(* What readLoop finds at the front of rpcCh, and what it leaves. *)
LEMMA ChannelFacts ==
    ASSUME TypeOK, NEW n \in Nodes, rpcCh[n] # <<>>,
           rpcCh' = [rpcCh EXCEPT ![n] = Tail(@)]
    PROVE  /\ Head(rpcCh[n]) \in Kinds \X Nodes /\ Head(rpcCh[n])[2] # n
           /\ rpcCh' \in [Nodes -> Seq(Kinds \X Nodes)]
           /\ \A m \in Nodes : Len(rpcCh'[m]) <= RpcChCapacity
           /\ \A m \in Nodes : \A i \in 1..Len(rpcCh'[m]) : rpcCh'[m][i][2] # m
<1>1. rpcCh \in [Nodes -> Seq(Kinds \X Nodes)] /\ Len(rpcCh[n]) <= RpcChCapacity
  BY DEF TypeOK
<1>2. /\ Head(rpcCh[n]) = rpcCh[n][1] /\ rpcCh[n][1] \in Kinds \X Nodes
      /\ 1 \in 1..Len(rpcCh[n])
      /\ Tail(rpcCh[n]) \in Seq(Kinds \X Nodes) /\ Len(Tail(rpcCh[n])) = Len(rpcCh[n]) - 1
      /\ \A i \in 1..Len(Tail(rpcCh[n])) :
           Tail(rpcCh[n])[i] = rpcCh[n][i + 1] /\ i + 1 \in 1..Len(rpcCh[n])
  BY <1>1, TailFacts
<1>3. \A i \in 1..Len(rpcCh[n]) : rpcCh[n][i][2] # n
  BY DEF TypeOK
<1>4. rpcCh'[n] = Tail(rpcCh[n]) /\ \A m \in Nodes \ {n} : rpcCh'[m] = rpcCh[m]
  BY <1>1
<1>5. Len(Tail(rpcCh[n])) <= RpcChCapacity
  BY <1>1, <1>2, LenProperties, CapacityAssumption
<1>6. \A i \in 1..Len(Tail(rpcCh[n])) : Tail(rpcCh[n])[i][2] # n
  BY <1>2, <1>3
<1>7. rpcCh' \in [Nodes -> Seq(Kinds \X Nodes)]
  BY <1>1, <1>2
<1>8. \A m \in Nodes : Len(rpcCh'[m]) <= RpcChCapacity
  BY <1>4, <1>5 DEF TypeOK
<1>9. \A m \in Nodes : \A i \in 1..Len(rpcCh'[m]) : rpcCh'[m][i][2] # m
  BY <1>4, <1>6 DEF TypeOK
<1>. QED BY <1>2, <1>3, <1>7, <1>8, <1>9

(* An answer being written goes to another node. *)
LEMMA ReplyFacts ==
    ASSUME TypeOK, NEW n \in Nodes, reply[n] # <<>>
    PROVE  /\ reply[n][1] \in Nodes /\ reply[n][1] # n
           /\ <<n, reply[n][1]>> \in Links
<1>1. reply[n] \in {<<m>> : m \in Nodes} /\ reply[n] # <<n>>
  BY DEF TypeOK
<1>2. PICK m \in Nodes : reply[n] = <<m>>
  BY <1>1
<1>3. m # n /\ reply[n][1] = m
  BY <1>1, <1>2
<1>. QED BY <1>3 DEF Links

(* A frame is written into a connection that has room. *)
LEMMA WriteFacts ==
    ASSUME TypeOK, NEW l \in Links, Fits(l), NEW k \in Kinds,
           socket' = [socket EXCEPT ![l] = Append(@, k)]
    PROVE  /\ socket' \in [Links -> Seq(Kinds)]
           /\ \A j \in Links : Len(socket'[j]) <= SocketCapacity
<1>1. socket \in [Links -> Seq(Kinds)]
  BY DEF TypeOK
<1>2. Append(socket[l], k) \in Seq(Kinds) /\ Len(Append(socket[l], k)) = Len(socket[l]) + 1
  BY <1>1, AppendFacts
<1>3. Len(socket[l]) \in Nat /\ Len(socket[l]) < SocketCapacity
  BY <1>1, LenProperties DEF Fits
<1>4. socket'[l] = Append(socket[l], k) /\ \A j \in Links \ {l} : socket'[j] = socket[j]
  BY <1>1
<1>5. Len(socket'[l]) <= SocketCapacity
  BY <1>2, <1>3, <1>4, CapacityAssumption
<1>6. socket' \in [Links -> Seq(Kinds)]
  BY <1>1, <1>2
<1>7. \A j \in Links : Len(socket'[j]) <= SocketCapacity
  BY <1>4, <1>5 DEF TypeOK
<1>. QED BY <1>6, <1>7

-----------------------------------------------------------------------------
(* The steps *)

LEMMA LinkStepType ==
    ASSUME TypeOK, NEW l \in Links, Issue(l) \/ Write(l) \/ Receive(l) \/ Deliver(l)
    PROVE  TypeOK'
<1>l. l[1] \in Nodes /\ l[2] \in Nodes /\ l[1] # l[2]
  BY DEF Links
<1>1. CASE Issue(l)
  <2>1. /\ made' = [made EXCEPT ![l] = @ + 1] /\ made[l] < MaxCalls
        /\ open' = [open EXCEPT ![l] = @ + 1]
        /\ sending' = [sending EXCEPT ![l] = @ + 1]
        /\ UNCHANGED <<socket, hand, rpcCh, reply>>
    BY <1>1 DEF Issue
  <2>2. made' \in [Links -> 0..MaxCalls]
    BY <2>1, CapacityAssumption DEF TypeOK
  <2>3. open' \in [Links -> Int] /\ sending' \in [Links -> Nat]
    BY <2>1 DEF TypeOK
  <2>. QED BY <2>1, <2>2, <2>3 DEF TypeOK
<1>2. CASE Write(l)
  <2>1. /\ sending[l] > 0 /\ Fits(l)
        /\ socket' = [socket EXCEPT ![l] = Append(@, "request")]
        /\ sending' = [sending EXCEPT ![l] = @ - 1]
        /\ UNCHANGED <<made, open, hand, rpcCh, reply>>
    BY <1>2 DEF Write
  <2>2. sending' \in [Links -> Nat]
    BY <2>1 DEF TypeOK
  <2>3. /\ socket' \in [Links -> Seq(Kinds)]
        /\ \A j \in Links : Len(socket'[j]) <= SocketCapacity
    BY <2>1, WriteFacts DEF Kinds
  <2>. QED BY <2>1, <2>2, <2>3 DEF TypeOK
<1>3. CASE Receive(l)
  <2>1. /\ hand[l] = <<>> /\ socket[l] # <<>>
        /\ hand' = [hand EXCEPT ![l] = <<Head(socket[l])>>]
        /\ socket' = [socket EXCEPT ![l] = Tail(@)]
        /\ UNCHANGED <<made, open, sending, rpcCh, reply>>
    BY <1>3 DEF Receive, callVars
  <2>2. socket \in [Links -> Seq(Kinds)] /\ Len(socket[l]) <= SocketCapacity
    BY DEF TypeOK
  <2>3. /\ Head(socket[l]) \in Kinds /\ Tail(socket[l]) \in Seq(Kinds)
        /\ Len(Tail(socket[l])) = Len(socket[l]) - 1
    BY <2>1, <2>2, TailFacts
  <2>4. Len(Tail(socket[l])) <= SocketCapacity
    BY <2>2, <2>3, LenProperties, CapacityAssumption
  <2>5. socket' \in [Links -> Seq(Kinds)] /\ socket'[l] = Tail(socket[l])
        /\ \A j \in Links \ {l} : socket'[j] = socket[j]
    BY <2>1, <2>2, <2>3
  <2>6. \A j \in Links : Len(socket'[j]) <= SocketCapacity
    BY <2>4, <2>5 DEF TypeOK
  <2>7. hand' \in [Links -> {<<>>} \union {<<k>> : k \in Kinds}]
    BY <2>1, <2>3 DEF TypeOK
  <2>. QED BY <2>1, <2>5, <2>6, <2>7 DEF TypeOK
<1>4. CASE Deliver(l)
  <2> DEFINE n == l[2]
             x == <<hand[l][1], l[1]>>
  <2>1. /\ hand[l] # <<>> /\ HasRoom(n)
        /\ rpcCh' = [rpcCh EXCEPT ![n] = Append(@, x)]
        /\ hand' = [hand EXCEPT ![l] = <<>>]
        /\ UNCHANGED <<made, open, sending, socket, reply>>
    BY <1>4 DEF Deliver, callVars
  <2>2. x \in Kinds \X Nodes /\ x[2] # n
    BY <1>l, <2>1 DEF TypeOK
  <2>3. rpcCh \in [Nodes -> Seq(Kinds \X Nodes)] /\ n \in Nodes
    BY <1>l DEF TypeOK
  <2> HIDE DEF x, n
  <2>4. /\ Append(rpcCh[n], x) \in Seq(Kinds \X Nodes)
        /\ Len(Append(rpcCh[n], x)) = Len(rpcCh[n]) + 1
        /\ \A i \in 1..Len(rpcCh[n]) : Append(rpcCh[n], x)[i] = rpcCh[n][i]
        /\ Append(rpcCh[n], x)[Len(rpcCh[n]) + 1] = x
    BY <2>2, <2>3, AppendFacts
  <2>5. Len(rpcCh[n]) \in Nat /\ Len(rpcCh[n]) < RpcChCapacity
    BY <2>1, <2>3, LenProperties DEF HasRoom
  <2>6. rpcCh'[n] = Append(rpcCh[n], x) /\ \A m \in Nodes \ {n} : rpcCh'[m] = rpcCh[m]
    BY <2>1, <2>3
  <2>7. rpcCh' \in [Nodes -> Seq(Kinds \X Nodes)]
    BY <2>1, <2>3, <2>4
  <2>8. Len(rpcCh'[n]) <= RpcChCapacity
    BY <2>4, <2>5, <2>6, CapacityAssumption
  <2>9. \A i \in 1..Len(rpcCh'[n]) : rpcCh'[n][i][2] # n
    <3>1. \A i \in 1..Len(rpcCh'[n]) : i \in 1..Len(rpcCh[n]) \/ i = Len(rpcCh[n]) + 1
      BY <2>4, <2>5, <2>6
    <3>2. \A i \in 1..Len(rpcCh[n]) : rpcCh[n][i][2] # n
      BY <2>3 DEF TypeOK
    <3>. QED BY <2>2, <2>4, <2>6, <3>1, <3>2
  <2>10. /\ \A m \in Nodes : Len(rpcCh'[m]) <= RpcChCapacity
         /\ \A m \in Nodes : \A i \in 1..Len(rpcCh'[m]) : rpcCh'[m][i][2] # m
    BY <2>6, <2>8, <2>9 DEF TypeOK
  <2>11. hand' \in [Links -> {<<>>} \union {<<k>> : k \in Kinds}]
    BY <2>1 DEF TypeOK
  <2>. QED BY <2>1, <2>7, <2>10, <2>11 DEF TypeOK
<1>. QED BY <1>1, <1>2, <1>3, <1>4

LEMMA ReaderStepType ==
    ASSUME TypeOK, NEW n \in Nodes, HandleRequest(n) \/ TakeAnswer(n) \/ Reply(n)
    PROVE  TypeOK'
<1>1. CASE HandleRequest(n)
  <2>1. /\ rpcCh[n] # <<>> /\ rpcCh' = [rpcCh EXCEPT ![n] = Tail(@)]
        /\ reply' = [reply EXCEPT ![n] = <<Head(rpcCh[n])[2]>>]
        /\ UNCHANGED <<made, open, sending, socket, hand>>
    BY <1>1 DEF HandleRequest, callVars
  <2>2. Head(rpcCh[n])[2] \in Nodes /\ Head(rpcCh[n])[2] # n
    BY <2>1, ChannelFacts
  <2>3. reply' \in [Nodes -> {<<>>} \union {<<m>> : m \in Nodes}]
    BY <2>1, <2>2 DEF TypeOK
  <2>4. \A m \in Nodes : reply'[m] # <<m>>
    BY <2>1, <2>2 DEF TypeOK
  <2>5. TypeOK!7' /\ TypeOK!8' /\ TypeOK!9'
    BY <2>1, ChannelFacts
  <2>. QED BY <2>1, <2>3, <2>4, <2>5 DEF TypeOK
<1>2. CASE TakeAnswer(n)
  <2> DEFINE l == <<n, Head(rpcCh[n])[2]>>
  <2>1. /\ rpcCh[n] # <<>> /\ rpcCh' = [rpcCh EXCEPT ![n] = Tail(@)]
        /\ open' = [open EXCEPT ![l] = @ - 1]
        /\ UNCHANGED <<made, sending, socket, hand, reply>>
    BY <1>2 DEF TakeAnswer
  <2>2. l \in Links
    BY <2>1, ChannelFacts DEF Links
  <2>3. open' \in [Links -> Int]
    BY <2>1, <2>2 DEF TypeOK
  <2>4. TypeOK!7' /\ TypeOK!8' /\ TypeOK!9'
    BY <2>1, ChannelFacts
  <2>. QED BY <2>1, <2>3, <2>4 DEF TypeOK
<1>3. CASE Reply(n)
  <2> DEFINE l == <<n, reply[n][1]>>
  <2>1. /\ reply[n] # <<>> /\ Fits(l)
        /\ socket' = [socket EXCEPT ![l] = Append(@, "answer")]
        /\ reply' = [reply EXCEPT ![n] = <<>>]
        /\ UNCHANGED <<made, open, sending, hand, rpcCh>>
    BY <1>3 DEF Reply, callVars
  <2>2. l \in Links
    BY <2>1, ReplyFacts
  <2>3. /\ socket' \in [Links -> Seq(Kinds)]
        /\ \A j \in Links : Len(socket'[j]) <= SocketCapacity
    BY <2>1, <2>2, WriteFacts DEF Kinds
  <2>4. reply' \in [Nodes -> {<<>>} \union {<<m>> : m \in Nodes}]
    BY <2>1 DEF TypeOK
  <2>5. \A m \in Nodes : reply'[m] # <<m>>
    BY <2>1 DEF TypeOK
  <2>. QED BY <2>1, <2>3, <2>4, <2>5 DEF TypeOK
<1>. QED BY <1>1, <1>2, <1>3

LEMMA InitType == Init => TypeOK
<1> SUFFICES ASSUME Init
             PROVE  TypeOK
  OBVIOUS
<1>1. /\ \A l \in Links : Len(socket[l]) <= SocketCapacity
      /\ \A n \in Nodes : Len(rpcCh[n]) <= RpcChCapacity /\ 1..Len(rpcCh[n]) = {}
  BY CapacityAssumption DEF Init
<1>2. made \in [Links -> 0..MaxCalls]
  BY CapacityAssumption DEF Init
<1>. QED BY <1>1, <1>2 DEF Init, TypeOK

LEMMA NextType == TypeOK /\ [Next]_vars => TypeOK'
<1> SUFFICES ASSUME TypeOK, [Next]_vars
             PROVE  TypeOK'
  OBVIOUS
<1>1. CASE UNCHANGED vars
  BY <1>1 DEF vars, callVars, TypeOK
<1>. QED BY <1>1, LinkStepType, ReaderStepType DEF Next

(* The buffers never hold more than they have places for, and a message in     *)
(* rpcCh or an answer being written belongs to another node.                 *)
THEOREM TypeCorrect == Spec => []TypeOK
BY InitType, NextType, PTL DEF Spec

-----------------------------------------------------------------------------
(* The anatomy of a standstill *)

(* When nobody can go on, a connection with a frame in it ends at a node whose *)
(* rpcCh is full and whose readLoop waits to write an answer.                *)
LEMMA FullEnd ==
    ASSUME TypeOK, Stuck, NEW l \in Links, socket[l] # <<>> \/ hand[l] # <<>>
    PROVE  /\ hand[l] # <<>>
           /\ Len(rpcCh[l[2]]) = RpcChCapacity
           /\ reply[l[2]] # <<>>
<1>1. l[2] \in Nodes /\ rpcCh[l[2]] \in Seq(Kinds \X Nodes)
  BY DEF Links, TypeOK
<1>2. hand[l] # <<>> /\ ~HasRoom(l[2])
  BY DEF Stuck
<1>3. Len(rpcCh[l[2]]) = RpcChCapacity
  BY <1>1, <1>2, LenProperties, CapacityAssumption DEF HasRoom, TypeOK
<1>4. rpcCh[l[2]] # <<>>
  BY <1>1, <1>3, NotEmpty, CapacityAssumption
<1>. QED BY <1>1, <1>2, <1>3, <1>4 DEF Stuck

(* A connection without room has a frame in it. *)
LEMMA FullConnection ==
    ASSUME TypeOK, NEW l \in Links, ~Fits(l)
    PROVE  socket[l] # <<>> /\ Len(socket[l]) = SocketCapacity
<1>1. socket[l] \in Seq(Kinds) /\ Len(socket[l]) \in Nat /\ Len(socket[l]) <= SocketCapacity
  BY LenProperties DEF TypeOK
<1>2. Len(socket[l]) = SocketCapacity
  BY <1>1, CapacityAssumption DEF Fits
<1>. QED BY <1>1, <1>2, NotEmpty, CapacityAssumption

(* And a readLoop that waits does so for another such node. *)
LEMMA NextInRing ==
    ASSUME TypeOK, Stuck, NEW n \in Nodes, reply[n] # <<>>
    PROVE  /\ reply[n][1] \in Nodes /\ <<n, reply[n][1]>> \in Links
           /\ Len(socket[<<n, reply[n][1]>>]) = SocketCapacity
           /\ hand[<<n, reply[n][1]>>] # <<>>
           /\ Len(rpcCh[reply[n][1]]) = RpcChCapacity
           /\ reply[reply[n][1]] # <<>>
<1> DEFINE m == reply[n][1]
           l == <<n, m>>
<1>1. m \in Nodes /\ l \in Links /\ l[2] = m
  BY ReplyFacts
<1>2. ~Fits(l)
  BY DEF Stuck
<1>3. socket[l] # <<>> /\ Len(socket[l]) = SocketCapacity
  BY <1>1, <1>2, FullConnection
<1>4. hand[l] # <<>> /\ Len(rpcCh[l[2]]) = RpcChCapacity /\ reply[l[2]] # <<>>
  BY <1>1, <1>3, FullEnd
<1>. QED BY <1>1, <1>3, <1>4

(* The system stops with messages under way only in a ring of nodes that wait  *)
(* for each other with every rpcCh full, for any number of nodes and calls and *)
(* any capacities.                                                           *)
THEOREM StandstillIsARing == Spec => []StuckOnlyInARing
<1>1. TypeOK => StuckOnlyInARing
  <2> SUFFICES ASSUME TypeOK, Stuck
               PROVE  Deadlocked
    BY DEF StuckOnlyInARing
  <2> DEFINE S == {n \in Nodes : reply[n] # <<>> /\ Len(rpcCh[n]) = RpcChCapacity}
  <2>1. \E n \in Nodes : reply[n] # <<>>
    <3>1. CASE \E l \in Links : sending[l] > 0 \/ socket[l] # <<>> \/ hand[l] # <<>>
      <4>1. PICK l \in Links : sending[l] > 0 \/ socket[l] # <<>> \/ hand[l] # <<>>
        BY <3>1
      <4>2. sending[l] > 0 => ~Fits(l)
        BY DEF Stuck
      <4>3. socket[l] # <<>> \/ hand[l] # <<>>
        BY <4>1, <4>2, FullConnection
      <4>4. l[2] \in Nodes
        BY DEF Links
      <4>. QED BY <4>3, <4>4, FullEnd
    <3>2. CASE \E n \in Nodes : rpcCh[n] # <<>> \/ reply[n] # <<>>
      BY <3>2 DEF Stuck
    <3>. QED BY <3>1, <3>2 DEF Stuck
  <2>2. S # {}
    BY <2>1, NextInRing
  <2>3. \A n \in S : /\ reply[n][1] \in S \ {n}
                     /\ Len(socket[<<n, reply[n][1]>>]) = SocketCapacity
                     /\ hand[<<n, reply[n][1]>>] # <<>>
    BY NextInRing, ReplyFacts
  <2>4. Ring(S)
    BY <2>2, <2>3 DEF Ring
  <2>. QED BY <2>4 DEF Deadlocked
<1>. QED BY <1>1, TypeCorrect, PTL

(* No step of the nodes in a ring, or of any other, frees any of them: the code *)
(* has no timeout there.                                                     *)
THEOREM RingIsForGood == Spec => [][\A S \in SUBSET Nodes : Ring(S) => Ring(S)']_vars
<1>1. ASSUME TypeOK, [Next]_vars, NEW S \in SUBSET Nodes, Ring(S)
      PROVE  Ring(S)'
  <2>1. \A n \in S : /\ n \in Nodes /\ reply[n] # <<>> /\ reply[n][1] \in S
                     /\ <<n, reply[n][1]>> \in Links
    BY <1>1, ReplyFacts DEF Ring
  <2>2. \A n \in S : /\ reply'[n] = reply[n] /\ rpcCh'[n] = rpcCh[n]
                     /\ socket'[<<n, reply[n][1]>>] = socket[<<n, reply[n][1]>>]
                     /\ hand'[<<n, reply[n][1]>>] = hand[<<n, reply[n][1]>>]
    <3> SUFFICES ASSUME NEW n \in S
                 PROVE  /\ reply'[n] = reply[n] /\ rpcCh'[n] = rpcCh[n]
                        /\ socket'[<<n, reply[n][1]>>] = socket[<<n, reply[n][1]>>]
                        /\ hand'[<<n, reply[n][1]>>] = hand[<<n, reply[n][1]>>]
      OBVIOUS
    <3> DEFINE m == reply[n][1]
               k == <<n, m>>
    <3>1. /\ ~Fits(k) /\ hand[k] # <<>> /\ ~HasRoom(n) /\ ~HasRoom(m)
          /\ reply[n] # <<>> /\ k[1] = n /\ k[2] = m /\ k \in Links
      <4>1. m \in S /\ k \in Links
        BY <2>1
      <4>2. /\ Len(rpcCh[n]) = RpcChCapacity /\ Len(rpcCh[m]) = RpcChCapacity
            /\ Len(socket[k]) = SocketCapacity /\ hand[k] # <<>> /\ reply[n] # <<>>
        BY <1>1, <4>1 DEF Ring
      <4>. QED BY <4>1, <4>2, CapacityAssumption DEF Fits, HasRoom
    <3> HIDE DEF m, k
    <3>2. ASSUME NEW l \in Links, Issue(l) \/ Write(l) \/ Receive(l) \/ Deliver(l)
          PROVE  reply'[n] = reply[n] /\ rpcCh'[n] = rpcCh[n] /\ socket'[k] = socket[k]
                 /\ hand'[k] = hand[k]
      <4>1. CASE Issue(l)
        BY <4>1 DEF Issue
      <4>2. CASE Write(l)
        BY <1>1, <3>1, <4>2 DEF Write, TypeOK
      <4>3. CASE Receive(l)
        BY <1>1, <3>1, <4>3 DEF Receive, TypeOK
      <4>4. CASE Deliver(l)
        BY <1>1, <3>1, <4>4 DEF Deliver, TypeOK
      <4>. QED BY <3>2, <4>1, <4>2, <4>3, <4>4
    <3>3. ASSUME NEW p \in Nodes, HandleRequest(p) \/ TakeAnswer(p) \/ Reply(p)
          PROVE  reply'[n] = reply[n] /\ rpcCh'[n] = rpcCh[n] /\ socket'[k] = socket[k]
                 /\ hand'[k] = hand[k]
      <4>1. CASE HandleRequest(p)
        BY <1>1, <2>1, <3>1, <4>1 DEF HandleRequest, TypeOK
      <4>2. CASE TakeAnswer(p)
        BY <1>1, <2>1, <3>1, <4>2 DEF TakeAnswer, TypeOK
      <4>3. CASE Reply(p)
        <5>1. p # n
          BY <3>1, <4>3 DEF Reply, k, m
        <5>2. <<p, reply[p][1]>> # k
          BY <3>1, <5>1
        <5>. QED BY <1>1, <2>1, <5>1, <5>2, <4>3 DEF Reply, TypeOK
      <4>. QED BY <3>3, <4>1, <4>2, <4>3
    <3>4. CASE UNCHANGED vars
      BY <3>4 DEF vars
    <3>. QED BY <1>1, <3>2, <3>3, <3>4 DEF Next, m, k
  <2>3. \A n \in S :
          /\ Len(rpcCh'[n]) = RpcChCapacity
          /\ reply'[n] # <<>>
          /\ reply'[n][1] \in S \ {n}
          /\ Len(socket'[<<n, reply'[n][1]>>]) = SocketCapacity
          /\ hand'[<<n, reply'[n][1]>>] # <<>>
    <3> SUFFICES ASSUME NEW n \in S
                 PROVE  /\ Len(rpcCh'[n]) = RpcChCapacity
                        /\ reply'[n] # <<>>
                        /\ reply'[n][1] \in S \ {n}
                        /\ Len(socket'[<<n, reply'[n][1]>>]) = SocketCapacity
                        /\ hand'[<<n, reply'[n][1]>>] # <<>>
      OBVIOUS
    <3>1. /\ Len(rpcCh[n]) = RpcChCapacity /\ reply[n] # <<>> /\ reply[n][1] \in S \ {n}
          /\ Len(socket[<<n, reply[n][1]>>]) = SocketCapacity
          /\ hand[<<n, reply[n][1]>>] # <<>>
      BY <1>1 DEF Ring
    <3>2. reply'[n] = reply[n] /\ rpcCh'[n] = rpcCh[n]
      BY <2>2
    <3>3. /\ socket'[<<n, reply'[n][1]>>] = socket[<<n, reply[n][1]>>]
          /\ hand'[<<n, reply'[n][1]>>] = hand[<<n, reply[n][1]>>]
      BY <2>2, <3>2
    <3>. QED BY <3>1, <3>2, <3>3
  <2>. QED BY <1>1, <2>3 DEF Ring
<1>2. ASSUME TypeOK, [Next]_vars
      PROVE  [\A S \in SUBSET Nodes : Ring(S) => Ring(S)']_vars
  BY <1>1, <1>2
<1>. QED BY <1>2, TypeCorrect, PTL DEF Spec
=============================================================================

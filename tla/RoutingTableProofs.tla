------------------------- MODULE RoutingTableProofs -------------------------
(***************************************************************************)
(* Proofs about RoutingTable, for every ID length, bucket capacity, own ID    *)
(* and sequence of contacts.                                                 *)
(***************************************************************************)
EXTENDS RoutingTable, TLAPS, SequenceTheorems, FiniteSetTheorems, WellFoundedInduction

-----------------------------------------------------------------------------
(* The operators *)

LEMMA LeastElement ==
    ASSUME NEW T \in SUBSET Nat, T # {}
    PROVE  \E x \in T : \A y \in T : x <= y
<1> DEFINE R == {ss \in Nat \X Nat : ss[1] < ss[2]}
<1>1. IsWellFoundedOn(R, Nat)
  BY NatLessThanWellFounded, Zenon DEF OpToRel
<1>2. PICK x \in T : \A y \in T : ~(<<y, x>> \in R)
  <2> HIDE DEF R
  <2>. QED BY <1>1, WFMin
<1>3. \A y \in T : x <= y
  <2> SUFFICES ASSUME NEW y \in T, y < x PROVE FALSE
    OBVIOUS
  <2>1. <<y, x>> \in R
    OBVIOUS
  <2>. QED BY <1>2, <2>1
<1>. QED BY <1>3

(* A non-empty set of naturals has a minimum, and Min is it. *)
LEMMA MinFacts ==
    ASSUME NEW T \in SUBSET Nat, T # {}
    PROVE  Min(T) \in T /\ \A y \in T : Min(T) <= y
BY LeastElement DEF Min

(* Induction, for a set of numbers. *)
LEMMA NatSetInduction ==
    ASSUME NEW S \in SUBSET Nat, 0 \in S, \A n \in S : n + 1 \in S
    PROVE  S = Nat
<1> SUFFICES ASSUME Nat \ S # {} PROVE FALSE
  OBVIOUS
<1>1. PICK x \in Nat \ S : \A y \in Nat \ S : x <= y
  BY LeastElement
<1>2. x - 1 \in Nat /\ x - 1 \in S
  BY <1>1
<1>. QED BY <1>1, <1>2

(* Every ID has a bucket. *)
LEMMA BucketIndexType ==
    ASSUME NEW self \in ID, NEW id \in ID
    PROVE  bucketIndex(self, id) \in BucketIndices
<1> DEFINE d == XOR(self, id)
<1>1. Ones(d) \in SUBSET Nat /\ Ones(d) \subseteq 1..IDBits
  BY IDBitsAssumption DEF Ones
<1>2. PrefixLen(d) \in 0..IDBits
  <2>1. CASE Ones(d) = {}
    BY <2>1, IDBitsAssumption DEF PrefixLen
  <2>2. CASE Ones(d) # {}
    <3>1. Min(Ones(d)) \in 1..IDBits
      BY <1>1, <2>2, MinFacts
    <3>. QED BY <2>2, <3>1, IDBitsAssumption DEF PrefixLen
  <2>. QED BY <2>1, <2>2
<1>. QED BY <1>2, IDBitsAssumption DEF bucketIndex, BucketIndices

(* touch permutes the bucket: position i comes first, the ones before it move *)
(* back by one.                                                              *)
LEMMA TouchFacts ==
    ASSUME NEW b \in Seq(Contact), NEW i \in 1..Len(b), NEW t \in Nat
    PROVE  /\ touch(b, i, t) \in Seq(Contact)
           /\ Len(touch(b, i, t)) = Len(b)
           /\ touch(b, i, t)[1] = [b[i] EXCEPT !.seen = t]
           /\ \A j \in 2..i : touch(b, i, t)[j] = b[j-1]
           /\ \A j \in i+1..Len(b) : touch(b, i, t)[j] = b[j]
<1> DEFINE c == [b[i] EXCEPT !.seen = t]
           front == SubSeq(b, 1, i-1)
           back == SubSeq(b, i+1, Len(b))
           head == <<c>> \o front
<1>1. c \in Contact
  <2>1. b[i] \in Contact
    BY ElementOfSeq
  <2>. QED BY <2>1 DEF Contact
<1>2. /\ front \in Seq(Contact) /\ Len(front) = i - 1
      /\ \A j \in 1..i-1 : front[j] = b[j]
  BY ElementOfSeq, SubSeqProperties
<1>3. /\ back \in Seq(Contact) /\ Len(back) = Len(b) - i
      /\ \A j \in 1..Len(b)-i : back[j] = b[i+j]
  BY ElementOfSeq, SubSeqProperties
<1>4. <<c>> \in Seq(Contact) /\ Len(<<c>>) = 1 /\ <<c>>[1] = c
  BY <1>1
<1>5. touch(b, i, t) = head \o back
  BY DEF touch
<1> HIDE DEF c, front, back
<1>6. /\ head \in Seq(Contact)
      /\ Len(head) = i
      /\ head[1] = c
      /\ \A j \in 2..i : head[j] = b[j-1]
  BY <1>2, <1>4, ConcatProperties
<1>7. /\ touch(b, i, t) \in Seq(Contact)
      /\ Len(touch(b, i, t)) = Len(b)
      /\ \A j \in 1..i : touch(b, i, t)[j] = head[j]
      /\ \A j \in i+1..Len(b) : touch(b, i, t)[j] = back[j - i]
  <2> HIDE DEF head
  <2>1. /\ head \o back \in Seq(Contact)
        /\ Len(head \o back) = Len(head) + Len(back)
        /\ \A j \in 1..Len(head) + Len(back) : (head \o back)[j] =
              IF j <= Len(head) THEN head[j] ELSE back[j - Len(head)]
    BY <1>3, <1>6, ConcatProperties
  <2>. QED BY <1>3, <1>5, <1>6, <2>1
<1>8. \A j \in i+1..Len(b) : back[j - i] = b[j]
  BY <1>3
<1>9. /\ touch(b, i, t)[1] = c
      /\ \A j \in 2..i : touch(b, i, t)[j] = b[j-1]
      /\ \A j \in i+1..Len(b) : touch(b, i, t)[j] = b[j]
  <2> HIDE DEF head
  <2>1. 1 \in 1..i /\ \A j \in 2..i : j \in 1..i
    OBVIOUS
  <2>. QED BY <1>6, <1>7, <1>8, <2>1
<1>. QED BY <1>7, <1>9 DEF c

(* add prepends and keeps at most K contacts. *)
LEMMA AddFacts ==
    ASSUME NEW b \in Seq(Contact), NEW c \in Contact
    PROVE  /\ add(b, c) \in Seq(Contact)
           /\ Len(add(b, c)) = IF Len(b) + 1 > K THEN K ELSE Len(b) + 1
           /\ add(b, c)[1] = c
           /\ \A j \in 2..Len(add(b, c)) : add(b, c)[j] = b[j-1]
<1> DEFINE longer == <<c>> \o b
<1>1. <<c>> \in Seq(Contact) /\ Len(<<c>>) = 1 /\ <<c>>[1] = c
  OBVIOUS
<1>2. /\ longer \in Seq(Contact)
      /\ Len(longer) = Len(b) + 1
      /\ longer[1] = c
      /\ \A j \in 2..Len(b)+1 : longer[j] = b[j-1]
  BY <1>1, ConcatProperties
<1>3. add(b, c) = IF Len(longer) > K THEN SubSeq(longer, 1, K) ELSE longer
  BY DEF add
<1> HIDE DEF longer
<1>4. CASE Len(longer) > K
  <2>1. \A j \in 1..K : longer[j] \in Contact
    BY <1>2, <1>4, KAssumption, ElementOfSeq
  <2>2. /\ SubSeq(longer, 1, K) \in Seq(Contact)
        /\ Len(SubSeq(longer, 1, K)) = K
        /\ \A j \in 1..K : SubSeq(longer, 1, K)[j] = longer[j]
    BY <2>1, KAssumption, SubSeqProperties
  <2>. QED BY <1>2, <1>3, <1>4, <2>2, KAssumption
<1>5. CASE ~(Len(longer) > K)
  BY <1>2, <1>3, <1>5, KAssumption
<1>. QED BY <1>4, <1>5

(* Refreshing a contact of a good bucket: the same IDs, a good bucket again. *)
LEMMA TouchGood ==
    ASSUME NEW i, NEW b \in Seq(Contact), NEW t \in Nat, GoodBucket(i, b, t),
           NEW k \in 1..Len(b)
    PROVE  /\ GoodBucket(i, touch(b, k, t), t)
           /\ \A id : Positions(touch(b, k, t), id) # {} <=> Positions(b, id) # {}
<1> DEFINE u == touch(b, k, t)
           src == [j \in 1..Len(b) |->
                    IF j = 1 THEN k ELSE IF j <= k THEN j - 1 ELSE j]
<1>1. u \in Seq(Contact) /\ Len(u) = Len(b) /\ Len(b) \in Nat
  BY TouchFacts, LenProperties
<1>2. \A j \in 1..Len(b) : b[j] \in Contact /\ u[j] \in Contact
  BY <1>1, ElementOfSeq
<1>3. /\ \A j \in 1..Len(b) : src[j] \in 1..Len(b)
      /\ \A j, l \in 1..Len(b) : src[j] = src[l] => j = l
      /\ \A j, l \in 2..Len(b) : j <= l => src[j] <= src[l]
      /\ \A l \in 1..Len(b) : \E j \in 1..Len(b) : src[j] = l
  <2>1. \A l \in 1..Len(b) : \E j \in 1..Len(b) : src[j] = l
    <3> SUFFICES ASSUME NEW l \in 1..Len(b)
                 PROVE  \E j \in 1..Len(b) : src[j] = l
      OBVIOUS
    <3>1. CASE l = k
      BY <3>1
    <3>2. CASE l < k
      <4>1. l + 1 \in 1..Len(b) /\ src[l + 1] = l
        BY <3>2
      <4>. QED BY <4>1
    <3>3. CASE l > k
      <4>1. src[l] = l
        BY <3>3
      <4>. QED BY <4>1
    <3>. QED BY <3>1, <3>2, <3>3
  <2>2. \A j \in 1..Len(b) : src[j] \in 1..Len(b)
    BY <1>1
  <2>3. \A j, l \in 1..Len(b) : src[j] = src[l] => j = l
    BY <1>1
  <2>4. \A j, l \in 2..Len(b) : j <= l => src[j] <= src[l]
    BY <1>1
  <2>. QED BY <2>1, <2>2, <2>3, <2>4
<1>4. /\ u[1] = [b[k] EXCEPT !.seen = t]
      /\ \A j \in 2..Len(b) : u[j] = b[src[j]]
  <2>1. /\ u[1] = [b[k] EXCEPT !.seen = t]
        /\ \A j \in 2..k : u[j] = b[j-1]
        /\ \A j \in k+1..Len(b) : u[j] = b[j]
    BY TouchFacts
  <2> HIDE DEF u
  <2>2. \A j \in 2..Len(b) : /\ j \in 1..Len(b)
                             /\ j \in 2..k \/ j \in k+1..Len(b)
    BY <1>1
  <2>3. \A j \in 2..k : j \in 2..Len(b) => src[j] = j - 1
    BY <1>1
  <2>4. \A j \in k+1..Len(b) : src[j] = j
    BY <1>1
  <2>. QED BY <2>1, <2>2, <2>3, <2>4
<1>5. u[1].id = b[k].id /\ u[1].seen = t
  BY <1>2, <1>4 DEF Contact
<1>6. /\ \A j \in 1..Len(b) : u[j].id = b[src[j]].id
      /\ \A j \in 2..Len(b) : u[j].seen = b[src[j]].seen
  <2>1. src[1] = k /\ \A j \in 1..Len(b) : j = 1 \/ j \in 2..Len(b)
    BY <1>1
  <2>. QED BY <1>4, <1>5, <2>1
<1> HIDE DEF u, src
<1>7. GoodBucket(i, u, t)
  <2>1. \A p \in 1..Len(u) : /\ u[p].id # Self
                             /\ bucketIndex(Self, u[p].id) = i
                             /\ u[p].seen <= t
    <3> SUFFICES ASSUME NEW p \in 1..Len(b)
                 PROVE  /\ u[p].id # Self
                        /\ bucketIndex(Self, u[p].id) = i
                        /\ u[p].seen <= t
      BY <1>1
    <3>1. src[p] \in 1..Len(b) /\ u[p].id = b[src[p]].id
      BY <1>3, <1>6
    <3>2. p = 1 \/ p \in 2..Len(b)
      BY <1>1
    <3>3. u[p].seen <= t
      BY <1>5, <1>6, <3>1, <3>2 DEF GoodBucket
    <3>. QED BY <3>1, <3>3 DEF GoodBucket
  <2>2. \A p, q \in 1..Len(u) : u[p].id = u[q].id => p = q
    <3> SUFFICES ASSUME NEW p \in 1..Len(b), NEW q \in 1..Len(b),
                        u[p].id = u[q].id
                 PROVE  p = q
      BY <1>1
    <3>1. /\ src[p] \in 1..Len(b) /\ u[p].id = b[src[p]].id
          /\ src[q] \in 1..Len(b) /\ u[q].id = b[src[q]].id
      BY <1>3, <1>6
    <3>2. src[p] = src[q]
      BY <3>1 DEF GoodBucket
    <3>. QED BY <1>3, <3>2
  <2>3. \A p, q \in 1..Len(u) : p <= q => u[q].seen <= u[p].seen
    <3> SUFFICES ASSUME NEW p \in 1..Len(u), NEW q \in 1..Len(u), p <= q
                 PROVE  u[q].seen <= u[p].seen
      OBVIOUS
    <3>1. CASE p = 1
      BY <1>5, <2>1, <3>1
    <3>2. CASE p # 1
      <4>1. p \in 2..Len(b) /\ q \in 2..Len(b)
        BY <1>1, <3>2
      <4>2. /\ u[p].seen = b[src[p]].seen /\ u[q].seen = b[src[q]].seen
            /\ src[p] \in 1..Len(b) /\ src[q] \in 1..Len(b)
            /\ src[p] <= src[q]
        BY <1>1, <1>3, <1>6, <4>1
      <4>. QED BY <4>2 DEF GoodBucket
    <3>. QED BY <3>1, <3>2
  <2>. QED BY <1>1, <2>1, <2>2, <2>3 DEF GoodBucket
<1>8. \A id : Positions(u, id) # {} <=> Positions(b, id) # {}
  <2> SUFFICES ASSUME NEW id
               PROVE  Positions(u, id) # {} <=> Positions(b, id) # {}
    OBVIOUS
  <2>1. ASSUME NEW p \in 1..Len(b), u[p].id = id PROVE Positions(b, id) # {}
    <3>1. src[p] \in Positions(b, id)
      BY <1>3, <1>6, <2>1 DEF Positions
    <3>. QED BY <3>1
  <2>2. ASSUME NEW q \in 1..Len(b), b[q].id = id PROVE Positions(u, id) # {}
    <3>1. PICK p \in 1..Len(b) : src[p] = q
      BY <1>3
    <3>2. p \in Positions(u, id)
      BY <1>1, <1>6, <2>2, <3>1 DEF Positions
    <3>. QED BY <3>2
  <2>. QED BY <1>1, <2>1, <2>2 DEF Positions
<1>. QED BY <1>7, <1>8 DEF u

(* The only ID that bucket b has and bucket u lacks is the last of a full b. *)
OnlyLastLost(b, u) ==
    \A x : Positions(b, x) # {} /\ Positions(u, x) = {} =>
             Len(b) = K /\ b[K].id = x

(* The buckets have the same IDs. *)
SameIDs(b, u) == \A x : Positions(u, x) # {} <=> Positions(b, x) # {}

(* A stranger in a good bucket: a good bucket again, without at most the last *)
(* contact of a full one.                                                    *)
LEMMA AddGood ==
    ASSUME NEW i, NEW b \in Seq(Contact), NEW t \in Nat, GoodBucket(i, b, t),
           NEW c \in Contact, c.id # Self, bucketIndex(Self, c.id) = i,
           c.seen = t, Positions(b, c.id) = {}
    PROVE  /\ GoodBucket(i, add(b, c), t)
           /\ Positions(add(b, c), c.id) # {}
           /\ OnlyLastLost(b, add(b, c))
<1> DEFINE u == add(b, c)
<1>1. /\ u \in Seq(Contact) /\ Len(b) \in Nat /\ K \in Nat /\ K >= 1
      /\ Len(u) = IF Len(b) + 1 > K THEN K ELSE Len(b) + 1
      /\ u[1] = c
      /\ \A j \in 2..Len(u) : u[j] = b[j-1]
  BY AddFacts, LenProperties, KAssumption
<1>2. \A j \in 1..Len(b) : b[j] \in Contact
  BY ElementOfSeq
<1>3. \A j \in 1..Len(b) : b[j].id # c.id
  BY DEF Positions
<1>4. \A j \in 2..Len(u) : j - 1 \in 1..Len(b)
  BY <1>1 DEF GoodBucket
<1> HIDE DEF u
<1>5. GoodBucket(i, u, t)
  <2>1. Len(u) <= K
    BY <1>1
  <2>2. \A p \in 1..Len(u) : /\ u[p].id # Self
                             /\ bucketIndex(Self, u[p].id) = i
                             /\ u[p].seen <= t
    <3> SUFFICES ASSUME NEW p \in 1..Len(u)
                 PROVE  /\ u[p].id # Self
                        /\ bucketIndex(Self, u[p].id) = i
                        /\ u[p].seen <= t
      OBVIOUS
    <3>1. CASE p = 1
      BY <1>1, <3>1
    <3>2. CASE p # 1
      <4>1. p \in 2..Len(u)
        BY <1>1, <3>2
      <4>2. u[p] = b[p-1] /\ p-1 \in 1..Len(b)
        BY <1>1, <1>4, <4>1
      <4>. QED BY <4>2 DEF GoodBucket
    <3>. QED BY <3>1, <3>2
  <2>3. \A p, q \in 1..Len(u) : u[p].id = u[q].id => p = q
    <3> SUFFICES ASSUME NEW p \in 1..Len(u), NEW q \in 1..Len(u),
                        u[p].id = u[q].id
                 PROVE  p = q
      OBVIOUS
    <3>0. \A j \in 1..Len(u) : j # 1 => u[j] = b[j-1] /\ j-1 \in 1..Len(b)
      <4>1. \A j \in 1..Len(u) : j # 1 => j \in 2..Len(u)
        BY <1>1
      <4>. QED BY <1>1, <1>4, <4>1
    <3>1. CASE p = 1 \/ q = 1
      BY <1>1, <1>3, <3>0, <3>1
    <3>2. CASE p # 1 /\ q # 1
      <4>1. b[p-1].id = b[q-1].id /\ p-1 \in 1..Len(b) /\ q-1 \in 1..Len(b)
        BY <3>0, <3>2
      <4>2. p-1 = q-1
        BY <4>1 DEF GoodBucket
      <4>. QED BY <1>1, <4>2
    <3>. QED BY <3>1, <3>2
  <2>4. \A p, q \in 1..Len(u) : p <= q => u[q].seen <= u[p].seen
    <3> SUFFICES ASSUME NEW p \in 1..Len(u), NEW q \in 1..Len(u), p <= q
                 PROVE  u[q].seen <= u[p].seen
      OBVIOUS
    <3>1. CASE p = 1
      BY <1>1, <2>2, <3>1
    <3>2. CASE p # 1
      <4>1. p \in 2..Len(u) /\ q \in 2..Len(u) /\ p-1 <= q-1
        BY <1>1, <3>2
      <4>2. /\ u[p] = b[p-1] /\ p-1 \in 1..Len(b)
            /\ u[q] = b[q-1] /\ q-1 \in 1..Len(b)
        BY <1>1, <1>4, <4>1
      <4>. QED BY <4>1, <4>2 DEF GoodBucket
    <3>. QED BY <3>1, <3>2
  <2>. QED BY <2>1, <2>2, <2>3, <2>4 DEF GoodBucket
<1>6. Positions(u, c.id) # {}
  <2>1. 1 \in Positions(u, c.id)
    BY <1>1 DEF Positions
  <2>. QED BY <2>1
<1>7. OnlyLastLost(b, u)
  <2> SUFFICES ASSUME NEW id, NEW p \in 1..Len(b), b[p].id = id,
                      Positions(u, id) = {}
               PROVE  Len(b) = K /\ b[K].id = id
    BY DEF OnlyLastLost, Positions
  <2>1. p + 1 \notin 2..Len(u)
    <3> SUFFICES ASSUME p + 1 \in 2..Len(u) PROVE FALSE
      OBVIOUS
    <3>1. u[p+1] = b[p]
      BY <1>1
    <3>. QED BY <1>1, <3>1 DEF Positions
  <2>. QED BY <1>1, <2>1 DEF GoodBucket
<1>. QED BY <1>5, <1>6, <1>7 DEF u

-----------------------------------------------------------------------------
(* The steps *)

(* What AddContact does to the bucket it is about. *)
LEMMA UpdateGood ==
    ASSUME NEW i, NEW b \in Seq(Contact), NEW t \in Nat, GoodBucket(i, b, t),
           NEW id \in ID, id # Self, bucketIndex(Self, id) = i,
           NEW addr \in Addresses
    PROVE  LET u == updateBucket(b, id, addr, t)
           IN  /\ u \in Seq(Contact)
               /\ GoodBucket(i, u, t)
               /\ Positions(u, id) # {}
               /\ OnlyLastLost(b, u)
               /\ Positions(b, id) # {} => SameIDs(b, u)
<1>1. CASE Positions(b, id) # {}
  <2> DEFINE k == Min(Positions(b, id))
  <2>1. Positions(b, id) \in SUBSET Nat /\ Positions(b, id) \subseteq 1..Len(b)
    BY DEF Positions
  <2>2. k \in 1..Len(b)
    BY <1>1, <2>1, MinFacts
  <2>3. updateBucket(b, id, addr, t) = touch(b, k, t)
    BY <1>1 DEF updateBucket
  <2> HIDE DEF k
  <2>4. touch(b, k, t) \in Seq(Contact)
    BY <2>2, TouchFacts
  <2>5. /\ GoodBucket(i, touch(b, k, t), t)
        /\ \A x : Positions(touch(b, k, t), x) # {} <=> Positions(b, x) # {}
    BY <2>2, TouchGood
  <2>. QED BY <1>1, <2>3, <2>4, <2>5 DEF OnlyLastLost, SameIDs
<1>2. CASE Positions(b, id) = {}
  <2> DEFINE c == [id |-> id, addr |-> addr, seen |-> t]
  <2>1. c \in Contact /\ c.id = id /\ c.seen = t
    BY DEF Contact
  <2>2. updateBucket(b, id, addr, t) = add(b, c)
    BY <1>2 DEF updateBucket
  <2> HIDE DEF c
  <2>3. add(b, c) \in Seq(Contact)
    BY <2>1, AddFacts
  <2>4. /\ GoodBucket(i, add(b, c), t)
        /\ Positions(add(b, c), id) # {}
        /\ OnlyLastLost(b, add(b, c))
    <3>1. /\ c.id # Self /\ bucketIndex(Self, c.id) = i
          /\ Positions(b, c.id) = {}
      BY <1>2, <2>1
    <3>2. /\ GoodBucket(i, add(b, c), t)
          /\ Positions(add(b, c), c.id) # {}
          /\ OnlyLastLost(b, add(b, c))
      BY <2>1, <3>1, AddGood
    <3>. QED BY <2>1, <3>2
  <2>. QED BY <1>2, <2>2, <2>3, <2>4
<1>. QED BY <1>1, <1>2

(* The table after a contact that is not self. *)
LEMMA ContactedFacts ==
    ASSUME IInv, NEW id \in ID, NEW addr \in Addresses, Contacted(id, addr),
           id # Self
    PROVE  /\ bucketIndex(Self, id) \in BucketIndices
           /\ buckets' = [buckets EXCEPT ![bucketIndex(Self, id)] =
                updateBucket(buckets[bucketIndex(Self, id)], id, addr, now)]
<1>1. bucketIndex(Self, id) \in BucketIndices
  BY BucketIndexType, SelfAssumption
<1>. QED BY <1>1 DEF Contacted, AddContact

(* The table starts good. *)
LEMMA InitInv == Init => IInv
<1> SUFFICES ASSUME Init PROVE IInv
  OBVIOUS
<1>1. <<>> \in Seq(Contact) /\ Len(<<>>) = 0
  OBVIOUS
<1>2. \A i \in BucketIndices : buckets[i] = <<>>
  BY DEF Init, NewRoutingTable
<1>3. TypeOK
  BY <1>1 DEF Init, NewRoutingTable, TypeOK, Tables
<1>4. \A i \in BucketIndices : GoodBucket(i, <<>>, now)
  BY <1>1, KAssumption DEF GoodBucket
<1>. QED BY <1>2, <1>3, <1>4 DEF IInv

(* Every step keeps the buckets good. *)
LEMMA NextInv == IInv /\ [Next]_vars => IInv'
<1> SUFFICES ASSUME IInv, [Next]_vars PROVE IInv'
  OBVIOUS
<1>1. CASE Tick
  <2>1. buckets' = buckets /\ now' = now + 1 /\ now \in Nat
    BY <1>1 DEF Tick, IInv, TypeOK
  <2>2. ASSUME NEW i \in BucketIndices PROVE GoodBucket(i, buckets[i], now + 1)
    <3>1. buckets[i] \in Seq(Contact) /\ GoodBucket(i, buckets[i], now)
      BY <2>2 DEF IInv, TypeOK, Tables
    <3>2. \A p \in 1..Len(buckets[i]) : buckets[i][p].seen \in Nat
      <4>1. \A p \in 1..Len(buckets[i]) : buckets[i][p] \in Contact
        BY <3>1, ElementOfSeq
      <4>. QED BY <4>1 DEF Contact
    <3>3. \A p \in 1..Len(buckets[i]) : buckets[i][p].seen <= now + 1
      BY <2>1, <3>1, <3>2 DEF GoodBucket
    <3>. QED BY <3>1, <3>3 DEF GoodBucket
  <2>3. \A i \in BucketIndices : GoodBucket(i, buckets[i], now)'
    BY <2>1, <2>2 DEF GoodBucket
  <2>. QED BY <2>1, <2>3 DEF IInv, TypeOK
<1>2. ASSUME NEW id \in ID, NEW addr \in Addresses, Contacted(id, addr)
      PROVE  IInv'
  <2>1. CASE id = Self
    <3>1. buckets' = buckets /\ now' = now
      BY <1>2, <2>1 DEF Contacted, AddContact
    <3>. QED BY <3>1 DEF IInv, TypeOK, GoodBucket
  <2>2. CASE id # Self
    <3> DEFINE i == bucketIndex(Self, id)
               u == updateBucket(buckets[i], id, addr, now)
    <3>1. i \in BucketIndices /\ buckets' = [buckets EXCEPT ![i] = u]
      BY <1>2, <2>2, ContactedFacts
    <3>2. buckets \in [BucketIndices -> Seq(Contact)] /\ now' = now /\ now \in Nat
      BY <1>2 DEF Contacted, IInv, TypeOK, Tables
    <3>3. buckets[i] \in Seq(Contact) /\ GoodBucket(i, buckets[i], now)
      BY <3>1, <3>2 DEF IInv
    <3>4. u \in Seq(Contact) /\ GoodBucket(i, u, now)
      BY <2>2, <3>2, <3>3, UpdateGood
    <3> HIDE DEF i, u
    <3>5. buckets' \in [BucketIndices -> Seq(Contact)]
      BY <3>1, <3>2, <3>4
    <3>6. \A j \in BucketIndices : GoodBucket(j, buckets'[j], now)
      BY <3>1, <3>2, <3>4 DEF IInv
    <3>. QED BY <3>2, <3>5, <3>6 DEF IInv, TypeOK, Tables, GoodBucket
  <2>. QED BY <2>1, <2>2
<1>3. CASE UNCHANGED vars
  BY <1>3 DEF vars, IInv, TypeOK, GoodBucket
<1>. QED BY <1>1, <1>2, <1>3 DEF Next

-----------------------------------------------------------------------------
(* Distances *)

(* v[n] is the number the first n bits of d make. *)
Digits(d, v) ==
    v[0] = 0 /\ \A n \in 1..IDBits : v[n-1] \in Nat /\ v[n] = 2 * v[n-1] + d[n]

(* The recursive function of Value exists. *)
LEMMA ValueFacts ==
    ASSUME NEW d \in ID
    PROVE  \E v : Digits(d, v) /\ Value(d) = v[IDBits]
<1> DEFINE N == IDBits
           Val(v, k) == v = [n \in 0..k |-> IF n = 0 THEN 0 ELSE 2 * v[n-1] + d[n]]
           S == {k \in Nat : \E v : Val(v, k)}
<1>1. 0 \in S
  <2>1. Val([n \in 0..0 |-> 0], 0)
    OBVIOUS
  <2>. QED BY <2>1
<1>2. ASSUME NEW k \in S PROVE k + 1 \in S
  <2>1. PICK v : Val(v, k)
    OBVIOUS
  <2> DEFINE top == 2 * v[k] + d[k+1]
             w == [n \in 0..k+1 |-> IF n <= k THEN v[n] ELSE top]
  <2>2. k \in Nat
    OBVIOUS
  <2>3. \A n \in 0..k : v[n] = IF n = 0 THEN 0 ELSE 2 * v[n-1] + d[n]
    BY <2>1
  <2> HIDE DEF top
  <2>4. ASSUME NEW n \in 0..k+1
        PROVE  w[n] = IF n = 0 THEN 0 ELSE 2 * w[n-1] + d[n]
    <3>1. CASE n <= k
      <4>1. n \in 0..k /\ w[n] = v[n] /\ (n # 0 => n - 1 \in 0..k /\ w[n-1] = v[n-1])
        BY <2>2, <3>1
      <4> HIDE DEF w
      <4>. QED BY <2>3, <4>1
    <3>2. CASE n = k + 1
      <4>1. w[n] = top /\ n # 0 /\ w[n-1] = v[k]
        BY <2>2, <3>2
      <4> HIDE DEF w
      <4>. QED BY <2>2, <3>2, <4>1 DEF top
    <3>. QED BY <2>2, <3>1, <3>2
  <2>5. Val(w, k + 1)
    <3>1. w = [n \in 0..k+1 |-> w[n]]
      OBVIOUS
    <3> HIDE DEF w
    <3>2. [n \in 0..k+1 |-> w[n]]
            = [n \in 0..k+1 |-> IF n = 0 THEN 0 ELSE 2 * w[n-1] + d[n]]
      BY <2>4
    <3>. QED BY <3>1, <3>2
  <2>6. \E x : Val(x, k + 1)
    <3> HIDE DEF w, Val
    <3>. QED BY <2>5
  <2> HIDE DEF Val
  <2>. QED BY <2>2, <2>6
<1>3. S = Nat
  <2> HIDE DEF S
  <2>1. S \in SUBSET Nat
    BY DEF S
  <2>. QED BY <1>1, <1>2, <2>1, NatSetInduction
<1> DEFINE v == CHOOSE v : Val(v, N)
<1>4. Val(v, N)
  <2>1. \E f : Val(f, N)
    BY <1>3, IDBitsAssumption
  <2> HIDE DEF Val
  <2>. QED BY <2>1
<1>5. Value(d) = v[N]
  BY DEF Value
<1> HIDE DEF v
<1>6. \A n \in 0..N : v[n] = IF n = 0 THEN 0 ELSE 2 * v[n-1] + d[n]
  <2>1. v = [n \in 0..N |-> IF n = 0 THEN 0 ELSE 2 * v[n-1] + d[n]]
    BY <1>4
  <2>2. \A n \in 0..N : [x \in 0..N |-> IF x = 0 THEN 0 ELSE 2 * v[x-1] + d[x]][n]
                          = IF n = 0 THEN 0 ELSE 2 * v[n-1] + d[n]
    OBVIOUS
  <2>. QED BY <2>1, <2>2, Zenon
<1>7. N \in Nat /\ v[0] = 0 /\ \A n \in 1..N : v[n] = 2 * v[n-1] + d[n] /\ d[n] \in {0, 1}
  <2>1. N \in Nat /\ 0 \in 0..N /\ \A n \in 1..N : n \in 0..N /\ n # 0
    BY IDBitsAssumption
  <2>2. \A n \in 1..N : d[n] \in {0, 1}
    BY DEF ID
  <2>. QED BY <1>6, <2>1, <2>2
<1>8. \A n \in Nat : n <= N => v[n] \in Nat
  <2> DEFINE G == {n \in Nat : n <= N => v[n] \in Nat}
  <2>1. 0 \in G
    BY <1>7
  <2>2. ASSUME NEW n \in G PROVE n + 1 \in G
    <3> SUFFICES ASSUME n + 1 <= N PROVE v[n+1] \in Nat
      OBVIOUS
    <3>1. n + 1 \in 1..N /\ (n + 1) - 1 = n /\ v[n] \in Nat
      BY <1>7
    <3>2. v[n+1] = 2 * v[n] + d[n+1] /\ d[n+1] \in {0, 1}
      BY <1>7, <3>1
    <3>. QED BY <3>1, <3>2
  <2>3. G = Nat
    <3> HIDE DEF G
    <3>1. G \in SUBSET Nat
      BY DEF G
    <3>. QED BY <2>1, <2>2, <3>1, NatSetInduction
  <2>. QED BY <2>3
<1>9. \A n \in 1..N : v[n-1] \in Nat
  <2>1. \A n \in 1..N : n - 1 \in Nat /\ n - 1 <= N
    BY <1>7
  <2>. QED BY <1>8, <2>1
<1>10. Digits(d, v)
  BY <1>7, <1>9 DEF Digits
<1>. QED BY <1>5, <1>10

(* A number whose first 1 is at position i is at least the weight of i and     *)
(* less than twice that.                                                     *)
LEMMA FirstOneDecides ==
    ASSUME NEW d \in ID, NEW i \in 1..IDBits, d[i] = 1, \A j \in 1..i-1 : d[j] = 0
    PROVE  Weight(i) <= Value(d) /\ Value(d) < 2 * Weight(i)
<1> DEFINE e == [j \in 1..IDBits |-> IF j = i THEN 1 ELSE 0]
<1>0. IDBits \in Nat /\ i \in Nat /\ i <= IDBits /\ 1 <= i
  BY IDBitsAssumption
<1>1. e \in ID /\ Weight(i) = Value(e) /\ e[i] = 1 /\ \A j \in 1..IDBits : j # i => e[j] = 0
  BY DEF ID, Weight
<1> HIDE DEF e
<1>2. PICK v : Digits(d, v) /\ Value(d) = v[IDBits]
  BY ValueFacts
<1>3. PICK w : Digits(e, w) /\ Weight(i) = w[IDBits]
  BY <1>1, ValueFacts
<1>4. \A n \in 1..IDBits : /\ v[n-1] \in Nat /\ v[n] = 2 * v[n-1] + d[n]
                           /\ w[n-1] \in Nat /\ w[n] = 2 * w[n-1] + e[n]
                           /\ d[n] \in {0, 1}
  BY <1>2, <1>3 DEF Digits, ID
<1>5. v[0] = 0 /\ w[0] = 0
  BY <1>2, <1>3 DEF Digits
<1> DEFINE Below(n) == IF n < i THEN v[n] = 0 /\ w[n] = 0
                       ELSE w[n] <= v[n] /\ v[n] < 2 * w[n]
           G == {n \in Nat : n <= IDBits => v[n] \in Nat /\ w[n] \in Nat /\ Below(n)}
<1>6. 0 \in G
  BY <1>0, <1>5
<1>7. ASSUME NEW n \in G PROVE n + 1 \in G
  <2> SUFFICES ASSUME n + 1 <= IDBits
               PROVE  v[n+1] \in Nat /\ w[n+1] \in Nat /\ Below(n+1)
    OBVIOUS
  <2>1. /\ n \in Nat /\ n + 1 \in 1..IDBits /\ (n + 1) - 1 = n
        /\ v[n] \in Nat /\ w[n] \in Nat /\ Below(n)
    BY <1>0
  <2>2. /\ v[n+1] = 2 * v[n] + d[n+1] /\ w[n+1] = 2 * w[n] + e[n+1]
        /\ d[n+1] \in {0, 1}
    BY <1>4, <2>1
  <2>3. CASE n + 1 < i
    <3>1. d[n+1] = 0 /\ e[n+1] = 0
      BY <1>0, <1>1, <2>1, <2>3
    <3>2. v[n] = 0 /\ w[n] = 0
      BY <1>0, <2>1, <2>3
    <3>. QED BY <1>0, <2>2, <2>3, <3>1, <3>2
  <2>4. CASE n + 1 = i
    <3>1. d[n+1] = 1 /\ e[n+1] = 1
      BY <1>1, <2>4
    <3>2. v[n] = 0 /\ w[n] = 0
      BY <1>0, <2>1, <2>4
    <3>3. v[n+1] = 1 /\ w[n+1] = 1
      BY <2>2, <3>1, <3>2
    <3>. QED BY <2>1, <2>4, <3>3
  <2>5. CASE n + 1 > i
    <3>1. e[n+1] = 0
      BY <1>0, <1>1, <2>1, <2>5
    <3>2. w[n] <= v[n] /\ v[n] < 2 * w[n]
      BY <1>0, <2>1, <2>5
    <3>3. v[n+1] = 2 * v[n] + d[n+1] /\ w[n+1] = 2 * w[n] /\ d[n+1] \in {0, 1}
      BY <2>1, <2>2, <3>1
    <3>4. v[n+1] \in Nat /\ w[n+1] \in Nat /\ w[n+1] <= v[n+1] /\ v[n+1] < 2 * w[n+1]
      BY <2>1, <3>2, <3>3
    <3>. QED BY <1>0, <2>1, <2>5, <3>4
  <2>. QED BY <1>0, <2>1, <2>3, <2>4, <2>5
<1>8. G = Nat
  <2> HIDE DEF G
  <2>1. G \in SUBSET Nat
    BY DEF G
  <2>. QED BY <1>6, <1>7, <2>1, NatSetInduction
<1>9. Below(IDBits) /\ ~(IDBits < i)
  BY <1>0, <1>8
<1>. QED BY <1>2, <1>3, <1>9

(* The bucket of an ID is the number of leading zeros of its distance. *)
LEMMA BucketOfDistance ==
    ASSUME NEW id \in ID, id # Self, NEW i, bucketIndex(Self, id) = i
    PROVE  LET d == Distance(Self, id)
           IN  Weight(i + 1) <= d /\ d < 2 * Weight(i + 1)
<1> DEFINE d == XOR(Self, id)
<1>1. d \in ID /\ \A j \in 1..IDBits : d[j] = IF Self[j] = id[j] THEN 0 ELSE 1
  BY DEF ID, XOR
<1>2. Distance(Self, id) = Value(d)
  BY DEF Distance, XOR
<1> HIDE DEF d
<1>3. Ones(d) # {}
  <2>1. \E j \in 1..IDBits : Self[j] # id[j]
    <3> SUFFICES ASSUME \A j \in 1..IDBits : Self[j] = id[j] PROVE FALSE
      OBVIOUS
    <3>1. /\ Self = [j \in 1..IDBits |-> Self[j]]
          /\ id = [j \in 1..IDBits |-> id[j]]
      BY SelfAssumption DEF ID
    <3>2. [j \in 1..IDBits |-> Self[j]] = [j \in 1..IDBits |-> id[j]]
      OBVIOUS
    <3>. QED BY <3>1, <3>2
  <2>. QED BY <1>1, <2>1 DEF Ones
<1>4. Min(Ones(d)) \in Ones(d) /\ \A j \in Ones(d) : Min(Ones(d)) <= j
  <2>1. Ones(d) \in SUBSET Nat
    BY IDBitsAssumption DEF Ones
  <2>. QED BY <1>3, <2>1, MinFacts
<1> DEFINE m == Min(Ones(d))
<1>5. m \in 1..IDBits /\ d[m] = 1 /\ m \in Nat /\ IDBits \in Nat
  BY <1>4, IDBitsAssumption DEF Ones
<1>6. ASSUME NEW j \in 1..m-1 PROVE d[j] = 0
  <2>1. j \in 1..IDBits /\ ~(m <= j)
    BY <1>5
  <2>. QED BY <1>1, <1>4, <2>1 DEF Ones
<1>7. i = m - 1
  <2>1. PrefixLen(d) = m - 1
    BY <1>3 DEF PrefixLen
  <2>2. bucketIndex(Self, id) = IF m - 1 >= IDBits THEN IDBits - 1 ELSE m - 1
    BY <2>1 DEF bucketIndex, d
  <2> HIDE DEF m
  <2>. QED BY <1>5, <2>2
<1> HIDE DEF m
<1>8. i + 1 = m
  BY <1>5, <1>7
<1>. QED BY <1>1, <1>2, <1>5, <1>6, <1>8, FirstOneDecides

-----------------------------------------------------------------------------
(* FindClosest *)

(* The byte-wise comparison of two IDs is the comparison of the numbers. *)
LEMMA LessIsSmaller ==
    ASSUME NEW d \in ID, NEW e \in ID, Less(d, e)
    PROVE  Value(d) \in Nat /\ Value(e) \in Nat /\ Value(d) < Value(e)
<1>1. PICK i \in 1..IDBits : d[i] < e[i] /\ \A j \in 1..i-1 : d[j] = e[j]
  BY DEF Less
<1>2. IDBits \in Nat /\ i \in Nat /\ i <= IDBits /\ 1 <= i
  BY IDBitsAssumption
<1>3. PICK v : Digits(d, v) /\ Value(d) = v[IDBits]
  BY ValueFacts
<1>4. PICK w : Digits(e, w) /\ Value(e) = w[IDBits]
  BY ValueFacts
<1>5. \A n \in 1..IDBits : /\ v[n] = 2 * v[n-1] + d[n] /\ w[n] = 2 * w[n-1] + e[n]
                           /\ d[n] \in {0, 1} /\ e[n] \in {0, 1}
  BY <1>3, <1>4 DEF Digits, ID
<1>6. v[0] = 0 /\ w[0] = 0 /\ d[i] = 0 /\ e[i] = 1
  BY <1>1, <1>3, <1>4, <1>5 DEF Digits
<1> DEFINE Rel(n) == IF n < i THEN v[n] = w[n] ELSE v[n] < w[n]
           G == {n \in Nat : n <= IDBits => v[n] \in Nat /\ w[n] \in Nat /\ Rel(n)}
<1>7. 0 \in G
  BY <1>2, <1>6
<1>8. ASSUME NEW n \in G PROVE n + 1 \in G
  <2> SUFFICES ASSUME n + 1 <= IDBits
               PROVE  v[n+1] \in Nat /\ w[n+1] \in Nat /\ Rel(n+1)
    OBVIOUS
  <2>1. /\ n \in Nat /\ n + 1 \in 1..IDBits /\ (n + 1) - 1 = n
        /\ v[n] \in Nat /\ w[n] \in Nat /\ Rel(n)
    BY <1>2
  <2>2. /\ v[n+1] = 2 * v[n] + d[n+1] /\ w[n+1] = 2 * w[n] + e[n+1]
        /\ d[n+1] \in {0, 1} /\ e[n+1] \in {0, 1}
    BY <1>5, <2>1
  <2>3. v[n+1] \in Nat /\ w[n+1] \in Nat
    BY <2>1, <2>2
  <2>4. CASE n + 1 < i
    <3>1. d[n+1] = e[n+1] /\ v[n] = w[n]
      BY <1>1, <1>2, <2>1, <2>4
    <3>. QED BY <2>2, <2>3, <2>4, <3>1
  <2>5. CASE n + 1 = i
    <3>1. d[n+1] = 0 /\ e[n+1] = 1 /\ v[n] = w[n] /\ ~(n + 1 < i)
      BY <1>2, <1>6, <2>1, <2>5
    <3>2. v[n+1] = 2 * v[n] + 0 /\ w[n+1] = 2 * v[n] + 1
      BY <2>2, <3>1
    <3>3. v[n+1] < w[n+1]
      BY <2>1, <3>2
    <3>. QED BY <2>3, <3>1, <3>3
  <2>6. CASE n + 1 > i
    <3>1. v[n] < w[n] /\ ~(n + 1 < i)
      BY <1>2, <2>1, <2>6
    <3>2. v[n+1] < w[n+1]
      BY <2>1, <2>2, <3>1
    <3>. QED BY <2>3, <3>1, <3>2
  <2>. QED BY <1>2, <2>1, <2>4, <2>5, <2>6
<1>9. G = Nat
  <2> HIDE DEF G
  <2>1. G \in SUBSET Nat
    BY DEF G
  <2>. QED BY <1>7, <1>8, <2>1, NatSetInduction
<1>10. v[IDBits] \in Nat /\ w[IDBits] \in Nat /\ Rel(IDBits) /\ ~(IDBits < i)
  BY <1>2, <1>9
<1>. QED BY <1>3, <1>4, <1>10

LEMMA ValueIsNat ==
    ASSUME NEW d \in ID
    PROVE  Value(d) \in Nat
<1>1. PICK v : Digits(d, v) /\ Value(d) = v[IDBits]
  BY ValueFacts
<1>2. IDBits \in 1..IDBits /\ d[IDBits] \in {0, 1}
  BY IDBitsAssumption DEF ID
<1>3. v[IDBits-1] \in Nat /\ v[IDBits] = 2 * v[IDBits-1] + d[IDBits]
  BY <1>1, <1>2 DEF Digits
<1>. QED BY <1>1, <1>2, <1>3

(* Two IDs that differ, differ first somewhere. *)
LEMMA LessIsTotal ==
    ASSUME NEW d \in ID, NEW e \in ID, d # e
    PROVE  Less(d, e) \/ Less(e, d)
<1> DEFINE T == {i \in 1..IDBits : d[i] # e[i]}
<1>1. T \in SUBSET Nat /\ T # {}
  BY IDBitsAssumption DEF ID
<1>2. PICK i \in T : \A y \in T : i <= y
  <2> HIDE DEF T
  <2>. QED BY <1>1, LeastElement
<1>3. i \in 1..IDBits /\ d[i] # e[i] /\ \A k \in 1..i-1 : d[k] = e[k]
  BY <1>2, IDBitsAssumption
<1>4. d[i] < e[i] \/ e[i] < d[i]
  BY <1>3 DEF ID
<1>. QED BY <1>3, <1>4 DEF Less

(* FindClosest's comparison is the comparison of distances, and different IDs   *)
(* are at different distances.                                                *)
LEMMA CloserIsNearer ==
    ASSUME NEW t \in ID, NEW a \in ID, NEW b \in ID
    PROVE  /\ Distance(t, a) \in Nat
           /\ Closer(t, a, b) <=> Distance(t, a) < Distance(t, b)
           /\ a # b => Distance(t, a) # Distance(t, b)
<1> DEFINE x == XOR(t, a)
           y == XOR(t, b)
<1>1. x \in ID /\ y \in ID
  BY DEF XOR, ID
<1>2. Distance(t, a) = Value(x) /\ Distance(t, b) = Value(y) /\ (Closer(t, a, b) <=> Less(x, y))
  BY DEF Distance, XOR, Closer
<1>3. a # b => x # y
  <2> SUFFICES ASSUME a # b PROVE x # y
    OBVIOUS
  <2>1. PICK i \in 1..IDBits : a[i] # b[i]
    <3> SUFFICES ASSUME \A i \in 1..IDBits : a[i] = b[i] PROVE a = b
      OBVIOUS
    <3>1. a \in [1..IDBits -> {0, 1}] /\ b \in [1..IDBits -> {0, 1}]
      BY DEF ID
    <3>2. a = [i \in 1..IDBits |-> a[i]] /\ b = [i \in 1..IDBits |-> b[i]]
      BY <3>1
    <3>3. [i \in 1..IDBits |-> a[i]] = [i \in 1..IDBits |-> b[i]]
      OBVIOUS
    <3>. QED BY <3>2, <3>3, Zenon
  <2>2. x[i] # y[i]
    BY <2>1 DEF XOR, ID
  <2>. QED BY <2>2
<1> HIDE DEF x, y
<1>4. Value(x) \in Nat /\ Value(y) \in Nat
  BY <1>1, ValueIsNat
<1>5. Less(x, y) => Value(x) < Value(y)
  BY <1>1, LessIsSmaller
<1>6. Less(y, x) => Value(y) < Value(x)
  BY <1>1, LessIsSmaller
<1>7. x # y => Less(x, y) \/ Less(y, x)
  BY <1>1, LessIsTotal
<1>8. Value(x) < Value(y) => Less(x, y)
  BY <1>4, <1>6, <1>7
<1>. QED BY <1>2, <1>3, <1>4, <1>5, <1>6, <1>7, <1>8

(* An injection of 1..n into 0..n-1 reaches every number. *)
LEMMA RanksAreReached ==
    ASSUME NEW n \in Nat, NEW f \in [1..n -> 0..n-1],
           \A i, j \in 1..n : f[i] = f[j] => i = j
    PROVE  \A p \in 0..n-1 : \E i \in 1..n : f[i] = p
<1>1. IsFiniteSet(1..n) /\ Cardinality(1..n) = n
  BY FS_Interval
<1>2. IsFiniteSet(0..n-1) /\ Cardinality(0..n-1) = n
  <2>1. 0 \in Int /\ n - 1 \in Int
    OBVIOUS
  <2>2. /\ IsFiniteSet(0..n-1)
        /\ Cardinality(0..n-1) = IF 0 > n-1 THEN 0 ELSE n-1-0+1
    BY <2>1, FS_Interval, Zenon
  <2>. QED BY <2>2
<1>3. f \in Injection(1..n, 0..n-1)
  BY DEF Injection, IsInjective
<1>4. f \in Surjection(1..n, 0..n-1)
  BY <1>1, <1>2, <1>3, FS_Injection
<1>. QED BY <1>4 DEF Surjection

(* SortByDistance sorts: it permutes s, and distances increase along it. *)
LEMMA SortSorts ==
    ASSUME NEW s \in Seq(Contact), NEW target \in ID,
           \A i, j \in 1..Len(s) : s[i].id = s[j].id => i = j
    PROVE  \E f \in [1..Len(s) -> 1..Len(s)] :
             /\ SortByDistance(s, target) = [p \in 1..Len(s) |-> s[f[p]]]
             /\ \A i \in 1..Len(s) : \E p \in 1..Len(s) : f[p] = i
             /\ \A p, q \in 1..Len(s) :
                  p < q => Distance(target, s[f[p]].id) < Distance(target, s[f[q]].id)
<1> DEFINE n == Len(s)
           D(i) == Distance(target, s[i].id)
           Below(i) == {j \in 1..n : D(j) < D(i)}
           R(i) == Rank(s, target, i)
           rank == [i \in 1..n |-> R(i)]
           f == [p \in 1..n |-> CHOOSE i \in 1..n : R(i) = p - 1]
<1>1. n \in Nat /\ \A i \in 1..n : s[i].id \in ID
  <2>1. \A i \in 1..n : s[i] \in Contact
    BY ElementOfSeq
  <2>. QED BY <2>1, LenProperties DEF Contact
<1>2. \A i, j \in 1..n : /\ D(i) \in Nat
                         /\ Closer(target, s[i].id, s[j].id) <=> D(i) < D(j)
                         /\ i # j => D(i) # D(j)
  BY <1>1, CloserIsNearer
<1>3. IsFiniteSet(1..n) /\ Cardinality(1..n) = n
  <2>1. /\ IsFiniteSet(1..n)
        /\ Cardinality(1..n) = IF 1 > n THEN 0 ELSE n-1+1
    BY <1>1, FS_Interval
  <2>. QED BY <1>1, <2>1
<1>4. \A i \in 1..n : R(i) = Cardinality(Below(i))
  <2> SUFFICES ASSUME NEW i \in 1..n PROVE R(i) = Cardinality(Below(i))
    OBVIOUS
  <2>1. \A j \in 1..n : ~(s[j].id = s[i].id /\ j < i)
    BY <1>1
  <2>2. Below(i) = {j \in 1..n : \/ Closer(target, s[j].id, s[i].id)
                                 \/ s[j].id = s[i].id /\ j < i}
    BY <1>2, <2>1
  <2> HIDE DEF Below
  <2>. QED BY <2>2 DEF Rank
<1> HIDE DEF D, R
<1>5. \A i \in 1..n : i \notin Below(i) /\ Below(i) \subseteq 1..n
  BY <1>2
<1>6. \A i, j \in 1..n : D(i) < D(j) => i \in Below(j) /\ Below(i) \subseteq Below(j)
  BY <1>2
<1> HIDE DEF Below
<1>7. \A i \in 1..n : IsFiniteSet(Below(i)) /\ R(i) \in 0..n-1
  <2> SUFFICES ASSUME NEW i \in 1..n PROVE IsFiniteSet(Below(i)) /\ R(i) \in 0..n-1
    OBVIOUS
  <2>1. /\ IsFiniteSet(Below(i)) /\ Cardinality(Below(i)) \in Nat
        /\ Cardinality(Below(i)) <= n /\ (Cardinality(Below(i)) = n => Below(i) = 1..n)
    BY <1>3, <1>5, FS_Subset, FS_CardinalityType
  <2>. QED BY <1>1, <1>4, <1>5, <2>1
<1>8. ASSUME NEW i \in 1..n, NEW j \in 1..n, D(i) < D(j) PROVE R(i) < R(j)
  <2>1. Below(i) \subseteq Below(j) /\ Below(i) # Below(j)
    BY <1>5, <1>6, <1>8
  <2>2. Cardinality(Below(i)) <= Cardinality(Below(j)) /\ Cardinality(Below(i)) # Cardinality(Below(j))
    BY <1>7, <2>1, FS_Subset
  <2>3. R(i) \in Nat /\ R(j) \in Nat /\ R(i) = Cardinality(Below(i)) /\ R(j) = Cardinality(Below(j))
    BY <1>1, <1>4, <1>7
  <2>. QED BY <2>2, <2>3
<1>9. \A i, j \in 1..n : R(i) = R(j) => i = j
  <2> SUFFICES ASSUME NEW i \in 1..n, NEW j \in 1..n, R(i) = R(j), i # j PROVE FALSE
    OBVIOUS
  <2>1. D(i) < D(j) \/ D(j) < D(i)
    BY <1>2
  <2>2. R(i) \in Nat /\ R(j) \in Nat
    BY <1>1, <1>7
  <2>. QED BY <1>8, <2>1, <2>2
<1>10. \A i, j \in 1..n : R(i) < R(j) => D(i) < D(j)
  <2> SUFFICES ASSUME NEW i \in 1..n, NEW j \in 1..n, R(i) < R(j), ~(D(i) < D(j)) PROVE FALSE
    OBVIOUS
  <2>1. R(i) \in Nat /\ R(j) \in Nat
    BY <1>1, <1>7
  <2>2. i # j
    BY <2>1
  <2>3. D(j) < D(i)
    BY <1>2, <2>2
  <2>. QED BY <1>8, <2>1, <2>3
<1>11. \A p \in 0..n-1 : \E i \in 1..n : rank[i] = p
  <2>1. rank \in [1..n -> 0..n-1]
    BY <1>7
  <2>2. \A i, j \in 1..n : rank[i] = rank[j] => i = j
    BY <1>9
  <2> HIDE DEF rank
  <2>. QED BY <1>1, <2>1, <2>2, RanksAreReached
<1>12. \A p \in 1..n : f[p] \in 1..n /\ R(f[p]) = p - 1
  <2> SUFFICES ASSUME NEW p \in 1..n PROVE f[p] \in 1..n /\ R(f[p]) = p - 1
    OBVIOUS
  <2>1. p - 1 \in 0..n-1
    BY <1>1
  <2>2. \E i \in 1..n : R(i) = p - 1
    BY <1>11, <2>1
  <2>. QED BY <2>2
<1>13. f \in [1..n -> 1..n]
  BY <1>12
<1>14. SortByDistance(s, target) = [p \in 1..n |-> s[f[p]]]
  BY DEF SortByDistance, R
<1> HIDE DEF f
<1>15. ASSUME NEW i \in 1..n PROVE \E p \in 1..n : f[p] = i
  <2>1. R(i) + 1 \in 1..n /\ (R(i) + 1) - 1 = R(i)
    BY <1>1, <1>7
  <2>2. f[R(i) + 1] \in 1..n /\ R(f[R(i) + 1]) = R(i)
    BY <1>12, <2>1
  <2>3. f[R(i) + 1] = i
    BY <1>9, <2>2
  <2>. QED BY <2>1, <2>3
<1>16. ASSUME NEW p \in 1..n, NEW q \in 1..n, p < q
       PROVE  D(f[p]) < D(f[q])
  <2>1. R(f[p]) = p - 1 /\ R(f[q]) = q - 1 /\ f[p] \in 1..n /\ f[q] \in 1..n
    BY <1>12
  <2>2. R(f[p]) < R(f[q])
    BY <1>1, <1>16, <2>1
  <2>. QED BY <1>10, <2>1, <2>2
<1>17. \A p, q \in 1..n :
         p < q => Distance(target, s[f[p]].id) < Distance(target, s[f[q]].id)
  BY <1>16 DEF D
<1>. QED BY <1>13, <1>14, <1>15, <1>17

DistinctIDs(s) == \A p, q \in 1..Len(s) : s[p].id = s[q].id => p = q

(* The recursive function of FlattenSeq exists. *)
LEMMA FlattenFacts ==
    ASSUME NEW s, Len(s) \in Nat \ {0}
    PROVE  \E f : /\ FlattenSeq(s) = f[Len(s)]
                  /\ f[1] = s[1]
                  /\ \A i \in 2..Len(s) : f[i] = f[i-1] \o s[i]
<1> DEFINE Flat(f, k) == f = [i \in 1..k |-> IF i = 1 THEN s[i] ELSE f[i-1] \o s[i]]
           S == {k \in Nat : \E f : Flat(f, k)}
<1>1. 0 \in S
  <2>1. Flat([i \in 1..0 |-> s[i]], 0)
    OBVIOUS
  <2>. QED BY <2>1
<1>2. ASSUME NEW k \in S PROVE k + 1 \in S
  <2>1. PICK f : Flat(f, k)
    OBVIOUS
  <2> DEFINE top == IF k = 0 THEN s[1] ELSE f[k] \o s[k+1]
             g == [i \in 1..k+1 |-> IF i <= k THEN f[i] ELSE top]
  <2>2. k \in Nat
    OBVIOUS
  <2>3. \A i \in 1..k : f[i] = IF i = 1 THEN s[i] ELSE f[i-1] \o s[i]
    BY <2>1
  <2> HIDE DEF top
  <2>4. ASSUME NEW i \in 1..k+1
        PROVE  g[i] = IF i = 1 THEN s[i] ELSE g[i-1] \o s[i]
    <3>1. CASE i <= k
      <4>1. i \in 1..k /\ g[i] = f[i] /\ (i # 1 => i - 1 \in 1..k /\ g[i-1] = f[i-1])
        BY <2>2, <3>1
      <4> HIDE DEF g
      <4>. QED BY <2>3, <4>1
    <3>2. CASE i = k + 1
      <4>1. g[i] = top /\ (i # 1 => g[i-1] = f[k])
        BY <2>2, <3>2
      <4> HIDE DEF g
      <4>. QED BY <2>2, <3>2, <4>1 DEF top
    <3>. QED BY <2>2, <3>1, <3>2
  <2>5. Flat(g, k + 1)
    <3>1. g = [i \in 1..k+1 |-> g[i]]
      OBVIOUS
    <3> HIDE DEF g
    <3>2. [i \in 1..k+1 |-> g[i]]
            = [i \in 1..k+1 |-> IF i = 1 THEN s[i] ELSE g[i-1] \o s[i]]
      BY <2>4
    <3>. QED BY <3>1, <3>2
  <2>6. \E x : Flat(x, k + 1)
    <3> HIDE DEF g, Flat
    <3>. QED BY <2>5
  <2> HIDE DEF Flat
  <2>. QED BY <2>2, <2>6
<1>3. S = Nat
  <2> HIDE DEF S
  <2>1. S \in SUBSET Nat
    BY DEF S
  <2>. QED BY <1>1, <1>2, <2>1, NatSetInduction
<1> DEFINE h == CHOOSE f : Flat(f, Len(s))
<1>4. Flat(h, Len(s))
  <2>1. \E f : Flat(f, Len(s))
    BY <1>3
  <2> HIDE DEF Flat
  <2>. QED BY <2>1
<1>5. FlattenSeq(s) = h[Len(s)]
  BY DEF FlattenSeq
<1> HIDE DEF h
<1>6. \A i \in 1..Len(s) : h[i] = IF i = 1 THEN s[i] ELSE h[i-1] \o s[i]
  <2>1. h = [i \in 1..Len(s) |-> IF i = 1 THEN s[i] ELSE h[i-1] \o s[i]]
    BY <1>4
  <2>2. \A i \in 1..Len(s) :
          [x \in 1..Len(s) |-> IF x = 1 THEN s[x] ELSE h[x-1] \o s[x]][i]
            = IF i = 1 THEN s[i] ELSE h[i-1] \o s[i]
    OBVIOUS
  <2>. QED BY <2>1, <2>2, Zenon
<1>7. h[1] = s[1] /\ \A i \in 2..Len(s) : h[i] = h[i-1] \o s[i]
  <2>1. 1 \in 1..Len(s) /\ \A i \in 2..Len(s) : i \in 1..Len(s) /\ i # 1
    OBVIOUS
  <2>. QED BY <1>6, <2>1
<1>. QED BY <1>5, <1>7

(* AllContacts lists the contacts of all buckets, each once. *)
LEMMA AllContactsFacts ==
    ASSUME NEW T \in Tables, NEW t, \A i \in BucketIndices : GoodBucket(i, T[i], t),
           NEW a, a = AllContacts(T)
    PROVE  a \in Seq(Contact) /\ DistinctIDs(a)
<1> DEFINE s == [i \in 1..IDBits |-> T[i-1]]
           P(k, l) == /\ l \in Seq(Contact)
                      /\ DistinctIDs(l)
                      /\ \A p \in 1..Len(l) : \E i \in 0..k-1 : \E q \in 1..Len(T[i]) :
                           l[p] = T[i][q]
<1>1. IDBits \in Nat \ {0} /\ BucketIndices = 0..IDBits-1
  BY IDBitsAssumption DEF BucketIndices
<1>2. \A i \in BucketIndices : T[i] \in Seq(Contact) /\ GoodBucket(i, T[i], t)
  BY DEF Tables
<1>3. /\ Len(s) = IDBits /\ \A i \in 1..IDBits : s[i] = T[i-1]
  BY <1>1
<1>4. PICK f : /\ FlattenSeq(s) = f[IDBits]
               /\ f[1] = s[1]
               /\ \A i \in 2..IDBits : f[i] = f[i-1] \o s[i]
  <2> HIDE DEF s
  <2>. QED BY <1>1, <1>3, FlattenFacts
<1>5. a = f[IDBits]
  BY <1>4 DEF AllContacts
<1> HIDE DEF s
<1> DEFINE S == {k \in Nat : k \in 1..IDBits => P(k, f[k])}
<1>6. ASSUME NEW k \in Nat, k + 1 \in 1..IDBits, k \in 1..IDBits => P(k, f[k])
      PROVE  P(k + 1, f[k + 1])
  <2>1. CASE k = 0
    <3>1. f[k + 1] = T[0] /\ T[0] \in Seq(Contact) /\ DistinctIDs(T[0])
      BY <1>1, <1>2, <1>3, <1>4, <2>1 DEF GoodBucket, DistinctIDs
    <3>2. \A i : i \in 0..(k+1)-1 <=> i = 0
      BY <2>1
    <3>. QED BY <3>1, <3>2
  <2>2. CASE k # 0
    <3> DEFINE l == f[k]
               r == T[k]
               c == f[k + 1]
    <3>1. k \in BucketIndices /\ k \in 1..IDBits /\ k + 1 \in 2..IDBits /\ (k + 1) - 1 = k
      BY <1>1, <1>6, <2>2
    <3>2. P(k, l) /\ r \in Seq(Contact) /\ GoodBucket(k, r, t) /\ c = l \o r
      <4>1. P(k, l)
        BY <1>6, <3>1
      <4>2. r \in Seq(Contact) /\ GoodBucket(k, r, t)
        BY <1>2, <3>1
      <4>3. c = l \o r
        <5>1. f[k + 1] = f[(k + 1) - 1] \o s[k + 1]
          BY <1>4, <3>1
        <5>2. s[k + 1] = T[(k + 1) - 1]
          BY <1>1, <1>3, <3>1
        <5>. QED BY <3>1, <5>1, <5>2
      <4> HIDE DEF P
      <4>. QED BY <4>1, <4>2, <4>3
    <3> HIDE DEF l, r, c
    <3>3. /\ c \in Seq(Contact) /\ Len(l) \in Nat /\ Len(r) \in Nat
          /\ Len(c) = Len(l) + Len(r)
          /\ \A j \in 1..Len(l)+Len(r) : c[j] = IF j <= Len(l) THEN l[j] ELSE r[j - Len(l)]
      BY <3>2, ConcatProperties, LenProperties
    <3>4. \A j \in 1..Len(c) : \/ j \in 1..Len(l) /\ c[j] = l[j]
                               \/ j - Len(l) \in 1..Len(r) /\ c[j] = r[j - Len(l)]
      BY <3>3
    <3>5. \A p \in 1..Len(l), q \in 1..Len(r) : l[p].id # r[q].id
      <4> SUFFICES ASSUME NEW p \in 1..Len(l), NEW q \in 1..Len(r), l[p].id = r[q].id
                   PROVE  FALSE
        OBVIOUS
      <4>1. PICK i \in 0..k-1 : \E x \in 1..Len(T[i]) : l[p] = T[i][x]
        BY <3>2
      <4>2. i \in BucketIndices /\ i # k
        BY <1>1, <3>1, <4>1
      <4>3. bucketIndex(Self, l[p].id) = i
        BY <1>2, <4>1, <4>2 DEF GoodBucket
      <4>4. bucketIndex(Self, r[q].id) = k
        BY <3>2 DEF GoodBucket
      <4>. QED BY <4>2, <4>3, <4>4
    <3>6. DistinctIDs(c)
      <4> SUFFICES ASSUME NEW p \in 1..Len(c), NEW q \in 1..Len(c), c[p].id = c[q].id
                   PROVE  p = q
        BY DEF DistinctIDs
      <4>1. CASE /\ p \in 1..Len(l) /\ c[p] = l[p]
                 /\ q \in 1..Len(l) /\ c[q] = l[q]
        BY <3>2, <4>1 DEF DistinctIDs
      <4>2. CASE /\ p - Len(l) \in 1..Len(r) /\ c[p] = r[p - Len(l)]
                 /\ q - Len(l) \in 1..Len(r) /\ c[q] = r[q - Len(l)]
        <5>1. p - Len(l) = q - Len(l)
          BY <3>2, <4>2 DEF GoodBucket, DistinctIDs
        <5>. QED BY <3>3, <5>1
      <4>. QED BY <3>4, <3>5, <4>1, <4>2
    <3>7. ASSUME NEW p \in 1..Len(c)
          PROVE  \E i \in 0..(k+1)-1 : \E q \in 1..Len(T[i]) : c[p] = T[i][q]
      <4>1. k \in 0..(k+1)-1 /\ \A i \in 0..k-1 : i \in 0..(k+1)-1
        BY <3>1
      <4>2. CASE p \in 1..Len(l) /\ c[p] = l[p]
        BY <3>2, <4>1, <4>2
      <4>3. CASE p - Len(l) \in 1..Len(r) /\ c[p] = r[p - Len(l)]
        BY <4>1, <4>3 DEF r
      <4>. QED BY <3>4, <4>2, <4>3
    <3>8. P(k + 1, c)
      BY <3>3, <3>6, <3>7
    <3>. QED BY <3>8 DEF c
  <2>. QED BY <2>1, <2>2
<1> HIDE DEF P
<1>7. S = Nat
  <2>1. 0 \in S
    OBVIOUS
  <2>2. ASSUME NEW k \in S PROVE k + 1 \in S
    BY <1>6
  <2> HIDE DEF S
  <2>3. S \in SUBSET Nat
    BY DEF S
  <2>. QED BY <2>1, <2>2, <2>3, NatSetInduction
<1>8. P(IDBits, a)
  <2>1. IDBits \in S /\ IDBits \in 1..IDBits
    BY <1>1, <1>7
  <2>. QED BY <1>5, <2>1
<1>. QED BY <1>1, <1>8 DEF P

(* What FindClosest returns, from a table whose buckets are good. *)
LEMMA FindClosestFacts ==
    ASSUME IInv, NEW target \in ID, NEW n \in 0..K, NEW res, res = FindClosest(buckets, target, n)
    PROVE  LET D(c) == Distance(target, c.id)
               out == ToSet(AllContacts(buckets)) \ ToSet(res)
           IN  /\ Len(res) = n \/ (Len(res) < n /\ out = {})
               /\ \A p, q \in 1..Len(res) : p < q => D(res[p]) < D(res[q])
               /\ \A c \in out, p \in 1..Len(res) : D(res[p]) < D(c)
<1>1. PICK a : a = AllContacts(buckets)
  OBVIOUS
<1> DEFINE N == Len(a)
           m == IF n > N THEN N ELSE n
           s == SortByDistance(a, target)
           D(c) == Distance(target, c.id)
           out == ToSet(a) \ ToSet(res)
<1>2. a \in Seq(Contact) /\ DistinctIDs(a)
  BY <1>1, AllContactsFacts DEF IInv, TypeOK
<1>3. res = SubSeq(s, 1, m)
  BY <1>1 DEF FindClosest
<1>4. PICK f \in [1..N -> 1..N] :
             /\ s = [p \in 1..N |-> a[f[p]]]
             /\ \A i \in 1..N : \E p \in 1..N : f[p] = i
             /\ \A p, q \in 1..N : p < q => D(a[f[p]]) < D(a[f[q]])
  <2>1. \A i, j \in 1..Len(a) : a[i].id = a[j].id => i = j
    BY <1>2 DEF DistinctIDs
  <2>. QED BY <1>2, <2>1, SortSorts
<1>5. n \in Nat /\ N \in Nat /\ m \in Nat /\ m <= N /\ m <= n /\ (m = n \/ (m < n /\ m = N))
  BY <1>2, LenProperties, KAssumption
<1> HIDE DEF m, s, D
<1>6. \A p \in 1..N : s[p] = a[f[p]] /\ a[f[p]] \in Contact
  BY <1>2, <1>4, ElementOfSeq
<1>7. s \in Seq(Contact) /\ Len(s) = N
  <2>1. s = [p \in 1..N |-> s[p]]
    BY <1>4
  <2>2. \A p \in 1..N : s[p] \in Contact
    BY <1>6
  <2>. QED BY <1>5, <2>1, <2>2
<1>8. \A p \in 1..m : p \in 1..N
  BY <1>5
<1>9. res \in Seq(Contact) /\ Len(res) = m /\ \A p \in 1..m : res[p] = s[p]
  <2>1. \A p \in 1..m : s[p] \in Contact
    BY <1>6, <1>8
  <2>. QED BY <1>3, <1>5, <1>7, <2>1, SubSeqProperties
<1>10. ASSUME NEW c \in out PROVE \E r \in 1..N : ~(r <= m) /\ c = a[f[r]]
  <2>1. PICK i \in 1..N : c = a[i]
    BY <1>2 DEF ToSet
  <2>2. PICK r \in 1..N : f[r] = i
    BY <1>4
  <2>3. ~(r <= m)
    <3> SUFFICES ASSUME r <= m PROVE FALSE
      OBVIOUS
    <3>1. r \in 1..m /\ r \in 1..N
      BY <1>5
    <3>2. res[r] = c
      BY <1>6, <1>9, <2>1, <2>2, <3>1
    <3>3. DOMAIN res = 1..m
      BY <1>9
    <3>4. c \in ToSet(res)
      BY <3>1, <3>2, <3>3 DEF ToSet
    <3>. QED BY <3>4
  <2>. QED BY <2>1, <2>2, <2>3
<1> HIDE DEF out
<1>11. Len(res) = n \/ (Len(res) < n /\ out = {})
  <2>1. CASE m = n
    BY <1>9, <2>1
  <2>2. CASE m < n /\ m = N
    <3>1. \A r \in 1..N : r <= m
      BY <1>5, <2>2
    <3>2. out = {}
      BY <1>10, <3>1
    <3>. QED BY <1>9, <2>2, <3>2
  <2>. QED BY <1>5, <2>1, <2>2
<1>12. ASSUME NEW p \in 1..Len(res), NEW q \in 1..Len(res), p < q PROVE D(res[p]) < D(res[q])
  <2>1. p \in 1..N /\ q \in 1..N /\ res[p] = a[f[p]] /\ res[q] = a[f[q]]
    BY <1>6, <1>8, <1>9
  <2>2. D(a[f[p]]) < D(a[f[q]])
    BY <1>4, <1>12, <2>1
  <2>. QED BY <2>1, <2>2
<1>13. ASSUME NEW c \in out, NEW p \in 1..Len(res) PROVE D(res[p]) < D(c)
  <2>1. PICK r \in 1..N : ~(r <= m) /\ c = a[f[r]]
    BY <1>10
  <2>2. p \in 1..m /\ p \in 1..N /\ p < r
    BY <1>5, <1>8, <1>9, <2>1
  <2>3. D(a[f[p]]) < D(a[f[r]])
    BY <1>4, <2>2
  <2>. QED BY <1>6, <1>9, <2>1, <2>2, <2>3
<1>. QED BY <1>1, <1>11, <1>12, <1>13 DEF D, out

-----------------------------------------------------------------------------
(* The theorems *)

(* The inductive invariant. *)
THEOREM Invariance == Spec => []IInv
BY InitInv, NextInv, PTL DEF Spec

(* The table always consists of sequences of contacts. *)
THEOREM TypeCorrect == Spec => []TypeOK
<1>1. IInv => TypeOK
  BY DEF IInv
<1>. QED BY <1>1, Invariance, PTL

(* Buckets of at most K contacts, every ID at most once, never self. *)
THEOREM TableHasNoDuplicates == Spec => []NoDuplicates
<1>1. IInv => NoDuplicates
  BY DEF IInv, GoodBucket, NoDuplicates
<1>. QED BY <1>1, Invariance, PTL

(* Bucket i has the contacts whose distance, as a number, has its first 1 at    *)
(* position i + 1: the byte-wise PrefixLen places them as the metric says.   *)
THEOREM BucketsFollowDistance == Spec => []PlacedByDistance
<1>1. IInv => PlacedByDistance
  <2> SUFFICES ASSUME IInv, NEW i \in BucketIndices, NEW p \in 1..Len(buckets[i])
               PROVE  LET d == Distance(Self, buckets[i][p].id)
                      IN  Weight(i + 1) <= d /\ d < 2 * Weight(i + 1)
    BY DEF PlacedByDistance
  <2>1. buckets[i] \in Seq(Contact) /\ GoodBucket(i, buckets[i], now)
    BY DEF IInv, TypeOK, Tables
  <2>2. buckets[i][p] \in Contact
    BY <2>1, ElementOfSeq
  <2>3. buckets[i][p].id \in ID /\ buckets[i][p].id # Self
    BY <2>1, <2>2 DEF GoodBucket, Contact
  <2>4. bucketIndex(Self, buckets[i][p].id) = i
    BY <2>1 DEF GoodBucket
  <2>. QED BY <2>3, <2>4, BucketOfDistance
<1>. QED BY <1>1, Invariance, PTL

(* Every bucket is ordered by the time its contacts were last seen. *)
THEOREM BucketsAreOrdered == Spec => []RecencyOrder
<1>1. IInv => RecencyOrder
  BY DEF IInv, GoodBucket, RecencyOrder
<1>. QED BY <1>1, Invariance, PTL

(* FindClosest returns the min(n, size) closest contacts, each once and in the *)
(* order of their distances as numbers, whatever has been added to the table:  *)
(* a lookup that starts from them starts from the nearest nodes known.        *)
THEOREM FindClosestIsRight == Spec => []ClosestIsRight
<1>1. IInv => ClosestIsRight
  BY FindClosestFacts DEF ClosestIsRight
<1>. QED BY <1>1, Invariance, PTL

(* Only the least recently seen contact of a full bucket is ever dropped, and *)
(* only for a stranger.                                                      *)
THEOREM EvictionIsLRU == Spec => EvictsTheOldest
<1>1. ASSUME IInv, [Next]_vars, NEW x \in ID, Known(x), ~Known(x)'
      PROVE  Evicts(x)
  <2>1. buckets' # buckets
    BY <1>1 DEF Known
  <2>2. PICK id \in ID, addr \in Addresses : Contacted(id, addr)
    BY <1>1, <2>1 DEF Next, Tick, vars
  <2>3. id # Self
    BY <2>1, <2>2 DEF Contacted, AddContact
  <2> DEFINE i == bucketIndex(Self, id)
             b == buckets[i]
             u == updateBucket(b, id, addr, now)
  <2>4. i \in BucketIndices /\ buckets' = [buckets EXCEPT ![i] = u]
    BY <1>1, <2>2, <2>3, ContactedFacts
  <2>5. /\ buckets \in [BucketIndices -> Seq(Contact)] /\ now \in Nat
        /\ b \in Seq(Contact) /\ GoodBucket(i, b, now)
    BY <1>1, <2>4 DEF IInv, TypeOK, Tables
  <2>6. /\ Positions(u, id) # {}
        /\ OnlyLastLost(b, u)
        /\ Positions(b, id) # {} => SameIDs(b, u)
    <3>1. bucketIndex(Self, id) = i
      OBVIOUS
    <3> HIDE DEF i, b
    <3>. QED BY <2>3, <2>5, <3>1, UpdateGood
  <2>7. \A y \in ID : bucketIndex(Self, y) \in BucketIndices
    BY BucketIndexType, SelfAssumption
  <2>8. i = bucketIndex(Self, id)
    OBVIOUS
  <2> HIDE DEF i, u
  <2>9. \A y \in ID :
          /\ bucketIndex(Self, y) = i => /\ Known(y) <=> Positions(b, y) # {}
                                         /\ Known(y)' <=> Positions(u, y) # {}
          /\ bucketIndex(Self, y) # i => (Known(y)' <=> Known(y))
    BY <2>4, <2>5, <2>7 DEF Known
  <2>10. bucketIndex(Self, x) = i
    BY <1>1, <2>9
  <2>11. Len(b) = K /\ b[K].id = x /\ Positions(b, id) = {}
    BY <1>1, <2>6, <2>9, <2>10 DEF OnlyLastLost, SameIDs
  <2>12. \A p \in 1..K : b[K].seen <= b[p].seen
    BY <2>5, <2>11, KAssumption DEF GoodBucket
  <2>13. \A y \in ID : Known(y) /\ y # x => Known(y)'
    BY <2>6, <2>9, <2>11 DEF OnlyLastLost, SameIDs
  <2>14. Known(id)' /\ ~Known(id) /\ bucketIndex(Self, id) = i
    BY <2>6, <2>8, <2>9, <2>11
  <2>. QED BY <2>10, <2>11, <2>12, <2>13, <2>14 DEF Evicts
<1>2. ASSUME IInv, [Next]_vars
      PROVE  [\A id \in ID : Known(id) /\ ~Known(id)' => Evicts(id)]_vars
  BY <1>1, <1>2
<1>. QED BY <1>2, Invariance, PTL DEF Spec, EvictsTheOldest
=============================================================================

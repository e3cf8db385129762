------------------------------ MODULE DhtProofs ------------------------------
(***************************************************************************)
(* Proofs about Dht, for any nodes, IDs, bootstrap peers and lookups.  The    *)
(* folds and the flattening of the model are recursive functions: that they   *)
(* exist, and what they compute, is shown by induction in the form            *)
(* NatSetInduction, for each of them.                                        *)
(***************************************************************************)
EXTENDS Dht, TLAPS, SequenceTheorems, FiniteSetTheorems, WellFoundedInduction

-----------------------------------------------------------------------------
(* Numbers and sets *)

LEMMA LeastElement ==
    ASSUME NEW T \in SUBSET Nat, T # {}
    PROVE  \E x \in T : \A y \in T : x <= y
<1> DEFINE R == {ss \in Nat \X Nat : ss[1] < ss[2]}
<1>1. IsWellFoundedOn(R, Nat)
  BY NatLessThanWellFounded, Zenon DEF OpToRel
<1>2. PICK x \in T : \A y \in T : ~(<<y, x>> \in R)
  <2> HIDE DEF R
  <2>. QED BY <1>1, WFMin
<1>3. \A y \in T : x <= y
  <2> SUFFICES ASSUME NEW y \in T, y < x PROVE FALSE
    OBVIOUS
  <2>1. <<y, x>> \in R
    OBVIOUS
  <2>. QED BY <1>2, <2>1
<1>. QED BY <1>3

LEMMA MinFacts ==
    ASSUME NEW T \in SUBSET Nat, T # {}
    PROVE  Min(T) \in T /\ \A y \in T : Min(T) <= y
BY LeastElement DEF Min

(* Induction, for a set of numbers. *)
LEMMA NatSetInduction ==
    ASSUME NEW S \in SUBSET Nat, 0 \in S, \A n \in S : n + 1 \in S
    PROVE  S = Nat
<1> SUFFICES ASSUME Nat \ S # {} PROVE FALSE
  OBVIOUS
<1>1. PICK x \in Nat \ S : \A y \in Nat \ S : x <= y
  BY LeastElement
<1>2. x - 1 \in Nat /\ x - 1 \in S
  BY <1>1
<1>. QED BY <1>1, <1>2

(* Distinct positions below or at n are n numbers: an injection of 1..n into   *)
(* 0..n-1 reaches every number.                                              *)
LEMMA RanksAreReached ==
    ASSUME NEW n \in Nat, NEW f \in [1..n -> 0..n-1],
           \A i, j \in 1..n : f[i] = f[j] => i = j
    PROVE  \A p \in 0..n-1 : \E i \in 1..n : f[i] = p
<1>1. IsFiniteSet(1..n) /\ Cardinality(1..n) = n
  BY FS_Interval
<1>2. IsFiniteSet(0..n-1) /\ Cardinality(0..n-1) = n
  <2>1. 0 \in Int /\ n - 1 \in Int
    OBVIOUS
  <2>2. /\ IsFiniteSet(0..n-1)
        /\ Cardinality(0..n-1) = IF 0 > n-1 THEN 0 ELSE n-1-0+1
    BY <2>1, FS_Interval, Zenon
  <2>. QED BY <2>2
<1>3. f \in Injection(1..n, 0..n-1)
  BY DEF Injection, IsInjective
<1>4. f \in Surjection(1..n, 0..n-1)
  BY <1>1, <1>2, <1>3, FS_Injection
<1>. QED BY <1>4 DEF Surjection

-----------------------------------------------------------------------------
(* The order of distances *)

LEMMA LessIsAnOrder ==
    ASSUME NEW a \in ID, NEW b \in ID, NEW c \in ID
    PROVE  /\ ~Less(a, a)
           /\ Less(a, b) /\ Less(b, c) => Less(a, c)
           /\ a # b => Less(a, b) \/ Less(b, a)
<1>1. \A d \in ID, i \in 1..IDBits : d[i] \in {0, 1}
  BY DEF ID
<1>2. ~Less(a, a)
  BY <1>1 DEF Less
<1>3. ASSUME Less(a, b), Less(b, c) PROVE Less(a, c)
  <2>1. PICK i \in 1..IDBits : a[i] < b[i] /\ \A k \in 1..i-1 : a[k] = b[k]
    BY <1>3 DEF Less
  <2>2. PICK j \in 1..IDBits : b[j] < c[j] /\ \A k \in 1..j-1 : b[k] = c[k]
    BY <1>3 DEF Less
  <2>3. i < j \/ i = j \/ j < i
    BY IDBitsAssumption
  <2>4. CASE i < j
    <3>1. a[i] < c[i]
      BY <2>1, <2>2, <2>4, IDBitsAssumption
    <3>2. \A k \in 1..i-1 : a[k] = c[k]
      BY <2>1, <2>2, <2>4, IDBitsAssumption
    <3>. QED BY <3>1, <3>2 DEF Less
  <2>5. CASE i = j
    BY <1>1, <2>1, <2>2, <2>5
  <2>6. CASE j < i
    <3>1. a[j] < c[j]
      BY <2>1, <2>2, <2>6, IDBitsAssumption
    <3>2. \A k \in 1..j-1 : a[k] = c[k]
      BY <2>1, <2>2, <2>6, IDBitsAssumption
    <3>. QED BY <3>1, <3>2 DEF Less
  <2>. QED BY <2>3, <2>4, <2>5, <2>6
<1>4. ASSUME a # b PROVE Less(a, b) \/ Less(b, a)
  <2> DEFINE T == {i \in 1..IDBits : a[i] # b[i]}
  <2>1. T \in SUBSET Nat /\ T # {}
    BY <1>4, IDBitsAssumption DEF ID
  <2>2. PICK i \in T : \A y \in T : i <= y
    <3> HIDE DEF T
    <3>. QED BY <2>1, LeastElement
  <2>3. i \in 1..IDBits /\ a[i] # b[i] /\ \A k \in 1..i-1 : a[k] = b[k]
    BY <2>2, IDBitsAssumption
  <2>4. a[i] < b[i] \/ b[i] < a[i]
    BY <1>1, <2>3
  <2>. QED BY <2>3, <2>4 DEF Less
<1>. QED BY <1>2, <1>3, <1>4

LEMMA CloserIsAnOrder ==
    ASSUME NEW t \in ID, NEW a \in ID, NEW b \in ID, NEW c \in ID
    PROVE  /\ ~Closer(t, a, a)
           /\ Closer(t, a, b) /\ Closer(t, b, c) => Closer(t, a, c)
           /\ a # b => Closer(t, a, b) \/ Closer(t, b, a)
<1>1. \A x \in ID : XOR(t, x) \in ID
  BY DEF XOR, ID
<1>2. a # b => XOR(t, a) # XOR(t, b)
  <2> SUFFICES ASSUME a # b PROVE XOR(t, a) # XOR(t, b)
    OBVIOUS
  <2>1. PICK i \in 1..IDBits : a[i] # b[i]
    <3> SUFFICES ASSUME \A i \in 1..IDBits : a[i] = b[i] PROVE a = b
      OBVIOUS
    <3>1. a \in [1..IDBits -> {0, 1}] /\ b \in [1..IDBits -> {0, 1}]
      BY DEF ID
    <3>2. a = [i \in 1..IDBits |-> a[i]] /\ b = [i \in 1..IDBits |-> b[i]]
      BY <3>1
    <3>3. [i \in 1..IDBits |-> a[i]] = [i \in 1..IDBits |-> b[i]]
      OBVIOUS
    <3>. QED BY <3>2, <3>3, Zenon
  <2>2. XOR(t, a)[i] # XOR(t, b)[i]
    BY <2>1 DEF XOR, ID
  <2>. QED BY <2>2
<1>. QED BY <1>1, <1>2, LessIsAnOrder DEF Closer

(* SortByDistance permutes: each of its positions holds the contact of one     *)
(* position of s, and no two of them the same.                               *)
LEMMA SortPermutes ==
    ASSUME NEW s \in Seq(Contact), NEW target \in ID
    PROVE  \E f \in [1..Len(s) -> 1..Len(s)] :
             /\ \A p, q \in 1..Len(s) : f[p] = f[q] => p = q
             /\ SortByDistance(s, target) = [p \in 1..Len(s) |-> s[f[p]]]
<1> DEFINE n == Len(s)
           Below(i) == {j \in 1..n : \/ Closer(target, s[j].id, s[i].id)
                                     \/ s[j].id = s[i].id /\ j < i}
           rank == [i \in 1..n |-> Rank(s, target, i)]
           f == [p \in 1..n |-> CHOOSE i \in 1..n : Rank(s, target, i) = p - 1]
<1>1. n \in Nat /\ \A i \in 1..n : s[i].id \in ID
  <2>1. \A i \in 1..n : s[i] \in Contact
    BY ElementOfSeq
  <2>. QED BY <2>1, LenProperties DEF Contact
<1>2. IsFiniteSet(1..n) /\ Cardinality(1..n) = n
  <2>1. /\ IsFiniteSet(1..n)
        /\ Cardinality(1..n) = IF 1 > n THEN 0 ELSE n-1+1
    BY <1>1, FS_Interval
  <2>. QED BY <1>1, <2>1
<1>3. \A i \in 1..n : i \notin Below(i) /\ Below(i) \subseteq 1..n
  BY <1>1, CloserIsAnOrder
<1>4. \A i, j \in 1..n : i # j => i \in Below(j) \/ j \in Below(i)
  BY <1>1, CloserIsAnOrder
<1>5. \A i, j \in 1..n : i \in Below(j) => Below(i) \subseteq Below(j)
  <2> SUFFICES ASSUME NEW i \in 1..n, NEW j \in 1..n, i \in Below(j),
                      NEW k \in Below(i)
               PROVE  k \in Below(j)
    OBVIOUS
  <2>1. k \in 1..n /\ s[k].id \in ID /\ s[i].id \in ID /\ s[j].id \in ID
    BY <1>1
  <2>. QED BY <1>1, <2>1, CloserIsAnOrder
<1>6. \A i \in 1..n : /\ IsFiniteSet(Below(i)) /\ Rank(s, target, i) = Cardinality(Below(i))
                      /\ Rank(s, target, i) \in 0..n-1
  <2> SUFFICES ASSUME NEW i \in 1..n
               PROVE  /\ IsFiniteSet(Below(i)) /\ Rank(s, target, i) = Cardinality(Below(i))
                      /\ Rank(s, target, i) \in 0..n-1
    OBVIOUS
  <2>1. Rank(s, target, i) = Cardinality(Below(i))
    BY DEF Rank
  <2> HIDE DEF Below
  <2>2. /\ IsFiniteSet(Below(i)) /\ Cardinality(Below(i)) \in Nat
        /\ Cardinality(Below(i)) <= n /\ (Cardinality(Below(i)) = n => Below(i) = 1..n)
    BY <1>2, <1>3, FS_Subset, FS_CardinalityType
  <2>. QED BY <1>1, <1>3, <2>1, <2>2
<1>7. \A i, j \in 1..n : i # j => Rank(s, target, i) # Rank(s, target, j)
  <2> HIDE DEF Below
  <2>1. \A i, j \in 1..n : i \in Below(j) => Cardinality(Below(i)) # Cardinality(Below(j))
    BY <1>3, <1>5, <1>6, FS_Subset
  <2>. QED BY <1>4, <1>6, <2>1
<1>8. \A p \in 0..n-1 : \E i \in 1..n : rank[i] = p
  <2>1. rank \in [1..n -> 0..n-1]
    BY <1>6
  <2>2. \A i, j \in 1..n : rank[i] = rank[j] => i = j
    BY <1>7
  <2> HIDE DEF rank
  <2>. QED BY <1>1, <2>1, <2>2, RanksAreReached
<1>9. \A p \in 1..n : f[p] \in 1..n /\ Rank(s, target, f[p]) = p - 1
  <2> SUFFICES ASSUME NEW p \in 1..n
               PROVE  f[p] \in 1..n /\ Rank(s, target, f[p]) = p - 1
    OBVIOUS
  <2>1. p - 1 \in 0..n-1
    BY <1>1
  <2>2. \E i \in 1..n : Rank(s, target, i) = p - 1
    BY <1>8, <2>1
  <2>. QED BY <2>2
<1>10. f \in [1..n -> 1..n] /\ \A p, q \in 1..n : f[p] = f[q] => p = q
  <2>1. f \in [1..n -> 1..n]
    BY <1>9
  <2> HIDE DEF f
  <2>. QED BY <1>1, <1>9, <2>1
<1>11. SortByDistance(s, target) = [p \in 1..n |-> s[f[p]]]
  BY DEF SortByDistance
<1>. QED BY <1>10, <1>11

-----------------------------------------------------------------------------
(* What AddContact does to a table *)

(* Every ID has a bucket. *)
LEMMA BucketIndexType ==
    ASSUME NEW self \in ID, NEW id \in ID
    PROVE  bucketIndex(self, id) \in BucketIndices
<1> DEFINE d == XOR(self, id)
<1>1. Ones(d) \in SUBSET Nat /\ Ones(d) \subseteq 1..IDBits
  BY IDBitsAssumption DEF Ones
<1>2. PrefixLen(d) \in 0..IDBits
  <2>1. CASE Ones(d) = {}
    BY <2>1, IDBitsAssumption DEF PrefixLen
  <2>2. CASE Ones(d) # {}
    <3>1. Min(Ones(d)) \in 1..IDBits
      BY <1>1, <2>2, MinFacts
    <3>. QED BY <2>2, <3>1, IDBitsAssumption DEF PrefixLen
  <2>. QED BY <2>1, <2>2
<1>. QED BY <1>2, IDBitsAssumption DEF bucketIndex, BucketIndices

(* touch permutes the bucket: position i comes first, the ones before it move *)
(* back by one.                                                              *)
LEMMA TouchFacts ==
    ASSUME NEW b \in Seq(Contact), NEW i \in 1..Len(b), NEW t \in Nat
    PROVE  /\ touch(b, i, t) \in Seq(Contact)
           /\ Len(touch(b, i, t)) = Len(b)
           /\ touch(b, i, t)[1] = [b[i] EXCEPT !.seen = t]
           /\ \A j \in 2..i : touch(b, i, t)[j] = b[j-1]
           /\ \A j \in i+1..Len(b) : touch(b, i, t)[j] = b[j]
<1> DEFINE c == [b[i] EXCEPT !.seen = t]
           front == SubSeq(b, 1, i-1)
           back == SubSeq(b, i+1, Len(b))
           head == <<c>> \o front
<1>1. c \in Contact
  <2>1. b[i] \in Contact
    BY ElementOfSeq
  <2>. QED BY <2>1 DEF Contact
<1>2. /\ front \in Seq(Contact) /\ Len(front) = i - 1
      /\ \A j \in 1..i-1 : front[j] = b[j]
  BY ElementOfSeq, SubSeqProperties
<1>3. /\ back \in Seq(Contact) /\ Len(back) = Len(b) - i
      /\ \A j \in 1..Len(b)-i : back[j] = b[i+j]
  BY ElementOfSeq, SubSeqProperties
<1>4. <<c>> \in Seq(Contact) /\ Len(<<c>>) = 1 /\ <<c>>[1] = c
  BY <1>1
<1>5. touch(b, i, t) = head \o back
  BY DEF touch
<1> HIDE DEF c, front, back
<1>6. /\ head \in Seq(Contact)
      /\ Len(head) = i
      /\ head[1] = c
      /\ \A j \in 2..i : head[j] = b[j-1]
  BY <1>2, <1>4, ConcatProperties
<1>7. /\ touch(b, i, t) \in Seq(Contact)
      /\ Len(touch(b, i, t)) = Len(b)
      /\ \A j \in 1..i : touch(b, i, t)[j] = head[j]
      /\ \A j \in i+1..Len(b) : touch(b, i, t)[j] = back[j - i]
  <2> HIDE DEF head
  <2>1. /\ head \o back \in Seq(Contact)
        /\ Len(head \o back) = Len(head) + Len(back)
        /\ \A j \in 1..Len(head) + Len(back) : (head \o back)[j] =
              IF j <= Len(head) THEN head[j] ELSE back[j - Len(head)]
    BY <1>3, <1>6, ConcatProperties
  <2>. QED BY <1>3, <1>5, <1>6, <2>1
<1>8. \A j \in i+1..Len(b) : back[j - i] = b[j]
  BY <1>3
<1>9. /\ touch(b, i, t)[1] = c
      /\ \A j \in 2..i : touch(b, i, t)[j] = b[j-1]
      /\ \A j \in i+1..Len(b) : touch(b, i, t)[j] = b[j]
  <2> HIDE DEF head
  <2>1. 1 \in 1..i /\ \A j \in 2..i : j \in 1..i
    OBVIOUS
  <2>. QED BY <1>6, <1>7, <1>8, <2>1
<1>. QED BY <1>7, <1>9 DEF c

(* add prepends and keeps at most K contacts. *)
LEMMA AddFacts ==
    ASSUME NEW b \in Seq(Contact), NEW c \in Contact
    PROVE  /\ add(b, c) \in Seq(Contact)
           /\ Len(add(b, c)) = IF Len(b) + 1 > K THEN K ELSE Len(b) + 1
           /\ add(b, c)[1] = c
           /\ \A j \in 2..Len(add(b, c)) : add(b, c)[j] = b[j-1]
<1> DEFINE longer == <<c>> \o b
<1>1. <<c>> \in Seq(Contact) /\ Len(<<c>>) = 1 /\ <<c>>[1] = c
  OBVIOUS
<1>2. /\ longer \in Seq(Contact)
      /\ Len(longer) = Len(b) + 1
      /\ longer[1] = c
      /\ \A j \in 2..Len(b)+1 : longer[j] = b[j-1]
  BY <1>1, ConcatProperties
<1>3. add(b, c) = IF Len(longer) > K THEN SubSeq(longer, 1, K) ELSE longer
  BY DEF add
<1> HIDE DEF longer
<1>4. CASE Len(longer) > K
  <2>1. \A j \in 1..K : longer[j] \in Contact
    BY <1>2, <1>4, KAssumption, ElementOfSeq
  <2>2. /\ SubSeq(longer, 1, K) \in Seq(Contact)
        /\ Len(SubSeq(longer, 1, K)) = K
        /\ \A j \in 1..K : SubSeq(longer, 1, K)[j] = longer[j]
    BY <2>1, KAssumption, SubSeqProperties
  <2>. QED BY <1>2, <1>3, <1>4, <2>2, KAssumption
<1>5. CASE ~(Len(longer) > K)
  BY <1>2, <1>3, <1>5, KAssumption
<1>. QED BY <1>4, <1>5


Alike(c, d) == c.id = d.id /\ c.addr = d.addr

DistinctIDs(b) == \A p, q \in 1..Len(b) : b[p].id = b[q].id => p = q

(* AddContact brings the contact in; the others keep ID and address, and none   *)
(* leaves a bucket that is not full.                                         *)
LEMMA UpdateFacts ==
    ASSUME NEW b \in Seq(Contact), DistinctIDs(b),
           NEW id \in ID, NEW addr \in Addresses,
           NEW t \in Nat, NEW u, u = updateBucket(b, id, addr, t)
    PROVE  /\ u \in Seq(Contact)
           /\ DistinctIDs(u)
           /\ \A p \in 1..Len(u) : \/ \E j \in 1..Len(b) : Alike(u[p], b[j])
                                   \/ u[p].id = id /\ u[p].addr = addr
           /\ \E p \in 1..Len(u) : u[p].id = id
           /\ Len(b) < K \/ Positions(b, id) # {} =>
                \A j \in 1..Len(b) : \E p \in 1..Len(u) : u[p].id = b[j].id
<1>0. Len(b) \in Nat /\ \A j \in 1..Len(b) : b[j] \in Contact
  BY ElementOfSeq, LenProperties
<1>1. CASE Positions(b, id) # {}
  <2> DEFINE k == Min(Positions(b, id))
  <2>1. k \in 1..Len(b) /\ b[k].id = id
    <3>1. Positions(b, id) \in SUBSET Nat
      BY <1>0 DEF Positions
    <3>2. k \in Positions(b, id)
      BY <1>1, <3>1, MinFacts
    <3>. QED BY <3>2 DEF Positions
  <2>2. u = touch(b, k, t)
    BY <1>1 DEF updateBucket
  <2> HIDE DEF k
  <2>3. /\ u \in Seq(Contact) /\ Len(u) = Len(b)
        /\ u[1] = [b[k] EXCEPT !.seen = t]
        /\ \A j \in 2..k : u[j] = b[j-1]
        /\ \A j \in k+1..Len(b) : u[j] = b[j]
    <3>1. /\ touch(b, k, t) \in Seq(Contact) /\ Len(touch(b, k, t)) = Len(b)
          /\ touch(b, k, t)[1] = [b[k] EXCEPT !.seen = t]
          /\ \A j \in 2..k : touch(b, k, t)[j] = b[j-1]
          /\ \A j \in k+1..Len(b) : touch(b, k, t)[j] = b[j]
      BY <2>1, TouchFacts
    <3>. QED BY <2>2, <3>1, Zenon
  <2>4. u[1].id = b[k].id /\ u[1].addr = b[k].addr /\ Len(u) = Len(b)
    BY <1>0, <2>1, <2>3 DEF Contact
  <2>5. \A p \in 1..Len(u) : \/ p = 1
                             \/ p \in 2..k /\ u[p] = b[p-1] /\ p - 1 \in 1..Len(b)
                             \/ p \in k+1..Len(b) /\ u[p] = b[p]
    BY <1>0, <2>1, <2>3
  <2>6. DistinctIDs(u)
    <3> SUFFICES ASSUME NEW p \in 1..Len(u), NEW q \in 1..Len(u), u[p].id = u[q].id
                 PROVE  p = q
      BY DEF DistinctIDs
    <3> DEFINE src(x) == IF x = 1 THEN k ELSE IF x <= k THEN x - 1 ELSE x
    <3>1. \A x \in 1..Len(u) : src(x) \in 1..Len(b) /\ u[x].id = b[src(x)].id
      BY <1>0, <2>1, <2>4, <2>5
    <3>2. src(p) = src(q)
      <4> HIDE DEF src
      <4>. QED BY <3>1 DEF DistinctIDs
    <3>. QED BY <1>0, <2>1, <2>3, <3>2
  <2>7. \A p \in 1..Len(u) : \E j \in 1..Len(b) : Alike(u[p], b[j])
    BY <1>0, <2>1, <2>3, <2>4, <2>5 DEF Alike
  <2>8. \A j \in 1..Len(b) : \E p \in 1..Len(u) : u[p].id = b[j].id
    <3> SUFFICES ASSUME NEW j \in 1..Len(b)
                 PROVE  \E p \in 1..Len(u) : u[p].id = b[j].id
      OBVIOUS
    <3>1. CASE j = k
      BY <1>0, <2>1, <2>4, <3>1
    <3>2. CASE j < k
      <4>1. j + 1 \in 2..k /\ j + 1 \in 1..Len(u) /\ (j + 1) - 1 = j
        BY <1>0, <2>1, <2>3, <3>2
      <4>2. u[j + 1] = b[j]
        BY <2>3, <4>1
      <4>. QED BY <4>1, <4>2
    <3>3. CASE k < j
      BY <1>0, <2>1, <2>3, <3>3
    <3>. QED BY <1>0, <2>1, <3>1, <3>2, <3>3
  <2>. QED BY <2>1, <2>3, <2>6, <2>7, <2>8
<1>2. CASE Positions(b, id) = {}
  <2> DEFINE c == [id |-> id, addr |-> addr, seen |-> t]
  <2>1. c \in Contact /\ c.id = id /\ c.addr = addr
    BY DEF Contact
  <2>2. u = add(b, c)
    BY <1>2 DEF updateBucket
  <2> HIDE DEF c
  <2>3. /\ u \in Seq(Contact)
        /\ Len(u) = IF Len(b) + 1 > K THEN K ELSE Len(b) + 1
        /\ u[1] = c
        /\ \A j \in 2..Len(u) : u[j] = b[j-1]
    <3>1. /\ add(b, c) \in Seq(Contact)
          /\ Len(add(b, c)) = IF Len(b) + 1 > K THEN K ELSE Len(b) + 1
          /\ add(b, c)[1] = c
          /\ \A j \in 2..Len(add(b, c)) : add(b, c)[j] = b[j-1]
      BY <2>1, AddFacts, Zenon
    <3>. QED BY <2>2, <3>1, Zenon
  <2>4. Len(u) \in Nat /\ Len(u) >= 1 /\ Len(u) <= Len(b) + 1
    BY <1>0, <2>3, KAssumption
  <2>5. \A p \in 2..Len(u) : p - 1 \in 1..Len(b) /\ u[p] = b[p-1] /\ b[p-1].id # id
    BY <1>0, <1>2, <2>3, <2>4 DEF Positions
  <2>6. DistinctIDs(u)
    <3> SUFFICES ASSUME NEW p \in 1..Len(u), NEW q \in 1..Len(u), u[p].id = u[q].id
                 PROVE  p = q
      BY DEF DistinctIDs
    <3>1. \A x \in 1..Len(u) : x = 1 \/ x \in 2..Len(u)
      BY <2>4
    <3>2. CASE p = 1 \/ q = 1
      BY <2>1, <2>3, <2>5, <3>1, <3>2
    <3>3. CASE p \in 2..Len(u) /\ q \in 2..Len(u)
      <4>1. b[p-1].id = b[q-1].id /\ p-1 \in 1..Len(b) /\ q-1 \in 1..Len(b)
        BY <2>5, <3>3
      <4>2. p - 1 = q - 1
        BY <4>1 DEF DistinctIDs
      <4>. QED BY <3>3, <4>2, <2>4
    <3>. QED BY <3>1, <3>2, <3>3
  <2>7. \A p \in 1..Len(u) : \/ \E j \in 1..Len(b) : Alike(u[p], b[j])
                             \/ u[p].id = id /\ u[p].addr = addr
    <3> SUFFICES ASSUME NEW p \in 1..Len(u)
                 PROVE  \/ \E j \in 1..Len(b) : Alike(u[p], b[j])
                        \/ u[p].id = id /\ u[p].addr = addr
      OBVIOUS
    <3>1. p = 1 \/ p \in 2..Len(u)
      BY <2>4
    <3>. QED BY <2>1, <2>3, <2>5, <3>1 DEF Alike
  <2>8. ASSUME Len(b) < K, NEW j \in 1..Len(b)
        PROVE  \E p \in 1..Len(u) : u[p].id = b[j].id
    <3>1. j + 1 \in 2..Len(u) /\ j + 1 \in 1..Len(u) /\ (j + 1) - 1 = j
      BY <1>0, <2>3, <2>8, KAssumption
    <3>2. u[j + 1] = b[j]
      BY <2>3, <3>1
    <3>. QED BY <3>1, <3>2
  <2>9. 1 \in 1..Len(u) /\ u[1].id = id
    BY <2>1, <2>3, <2>4
  <2>. QED BY <1>2, <2>3, <2>6, <2>7, <2>8, <2>9
<1>. QED BY <1>1, <1>2

-----------------------------------------------------------------------------
(* Good tables *)

(* How often the nodes have been started. *)
Lives == {L \in [Nodes -> Nat \ {0}] : \A n \in Nodes : L[n] <= Len(IDOf[n])}

(* The contact's ID was drawn where its address says, in the first L starts. *)
Truthful(c, L) ==
    \E m \in Nodes : c.id \in {IDOf[m][k] : k \in 1..L[m]} /\ c.addr \in AddressesOf(m)

GoodBucket(n, i, b, L) ==
    /\ DistinctIDs(b)
    /\ \A p \in 1..Len(b) : /\ Truthful(b[p], L)
                            /\ b[p].id # IDOf[n][L[n]]
                            /\ bucketIndex(IDOf[n][L[n]], b[p].id) = i

GoodTable(n, T, L) ==
    T \in Tables /\ \A i \in BucketIndices : GoodBucket(n, i, T[i], L)

Has(T, id) == \E i \in BucketIndices : \E p \in 1..Len(T[i]) : T[i][p].id = id

(* So few nodes that no bucket can overflow, as long as none has restarted. *)
Few == IsFiniteSet(Nodes) /\ Cardinality(Nodes) <= K + 1

Original(L) == \A n \in Nodes : L[n] = 1

LEMMA EndpointFacts ==
    /\ \A n \in Nodes : Listen(n) \in Endpoints /\ Listen(n) \in AddressesOf(n)
    /\ \A c \in Connections : /\ c[1] \in Nodes /\ c[2] \in Nodes
                              /\ Eph(c) \in Endpoints /\ Eph(c) \in AddressesOf(c[1])
    /\ \A n \in Nodes : AddressesOf(n) \subseteq Endpoints
    /\ Endpoints \subseteq Addresses
<1>1. \A n \in Nodes : Listen(n) \in Endpoints /\ Listen(n) \in AddressesOf(n)
  BY DEF Endpoints, AddressesOf
<1>2. \A c \in Connections : /\ c[1] \in Nodes /\ c[2] \in Nodes /\ c[3] \in Ports
                             /\ Eph(c) \in Endpoints
  BY DEF Endpoints, Connections
<1>3. \A c \in Connections : Eph(c) \in AddressesOf(c[1])
  BY <1>2 DEF Eph, AddressesOf
<1>4. ASSUME NEW n \in Nodes, NEW p \in Ports
      PROVE  <<"ephemeral", Machine[n], p>> \in Endpoints
  <2>1. <<n, n, p>> \in Connections /\ Eph(<<n, n, p>>) = <<"ephemeral", Machine[n], p>>
    BY DEF Connections, Eph
  <2>. QED BY <1>2, <2>1
<1>5. \A n \in Nodes : AddressesOf(n) \subseteq Endpoints
  BY <1>1, <1>4 DEF AddressesOf
<1>. QED BY <1>1, <1>2, <1>3, <1>5, AddressesAssumption

(* No ID is drawn twice. *)
LEMMA IDFacts ==
    ASSUME NEW L \in Lives
    PROVE  /\ \A n \in Nodes : L[n] \in Nat \ {0} /\ L[n] \in 1..L[n] /\ IDOf[n][L[n]] \in ID
           /\ \A n \in Nodes : \A k \in 1..L[n] : IDOf[n][k] \in ID
           /\ \A m, n \in Nodes : \A j \in 1..L[m], k \in 1..L[n] :
                IDOf[m][j] = IDOf[n][k] => m = n /\ j = k
<1>1. \A n \in Nodes : /\ L[n] \in Nat \ {0} /\ IDOf[n] \in Seq(ID)
                       /\ Len(IDOf[n]) \in Nat /\ L[n] <= Len(IDOf[n])
  BY IDOfAssumption, LenProperties DEF Lives
<1>2. \A n \in Nodes : /\ L[n] \in 1..L[n]
                       /\ \A k \in 1..L[n] : k \in 1..Len(IDOf[n])
  BY <1>1
<1>3. \A n \in Nodes : \A k \in 1..L[n] : IDOf[n][k] \in ID
  BY <1>1, <1>2, ElementOfSeq
<1>4. \A m, n \in Nodes : \A j \in 1..L[m], k \in 1..L[n] :
        IDOf[m][j] = IDOf[n][k] => m = n /\ j = k
  BY <1>2, IDOfAssumption
<1>. QED BY <1>1, <1>2, <1>3, <1>4

LEMMA TruthfulFacts ==
    ASSUME NEW L \in Lives, NEW c, Truthful(c, L)
    PROVE  c.id \in ID /\ c.addr \in Endpoints /\ c.addr \in Addresses
BY IDFacts, EndpointFacts DEF Truthful

(* A bucket that lacks some other node has room, if there are few nodes. *)
LEMMA RoomLeft ==
    ASSUME Few, NEW L \in Lives, Original(L), NEW n \in Nodes, NEW m \in Nodes, m # n, NEW i,
           NEW b \in Seq(Contact), GoodBucket(n, i, b, L), Positions(b, IDOf[m][1]) = {}
    PROVE  Len(b) < K
<1> DEFINE S == (Nodes \ {n}) \ {m}
           f == [p \in 1..Len(b) |-> CHOOSE o \in Nodes : b[p].id = IDOf[o][1]]
<1>1. Len(b) \in Nat /\ \A p \in 1..Len(b) : b[p] \in Contact
  BY ElementOfSeq, LenProperties
<1>2. \A p \in 1..Len(b) : /\ f[p] \in Nodes /\ b[p].id = IDOf[f[p]][1]
                           /\ f[p] # n /\ f[p] # m
  <2> SUFFICES ASSUME NEW p \in 1..Len(b)
               PROVE  f[p] \in Nodes /\ b[p].id = IDOf[f[p]][1] /\ f[p] # n /\ f[p] # m
    OBVIOUS
  <2>1. Truthful(b[p], L) /\ b[p].id # IDOf[n][1] /\ b[p].id # IDOf[m][1]
    BY DEF GoodBucket, Original, Positions
  <2>2. \E o \in Nodes : b[p].id = IDOf[o][1]
    BY <2>1 DEF Truthful, Original
  <2>. QED BY <2>1, <2>2
<1>3. \A p, q \in 1..Len(b) : f[p] = f[q] => p = q
  <2> HIDE DEF f
  <2>. QED BY <1>2 DEF GoodBucket, DistinctIDs
<1>4. f \in Injection(1..Len(b), S)
  <2>1. f \in [1..Len(b) -> S]
    BY <1>2
  <2> HIDE DEF f, S
  <2>. QED BY <1>3, <2>1 DEF Injection, IsInjective
<1>5. /\ IsFiniteSet(S) /\ Cardinality(S) = Cardinality(Nodes) - 1 - 1
      /\ Cardinality(Nodes) \in Nat
  <2>1. /\ IsFiniteSet(Nodes \ {n}) /\ Cardinality(Nodes \ {n}) = Cardinality(Nodes) - 1
    BY FS_RemoveElement DEF Few
  <2>2. m \in Nodes \ {n}
    OBVIOUS
  <2>3. IsFiniteSet(S) /\ Cardinality(S) = Cardinality(Nodes \ {n}) - 1
    BY <2>1, <2>2, FS_RemoveElement
  <2>. QED BY <2>1, <2>3, FS_CardinalityType DEF Few
<1>6. Cardinality(1..Len(b)) <= Cardinality(S)
  <2> HIDE DEF f, S
  <2>. QED BY <1>4, <1>5, FS_Injection
<1>7. Cardinality(1..Len(b)) = Len(b)
  <2>1. Cardinality(1..Len(b)) = IF 1 > Len(b) THEN 0 ELSE Len(b)-1+1
    BY <1>1, FS_Interval
  <2>. QED BY <1>1, <2>1
<1> HIDE DEF S
<1>. QED BY <1>1, <1>5, <1>6, <1>7, KAssumption DEF Few

(* Learning a truthful contact keeps a table good and brings the contact in;   *)
(* with few nodes nobody is forgotten.                                       *)
LEMMA LearnGood ==
    ASSUME life \in Lives, NEW n \in Nodes, NEW T, GoodTable(n, T, life),
           NEW c, Truthful(c, life), NEW U, U = Learn(T, n, c.id, c.addr)
    PROVE  /\ GoodTable(n, U, life)
           /\ c.id # SelfID(n) => Has(U, c.id)
           /\ Few /\ Original(life) => \A id : Has(T, id) => Has(U, id)
<1> DEFINE t == 0
           self == IDOf[n][life[n]]
           k == bucketIndex(self, c.id)
           b == T[k]
           u == updateBucket(b, c.id, c.addr, t)
<1>1. t \in Nat
  OBVIOUS
<1>2. c.addr \in Addresses /\ self \in ID /\ c.id \in ID
  BY TruthfulFacts, IDFacts
<1>3. k \in BucketIndices
  BY <1>2, BucketIndexType
<1>4. b \in Seq(Contact) /\ GoodBucket(n, k, b, life)
  BY <1>3 DEF GoodTable, Tables
<1>5. U = IF c.id = self THEN T ELSE [T EXCEPT ![k] = u]
  BY DEF Learn, AddContact, SelfID
<1>6. CASE c.id = self
  BY <1>5, <1>6 DEF SelfID
<1>7. CASE c.id # self
  <2> HIDE DEF t, self, k, b
  <2>1. DistinctIDs(b)
    BY <1>4 DEF GoodBucket
  <2>2. /\ u \in Seq(Contact)
        /\ DistinctIDs(u)
        /\ \A p \in 1..Len(u) : \/ \E j \in 1..Len(b) : Alike(u[p], b[j])
                                \/ u[p].id = c.id /\ u[p].addr = c.addr
        /\ \E p \in 1..Len(u) : u[p].id = c.id
        /\ Len(b) < K \/ Positions(b, c.id) # {} =>
             \A j \in 1..Len(b) : \E p \in 1..Len(u) : u[p].id = b[j].id
    <3> DEFINE id == c.id
               addr == c.addr
    <3>1. u = updateBucket(b, id, addr, t) /\ id \in ID /\ addr \in Addresses
      BY <1>2
    <3> HIDE DEF u, id, addr
    <3>2. /\ u \in Seq(Contact)
          /\ DistinctIDs(u)
          /\ \A p \in 1..Len(u) : \/ \E j \in 1..Len(b) : Alike(u[p], b[j])
                                  \/ u[p].id = id /\ u[p].addr = addr
          /\ \E p \in 1..Len(u) : u[p].id = id
          /\ Len(b) < K \/ Positions(b, id) # {} =>
               \A j \in 1..Len(b) : \E p \in 1..Len(u) : u[p].id = b[j].id
      BY <1>1, <1>4, <2>1, <3>1, UpdateFacts
    <3>. QED BY <3>2 DEF id, addr
  <2> HIDE DEF u
  <2>3. /\ U \in Tables /\ U[k] = u
        /\ \A i \in BucketIndices \ {k} : U[i] = T[i]
    BY <1>3, <1>5, <1>7, <2>2 DEF GoodTable, Tables
  <2>4. GoodBucket(n, k, u, life)
    <3> SUFFICES ASSUME NEW p \in 1..Len(u)
                 PROVE  /\ Truthful(u[p], life) /\ u[p].id # self
                        /\ bucketIndex(self, u[p].id) = k
      BY <2>2 DEF GoodBucket, self
    <3>1. CASE \E j \in 1..Len(b) : Alike(u[p], b[j])
      BY <1>4, <3>1 DEF Alike, GoodBucket, Truthful, self
    <3>2. CASE u[p].id = c.id /\ u[p].addr = c.addr
      BY <1>7, <3>2 DEF Truthful, k
    <3>. QED BY <2>2, <3>1, <3>2
  <2>5. GoodTable(n, U, life)
    BY <2>3, <2>4 DEF GoodTable
  <2>6. Has(U, c.id)
    BY <1>3, <2>2, <2>3 DEF Has
  <2>7. ASSUME Few, Original(life), NEW id, Has(T, id) PROVE Has(U, id)
    <3>1. PICK i \in BucketIndices : \E p \in 1..Len(T[i]) : T[i][p].id = id
      BY <2>7 DEF Has
    <3>2. CASE i # k
      BY <2>3, <3>1, <3>2 DEF Has
    <3>3. CASE i = k
      <4>1. Len(b) < K \/ Positions(b, c.id) # {}
        <5>1. PICK m \in Nodes : c.id = IDOf[m][1]
          BY <2>7 DEF Truthful, Original
        <5>2. m # n
          BY <1>7, <2>7, <5>1 DEF self, Original
        <5>. QED BY <1>4, <2>7, <5>1, <5>2, RoomLeft
      <4>2. \E p \in 1..Len(u) : u[p].id = id
        BY <2>2, <3>1, <3>3, <4>1 DEF b
      <4>. QED BY <1>3, <2>3, <4>2 DEF Has
    <3>. QED BY <3>2, <3>3
  <2>. QED BY <2>5, <2>6, <2>7
<1>. QED BY <1>6, <1>7

-----------------------------------------------------------------------------
(* AllContacts *)

(* The recursive function of FlattenSeq exists. *)
LEMMA FlattenFacts ==
    ASSUME NEW s, Len(s) \in Nat \ {0}
    PROVE  \E f : /\ FlattenSeq(s) = f[Len(s)]
                  /\ f[1] = s[1]
                  /\ \A i \in 2..Len(s) : f[i] = f[i-1] \o s[i]
<1> DEFINE Flat(f, k) == f = [i \in 1..k |-> IF i = 1 THEN s[i] ELSE f[i-1] \o s[i]]
           S == {k \in Nat : \E f : Flat(f, k)}
<1>1. 0 \in S
  <2>1. Flat([i \in 1..0 |-> s[i]], 0)
    OBVIOUS
  <2>. QED BY <2>1
<1>2. ASSUME NEW k \in S PROVE k + 1 \in S
  <2>1. PICK f : Flat(f, k)
    OBVIOUS
  <2> DEFINE top == IF k = 0 THEN s[1] ELSE f[k] \o s[k+1]
             g == [i \in 1..k+1 |-> IF i <= k THEN f[i] ELSE top]
  <2>2. k \in Nat
    OBVIOUS
  <2>3. \A i \in 1..k : f[i] = IF i = 1 THEN s[i] ELSE f[i-1] \o s[i]
    BY <2>1
  <2> HIDE DEF top
  <2>4. ASSUME NEW i \in 1..k+1
        PROVE  g[i] = IF i = 1 THEN s[i] ELSE g[i-1] \o s[i]
    <3>1. CASE i <= k
      <4>1. i \in 1..k /\ g[i] = f[i] /\ (i # 1 => i - 1 \in 1..k /\ g[i-1] = f[i-1])
        BY <2>2, <3>1
      <4> HIDE DEF g
      <4>. QED BY <2>3, <4>1
    <3>2. CASE i = k + 1
      <4>1. g[i] = top /\ (i # 1 => g[i-1] = f[k])
        BY <2>2, <3>2
      <4> HIDE DEF g
      <4>. QED BY <2>2, <3>2, <4>1 DEF top
    <3>. QED BY <2>2, <3>1, <3>2
  <2>5. Flat(g, k + 1)
    <3>1. g = [i \in 1..k+1 |-> g[i]]
      OBVIOUS
    <3> HIDE DEF g
    <3>2. [i \in 1..k+1 |-> g[i]]
            = [i \in 1..k+1 |-> IF i = 1 THEN s[i] ELSE g[i-1] \o s[i]]
      BY <2>4
    <3>. QED BY <3>1, <3>2
  <2>6. \E x : Flat(x, k + 1)
    <3> HIDE DEF g, Flat
    <3>. QED BY <2>5
  <2> HIDE DEF Flat
  <2>. QED BY <2>2, <2>6
<1>3. S = Nat
  <2> HIDE DEF S
  <2>1. S \in SUBSET Nat
    BY DEF S
  <2>. QED BY <1>1, <1>2, <2>1, NatSetInduction
<1> DEFINE h == CHOOSE f : Flat(f, Len(s))
<1>4. Flat(h, Len(s))
  <2>1. \E f : Flat(f, Len(s))
    BY <1>3
  <2> HIDE DEF Flat
  <2>. QED BY <2>1
<1>5. FlattenSeq(s) = h[Len(s)]
  BY DEF FlattenSeq
<1> HIDE DEF h
<1>6. \A i \in 1..Len(s) : h[i] = IF i = 1 THEN s[i] ELSE h[i-1] \o s[i]
  <2>1. h = [i \in 1..Len(s) |-> IF i = 1 THEN s[i] ELSE h[i-1] \o s[i]]
    BY <1>4
  <2>2. \A i \in 1..Len(s) :
          [x \in 1..Len(s) |-> IF x = 1 THEN s[x] ELSE h[x-1] \o s[x]][i]
            = IF i = 1 THEN s[i] ELSE h[i-1] \o s[i]
    OBVIOUS
  <2>. QED BY <2>1, <2>2, Zenon
<1>7. h[1] = s[1] /\ \A i \in 2..Len(s) : h[i] = h[i-1] \o s[i]
  <2>1. 1 \in 1..Len(s) /\ \A i \in 2..Len(s) : i \in 1..Len(s) /\ i # 1
    OBVIOUS
  <2>. QED BY <1>6, <2>1
<1>. QED BY <1>5, <1>7

(* AllContacts lists the contacts of all buckets, each once. *)
LEMMA AllContactsFacts ==
    ASSUME NEW n \in Nodes, NEW T, GoodTable(n, T, life), NEW a, a = AllContacts(T)
    PROVE  /\ a \in Seq(Contact)
           /\ DistinctIDs(a)
           /\ \A p \in 1..Len(a) : \E i \in BucketIndices : \E q \in 1..Len(T[i]) :
                a[p] = T[i][q]
           /\ \A i \in BucketIndices : \A q \in 1..Len(T[i]) :
                \E p \in 1..Len(a) : a[p] = T[i][q]
<1> DEFINE s == [i \in 1..IDBits |-> T[i-1]]
           P(k, l) == /\ l \in Seq(Contact)
                      /\ DistinctIDs(l)
                      /\ \A p \in 1..Len(l) : \E i \in 0..k-1 : \E q \in 1..Len(T[i]) :
                           l[p] = T[i][q]
                      /\ \A i \in 0..k-1 : \A q \in 1..Len(T[i]) :
                           \E p \in 1..Len(l) : l[p] = T[i][q]
<1>1. IDBits \in Nat \ {0} /\ BucketIndices = 0..IDBits-1
  BY IDBitsAssumption DEF BucketIndices
<1>2. \A i \in BucketIndices : T[i] \in Seq(Contact) /\ GoodBucket(n, i, T[i], life)
  BY DEF GoodTable, Tables
<1>3. /\ Len(s) = IDBits /\ \A i \in 1..IDBits : s[i] = T[i-1]
  BY <1>1
<1>4. PICK f : /\ FlattenSeq(s) = f[IDBits]
               /\ f[1] = s[1]
               /\ \A i \in 2..IDBits : f[i] = f[i-1] \o s[i]
  <2> HIDE DEF s
  <2>. QED BY <1>1, <1>3, FlattenFacts
<1>5. a = f[IDBits]
  BY <1>4 DEF AllContacts
<1> HIDE DEF s
<1> DEFINE S == {k \in Nat : k \in 1..IDBits => P(k, f[k])}
<1>6. ASSUME NEW k \in Nat, k + 1 \in 1..IDBits, k \in 1..IDBits => P(k, f[k])
      PROVE  P(k + 1, f[k + 1])
  <2>1. CASE k = 0
    <3>1. f[k + 1] = T[0] /\ T[0] \in Seq(Contact) /\ DistinctIDs(T[0])
      BY <1>1, <1>2, <1>3, <1>4, <2>1 DEF GoodBucket
    <3>2. \A i : i \in 0..(k+1)-1 <=> i = 0
      BY <2>1
    <3>. QED BY <3>1, <3>2
  <2>2. CASE k # 0
    <3> DEFINE l == f[k]
               r == T[k]
               c == f[k + 1]
    <3>1. k \in BucketIndices /\ k \in 1..IDBits /\ k + 1 \in 2..IDBits /\ (k + 1) - 1 = k
      BY <1>1, <1>6, <2>2
    <3>2. P(k, l) /\ r \in Seq(Contact) /\ GoodBucket(n, k, r, life) /\ c = l \o r
      <4>1. P(k, l)
        BY <1>6, <3>1
      <4>2. r \in Seq(Contact) /\ GoodBucket(n, k, r, life)
        BY <1>2, <3>1
      <4>3. c = l \o r
        <5>1. f[k + 1] = f[(k + 1) - 1] \o s[k + 1]
          BY <1>4, <3>1
        <5>2. s[k + 1] = T[(k + 1) - 1]
          BY <1>1, <1>3, <3>1
        <5>. QED BY <3>1, <5>1, <5>2
      <4> HIDE DEF P
      <4>. QED BY <4>1, <4>2, <4>3
    <3> HIDE DEF l, r, c
    <3>3. /\ c \in Seq(Contact) /\ Len(l) \in Nat /\ Len(r) \in Nat
          /\ Len(c) = Len(l) + Len(r)
          /\ \A j \in 1..Len(l)+Len(r) : c[j] = IF j <= Len(l) THEN l[j] ELSE r[j - Len(l)]
      BY <3>2, ConcatProperties, LenProperties
    <3>4. \A j \in 1..Len(c) : \/ j \in 1..Len(l) /\ c[j] = l[j]
                               \/ j - Len(l) \in 1..Len(r) /\ c[j] = r[j - Len(l)]
      BY <3>3
    <3>5. \A p \in 1..Len(l), q \in 1..Len(r) : l[p].id # r[q].id
      <4> SUFFICES ASSUME NEW p \in 1..Len(l), NEW q \in 1..Len(r), l[p].id = r[q].id
                   PROVE  FALSE
        OBVIOUS
      <4>1. PICK i \in 0..k-1 : \E x \in 1..Len(T[i]) : l[p] = T[i][x]
        BY <3>2
      <4>2. i \in BucketIndices /\ i # k
        BY <1>1, <3>1, <4>1
      <4>3. bucketIndex(IDOf[n][life[n]], l[p].id) = i
        BY <1>2, <4>1, <4>2 DEF GoodBucket
      <4>4. bucketIndex(IDOf[n][life[n]], r[q].id) = k
        BY <3>2 DEF GoodBucket
      <4>. QED BY <4>2, <4>3, <4>4
    <3>6. DistinctIDs(c)
      <4> SUFFICES ASSUME NEW p \in 1..Len(c), NEW q \in 1..Len(c), c[p].id = c[q].id
                   PROVE  p = q
        BY DEF DistinctIDs
      <4>1. CASE /\ p \in 1..Len(l) /\ c[p] = l[p]
                 /\ q \in 1..Len(l) /\ c[q] = l[q]
        BY <3>2, <4>1 DEF DistinctIDs
      <4>2. CASE /\ p - Len(l) \in 1..Len(r) /\ c[p] = r[p - Len(l)]
                 /\ q - Len(l) \in 1..Len(r) /\ c[q] = r[q - Len(l)]
        <5>1. p - Len(l) = q - Len(l)
          BY <3>2, <4>2 DEF GoodBucket, DistinctIDs
        <5>. QED BY <3>3, <5>1
      <4>. QED BY <3>4, <3>5, <4>1, <4>2
    <3>7. ASSUME NEW p \in 1..Len(c)
          PROVE  \E i \in 0..(k+1)-1 : \E q \in 1..Len(T[i]) : c[p] = T[i][q]
      <4>1. k \in 0..(k+1)-1 /\ \A i \in 0..k-1 : i \in 0..(k+1)-1
        BY <3>1
      <4>2. CASE p \in 1..Len(l) /\ c[p] = l[p]
        BY <3>2, <4>1, <4>2
      <4>3. CASE p - Len(l) \in 1..Len(r) /\ c[p] = r[p - Len(l)]
        BY <4>1, <4>3 DEF r
      <4>. QED BY <3>4, <4>2, <4>3
    <3>8. ASSUME NEW i \in 0..(k+1)-1, NEW q \in 1..Len(T[i])
          PROVE  \E p \in 1..Len(c) : c[p] = T[i][q]
      <4>1. CASE i = k
        <5>1. q \in 1..Len(r) /\ r[q] = T[i][q]
          BY <4>1 DEF r
        <5>2. /\ q + Len(l) \in 1..Len(l)+Len(r) /\ ~(q + Len(l) <= Len(l))
              /\ (q + Len(l)) - Len(l) = q
          BY <3>3, <5>1
        <5>3. c[q + Len(l)] = r[q]
          BY <3>3, <5>2
        <5>. QED BY <3>3, <5>1, <5>2, <5>3
      <4>2. CASE i # k
        <5>1. i \in 0..k-1
          BY <3>1, <4>2
        <5>2. PICK p \in 1..Len(l) : l[p] = T[i][q]
          BY <3>2, <5>1
        <5>3. p \in 1..Len(c) /\ c[p] = l[p]
          BY <3>3, <5>2
        <5>. QED BY <5>2, <5>3
      <4>. QED BY <4>1, <4>2
    <3>9. P(k + 1, c)
      BY <3>3, <3>6, <3>7, <3>8
    <3>. QED BY <3>9 DEF c
  <2>. QED BY <2>1, <2>2
<1> HIDE DEF P
<1>7. S = Nat
  <2>1. 0 \in S
    OBVIOUS
  <2>2. ASSUME NEW k \in S PROVE k + 1 \in S
    BY <1>6
  <2> HIDE DEF S
  <2>3. S \in SUBSET Nat
    BY DEF S
  <2>. QED BY <2>1, <2>2, <2>3, NatSetInduction
<1>8. P(IDBits, a)
  <2>1. IDBits \in S /\ IDBits \in 1..IDBits
    BY <1>1, <1>7
  <2>. QED BY <1>5, <2>1
<1>. QED BY <1>1, <1>8 DEF P

(* FindClosest selects contacts of the table, each once. *)
LEMMA FindClosestFacts ==
    ASSUME NEW n \in Nodes, NEW T, GoodTable(n, T, life), NEW target \in ID,
           NEW r, r = FindClosest(T, target, K)
    PROVE  /\ r \in Seq(Contact)
           /\ DistinctIDs(r)
           /\ \A p \in 1..Len(r) : Truthful(r[p], life)
<1> DEFINE a == AllContacts(T)
           m == IF K > Len(a) THEN Len(a) ELSE K
           s == SortByDistance(a, target)
<1>1. a \in Seq(Contact) /\ DistinctIDs(a)
  BY AllContactsFacts
<1>2. \A p \in 1..Len(a) : Truthful(a[p], life) /\ a[p] \in Contact
  <2>1. \A i \in BucketIndices : \A q \in 1..Len(T[i]) : Truthful(T[i][q], life)
    BY DEF GoodTable, GoodBucket
  <2>2. \A p \in 1..Len(a) : \E i \in BucketIndices : \E q \in 1..Len(T[i]) : a[p] = T[i][q]
    BY AllContactsFacts
  <2> HIDE DEF a
  <2>. QED BY <1>1, <2>1, <2>2, ElementOfSeq
<1>3. r = SubSeq(s, 1, m)
  BY DEF FindClosest
<1> HIDE DEF a
<1>4. PICK f \in [1..Len(a) -> 1..Len(a)] :
             /\ \A p, q \in 1..Len(a) : f[p] = f[q] => p = q
             /\ s = [p \in 1..Len(a) |-> a[f[p]]]
  BY <1>1, SortPermutes
<1>5. Len(a) \in Nat /\ m \in 0..Len(a) /\ 1..m \subseteq 1..Len(a) /\ m \in Nat
  BY <1>1, LenProperties, KAssumption
<1> HIDE DEF m, s
<1>6. \A p \in 1..Len(a) : s[p] = a[f[p]] /\ f[p] \in 1..Len(a) /\ s[p] \in Contact
  BY <1>2, <1>4
<1>7. s \in Seq(Contact) /\ Len(s) = Len(a)
  <2>1. s = [p \in 1..Len(a) |-> s[p]]
    BY <1>4
  <2>. QED BY <1>5, <1>6, <2>1
<1>8. /\ r \in Seq(Contact) /\ Len(r) = m
      /\ \A p \in 1..m : r[p] = s[p]
  <2>1. \A p \in 1..m : s[p] \in Contact
    BY <1>5, <1>6
  <2>. QED BY <1>3, <1>5, <1>7, <2>1, SubSeqProperties
<1>9. \A p \in 1..m : r[p] = a[f[p]] /\ f[p] \in 1..Len(a) /\ p \in 1..Len(a)
  BY <1>5, <1>6, <1>8
<1>10. \A p \in 1..Len(r) : Truthful(r[p], life)
  BY <1>2, <1>8, <1>9
<1>11. DistinctIDs(r)
  <2> SUFFICES ASSUME NEW p \in 1..m, NEW q \in 1..m, r[p].id = r[q].id
               PROVE  p = q
    BY <1>8 DEF DistinctIDs
  <2>1. f[p] = f[q]
    BY <1>1, <1>9 DEF DistinctIDs
  <2>. QED BY <1>4, <1>9, <2>1
<1>. QED BY <1>8, <1>10, <1>11

-----------------------------------------------------------------------------
(* The folds *)

LEMMA MaxOfInterval ==
    ASSUME NEW k \in Nat, NEW z \in SUBSET (1..k), k \in z
    PROVE  Max(z) = k
<1>1. \A y \in z : k >= y
  OBVIOUS
<1>2. \A x \in z : (\A y \in z : x >= y) => x = k
  OBVIOUS
<1> DEFINE m == CHOOSE x \in z : \A y \in z : x >= y
<1>3. m \in z /\ \A y \in z : m >= y
  BY <1>1
<1>4. Max(z) = m
  BY DEF Max
<1> HIDE DEF m
<1>. QED BY <1>2, <1>3, <1>4

(* The recursive function of LearnAll's fold exists; in the steps it takes:   *)
LEMMA LearnAllSteps ==
    ASSUME NEW n, NEW T, NEW s, Len(s) \in Nat, DOMAIN s = 1..Len(s)
    PROVE  \E f : /\ f[0] = T
                  /\ \A i \in 1..Len(s) : f[i] = Learn(f[i-1], n, s[i].id, s[i].addr)
                  /\ LearnAll(T, n, s) = f[Len(s)]
<1> DEFINE Step(x, i) == Learn(x, n, s[i].id, s[i].addr)
           Value(f, z) == IF z = {} THEN T ELSE Step(f[z \ {Max(z)}], Max(z))
           Fold(f, k) == f = [z \in SUBSET (1..k) |-> Value(f, z)]
           S == {k \in Nat : \E f : Fold(f, k)}
<1>1. 0 \in S
  <2> DEFINE f == [z \in SUBSET (1..0) |-> T]
  <2>1. \A z \in SUBSET (1..0) : f[z] = Value(f, z)
    <3> HIDE DEF Step
    <3>. QED OBVIOUS
  <2>2. f = [z \in SUBSET (1..0) |-> f[z]]
    OBVIOUS
  <2> HIDE DEF f, Value
  <2>3. Fold(f, 0)
    BY <2>1, <2>2
  <2> HIDE DEF Fold
  <2>. QED BY <2>3
<1> HIDE DEF Step
<1>2. ASSUME NEW k \in S PROVE k + 1 \in S
  <2>1. PICK f : Fold(f, k)
    OBVIOUS
  <2>2. k \in Nat
    OBVIOUS
  <2>3. \A z \in SUBSET (1..k) : f[z] = Value(f, z)
    <3>1. \A z \in SUBSET (1..k) : [y \in SUBSET (1..k) |-> Value(f, y)][z] = Value(f, z)
      OBVIOUS
    <3> HIDE DEF Value
    <3>. QED BY <2>1, <3>1, Zenon
  <2> DEFINE g == [z \in SUBSET (1..k+1) |->
                     IF k + 1 \in z THEN Step(f[z \ {k+1}], k + 1) ELSE f[z]]
  <2>4. ASSUME NEW z \in SUBSET (1..k+1) PROVE g[z] = Value(g, z)
    <3>1. CASE k + 1 \in z
      <4>1. Max(z) = k + 1
        BY <2>2, <3>1, MaxOfInterval
      <4>2. z \ {k+1} \in SUBSET (1..k) /\ z \ {k+1} \in SUBSET (1..k+1) /\ z # {}
        BY <2>2, <3>1
      <4>3. g[z] = Step(f[z \ {k+1}], k + 1) /\ g[z \ {k+1}] = f[z \ {k+1}]
        BY <3>1, <4>2
      <4> HIDE DEF g
      <4>. QED BY <4>1, <4>2, <4>3
    <3>2. CASE k + 1 \notin z
      <4>1. z \in SUBSET (1..k)
        BY <2>2, <3>2
      <4>2. g[z] = f[z]
        BY <3>2
      <4>3. z \ {Max(z)} \in SUBSET (1..k+1) /\ k + 1 \notin z \ {Max(z)}
        BY <3>2
      <4>4. g[z \ {Max(z)}] = f[z \ {Max(z)}]
        BY <4>3
      <4> HIDE DEF g
      <4>. QED BY <2>3, <4>1, <4>2, <4>4
    <3>. QED BY <3>1, <3>2
  <2>5. g = [z \in SUBSET (1..k+1) |-> g[z]]
    OBVIOUS
  <2> HIDE DEF g, Value
  <2>6. Fold(g, k + 1)
    BY <2>4, <2>5
  <2> HIDE DEF Fold
  <2>. QED BY <2>2, <2>6
<1>3. S = Nat
  <2> HIDE DEF S
  <2>1. S \in SUBSET Nat
    BY DEF S
  <2>. QED BY <1>1, <1>2, <2>1, NatSetInduction
<1> DEFINE h == CHOOSE f : Fold(f, Len(s))
<1>4. Fold(h, Len(s))
  <2>1. \E f : Fold(f, Len(s))
    BY <1>3
  <2> HIDE DEF Fold
  <2>. QED BY <2>1
<1>5. LearnAll(T, n, s) = h[1..Len(s)]
  BY Zenon DEF LearnAll, FoldLeft, MapThenFoldSet, Step
<1> HIDE DEF h
<1>6. \A z \in SUBSET (1..Len(s)) : h[z] = Value(h, z)
  <2>1. \A z \in SUBSET (1..Len(s)) :
          [y \in SUBSET (1..Len(s)) |-> Value(h, y)][z] = Value(h, z)
    OBVIOUS
  <2> HIDE DEF Value
  <2>. QED BY <1>4, <2>1, Zenon
<1> DEFINE f == [i \in 0..Len(s) |-> h[1..i]]
<1>7. f[0] = T
  <2>1. 1..0 = {} /\ 0 \in 0..Len(s)
    OBVIOUS
  <2>2. h[{}] = T
    BY <1>6
  <2>. QED BY <2>1, <2>2
<1>8. ASSUME NEW i \in 1..Len(s) PROVE f[i] = Step(f[i-1], i)
  <2>1. /\ 1..i \in SUBSET (1..Len(s)) /\ 1..i # {} /\ i \in 1..i
        /\ (1..i) \ {i} = 1..(i-1) /\ i \in Nat /\ i \in 0..Len(s) /\ i - 1 \in 0..Len(s)
    <3>1. i \in 1..i /\ i \in Nat /\ i \in 0..Len(s) /\ i - 1 \in 0..Len(s)
      OBVIOUS
    <3>2. \A x : x \in 1..i => x \in 1..Len(s)
      OBVIOUS
    <3>3. \A x : x \in (1..i) \ {i} <=> x \in 1..(i-1)
      OBVIOUS
    <3>4. (1..i) \ {i} = 1..(i-1)
      BY <3>3, Zenon
    <3>. QED BY <3>1, <3>2, <3>4, Zenon
  <2>2. Max(1..i) = i
    BY <2>1, MaxOfInterval
  <2>3. h[1..i] = Step(h[1..(i-1)], i)
    BY <1>6, <2>1, <2>2
  <2>. QED BY <2>1, <2>3
<1>9. LearnAll(T, n, s) = f[Len(s)]
  BY <1>5
<1> HIDE DEF f
<1>. QED BY <1>7, <1>8, <1>9 DEF Step

(* The same for the loop that collects toQuery. *)
LEMMA ToQuerySteps ==
    ASSUME NEW n, NEW s, Len(s) \in Nat, DOMAIN s = 1..Len(s)
    PROVE  \E f : /\ f[0] = <<>>
                  /\ \A i \in 1..Len(s) :
                       f[i] = IF Len(f[i-1]) < Alpha /\ s[i].addr \notin lookup[n].queried
                              THEN Append(f[i-1], s[i]) ELSE f[i-1]
                  /\ ToQuery(n, s) = f[Len(s)]
<1> DEFINE T == << >>
           Step(x, i) == IF Len(x) < Alpha /\ s[i].addr \notin lookup[n].queried
                         THEN Append(x, s[i]) ELSE x
           Value(f, z) == IF z = {} THEN T ELSE Step(f[z \ {Max(z)}], Max(z))
           Fold(f, k) == f = [z \in SUBSET (1..k) |-> Value(f, z)]
           S == {k \in Nat : \E f : Fold(f, k)}
<1>1. 0 \in S
  <2> DEFINE f == [z \in SUBSET (1..0) |-> T]
  <2>1. \A z \in SUBSET (1..0) : f[z] = Value(f, z)
    <3> HIDE DEF Step
    <3>. QED OBVIOUS
  <2>2. f = [z \in SUBSET (1..0) |-> f[z]]
    OBVIOUS
  <2> HIDE DEF f, Value
  <2>3. Fold(f, 0)
    BY <2>1, <2>2
  <2> HIDE DEF Fold
  <2>. QED BY <2>3
<1> HIDE DEF Step
<1>2. ASSUME NEW k \in S PROVE k + 1 \in S
  <2>1. PICK f : Fold(f, k)
    OBVIOUS
  <2>2. k \in Nat
    OBVIOUS
  <2>3. \A z \in SUBSET (1..k) : f[z] = Value(f, z)
    <3>1. \A z \in SUBSET (1..k) : [y \in SUBSET (1..k) |-> Value(f, y)][z] = Value(f, z)
      OBVIOUS
    <3> HIDE DEF Value
    <3>. QED BY <2>1, <3>1, Zenon
  <2> DEFINE g == [z \in SUBSET (1..k+1) |->
                     IF k + 1 \in z THEN Step(f[z \ {k+1}], k + 1) ELSE f[z]]
  <2>4. ASSUME NEW z \in SUBSET (1..k+1) PROVE g[z] = Value(g, z)
    <3>1. CASE k + 1 \in z
      <4>1. Max(z) = k + 1
        BY <2>2, <3>1, MaxOfInterval
      <4>2. z \ {k+1} \in SUBSET (1..k) /\ z \ {k+1} \in SUBSET (1..k+1) /\ z # {}
        BY <2>2, <3>1
      <4>3. g[z] = Step(f[z \ {k+1}], k + 1) /\ g[z \ {k+1}] = f[z \ {k+1}]
        BY <3>1, <4>2
      <4> HIDE DEF g
      <4>. QED BY <4>1, <4>2, <4>3
    <3>2. CASE k + 1 \notin z
      <4>1. z \in SUBSET (1..k)
        BY <2>2, <3>2
      <4>2. g[z] = f[z]
        BY <3>2
      <4>3. z \ {Max(z)} \in SUBSET (1..k+1) /\ k + 1 \notin z \ {Max(z)}
        BY <3>2
      <4>4. g[z \ {Max(z)}] = f[z \ {Max(z)}]
        BY <4>3
      <4> HIDE DEF g
      <4>. QED BY <2>3, <4>1, <4>2, <4>4
    <3>. QED BY <3>1, <3>2
  <2>5. g = [z \in SUBSET (1..k+1) |-> g[z]]
    OBVIOUS
  <2> HIDE DEF g, Value
  <2>6. Fold(g, k + 1)
    BY <2>4, <2>5
  <2> HIDE DEF Fold
  <2>. QED BY <2>2, <2>6
<1>3. S = Nat
  <2> HIDE DEF S
  <2>1. S \in SUBSET Nat
    BY DEF S
  <2>. QED BY <1>1, <1>2, <2>1, NatSetInduction
<1> DEFINE h == CHOOSE f : Fold(f, Len(s))
<1>4. Fold(h, Len(s))
  <2>1. \E f : Fold(f, Len(s))
    BY <1>3
  <2> HIDE DEF Fold
  <2>. QED BY <2>1
<1>5. ToQuery(n, s) = h[1..Len(s)]
  BY Zenon DEF ToQuery, FoldLeft, MapThenFoldSet, Step
<1> HIDE DEF h
<1>6. \A z \in SUBSET (1..Len(s)) : h[z] = Value(h, z)
  <2>1. \A z \in SUBSET (1..Len(s)) :
          [y \in SUBSET (1..Len(s)) |-> Value(h, y)][z] = Value(h, z)
    OBVIOUS
  <2> HIDE DEF Value
  <2>. QED BY <1>4, <2>1, Zenon
<1> DEFINE f == [i \in 0..Len(s) |-> h[1..i]]
<1>7. f[0] = T
  <2>1. 1..0 = {} /\ 0 \in 0..Len(s)
    OBVIOUS
  <2>2. h[{}] = T
    BY <1>6
  <2>. QED BY <2>1, <2>2
<1>8. ASSUME NEW i \in 1..Len(s) PROVE f[i] = Step(f[i-1], i)
  <2>1. /\ 1..i \in SUBSET (1..Len(s)) /\ 1..i # {} /\ i \in 1..i
        /\ (1..i) \ {i} = 1..(i-1) /\ i \in Nat /\ i \in 0..Len(s) /\ i - 1 \in 0..Len(s)
    <3>1. i \in 1..i /\ i \in Nat /\ i \in 0..Len(s) /\ i - 1 \in 0..Len(s)
      OBVIOUS
    <3>2. \A x : x \in 1..i => x \in 1..Len(s)
      OBVIOUS
    <3>3. \A x : x \in (1..i) \ {i} <=> x \in 1..(i-1)
      OBVIOUS
    <3>4. (1..i) \ {i} = 1..(i-1)
      BY <3>3, Zenon
    <3>. QED BY <3>1, <3>2, <3>4, Zenon
  <2>2. Max(1..i) = i
    BY <2>1, MaxOfInterval
  <2>3. h[1..i] = Step(h[1..(i-1)], i)
    BY <1>6, <2>1, <2>2
  <2>. QED BY <2>1, <2>3
<1>9. ToQuery(n, s) = f[Len(s)]
  BY <1>5
<1> HIDE DEF f
<1>10. \A i \in 1..Len(s) :
         f[i] = IF Len(f[i-1]) < Alpha /\ s[i].addr \notin lookup[n].queried
                THEN Append(f[i-1], s[i]) ELSE f[i-1]
  BY <1>8 DEF Step
<1>. QED BY <1>7, <1>9, <1>10

(* A NODES message with truthful entries keeps the table of its receiver good. *)
LEMMA LearnAllGood ==
    ASSUME life \in Lives, NEW n \in Nodes, NEW T, GoodTable(n, T, life),
           NEW A, NEW s \in Seq(A), \A i \in 1..Len(s) : Truthful(s[i], life),
           NEW U, U = LearnAll(T, n, s)
    PROVE  /\ GoodTable(n, U, life)
           /\ Few /\ Original(life) => \A id : Has(T, id) => Has(U, id)
<1>1. Len(s) \in Nat /\ DOMAIN s = 1..Len(s)
  BY LenProperties
<1>2. PICK f : /\ f[0] = T
               /\ \A i \in 1..Len(s) : f[i] = Learn(f[i-1], n, s[i].id, s[i].addr)
               /\ LearnAll(T, n, s) = f[Len(s)]
  BY <1>1, LearnAllSteps
<1> DEFINE P(x) == /\ GoodTable(n, x, life)
                   /\ Few /\ Original(life) => \A id : Has(T, id) => Has(x, id)
           S == {k \in Nat : k \in 0..Len(s) => P(f[k])}
<1>3. 0 \in S
  BY <1>2
<1>4. ASSUME NEW k \in S PROVE k + 1 \in S
  <2> SUFFICES ASSUME k + 1 \in 0..Len(s) PROVE P(f[k + 1])
    BY DEF S
  <2>1. k \in 0..Len(s) /\ k + 1 \in 1..Len(s) /\ (k + 1) - 1 = k
    BY <1>1
  <2>2. P(f[k])
    BY <2>1
  <2>3. f[k + 1] = Learn(f[k], n, s[k + 1].id, s[k + 1].addr)
    BY <1>2, <2>1
  <2>4. Truthful(s[k + 1], life)
    BY <2>1
  <2>. QED BY <2>2, <2>3, <2>4, LearnGood
<1> HIDE DEF P
<1>5. S = Nat
  <2> HIDE DEF S
  <2>1. S \in SUBSET Nat
    BY DEF S
  <2>. QED BY <1>3, <1>4, <2>1, NatSetInduction
<1>6. P(f[Len(s)])
  BY <1>1, <1>5
<1>. QED BY <1>2, <1>6 DEF P

(* What Lookup will ask has not been asked, and no ID is in it twice. *)
LEMMA ToQueryFacts ==
    ASSUME NEW n, NEW s \in Seq(Contact), DistinctIDs(s),
           NEW r, r = ToQuery(n, s)
    PROVE  /\ r \in Seq(Contact)
           /\ DistinctIDs(r)
           /\ \A p \in 1..Len(r) : r[p].addr \notin lookup[n].queried
           /\ \A p \in 1..Len(r) : \E j \in 1..Len(s) : r[p] = s[j]
<1>1. Len(s) \in Nat /\ DOMAIN s = 1..Len(s) /\ \A j \in 1..Len(s) : s[j] \in Contact
  BY LenProperties, ElementOfSeq
<1>2. PICK f : /\ f[0] = <<>>
               /\ \A i \in 1..Len(s) :
                    f[i] = IF Len(f[i-1]) < Alpha /\ s[i].addr \notin lookup[n].queried
                           THEN Append(f[i-1], s[i]) ELSE f[i-1]
               /\ ToQuery(n, s) = f[Len(s)]
  BY <1>1, ToQuerySteps, Zenon
<1> DEFINE P(k, x) == /\ x \in Seq(Contact)
                      /\ DistinctIDs(x)
                      /\ \A p \in 1..Len(x) : x[p].addr \notin lookup[n].queried
                      /\ \A p \in 1..Len(x) : \E j \in 1..k : x[p] = s[j]
           S == {k \in Nat : k \in 0..Len(s) => P(k, f[k])}
<1>3. 0 \in S
  <2>1. << >> \in Seq(Contact) /\ Len(<< >>) = 0 /\ 1..0 = {}
    OBVIOUS
  <2>2. P(0, << >>)
    BY <2>1 DEF DistinctIDs
  <2> HIDE DEF P
  <2>. QED BY <1>2, <2>2
<1>4. ASSUME NEW k \in S PROVE k + 1 \in S
  <2> SUFFICES ASSUME k + 1 \in 0..Len(s) PROVE P(k + 1, f[k + 1])
    BY DEF S
  <2>1. /\ k \in 0..Len(s) /\ k + 1 \in 1..Len(s) /\ (k + 1) - 1 = k
        /\ \A j \in 1..k : j \in 1..k+1 /\ j \in 1..Len(s) /\ j # k + 1
    BY <1>1
  <2> DEFINE x == f[k]
             c == s[k + 1]
  <2>2. P(k, x) /\ c \in Contact
    BY <1>1, <2>1
  <2>3. f[k + 1] = IF Len(x) < Alpha /\ c.addr \notin lookup[n].queried
                   THEN Append(x, c) ELSE x
    BY <1>2, <2>1
  <2>4. \A j \in 1..k : s[j].id # c.id
    BY <2>1 DEF DistinctIDs
  <2>5. c = s[k + 1]
    OBVIOUS
  <2> HIDE DEF x, c
  <2>6. CASE f[k + 1] = x
    BY <2>1, <2>2, <2>6
  <2>7. CASE f[k + 1] = Append(x, c) /\ c.addr \notin lookup[n].queried
    <3> DEFINE y == Append(x, c)
    <3>1. /\ y \in Seq(Contact) /\ Len(x) \in Nat /\ Len(y) = Len(x) + 1
          /\ \A p \in 1..Len(x) : y[p] = x[p]
          /\ y[Len(x) + 1] = c
      BY <2>2, AppendProperties, LenProperties
    <3> HIDE DEF y
    <3>2. \A p \in 1..Len(y) : \/ p \in 1..Len(x) /\ y[p] = x[p]
                               \/ p = Len(x) + 1 /\ y[p] = c
      <4>1. \A p \in 1..Len(y) : p \in 1..Len(x) \/ p = Len(x) + 1
        BY <3>1
      <4>. QED BY <3>1, <4>1
    <3>3. \A p \in 1..Len(x) : x[p].id # c.id
      BY <2>2, <2>4
    <3>4. DistinctIDs(y)
      BY <2>2, <3>2, <3>3 DEF DistinctIDs
    <3>5. \A p \in 1..Len(y) : y[p].addr \notin lookup[n].queried
      BY <2>2, <2>7, <3>2
    <3>6. \A p \in 1..Len(y) : \E j \in 1..k+1 : y[p] = s[j]
      BY <2>1, <2>2, <2>5, <3>2
    <3>. QED BY <2>7, <3>1, <3>4, <3>5, <3>6 DEF y
  <2>. QED BY <2>3, <2>6, <2>7
<1> HIDE DEF P
<1>5. S = Nat
  <2> HIDE DEF S
  <2>1. S \in SUBSET Nat
    BY DEF S
  <2>. QED BY <1>3, <1>4, <2>1, NatSetInduction
<1>6. P(Len(s), f[Len(s)])
  BY <1>1, <1>5
<1>. QED BY <1>2, <1>6 DEF P

-----------------------------------------------------------------------------
(* The inductive invariant *)

(* What a message of node n says of itself and of others is true. *)
GoodMsg(msg, n, L) ==
    /\ msg.from \in {IDOf[n][k] : k \in 1..L[n]}
    /\ msg.type \in {"PING", "PONG", "FIND_NODE", "NODES"}
    /\ msg.addr \in {None, Listen(n)}
    /\ msg.type = "FIND_NODE" => msg.target \in ID
    /\ msg.nodes \in Seq([id : ID, addr : Endpoints])
    /\ \A i \in 1..Len(msg.nodes) : Truthful(msg.nodes[i], L)

GoodMail(m, L) ==
    /\ m.conn \in Connections /\ m.end \in {1, 2}
    /\ GoodMsg(m.msg, Sender(m), L)

(* An ephemeral name belongs to one open connection of the node that uses it. *)
Named(cs) == \A c, d \in cs : c[2] = d[2] /\ Eph(c) = Eph(d) => c = d

LifeInv == life \in Lives /\ (~faulty => Original(life))

NetInv ==
    /\ conns \subseteq Connections
    /\ Named(conns)
    /\ \A m \in net : GoodMail(m, life)
    /\ faulty \in BOOLEAN

TableInv == rt \in [Nodes -> Tables] /\ \A n \in Nodes : GoodTable(n, rt[n], life)

BootInv ==
    /\ boot \in [Nodes -> {"dial", "ping", "findNode"}]
    /\ seeds \in [Nodes -> Seq(Nodes)]
    /\ \A n \in Nodes : boot[n] # "dial" => seeds[n] # <<>>

LookupStates ==
    [at : {"idle", "round", "sending", "done"}, round : Nat, prev : ID \union {None},
     queried : SUBSET Endpoints, todo : Seq(Contact)]

Questions == Seq([id : ID, addr : Endpoints, round : Nat])

(* An address is asked again in the same round only, and for another ID. *)
AnotherID(a, b) == a.addr = b.addr => a.round = b.round /\ a.id # b.id

(* What a Lookup has asked is marked; what it is about to ask was not asked in  *)
(* an earlier round, nor for the same ID in this one.                        *)
GoodLookup(n, l, done) ==
    /\ l.at # "idle" => Target[n] \in ID
    /\ l.at = "sending" => l.todo # <<>>
    /\ DistinctIDs(l.todo)
    /\ \A p \in 1..Len(l.todo) : l.todo[p].addr \in Endpoints
    /\ \A p \in 1..Len(l.todo) : \A i \in 1..Len(done) :
         done[i].addr = l.todo[p].addr => done[i].round = l.round /\ done[i].id # l.todo[p].id
    /\ \A i \in 1..Len(done) : done[i].addr \in l.queried
    /\ \A i, j \in 1..Len(done) : i # j => AnotherID(done[i], done[j])

LookupInv ==
    /\ lookup \in [Nodes -> LookupStates]
    /\ asked \in [Nodes -> Questions]
    /\ \A n \in Nodes : GoodLookup(n, lookup[n], asked[n])

(* The bootstrap of n with s: the request is under way, or s knows n and the    *)
(* answer is under way, or they know each other.                             *)
Introduced(n, s) ==
    \/ \E m \in net : /\ To(m) = s /\ Sender(m) = n
                      /\ m.msg.type \in {"PING", "FIND_NODE"}
    \/ /\ Has(rt[s], IDOf[n][1])
       /\ Has(rt[n], IDOf[s][1]) \/ \E m \in net : To(m) = n /\ Sender(m) = s

(* How many bootstrap peers n is done with. *)
Behind(n) == Len(Seeds[n]) - Len(seeds[n])

(* The nodes fit into the buckets and nobody bootstraps from itself. *)
SmallNetwork ==
    Few /\ \A n \in Nodes : \A i \in 1..Len(Seeds[n]) : Seeds[n][i] # n

SeedsInv ==
    \A n \in Nodes :
      /\ Len(seeds[n]) <= Len(Seeds[n])
      /\ \A j \in 1..Len(seeds[n]) : seeds[n][j] = Seeds[n][Behind(n) + j]

JoinInv ==
    SmallNetwork /\ ~faulty =>
      /\ \A m \in net : m.conn \in conns
      /\ \A n \in Nodes : \A i \in 1..Behind(n) : Introduced(n, Seeds[n][i])

IInv == LifeInv /\ NetInv /\ TableInv /\ BootInv /\ LookupInv /\ SeedsInv /\ JoinInv

-----------------------------------------------------------------------------
(* The transport *)

(* The two kinds of names are told apart, and a listening one names one node. *)
LEMMA NamesDiffer ==
    /\ \A m, n : Listen(m) = Listen(n) => m = n
    /\ \A n, c : Listen(n) # Eph(c)
BY DEF Listen, Eph

(* A connection has two ends. *)
LEMMA EndFacts ==
    ASSUME NEW m, m.conn \in Connections, m.end \in {1, 2}
    PROVE  /\ To(m) \in Nodes /\ Sender(m) \in Nodes
           /\ m.end = 1 => To(m) = m.conn[1] /\ Sender(m) = m.conn[2]
           /\ m.end = 2 => To(m) = m.conn[2] /\ Sender(m) = m.conn[1]
<1>1. m.conn[1] \in Nodes /\ m.conn[2] \in Nodes
  BY EndpointFacts
<1>2. m.end = 1 => To(m) = m.conn[1] /\ Sender(m) = m.conn[2]
  BY DEF To, Sender
<1>3. m.end = 2 => To(m) = m.conn[2] /\ Sender(m) = m.conn[1]
  BY DEF To, Sender
<1>. QED BY <1>1, <1>2, <1>3

(* The sender of a message is recorded under an address of its own, and the     *)
(* connection the message came over is found under the name of its sender.   *)
LEMMA MailFacts ==
    ASSUME NEW m, GoodMail(m, life)
    PROVE  /\ To(m) \in Nodes /\ Sender(m) \in Nodes
           /\ RemoteAddr(m) \in Endpoints
           /\ Truthful([id |-> m.msg.from, addr |-> SenderAddr(m)], life)
           /\ m.conn \in conns => PeersAt(To(m), RemoteAddr(m)) # {}
<1>1. /\ m.conn \in Connections /\ m.end \in {1, 2}
      /\ m.conn[1] \in Nodes /\ m.conn[2] \in Nodes
      /\ To(m) \in Nodes /\ Sender(m) \in Nodes
      /\ m.end = 1 => To(m) = m.conn[1] /\ Sender(m) = m.conn[2]
      /\ m.end = 2 => To(m) = m.conn[2] /\ Sender(m) = m.conn[1]
  BY EndFacts, EndpointFacts DEF GoodMail
<1>2. RemoteAddr(m) \in Endpoints /\ RemoteAddr(m) \in AddressesOf(Sender(m))
  <2>1. CASE m.end = 1
    BY <1>1, <2>1, EndpointFacts DEF RemoteAddr
  <2>2. CASE m.end = 2
    BY <1>1, <2>2, EndpointFacts DEF RemoteAddr
  <2>. QED BY <1>1, <2>1, <2>2
<1>3. Truthful([id |-> m.msg.from, addr |-> SenderAddr(m)], life)
  <2>1. SenderAddr(m) \in AddressesOf(Sender(m))
    BY <1>1, <1>2, EndpointFacts DEF SenderAddr, GoodMail, GoodMsg
  <2>2. m.msg.from \in {IDOf[Sender(m)][k] : k \in 1..life[Sender(m)]}
    BY DEF GoodMail, GoodMsg
  <2>. QED BY <1>1, <2>1, <2>2 DEF Truthful
<1>4. m.conn \in conns => m.conn \in PeersAt(To(m), RemoteAddr(m))
  BY <1>1 DEF PeersAt, RemoteAddr
<1>. QED BY <1>1, <1>2, <1>3, <1>4

(* A message of n over one of its connections, or one it has just dialled, to   *)
(* the peer it has there under addr.                                         *)
LEMMA SentMail ==
    ASSUME NEW n \in Nodes, NEW addr \in Endpoints, NEW msg, GoodMsg(msg, n, life),
           NEW c \in Connections, (c[1] = n /\ addr = Listen(c[2])) \/ (c[2] = n /\ addr = Eph(c)),
           NEW m, m = Mail(c, addr, msg)
    PROVE  /\ GoodMail(m, life) /\ m.conn = c /\ m.msg = msg /\ Sender(m) = n
           /\ \A o : addr = Listen(o) => To(m) = o
           /\ addr = Eph(c) => To(m) = c[1]
<1>1. /\ m.conn = c /\ m.msg = msg /\ m.end \in {1, 2}
      /\ m.end = IF addr = Listen(c[2]) THEN 2 ELSE 1
  BY DEF Mail
<1>2. CASE c[1] = n /\ addr = Listen(c[2])
  <2>1. Sender(m) = n /\ To(m) = c[2]
    BY <1>1, <1>2, EndFacts
  <2>. QED BY <1>1, <1>2, <2>1, NamesDiffer DEF GoodMail
<1>3. CASE c[2] = n /\ addr = Eph(c)
  <2>1. m.end = 1
    BY <1>1, <1>3, NamesDiffer
  <2>2. Sender(m) = n /\ To(m) = c[1]
    BY <1>1, <1>3, <2>1, EndFacts
  <2>. QED BY <1>1, <1>3, <2>2, NamesDiffer DEF GoodMail
<1>. QED BY <1>2, <1>3

LEMMA DialFacts ==
    ASSUME NetInv, NEW n, NEW addr, NEW c \in Dialled(n, addr)
    PROVE  /\ c \in Connections /\ c[1] = n /\ addr = Listen(c[2])
           /\ Named(conns \union {c})
           /\ Opened(c).conns = conns \union {c}
           /\ Opened(c).net = net /\ Opened(c).faulty = faulty
<1>1. /\ c \in Connections /\ c[1] = n /\ addr = Listen(c[2])
      /\ \A d \in conns : d[2] = c[2] => Eph(d) # Eph(c)
  BY DEF Dialled
<1>2. Named(conns \union {c})
  BY <1>1 DEF Named, NetInv
<1>. QED BY <1>1, <1>2 DEF Opened, Now

(* What Send does: the message is on a connection to a peer of that address, or *)
(* nothing was sent, which is a fault when the address can be dialled.       *)
Sent(n, addr, msg, cs, m) ==
    /\ GoodMail(m, life) /\ m.conn \in cs /\ m.msg = msg /\ Sender(m) = n
    /\ \A o : addr = Listen(o) => To(m) = o
    /\ \A c \in conns : c[2] = n /\ addr = Eph(c) => To(m) = c[1]

LEMMA OutcomeFacts ==
    ASSUME NetInv, NEW n \in Nodes, NEW addr \in Endpoints,
           NEW msg, GoodMsg(msg, n, life), NEW s \in Outcomes(n, addr, msg)
    PROVE  /\ conns \subseteq s.conns /\ s.conns \subseteq Connections
           /\ Named(s.conns)
           /\ s.faulty \in BOOLEAN /\ (faulty => s.faulty)
           /\ \/ \E m : Sent(n, addr, msg, s.conns, m) /\ s.net = net \union {m}
              \/ /\ s.net = net /\ PeersAt(n, addr) = {}
                 /\ \A o \in Nodes : addr = Listen(o) => s.faulty
<1>1. CASE PeersAt(n, addr) # {}
  <2>1. PICK c \in PeersAt(n, addr) :
          s = [Now EXCEPT !.net = @ \union {Mail(c, addr, msg)}]
    BY <1>1 DEF Outcomes
  <2>2. /\ c \in conns /\ c \in Connections
        /\ (c[1] = n /\ addr = Listen(c[2])) \/ (c[2] = n /\ addr = Eph(c))
    BY DEF PeersAt, NetInv
  <2> DEFINE m == Mail(c, addr, msg)
  <2>3. s.conns = conns /\ s.faulty = faulty /\ s.net = net \union {m}
    BY <2>1 DEF Now
  <2>4. /\ GoodMail(m, life) /\ m.conn = c /\ m.msg = msg /\ Sender(m) = n
        /\ \A o : addr = Listen(o) => To(m) = o
        /\ addr = Eph(c) => To(m) = c[1]
    BY <2>2, SentMail
  <2> HIDE DEF m
  <2>5. ASSUME NEW d \in conns, d[2] = n, addr = Eph(d) PROVE To(m) = d[1]
    <3>1. c[2] = n /\ addr = Eph(c)
      BY <2>2, <2>5, NamesDiffer
    <3>2. c = d
      BY <2>2, <2>5, <3>1 DEF NetInv, Named
    <3>. QED BY <2>4, <2>5, <3>2
  <2>6. Sent(n, addr, msg, s.conns, m)
    BY <2>2, <2>3, <2>4, <2>5 DEF Sent
  <2>. QED BY <2>3, <2>6 DEF NetInv
<1>2. CASE PeersAt(n, addr) = {} /\ s = DialFails(addr)
  <2>1. /\ s.conns = conns /\ s.net = net
        /\ s.faulty = (faulty \/ \E o \in Nodes : addr = Listen(o))
    BY <1>2 DEF DialFails, Now
  <2>. QED BY <1>2, <2>1 DEF NetInv
<1>3. CASE PeersAt(n, addr) = {} /\ s # DialFails(addr)
  <2>1. PICK c \in Dialled(n, addr) :
          s = [Opened(c) EXCEPT !.net = @ \union {Mail(c, addr, msg)}]
    BY <1>3 DEF Outcomes
  <2> DEFINE m == Mail(c, addr, msg)
  <2>2. s.conns = conns \union {c} /\ s.faulty = faulty /\ s.net = net \union {m}
    BY <2>1 DEF Opened, Now
  <2>3. c \in Connections /\ c[1] = n /\ addr = Listen(c[2]) /\ Named(conns \union {c})
    <3> HIDE DEF m
    <3>1. /\ c \in Connections /\ c[1] = n /\ addr = Listen(c[2])
          /\ \A d \in conns : d[2] = c[2] => Eph(d) # Eph(c)
      BY DEF Dialled
    <3>2. Named(conns \union {c})
      BY <3>1 DEF Named, NetInv
    <3>. QED BY <3>1, <3>2
  <2>4. /\ GoodMail(m, life) /\ m.conn = c /\ m.msg = msg /\ Sender(m) = n
        /\ \A o : addr = Listen(o) => To(m) = o
    BY <2>3, SentMail
  <2> HIDE DEF m
  <2>5. Sent(n, addr, msg, s.conns, m)
    BY <2>2, <2>3, <2>4, NamesDiffer DEF Sent
  <2>. QED BY <2>2, <2>3, <2>5 DEF NetInv
<1>. QED BY <1>1, <1>2, <1>3

(* The step a Send, or the answer to the messages of lost, makes of the network. *)
SendStep(n, addr, msg, lost) ==
    /\ conns \subseteq conns' /\ (faulty => faulty')
    /\ \/ \E m : Sent(n, addr, msg, conns', m) /\ net' = (net \union {m}) \ lost
       \/ /\ net' = net \ lost /\ PeersAt(n, addr) = {}
          /\ \A o \in Nodes : addr = Listen(o) => faulty'

LEMMA SendFacts ==
    ASSUME NetInv, NEW n \in Nodes, NEW addr \in Endpoints, NEW msg,
           GoodMsg(msg, n, life), Send(n, addr, msg), life' = life
    PROVE  NetInv' /\ SendStep(n, addr, msg, {})
<1>1. PICK s \in Outcomes(n, addr, msg) :
        conns' = s.conns /\ net' = s.net /\ faulty' = s.faulty
  BY DEF Send, Becomes
<1>2. SendStep(n, addr, msg, {})
  BY <1>1, OutcomeFacts DEF SendStep
<1>3. NetInv'
  <2>1. \A m \in net' : GoodMail(m, life)
    BY <1>2 DEF SendStep, NetInv, Sent
  <2>. QED BY <1>1, <2>1, OutcomeFacts DEF NetInv
<1>. QED BY <1>2, <1>3

LEMMA AnswerFacts ==
    ASSUME NetInv, NEW m \in net, NEW msg, GoodMsg(msg, To(m), life), Answered(m, msg),
           life' = life
    PROVE  NetInv' /\ SendStep(To(m), RemoteAddr(m), msg, {m})
<1>0. To(m) \in Nodes /\ RemoteAddr(m) \in Endpoints
  BY MailFacts DEF NetInv
<1>1. PICK s \in Outcomes(To(m), RemoteAddr(m), msg) : Becomes([s EXCEPT !.net = @ \ {m}])
  BY DEF Answered
<1>2. DOMAIN s = {"conns", "net", "faulty"}
  BY DEF Outcomes, Opened, DialFails, Now
<1>3. conns' = s.conns /\ net' = s.net \ {m} /\ faulty' = s.faulty
  BY <1>1, <1>2 DEF Becomes
<1>4. SendStep(To(m), RemoteAddr(m), msg, {m})
  BY <1>0, <1>3, OutcomeFacts DEF SendStep
<1>5. NetInv'
  <2>1. \A x \in net' : GoodMail(x, life)
    BY <1>4 DEF SendStep, NetInv, Sent
  <2>. QED BY <1>0, <1>3, <2>1, OutcomeFacts DEF NetInv
<1>. QED BY <1>4, <1>5

-----------------------------------------------------------------------------
(* The steps *)

LEMMA EmptyTable == \A n, L : GoodTable(n, NewRoutingTable, L)
<1>1. NewRoutingTable \in Tables /\ \A i \in BucketIndices : NewRoutingTable[i] = <<>>
  BY DEF NewRoutingTable, Tables
<1>2. \A n, i, L : GoodBucket(n, i, <<>>, L)
  BY DEF GoodBucket, DistinctIDs
<1>. QED BY <1>1, <1>2 DEF GoodTable

LEMMA FreshLookup ==
    /\ NoLookup \in LookupStates /\ << >> \in Questions
    /\ \A n : GoodLookup(n, NoLookup, << >>)
BY DEF GoodLookup, NoLookup, LookupStates, Questions, DistinctIDs

LEMMA InitInv == Init => IInv
<1> SUFFICES ASSUME Init PROVE IInv
  OBVIOUS
<1>1. NetInv
  BY DEF Init, NetInv, Named
<1>2. LifeInv
  <2>1. life = [n \in Nodes |-> 1]
    BY DEF Init
  <2>2. \A n \in Nodes : Len(IDOf[n]) \in Nat /\ 1 <= Len(IDOf[n])
    BY IDOfAssumption, EmptySeq, LenProperties
  <2>3. life \in [Nodes -> Nat \ {0}] /\ \A n \in Nodes : life[n] = 1
    BY <2>1
  <2>. QED BY <2>2, <2>3 DEF LifeInv, Lives, Original
<1>3. TableInv
  <2>1. \A n \in Nodes : rt[n] = NewRoutingTable
    BY DEF Init
  <2>2. NewRoutingTable \in Tables
    BY EmptyTable DEF GoodTable
  <2>. QED BY <2>1, <2>2, EmptyTable DEF Init, TableInv
<1>4. BootInv
  BY SeedsAssumption DEF Init, BootInv
<1>5. LookupInv
  BY FreshLookup DEF Init, LookupInv
<1>6. \A n \in Nodes : Len(Seeds[n]) \in Nat /\ seeds[n] = Seeds[n] /\ Behind(n) = 0
  BY SeedsAssumption DEF Init, Behind
<1>7. SeedsInv
  BY <1>6 DEF SeedsInv
<1>8. JoinInv
  BY <1>6 DEF Init, JoinInv
<1>. QED BY <1>1, <1>2, <1>3, <1>4, <1>5, <1>7, <1>8 DEF IInv

(* Learning from a message. *)
LEMMA LearnSenderGood ==
    ASSUME life \in Lives, NEW m, GoodMail(m, life), NEW T, GoodTable(To(m), T, life),
           NEW U, U = LearnSender(T, m)
    PROVE  /\ GoodTable(To(m), U, life)
           /\ m.msg.from # SelfID(To(m)) => Has(U, m.msg.from)
           /\ Few /\ Original(life) => \A id : Has(T, id) => Has(U, id)
<1> DEFINE c == [id |-> m.msg.from, addr |-> SenderAddr(m)]
           n == To(m)
<1>1. n \in Nodes /\ Truthful(c, life)
  BY MailFacts
<1>2. c.id = m.msg.from /\ U = Learn(T, n, c.id, c.addr) /\ GoodTable(n, T, life)
  BY DEF LearnSender
<1> HIDE DEF c, n
<1>3. /\ GoodTable(n, U, life)
      /\ c.id # SelfID(n) => Has(U, c.id)
      /\ Few /\ Original(life) => \A id : Has(T, id) => Has(U, id)
  BY <1>1, <1>2, LearnGood
<1>. QED BY <1>2, <1>3 DEF n

(* Where nobody has restarted, the sender of a message is known by its only ID. *)
LEMMA OriginalMail ==
    ASSUME life \in Lives, Original(life), NEW m, GoodMail(m, life)
    PROVE  /\ m.msg.from = IDOf[Sender(m)][1]
           /\ To(m) # Sender(m) => m.msg.from # SelfID(To(m))
<1>1. To(m) \in Nodes /\ Sender(m) \in Nodes
  BY MailFacts
<1>2. life[To(m)] = 1 /\ life[Sender(m)] = 1
  BY <1>1 DEF Original
<1>3. m.msg.from = IDOf[Sender(m)][1]
  BY <1>2 DEF GoodMail, GoodMsg
<1>4. SelfID(To(m)) = IDOf[To(m)][1]
  BY <1>2 DEF SelfID
<1>. QED BY <1>1, <1>2, <1>3, <1>4, IDFacts

(* An introduction goes on when nobody is forgotten and every message that     *)
(* leaves the network has been handled.                                      *)
LEMMA IntroducedKeeps ==
    ASSUME NEW n, NEW s, n # s, Introduced(n, s),
           \A k \in {n, s} : \A id : Has(rt[k], id) => Has(rt'[k], id),
           \A m \in net :
             \/ m \in net'
             \/ /\ To(m) # Sender(m) => Has(rt'[To(m)], IDOf[Sender(m)][1])
                /\ m.msg.type \in {"PING", "FIND_NODE"} =>
                     \E a \in net' : To(a) = Sender(m) /\ Sender(a) = To(m)
    PROVE  Introduced(n, s)'
<1>1. CASE \E m \in net : /\ To(m) = s /\ Sender(m) = n
                          /\ m.msg.type \in {"PING", "FIND_NODE"}
  BY <1>1 DEF Introduced
<1>2. CASE /\ Has(rt[s], IDOf[n][1])
           /\ Has(rt[n], IDOf[s][1]) \/ \E m \in net : To(m) = n /\ Sender(m) = s
  <2>1. Has(rt'[s], IDOf[n][1])
    BY <1>2
  <2>2. Has(rt'[n], IDOf[s][1]) \/ \E m \in net' : To(m) = n /\ Sender(m) = s
    BY <1>2
  <2>. QED BY <2>1, <2>2 DEF Introduced
<1>. QED BY <1>1, <1>2 DEF Introduced

(* A table is replaced by a good one. *)
LEMMA TableStep ==
    ASSUME TableInv, NEW n \in Nodes, NEW U, GoodTable(n, U, life),
           rt' = [rt EXCEPT ![n] = U], life' = life
    PROVE  TableInv' /\ rt'[n] = U /\ \A k \in Nodes \ {n} : rt'[k] = rt[k]
<1>1. rt'[n] = U /\ \A k \in Nodes \ {n} : rt'[k] = rt[k]
  BY DEF TableInv
<1>2. rt' \in [Nodes -> Tables]
  BY DEF TableInv, GoodTable
<1>3. \A k \in Nodes : GoodTable(k, rt'[k], life)
  BY <1>1 DEF TableInv
<1>. QED BY <1>1, <1>2, <1>3 DEF TableInv

(* The messages a node sends. *)
LEMMA RequestsAreGood ==
    ASSUME life \in Lives, NEW n \in Nodes, NEW target \in ID
    PROVE  /\ GoodMsg(Ping(n), n, life)
           /\ GoodMsg(FindNode(n, target), n, life)
           /\ FindNode(n, target).type = "FIND_NODE"
<1>1. SelfID(n) \in {IDOf[n][k] : k \in 1..life[n]}
  BY IDFacts DEF SelfID
<1>. QED BY <1>1 DEF Ping, FindNode, GoodMsg

LEMMA AnswersAreGood ==
    ASSUME life \in Lives, NEW n \in Nodes, NEW r \in Seq(Contact),
           \A p \in 1..Len(r) : Truthful(r[p], life)
    PROVE  /\ GoodMsg(Pong(n), n, life) /\ Pong(n).type = "PONG"
           /\ GoodMsg(NodesMsg(n, r), n, life) /\ NodesMsg(n, r).type = "NODES"
<1>0. SelfID(n) \in {IDOf[n][k] : k \in 1..life[n]}
  BY IDFacts DEF SelfID
<1>1. GoodMsg(Pong(n), n, life) /\ Pong(n).type = "PONG"
  BY <1>0 DEF Pong, GoodMsg
<1> DEFINE E == [i \in 1..Len(r) |-> [id |-> r[i].id, addr |-> r[i].addr]]
<1>2. Len(r) \in Nat /\ \A i \in 1..Len(r) : r[i].id \in ID /\ r[i].addr \in Endpoints
  BY TruthfulFacts, LenProperties
<1>3. /\ E \in Seq([id : ID, addr : Endpoints]) /\ Len(E) = Len(r)
      /\ \A i \in 1..Len(r) : E[i].id = r[i].id /\ E[i].addr = r[i].addr
  BY <1>2
<1>4. \A i \in 1..Len(E) : Truthful(E[i], life)
  <2> HIDE DEF E
  <2>. QED BY <1>3 DEF Truthful
<1>5. /\ NodesMsg(n, r).nodes = E /\ NodesMsg(n, r).from = SelfID(n)
      /\ NodesMsg(n, r).type = "NODES" /\ NodesMsg(n, r).addr = Listen(n)
  BY DEF NodesMsg
<1> HIDE DEF E
<1>6. GoodMsg(NodesMsg(n, r), n, life)
  BY <1>0, <1>3, <1>4, <1>5 DEF GoodMsg
<1>. QED BY <1>1, <1>5, <1>6

(* What any handler does to the table of the receiver. *)
LEMMA HandlerLearns ==
    ASSUME IInv, NEW m \in net, HandleRPC(m)
    PROVE  \E U : /\ rt' = [rt EXCEPT ![To(m)] = U]
                  /\ GoodTable(To(m), U, life)
                  /\ m.msg.from # SelfID(To(m)) => Has(U, m.msg.from)
                  /\ Few /\ Original(life) => \A id : Has(rt[To(m)], id) => Has(U, id)
<1>1. /\ GoodMail(m, life) /\ To(m) \in Nodes /\ GoodTable(To(m), rt[To(m)], life)
      /\ life \in Lives
  BY MailFacts DEF IInv, NetInv, TableInv, LifeInv
<1>2. CASE rt' = [rt EXCEPT ![To(m)] = LearnSender(rt[To(m)], m)]
  <2> DEFINE U == LearnSender(rt[To(m)], m)
  <2>1. /\ GoodTable(To(m), U, life)
        /\ m.msg.from # SelfID(To(m)) => Has(U, m.msg.from)
        /\ Few /\ Original(life) => \A id : Has(rt[To(m)], id) => Has(U, id)
    BY <1>1, LearnSenderGood
  <2>2. rt' = [rt EXCEPT ![To(m)] = U]
    BY <1>2
  <2> HIDE DEF U
  <2>. QED BY <2>1, <2>2
<1>3. CASE HandleNodes(m)
  <2> DEFINE s == m.msg.nodes
             V == LearnAll(rt[To(m)], To(m), s)
             U == LearnSender(V, m)
  <2>1. s \in Seq([id : ID, addr : Endpoints]) /\ \A i \in 1..Len(s) : Truthful(s[i], life)
    BY <1>1 DEF GoodMail, GoodMsg
  <2>2. rt' = [rt EXCEPT ![To(m)] = U]
    BY <1>3 DEF HandleNodes
  <2> HIDE DEF s
  <2>3. /\ GoodTable(To(m), V, life)
        /\ Few /\ Original(life) => \A id : Has(rt[To(m)], id) => Has(V, id)
    BY <1>1, <2>1, LearnAllGood
  <2> HIDE DEF V
  <2>4. /\ GoodTable(To(m), U, life)
        /\ m.msg.from # SelfID(To(m)) => Has(U, m.msg.from)
        /\ Few /\ Original(life) => \A id : Has(V, id) => Has(U, id)
    BY <1>1, <2>3, LearnSenderGood
  <2> HIDE DEF U
  <2>. QED BY <2>2, <2>3, <2>4
<1>4. HandleNodes(m) \/ rt' = [rt EXCEPT ![To(m)] = LearnSender(rt[To(m)], m)]
  BY DEF HandleRPC, HandlePing, HandlePong, HandleFindNode
<1>. QED BY <1>2, <1>3, <1>4

(* What any handler does to the network: the message is gone, and a request is  *)
(* answered unless its connection is.                                        *)
LEMMA HandlerAnswers ==
    ASSUME IInv, NEW m \in net, HandleRPC(m)
    PROVE  /\ NetInv' /\ LifeInv' /\ life' = life
           /\ conns \subseteq conns' /\ (faulty => faulty')
           /\ \A x \in net' : x \in net \/ x.conn \in conns'
           /\ \A x \in net : x = m \/ x \in net'
           /\ m.conn \in conns /\ m.msg.type \in {"PING", "FIND_NODE"} =>
                \E a \in net' : To(a) = Sender(m) /\ Sender(a) = To(m)
<1>0. life' = life
  BY DEF HandleRPC, HandlePing, HandlePong, HandleFindNode, HandleNodes
<1>1. /\ GoodMail(m, life) /\ To(m) \in Nodes /\ GoodTable(To(m), rt[To(m)], life)
      /\ m.conn \in conns => PeersAt(To(m), RemoteAddr(m)) # {}
      /\ life \in Lives
  BY MailFacts DEF IInv, NetInv, TableInv, LifeInv
<1> DEFINE Goal ==
             /\ NetInv'
             /\ conns \subseteq conns' /\ (faulty => faulty')
             /\ \A x \in net' : x \in net \/ x.conn \in conns'
             /\ \A x \in net : x = m \/ x \in net'
             /\ m.conn \in conns /\ m.msg.type \in {"PING", "FIND_NODE"} =>
                  \E a \in net' : To(a) = Sender(m) /\ Sender(a) = To(m)
<1>2. ASSUME Handled(m), m.msg.type \notin {"PING", "FIND_NODE"} PROVE Goal
  <2>1. conns' = conns /\ faulty' = faulty /\ net' = net \ {m}
    BY <1>2 DEF Handled
  <2>2. NetInv'
    BY <1>0, <2>1 DEF IInv, NetInv
  <2>. QED BY <1>2, <2>1, <2>2
<1>3. ASSUME NEW msg, GoodMsg(msg, To(m), life), msg.type # m.msg.type, Answered(m, msg)
      PROVE  Goal
  <2>1. NetInv' /\ SendStep(To(m), RemoteAddr(m), msg, {m})
    BY <1>0, <1>3, AnswerFacts DEF IInv
  <2>2. CASE net' = net \ {m} /\ PeersAt(To(m), RemoteAddr(m)) = {}
    BY <1>1, <2>1, <2>2 DEF SendStep
  <2>3. ASSUME NEW a, Sent(To(m), RemoteAddr(m), msg, conns', a),
               net' = (net \union {a}) \ {m}
        PROVE  Goal
    <3>1. a # m /\ a.conn \in conns' /\ Sender(a) = To(m)
      BY <1>3, <2>3 DEF Sent
    <3>2. ASSUME m.conn \in conns PROVE To(a) = Sender(m)
      <4>1. CASE m.end = 1
        <5>1. RemoteAddr(m) = Listen(m.conn[2]) /\ Sender(m) = m.conn[2]
          BY <1>1, <4>1, EndFacts DEF RemoteAddr, GoodMail
        <5>. QED BY <2>3, <5>1 DEF Sent
      <4>2. CASE m.end = 2
        <5>1. RemoteAddr(m) = Eph(m.conn) /\ Sender(m) = m.conn[1] /\ To(m) = m.conn[2]
          BY <1>1, <4>2, EndFacts DEF RemoteAddr, GoodMail
        <5>. QED BY <2>3, <3>2, <5>1 DEF Sent
      <4>. QED BY <1>1, <4>1, <4>2 DEF GoodMail
    <3>3. a \in net' /\ \A x \in net' : x \in net \/ x = a
      BY <2>3, <3>1
    <3>. QED BY <2>1, <2>3, <3>1, <3>2, <3>3 DEF SendStep
  <2>. QED BY <2>1, <2>2, <2>3 DEF SendStep
<1>4. ASSUME HandlePing(m) PROVE Goal
  <2>1. GoodMsg(Pong(To(m)), To(m), life) /\ Pong(To(m)).type = "PONG"
    <3>1. << >> \in Seq(Contact) /\ \A p \in 1..Len(<< >>) : Truthful(<< >>[p], life)
      OBVIOUS
    <3>. QED BY <1>1, <3>1, AnswersAreGood
  <2>2. Answered(m, Pong(To(m))) /\ m.msg.type = "PING"
    BY <1>4 DEF HandlePing
  <2> HIDE DEF Goal
  <2>. QED BY <1>3, <2>1, <2>2
<1>5. ASSUME HandleFindNode(m) PROVE Goal
  <2> DEFINE T == LearnSender(rt[To(m)], m)
             r == FindClosest(T, m.msg.target, K)
  <2>1. GoodTable(To(m), T, life) /\ m.msg.target \in ID /\ m.msg.type = "FIND_NODE"
    BY <1>1, <1>5, LearnSenderGood DEF HandleFindNode, GoodMail, GoodMsg
  <2>2. Answered(m, NodesMsg(To(m), r))
    BY <1>5 DEF HandleFindNode
  <2> HIDE DEF T
  <2>3. r \in Seq(Contact) /\ \A p \in 1..Len(r) : Truthful(r[p], life)
    BY <1>1, <2>1, FindClosestFacts
  <2> HIDE DEF r, Goal
  <2>4. GoodMsg(NodesMsg(To(m), r), To(m), life) /\ NodesMsg(To(m), r).type = "NODES"
    BY <1>1, <2>3, AnswersAreGood
  <2>. QED BY <1>3, <2>1, <2>2, <2>4
<1>6. Goal
  <2> HIDE DEF Goal
  <2>. QED BY <1>2, <1>4, <1>5 DEF HandleRPC, HandlePong, HandleNodes
<1>7. LifeInv'
  BY <1>0, <1>6 DEF IInv, LifeInv
<1>. QED BY <1>0, <1>6, <1>7

(* Somebody in a bootstrap list of n is another node, in a small network. *)
LEMMA SeedFacts ==
    ASSUME SmallNetwork, NEW n \in Nodes, NEW i \in 1..Len(Seeds[n])
    PROVE  Seeds[n][i] \in Nodes /\ Seeds[n][i] # n
BY SeedsAssumption, ElementOfSeq DEF SmallNetwork

LEMMA HandleInv ==
    ASSUME IInv, NEW m \in net, HandleRPC(m)
    PROVE  IInv'
<1>1. PICK U : /\ rt' = [rt EXCEPT ![To(m)] = U]
               /\ GoodTable(To(m), U, life)
               /\ m.msg.from # SelfID(To(m)) => Has(U, m.msg.from)
               /\ Few /\ Original(life) => \A id : Has(rt[To(m)], id) => Has(U, id)
  BY HandlerLearns
<1>2. To(m) \in Nodes /\ Sender(m) \in Nodes /\ GoodMail(m, life) /\ life \in Lives
  BY MailFacts DEF IInv, NetInv, LifeInv
<1>3. TableInv' /\ rt'[To(m)] = U /\ \A k \in Nodes \ {To(m)} : rt'[k] = rt[k]
  BY <1>1, <1>2, HandlerAnswers, TableStep DEF IInv
<1>4. UNCHANGED <<boot, seeds, lookup, asked>>
  BY DEF HandleRPC, HandlePing, HandlePong, HandleFindNode, HandleNodes, bootVars, lookupVars
<1>5. BootInv' /\ LookupInv' /\ SeedsInv'
  BY <1>4 DEF IInv, BootInv, LookupInv, SeedsInv, Behind
<1>6. JoinInv'
  <2> SUFFICES ASSUME SmallNetwork, ~faulty'
               PROVE  /\ \A x \in net' : x.conn \in conns'
                      /\ \A n \in Nodes : \A i \in 1..Behind(n) : Introduced(n, Seeds[n][i])'
    BY <1>4 DEF JoinInv, Behind
  <2>0. ~faulty /\ Original(life)
    BY HandlerAnswers DEF IInv, LifeInv
  <2>1. /\ \A x \in net : x.conn \in conns
        /\ \A n \in Nodes : \A i \in 1..Behind(n) : Introduced(n, Seeds[n][i])
    BY <2>0 DEF IInv, JoinInv
  <2>2. \A x \in net' : x.conn \in conns'
    BY <2>1, HandlerAnswers
  <2>3. ASSUME NEW n \in Nodes, NEW i \in 1..Behind(n)
        PROVE  Introduced(n, Seeds[n][i])'
    <3> DEFINE s == Seeds[n][i]
    <3>1. i \in 1..Len(Seeds[n])
      BY SeedsAssumption DEF Behind, IInv, BootInv
    <3>2. s \in Nodes /\ s # n /\ Introduced(n, s)
      BY <2>1, <3>1, SeedFacts
    <3> HIDE DEF s
    <3>3. \A k \in {n, s} : \A id : Has(rt[k], id) => Has(rt'[k], id)
      BY <1>1, <1>3, <2>0, <3>2 DEF SmallNetwork
    <3>4. To(m) # Sender(m) => Has(rt'[To(m)], IDOf[Sender(m)][1])
      BY <1>1, <1>2, <1>3, <2>0, OriginalMail
    <3>5. \A x \in net :
             \/ x \in net'
             \/ /\ To(x) # Sender(x) => Has(rt'[To(x)], IDOf[Sender(x)][1])
                /\ x.msg.type \in {"PING", "FIND_NODE"} =>
                     \E a \in net' : To(a) = Sender(x) /\ Sender(a) = To(x)
      BY <2>1, <3>4, HandlerAnswers
    <3>6. Introduced(n, s)'
      BY <3>2, <3>3, <3>5, IntroducedKeeps
    <3>. QED BY <3>6 DEF s
  <2>. QED BY <2>2, <2>3
<1>. QED BY <1>3, <1>5, <1>6, HandlerAnswers DEF IInv

(* The network only grows: introductions go on. *)
LEMMA IntroducedStays ==
    ASSUME IInv, SmallNetwork, ~faulty', faulty => faulty', rt' = rt, net \subseteq net',
           NEW n \in Nodes, NEW i \in 1..Behind(n)
    PROVE  Introduced(n, Seeds[n][i])'
<1>1. Introduced(n, Seeds[n][i])
  BY DEF IInv, JoinInv
<1>. QED BY <1>1 DEF Introduced

LEMMA JoinStays ==
    ASSUME IInv, rt' = rt, seeds' = seeds, net \subseteq net', conns \subseteq conns',
           faulty => faulty', \A x \in net' : x \in net \/ x.conn \in conns'
    PROVE  JoinInv'
<1> SUFFICES ASSUME SmallNetwork, ~faulty'
             PROVE  /\ \A x \in net' : x.conn \in conns'
                    /\ \A n \in Nodes : \A i \in 1..Behind(n) : Introduced(n, Seeds[n][i])'
  BY DEF JoinInv, Behind
<1>1. \A x \in net' : x.conn \in conns'
  BY DEF IInv, JoinInv
<1>. QED BY <1>1, IntroducedStays

(* What a Send does to the messages. *)
LEMMA SendGrows ==
    ASSUME NEW n, NEW addr, NEW msg, SendStep(n, addr, msg, {})
    PROVE  /\ conns \subseteq conns' /\ net \subseteq net' /\ (faulty => faulty')
           /\ \A x \in net' : x \in net \/ x.conn \in conns'
           /\ \A o \in Nodes : addr = Listen(o) =>
                faulty' \/ \E x \in net' : To(x) = o /\ Sender(x) = n /\ x.msg = msg
BY DEF SendStep, Sent

(* How far a bootstrap has come. *)
LEMMA BehindFacts ==
    ASSUME NEW n \in Nodes
    PROVE  /\ Behind(n) = Len(Seeds[n]) - Len(seeds[n])
           /\ Behind(n)' = Len(Seeds[n]) - Len(seeds'[n])
BY DEF Behind

(* The next bootstrap peer. *)
LEMMA HeadFacts ==
    ASSUME IInv, NEW n \in Nodes, seeds[n] # <<>>
    PROVE  /\ Head(seeds[n]) \in Nodes
           /\ Listen(Head(seeds[n])) \in Endpoints
           /\ Behind(n) + 1 \in 1..Len(Seeds[n])
           /\ Head(seeds[n]) = Seeds[n][Behind(n) + 1]
           /\ Behind(n) \in Nat
<1>1. seeds[n] \in Seq(Nodes) /\ Seeds[n] \in Seq(Nodes)
  BY SeedsAssumption DEF IInv, BootInv
<1>2. /\ Len(seeds[n]) \in Nat \ {0} /\ Len(Seeds[n]) \in Nat
      /\ Head(seeds[n]) = seeds[n][1] /\ Head(seeds[n]) \in Nodes
  BY <1>1, HeadTailProperties, EmptySeq, LenProperties
<1>3. Len(seeds[n]) <= Len(Seeds[n]) /\ seeds[n][1] = Seeds[n][Behind(n) + 1]
  BY <1>2 DEF IInv, SeedsInv
<1>4. Behind(n) = Len(Seeds[n]) - Len(seeds[n])
  BY BehindFacts
<1>5. Behind(n) \in Nat /\ Behind(n) + 1 \in 1..Len(Seeds[n])
  <2> DEFINE a == Len(seeds[n])
             b == Len(Seeds[n])
  <2>1. a \in Nat \ {0} /\ b \in Nat /\ a <= b /\ Behind(n) = b - a
    BY <1>2, <1>3, <1>4
  <2> HIDE DEF a, b
  <2>2. Behind(n) \in Nat /\ Behind(n) + 1 \in 1..b
    BY <2>1
  <2>. QED BY <2>2 DEF b
<1>. QED BY <1>2, <1>3, <1>5, EndpointFacts

(* A bootstrap peer is done with. *)
LEMMA TailFacts ==
    ASSUME IInv, NEW n \in Nodes, seeds[n] # <<>>,
           seeds' = [seeds EXCEPT ![n] = Tail(@)]
    PROVE  /\ seeds' \in [Nodes -> Seq(Nodes)]
           /\ SeedsInv'
           /\ Behind(n)' = Behind(n) + 1
           /\ \A k \in Nodes \ {n} : seeds'[k] = seeds[k] /\ Behind(k)' = Behind(k)
<1>1. seeds \in [Nodes -> Seq(Nodes)] /\ seeds[n] \in Seq(Nodes) /\ Seeds[n] \in Seq(Nodes)
  BY SeedsAssumption DEF IInv, BootInv
<1>2. /\ Tail(seeds[n]) \in Seq(Nodes)
      /\ Len(Tail(seeds[n])) = Len(seeds[n]) - 1
      /\ \A j \in 1..Len(Tail(seeds[n])) : Tail(seeds[n])[j] = seeds[n][j + 1]
      /\ Len(seeds[n]) \in Nat \ {0} /\ Len(Seeds[n]) \in Nat
  BY <1>1, HeadTailProperties, EmptySeq, LenProperties
<1>3. seeds'[n] = Tail(seeds[n]) /\ \A k \in Nodes \ {n} : seeds'[k] = seeds[k]
  BY <1>1
<1>4. seeds' \in [Nodes -> Seq(Nodes)]
  BY <1>1, <1>2
<1>5. Behind(n)' = Behind(n) + 1
  <2> DEFINE a == Len(seeds[n])
             b == Len(Seeds[n])
             c == Len(Tail(seeds[n]))
  <2>1. a \in Nat /\ b \in Nat /\ c = a - 1
    BY <1>2
  <2>2. Behind(n) = b - a /\ Behind(n)' = b - c
    BY <1>3, BehindFacts
  <2> HIDE DEF a, b, c
  <2>. QED BY <2>1, <2>2
<1>6. \A k \in Nodes \ {n} : Behind(k)' = Behind(k)
  BY <1>3 DEF Behind
<1>7. SeedsInv'
  <2> SUFFICES ASSUME NEW k \in Nodes
               PROVE  /\ Len(seeds'[k]) <= Len(Seeds[k])
                      /\ \A j \in 1..Len(seeds'[k]) : seeds'[k][j] = Seeds[k][Behind(k)' + j]
    BY DEF SeedsInv
  <2>1. CASE k = n
    <3>1. /\ Len(seeds[n]) <= Len(Seeds[n])
          /\ \A j \in 1..Len(seeds[n]) : seeds[n][j] = Seeds[n][Behind(n) + j]
      BY DEF IInv, SeedsInv
    <3>2. ASSUME NEW j \in 1..Len(seeds'[n])
          PROVE  seeds'[n][j] = Seeds[n][Behind(n)' + j]
      <4>0. j \in 1..Len(Tail(seeds[n]))
        BY <1>3
      <4>1. j + 1 \in 1..Len(seeds[n]) /\ j \in 1..Len(Tail(seeds[n])) /\ j \in Nat
        <5> DEFINE a == Len(seeds[n])
                   c == Len(Tail(seeds[n]))
        <5>1. a \in Nat /\ c = a - 1 /\ j \in 1..c
          BY <1>2, <4>0
        <5> HIDE DEF a, c
        <5>2. j + 1 \in 1..a /\ j \in Nat
          BY <5>1
        <5>. QED BY <4>0, <5>2 DEF a
      <4>2. seeds'[n][j] = seeds[n][j + 1]
        BY <1>2, <1>3, <4>1
      <4>3. Behind(n)' + j = Behind(n) + (j + 1)
        <5>1. Behind(n) \in Nat /\ j \in Nat
          BY <4>1, HeadFacts
        <5>. QED BY <1>5, <5>1
      <4>. QED BY <3>1, <4>1, <4>2, <4>3
    <3>3. Len(seeds'[n]) <= Len(Seeds[n])
      BY <1>2, <1>3, <3>1
    <3>. QED BY <2>1, <3>2, <3>3
  <2>2. CASE k # n
    BY <1>3, <1>6, <2>2 DEF IInv, SeedsInv
  <2>. QED BY <2>1, <2>2
<1>. QED BY <1>3, <1>4, <1>5, <1>6, <1>7

LEMMA BootInvStep ==
    ASSUME IInv, NEW n \in Nodes, BootStep(n)
    PROVE  IInv'
<1> DEFINE addr == Listen(Head(seeds[n]))
<1>0. life \in Lives /\ SelfID(n) \in ID
  BY IDFacts DEF IInv, LifeInv, SelfID
<1>1. seeds[n] # <<>>
  BY DEF BootStep, BootDial, SendPing, SendFindNode, IInv, BootInv
<1>2. Head(seeds[n]) \in Nodes /\ addr \in Endpoints /\ addr = Listen(Head(seeds[n]))
  BY <1>1, HeadFacts
<1>3. life' = life /\ rt' = rt /\ lookup' = lookup /\ asked' = asked
  BY DEF BootStep, BootDial, SendPing, SendFindNode, lookupVars
<1>4. TableInv' /\ LookupInv'
  BY <1>3 DEF IInv, TableInv, LookupInv
<1>5. CASE BootDial(n)
  <2>1. CASE /\ \E c \in Dialled(n, addr) : Becomes(Opened(c))
             /\ boot' = [boot EXCEPT ![n] = "ping"] /\ UNCHANGED seeds
    <3>1. PICK c \in Dialled(n, addr) : Becomes(Opened(c))
      BY <2>1
    <3> HIDE DEF addr
    <3>2. /\ c \in Connections /\ Named(conns \union {c})
          /\ conns' = conns \union {c} /\ net' = net /\ faulty' = faulty
      BY <3>1, DialFacts DEF IInv, Becomes
    <3>3. NetInv' /\ LifeInv' /\ conns \subseteq conns'
      BY <1>3, <3>2 DEF IInv, NetInv, LifeInv
    <3>4. BootInv'
      BY <1>1, <2>1 DEF IInv, BootInv
    <3>5. SeedsInv'
      BY <2>1 DEF IInv, SeedsInv, Behind
    <3>6. JoinInv'
      BY <1>3, <2>1, <3>2, <3>3, JoinStays
    <3>. QED BY <1>4, <3>3, <3>4, <3>5, <3>6 DEF IInv
  <2>2. CASE /\ Becomes(DialFails(addr))
             /\ seeds' = [seeds EXCEPT ![n] = Tail(@)] /\ UNCHANGED boot
    <3>1. conns' = conns /\ net' = net /\ faulty' = TRUE
      <4> HIDE DEF addr
      <4>. QED BY <1>2, <2>2 DEF Becomes, DialFails, Now
    <3>2. NetInv' /\ LifeInv' /\ JoinInv'
      BY <1>3, <3>1 DEF IInv, NetInv, LifeInv, JoinInv
    <3>3. SeedsInv' /\ seeds' \in [Nodes -> Seq(Nodes)]
          /\ \A k \in Nodes \ {n} : seeds'[k] = seeds[k]
      BY <1>1, <2>2, TailFacts
    <3>4. BootInv'
      BY <1>5, <2>2, <3>3 DEF IInv, BootInv, BootDial
    <3>. QED BY <1>4, <3>2, <3>3, <3>4 DEF IInv
  <2>. QED BY <1>5, <2>1, <2>2 DEF BootDial
<1>6. CASE SendPing(n)
  <2>1. Send(n, addr, Ping(n)) /\ boot' = [boot EXCEPT ![n] = "findNode"] /\ seeds' = seeds
    BY <1>6 DEF SendPing
  <2> HIDE DEF addr
  <2>2. GoodMsg(Ping(n), n, life)
    BY <1>0, RequestsAreGood
  <2>3. NetInv' /\ SendStep(n, addr, Ping(n), {})
    BY <1>2, <1>3, <2>1, <2>2, SendFacts DEF IInv
  <2>4. LifeInv'
    BY <1>3, <2>3 DEF IInv, LifeInv, SendStep
  <2>5. JoinInv'
    BY <1>3, <2>1, <2>3, SendGrows, JoinStays
  <2>6. BootInv'
    BY <1>1, <2>1 DEF IInv, BootInv
  <2>7. SeedsInv'
    BY <2>1 DEF IInv, SeedsInv, Behind
  <2>. QED BY <1>4, <2>3, <2>4, <2>5, <2>6, <2>7 DEF IInv
<1>7. CASE SendFindNode(n)
  <2> DEFINE msg == FindNode(n, SelfID(n))
  <2>1. /\ Send(n, addr, msg) /\ boot' = [boot EXCEPT ![n] = "dial"]
        /\ seeds' = [seeds EXCEPT ![n] = Tail(@)]
    BY <1>7 DEF SendFindNode
  <2> HIDE DEF addr
  <2>2. GoodMsg(msg, n, life) /\ msg.type = "FIND_NODE"
    BY <1>0, RequestsAreGood
  <2> HIDE DEF msg
  <2>3. NetInv' /\ SendStep(n, addr, msg, {})
    BY <1>2, <1>3, <2>1, <2>2, SendFacts DEF IInv
  <2>4. LifeInv'
    BY <1>3, <2>3 DEF IInv, LifeInv, SendStep
  <2>5. /\ SeedsInv' /\ seeds' \in [Nodes -> Seq(Nodes)]
        /\ Behind(n)' = Behind(n) + 1
        /\ \A k \in Nodes \ {n} : seeds'[k] = seeds[k] /\ Behind(k)' = Behind(k)
    BY <1>1, <2>1, TailFacts
  <2>6. BootInv'
    BY <2>1, <2>5 DEF IInv, BootInv
  <2>7. JoinInv'
    <3> SUFFICES ASSUME SmallNetwork, ~faulty'
                 PROVE  /\ \A x \in net' : x.conn \in conns'
                        /\ \A k \in Nodes : \A i \in 1..Behind(k)' :
                             Introduced(k, Seeds[k][i])'
      BY DEF JoinInv
    <3>1. \A x \in net' : x.conn \in conns'
      BY <2>3, SendGrows DEF IInv, JoinInv
    <3>2. ASSUME NEW k \in Nodes, NEW i \in 1..Behind(k)' PROVE Introduced(k, Seeds[k][i])'
      <4>1. CASE i \in 1..Behind(k)
        BY <1>3, <2>3, <4>1, SendGrows, IntroducedStays
      <4>2. CASE k = n /\ i = Behind(n) + 1
        <5>1. \E x \in net' : To(x) = Seeds[n][i] /\ Sender(x) = n /\ x.msg = msg
          BY <1>1, <1>2, <2>3, <4>2, SendGrows, HeadFacts
        <5>. QED BY <2>2, <4>2, <5>1 DEF Introduced
      <4>3. i \in 1..Behind(k) \/ (k = n /\ i = Behind(n) + 1)
        BY <1>1, <2>5, HeadFacts
      <4>. QED BY <4>1, <4>2, <4>3
    <3>. QED BY <3>1, <3>2
  <2>. QED BY <1>4, <2>3, <2>4, <2>5, <2>6, <2>7 DEF IInv
<1>. QED BY <1>5, <1>6, <1>7 DEF BootStep

-----------------------------------------------------------------------------
(* Lookup *)

LEMMA LookupFrame ==
    ASSUME LookupInv, NEW n \in Nodes, NEW l \in LookupStates, NEW d \in Questions,
           GoodLookup(n, l, d),
           lookup' = [lookup EXCEPT ![n] = l], asked' = [asked EXCEPT ![n] = d]
    PROVE  LookupInv'
<1>1. lookup' \in [Nodes -> LookupStates] /\ asked' \in [Nodes -> Questions]
  BY DEF LookupInv
<1>2. lookup'[n] = l /\ asked'[n] = d
  BY DEF LookupInv
<1>3. \A k \in Nodes \ {n} : lookup'[k] = lookup[k] /\ asked'[k] = asked[k]
  BY DEF LookupInv
<1>4. \A k \in Nodes : GoodLookup(k, lookup'[k], asked'[k])
  BY <1>2, <1>3 DEF LookupInv
<1>5. LookupInv' <=> /\ lookup' \in [Nodes -> LookupStates]
                     /\ asked' \in [Nodes -> Questions]
                     /\ \A k \in Nodes : GoodLookup(k, lookup'[k], asked'[k])
  BY DEF LookupInv, GoodLookup
<1>. QED BY <1>1, <1>4, <1>5

(* A step that sends nothing and learns nothing. *)
LEMMA QuietStep ==
    ASSUME IInv, UNCHANGED <<life, rt, netVars, bootVars>>
    PROVE  LifeInv' /\ NetInv' /\ TableInv' /\ BootInv' /\ SeedsInv' /\ JoinInv'
<1>1. /\ life' = life /\ rt' = rt /\ conns' = conns /\ net' = net
      /\ faulty' = faulty /\ boot' = boot /\ seeds' = seeds
  BY DEF netVars, bootVars
<1>2. LifeInv' /\ NetInv' /\ TableInv'
  BY <1>1 DEF IInv, LifeInv, NetInv, TableInv
<1>3. BootInv' /\ SeedsInv'
  BY <1>1 DEF IInv, BootInv, SeedsInv, Behind
<1>4. JoinInv'
  <2>1. \A x \in net' : x \in net
    BY <1>1
  <2>. QED BY <1>1, <2>1, JoinStays
<1>. QED BY <1>2, <1>3, <1>4

LEMMA LookupStartInv ==
    ASSUME IInv, NEW n \in Nodes, LookupStart(n)
    PROVE  IInv'
<1> DEFINE l == [lookup[n] EXCEPT !.at = "round"]
<1>1. lookup[n] \in LookupStates /\ asked[n] \in Questions
      /\ GoodLookup(n, lookup[n], asked[n])
  BY DEF IInv, LookupInv
<1>2. /\ l \in LookupStates /\ l.at = "round" /\ l.round = lookup[n].round
      /\ l.todo = lookup[n].todo /\ l.queried = lookup[n].queried
  BY <1>1 DEF LookupStates
<1>3. lookup' = [lookup EXCEPT ![n] = l] /\ asked' = [asked EXCEPT ![n] = asked[n]]
  BY DEF LookupStart, IInv, LookupInv
<1>4. Target[n] \in ID
  BY TargetAssumption DEF LookupStart
<1> HIDE DEF l
<1>5. GoodLookup(n, l, asked[n])
  BY <1>1, <1>2, <1>4 DEF GoodLookup
<1>6. LookupInv'
  BY <1>1, <1>2, <1>3, <1>5, LookupFrame DEF IInv
<1>7. UNCHANGED <<life, rt, netVars, bootVars>>
  BY DEF LookupStart
<1>. QED BY <1>6, <1>7, QuietStep DEF IInv

LEMMA LookupRoundInv ==
    ASSUME IInv, NEW n \in Nodes, LookupRound(n)
    PROVE  IInv'
<1> DEFINE l == lookup[n]
           r == FindClosest(rt[n], Target[n], K)
           q == ToQuery(n, r)
<1>1. /\ l \in LookupStates /\ asked[n] \in Questions
      /\ GoodLookup(n, l, asked[n])
  BY DEF IInv, LookupInv
<1>2. l.at = "round" /\ Target[n] \in ID
  BY <1>1 DEF LookupRound, GoodLookup
<1>3. asked' = [asked EXCEPT ![n] = asked[n]] /\ UNCHANGED <<life, rt, netVars, bootVars>>
  BY DEF LookupRound, IInv, LookupInv
<1>4. r \in Seq(Contact) /\ DistinctIDs(r) /\ \A p \in 1..Len(r) : Truthful(r[p], life)
  <2>1. GoodTable(n, rt[n], life)
    BY DEF IInv, TableInv
  <2> HIDE DEF r
  <2>2. r = FindClosest(rt[n], Target[n], K)
    BY DEF r
  <2>. QED BY <1>2, <2>1, <2>2, FindClosestFacts
<1>5. \/ lookup' = [lookup EXCEPT ![n].at = "done"]
      \/ /\ r # <<>> /\ q # <<>>
         /\ lookup' = [lookup EXCEPT ![n].at = "sending", ![n].prev = r[1].id,
                                     ![n].todo = q]
  BY DEF LookupRound
<1>6. CASE lookup' = [lookup EXCEPT ![n].at = "done"]
  <2> DEFINE u == [l EXCEPT !.at = "done"]
  <2>1. /\ u \in LookupStates /\ u.at = "done" /\ u.round = l.round
        /\ u.todo = l.todo /\ u.queried = l.queried
    BY <1>1 DEF LookupStates
  <2>2. lookup' = [lookup EXCEPT ![n] = u]
    BY <1>6 DEF IInv, LookupInv
  <2> HIDE DEF u, l
  <2>3. GoodLookup(n, u, asked[n])
    BY <1>1, <1>2, <2>1 DEF GoodLookup
  <2>4. LookupInv'
    BY <1>1, <1>3, <2>1, <2>2, <2>3, LookupFrame DEF IInv
  <2>. QED BY <1>3, <2>4, QuietStep DEF IInv
<1>7. CASE /\ r # <<>> /\ q # <<>>
           /\ lookup' = [lookup EXCEPT ![n].at = "sending", ![n].prev = r[1].id,
                                       ![n].todo = q]
  <2> DEFINE u == [l EXCEPT !.at = "sending", !.prev = r[1].id, !.todo = q]
  <2>1. lookup' = [lookup EXCEPT ![n] = u]
    <3> HIDE DEF r, q
    <3>. QED BY <1>7 DEF IInv, LookupInv
  <2>2. /\ q \in Seq(Contact) /\ DistinctIDs(q)
        /\ \A p \in 1..Len(q) : q[p].addr \in Endpoints \ l.queried
    <3> HIDE DEF r
    <3>1. q = ToQuery(n, r)
      OBVIOUS
    <3> HIDE DEF q
    <3>2. /\ q \in Seq(Contact) /\ DistinctIDs(q)
          /\ \A p \in 1..Len(q) : q[p].addr \notin lookup[n].queried
          /\ \A p \in 1..Len(q) : \E j \in 1..Len(r) : q[p] = r[j]
      BY <1>4, <3>1, ToQueryFacts
    <3>3. life \in Lives
      BY DEF IInv, LifeInv
    <3>. QED BY <1>4, <3>2, <3>3, TruthfulFacts
  <2>3. r[1].id \in ID
    <3> HIDE DEF r
    <3>1. Len(r) \in Nat \ {0}
      BY <1>4, <1>7, EmptySeq
    <3>2. 1 \in 1..Len(r)
      BY <3>1
    <3>3. r[1] \in Contact
      BY <1>4, <3>2, ElementOfSeq, Zenon
    <3>. QED BY <3>3 DEF Contact
  <2>4. u \in LookupStates /\ u.at = "sending" /\ u.todo = q /\ u.queried = l.queried
    <3> HIDE DEF r, q, l
    <3>. QED BY <1>1, <2>2, <2>3 DEF LookupStates
  <2> HIDE DEF u, l, q, r
  <2>5. GoodLookup(n, u, asked[n])
    BY <1>1, <1>2, <1>7, <2>2, <2>4 DEF GoodLookup
  <2>6. LookupInv'
    BY <1>1, <1>3, <2>1, <2>4, <2>5, LookupFrame DEF IInv
  <2>. QED BY <1>3, <2>6, QuietStep DEF IInv
<1>. QED BY <1>5, <1>6, <1>7

LEMMA LookupSendInv ==
    ASSUME IInv, NEW n \in Nodes, LookupSend(n)
    PROVE  IInv'
<1> DEFINE l == lookup[n]
           c == Head(l.todo)
           addr == c.addr
           last == Len(l.todo) = 1
           msg == FindNode(n, Target[n])
           t == Tail(l.todo)
           e == [id |-> c.id, addr |-> addr, round |-> l.round]
           done == asked[n]
           d == Append(done, e)
           u == [at |-> IF last THEN "round" ELSE "sending",
                 round |-> IF last THEN l.round + 1 ELSE l.round,
                 prev |-> l.prev, queried |-> l.queried \union {addr}, todo |-> t]
<1>1. /\ l \in LookupStates /\ done \in Questions
      /\ GoodLookup(n, l, done)
  BY DEF IInv, LookupInv
<1>2. /\ l.at = "sending" /\ Send(n, addr, msg)
      /\ lookup' = [lookup EXCEPT ![n] = u] /\ asked' = [asked EXCEPT ![n] = d]
      /\ UNCHANGED <<life, rt, bootVars>>
  BY DEF LookupSend, Mark, IInv, LookupInv
<1>3. Target[n] \in ID /\ l.todo \in Seq(Contact) /\ l.todo # <<>>
      /\ l.queried \in SUBSET Endpoints /\ l.round \in Nat /\ l.prev \in ID \union {None}
  BY <1>1, <1>2 DEF GoodLookup, LookupStates
<1>4. /\ t \in Seq(Contact) /\ Len(t) = Len(l.todo) - 1 /\ c = l.todo[1] /\ c \in Contact
      /\ \A p \in 1..Len(t) : t[p] = l.todo[p + 1]
      /\ Len(l.todo) \in Nat \ {0}
  BY <1>3, HeadTailProperties, EmptySeq
<1>5. 1 \in 1..Len(l.todo) /\ \A p \in 1..Len(t) : p + 1 \in 1..Len(l.todo) /\ p + 1 # 1
  <2> DEFINE a == Len(l.todo)
             b == Len(t)
  <2>1. a \in Nat \ {0} /\ b = a - 1
    BY <1>4
  <2> HIDE DEF a, b
  <2>2. 1 \in 1..a /\ \A p \in 1..b : p + 1 \in 1..a /\ p + 1 # 1
    BY <2>1
  <2>. QED BY <2>2 DEF a, b
<1>6. /\ addr \in Endpoints /\ c.id \in ID
      /\ e.id = c.id /\ e.addr = addr /\ e.round = l.round
      /\ \A i \in 1..Len(done) : done[i].addr = addr => done[i].round = l.round /\ done[i].id # c.id
  BY <1>1, <1>4, <1>5 DEF GoodLookup, Contact
<1>7. \A p \in 1..Len(t) : /\ t[p].addr \in Endpoints /\ t[p].id # c.id
                           /\ \A i \in 1..Len(done) : done[i].addr = t[p].addr =>
                                done[i].round = l.round /\ done[i].id # t[p].id
  <2> HIDE DEF addr, c, t, l, done
  <2> SUFFICES ASSUME NEW p \in 1..Len(t)
               PROVE  /\ t[p].addr \in Endpoints /\ t[p].id # c.id
                      /\ \A i \in 1..Len(done) : done[i].addr = t[p].addr =>
                           done[i].round = l.round /\ done[i].id # t[p].id
    OBVIOUS
  <2>1. t[p] = l.todo[p + 1] /\ p + 1 \in 1..Len(l.todo) /\ p + 1 # 1
    BY <1>4, <1>5
  <2>2. l.todo[p + 1].id # l.todo[1].id
    BY <1>1, <1>5, <2>1 DEF GoodLookup, DistinctIDs
  <2>. QED BY <1>1, <1>4, <2>1, <2>2 DEF GoodLookup
<1>8. DistinctIDs(t)
  <2> HIDE DEF t, l
  <2> SUFFICES ASSUME NEW p \in 1..Len(t), NEW q \in 1..Len(t), t[p].id = t[q].id
               PROVE  p = q
    BY DEF DistinctIDs
  <2>1. /\ p + 1 \in 1..Len(l.todo) /\ q + 1 \in 1..Len(l.todo)
        /\ l.todo[p + 1].id = l.todo[q + 1].id
    BY <1>4, <1>5
  <2>2. p + 1 = q + 1
    BY <1>1, <2>1 DEF GoodLookup, DistinctIDs
  <2>. QED BY <2>2
<1>9. e \in [id : ID, addr : Endpoints, round : Nat]
  <2> HIDE DEF addr, c, l
  <2>. QED BY <1>3, <1>6
<1>10. /\ d \in Questions /\ Len(d) = Len(done) + 1 /\ Len(done) \in Nat
       /\ \A i \in 1..Len(done) : d[i] = done[i]
       /\ d[Len(done) + 1] = e
  <2> HIDE DEF e, done
  <2>. QED BY <1>1, <1>9, AppendProperties, LenProperties DEF Questions
<1>11. \A i \in 1..Len(d) : \/ i \in 1..Len(done) /\ d[i] = done[i]
                            \/ i = Len(done) + 1 /\ d[i] = e
  <2> HIDE DEF e, d, done
  <2>1. \A i \in 1..Len(d) : i \in 1..Len(done) \/ i = Len(done) + 1
    BY <1>10
  <2>. QED BY <1>10, <2>1
<1>12. /\ u.at \in {"round", "sending"} /\ u.todo = t
       /\ u.queried = l.queried \union {addr}
       /\ u.at = "sending" => ~last
       /\ ~last => u.round = l.round
       /\ u \in LookupStates
  <2> HIDE DEF t, addr, l, last
  <2>. QED BY <1>3, <1>4, <1>6 DEF LookupStates
<1>13. (~last => t # <<>>) /\ (last => 1..Len(t) = {})
  <2>1. t = <<>> => Len(t) = 0
    BY <1>4, EmptySeq
  <2> DEFINE a == Len(l.todo)
             b == Len(t)
  <2>2. a \in Nat /\ b = a - 1 /\ (last <=> a = 1) /\ (t = <<>> => b = 0)
    BY <1>4, <2>1
  <2> HIDE DEF a, b, t, last
  <2>3. (~last => t # <<>>) /\ (last => 1..b = {})
    BY <2>2
  <2>. QED BY <2>3 DEF b
<1> HIDE DEF u, t, addr, l, last, d, e, done, c
<1>14. GoodLookup(n, u, d)
  <2>1. \A i \in 1..Len(d) : d[i].addr \in u.queried
    BY <1>1, <1>6, <1>11, <1>12 DEF GoodLookup
  <2>2. ASSUME NEW i \in 1..Len(d), NEW j \in 1..Len(d), i # j PROVE AnotherID(d[i], d[j])
    <3>1. CASE i \in 1..Len(done) /\ j \in 1..Len(done)
      BY <1>1, <1>11, <2>2, <3>1, <1>10 DEF GoodLookup
    <3>2. CASE i \in 1..Len(done) /\ d[j] = e
      BY <1>6, <1>10, <3>2 DEF AnotherID
    <3>3. CASE d[i] = e /\ j \in 1..Len(done)
      BY <1>6, <1>10, <3>3 DEF AnotherID
    <3>. QED BY <1>11, <2>2, <3>1, <3>2, <3>3
  <2>3. ASSUME NEW p \in 1..Len(u.todo), NEW i \in 1..Len(d), d[i].addr = u.todo[p].addr
        PROVE  d[i].round = u.round /\ d[i].id # u.todo[p].id
    <3>1. ~last /\ u.round = l.round /\ u.todo = t /\ p \in 1..Len(t)
      BY <1>12, <1>13
    <3>2. CASE i \in 1..Len(done) /\ d[i] = done[i]
      BY <1>7, <2>3, <3>1, <3>2
    <3>3. CASE d[i] = e
      BY <1>6, <1>7, <2>3, <3>1, <3>3
    <3>. QED BY <1>11, <3>2, <3>3
  <2>4. \A p \in 1..Len(u.todo) : u.todo[p].addr \in Endpoints
    BY <1>7, <1>12
  <2>. QED BY <1>3, <1>8, <1>12, <1>13, <2>1, <2>2, <2>3, <2>4 DEF GoodLookup
<1>15. LookupInv'
  BY <1>2, <1>10, <1>12, <1>14, LookupFrame DEF IInv
<1>16. GoodMsg(msg, n, life)
  BY <1>3, RequestsAreGood DEF IInv, LifeInv
<1> HIDE DEF msg
<1>17. life' = life /\ rt' = rt /\ boot' = boot /\ seeds' = seeds
  BY <1>2 DEF bootVars
<1>18. NetInv' /\ SendStep(n, addr, msg, {})
  BY <1>2, <1>6, <1>16, <1>17, SendFacts DEF IInv
<1>19. JoinInv'
  BY <1>17, <1>18, SendGrows, JoinStays
<1>20. LifeInv' /\ TableInv' /\ BootInv' /\ SeedsInv'
  BY <1>17, <1>18 DEF IInv, LifeInv, TableInv, BootInv, SeedsInv, Behind, SendStep
<1>. QED BY <1>15, <1>18, <1>19, <1>20 DEF IInv

-----------------------------------------------------------------------------
(* Failures *)

LEMMA BreakInv ==
    ASSUME IInv, Break \/ Lose
    PROVE  IInv'
<1>1. /\ conns' \subseteq conns /\ net' \subseteq net /\ faulty' = TRUE
      /\ life' = life /\ rt' = rt /\ boot' = boot /\ seeds' = seeds
      /\ lookup' = lookup /\ asked' = asked
  BY DEF Break, Lose, bootVars, lookupVars
<1>2. LifeInv' /\ NetInv'
  BY <1>1 DEF IInv, LifeInv, NetInv, Named
<1>3. TableInv' /\ LookupInv'
  BY <1>1 DEF IInv, TableInv, LookupInv
<1>4. BootInv' /\ SeedsInv'
  BY <1>1 DEF IInv, BootInv, SeedsInv, Behind
<1>5. JoinInv'
  BY <1>1 DEF JoinInv
<1>. QED BY <1>2, <1>3, <1>4, <1>5 DEF IInv

(* What was true of the processes so far stays true when another is started. *)
LEMMA OlderTruths ==
    ASSUME NEW L \in Lives, NEW M \in Lives, \A n \in Nodes : L[n] <= M[n]
    PROVE  /\ \A n \in Nodes : {IDOf[n][k] : k \in 1..L[n]} \subseteq {IDOf[n][k] : k \in 1..M[n]}
           /\ \A c : Truthful(c, L) => Truthful(c, M)
           /\ \A msg, n : n \in Nodes /\ GoodMsg(msg, n, L) => GoodMsg(msg, n, M)
           /\ \A m : GoodMail(m, L) => GoodMail(m, M)
           /\ \A n, T : n \in Nodes /\ L[n] = M[n] /\ GoodTable(n, T, L) => GoodTable(n, T, M)
<1>1. \A n \in Nodes : \A k \in 1..L[n] : k \in 1..M[n]
  BY DEF Lives
<1>2. \A n \in Nodes : {IDOf[n][k] : k \in 1..L[n]} \subseteq {IDOf[n][k] : k \in 1..M[n]}
  BY <1>1
<1>3. \A c : Truthful(c, L) => Truthful(c, M)
  BY <1>2 DEF Truthful
<1>4. \A msg, n : n \in Nodes /\ GoodMsg(msg, n, L) => GoodMsg(msg, n, M)
  BY <1>2, <1>3 DEF GoodMsg
<1>5. \A m : GoodMail(m, L) => GoodMail(m, M)
  BY <1>4, EndFacts DEF GoodMail
<1>6. \A n, T : n \in Nodes /\ L[n] = M[n] /\ GoodTable(n, T, L) => GoodTable(n, T, M)
  BY <1>3 DEF GoodTable, GoodBucket
<1>. QED BY <1>2, <1>3, <1>4, <1>5, <1>6

LEMMA RestartInv ==
    ASSUME IInv, NEW n \in Nodes, Restart(n)
    PROVE  IInv'
<1>1. /\ life \in Lives /\ life[n] < Len(IDOf[n]) /\ Len(IDOf[n]) \in Nat
      /\ life' = [life EXCEPT ![n] = life[n] + 1]
  BY IDOfAssumption, LenProperties DEF Restart, IInv, LifeInv
<1>2. /\ life'[n] = life[n] + 1 /\ life[n] \in Nat
      /\ \A k \in Nodes \ {n} : life'[k] = life[k]
  BY <1>1 DEF Lives
<1>3. life' \in Lives
  BY <1>1, <1>2 DEF Lives
<1>4. \A k \in Nodes : life[k] <= life'[k]
  BY <1>1, <1>2 DEF Lives
<1>5. faulty' = TRUE /\ conns' \subseteq conns /\ net' \subseteq net
  BY DEF Restart
<1>6. LifeInv' /\ JoinInv'
  BY <1>3, <1>5 DEF LifeInv, JoinInv
<1>7. NetInv'
  <2>1. \A m \in net : GoodMail(m, life')
    BY <1>1, <1>3, <1>4, OlderTruths DEF IInv, NetInv
  <2>. QED BY <1>5, <2>1 DEF IInv, NetInv, Named
<1>8. TableInv'
  <2>1. rt'[n] = NewRoutingTable /\ \A k \in Nodes \ {n} : rt'[k] = rt[k]
    BY DEF Restart, IInv, TableInv
  <2>2. rt' \in [Nodes -> Tables]
    BY EmptyTable DEF Restart, IInv, TableInv, GoodTable
  <2>3. ASSUME NEW k \in Nodes PROVE GoodTable(k, rt'[k], life')
    <3>1. CASE k = n
      BY <2>1, <3>1, EmptyTable
    <3>2. CASE k # n
      <4>1. rt'[k] = rt[k] /\ life'[k] = life[k] /\ GoodTable(k, rt[k], life)
        BY <1>2, <2>1, <3>2 DEF IInv, TableInv
      <4>. QED BY <1>1, <1>3, <1>4, <4>1, OlderTruths
    <3>. QED BY <3>1, <3>2
  <2>. QED BY <2>2, <2>3 DEF TableInv
<1>9. /\ boot' = [boot EXCEPT ![n] = "dial"] /\ seeds' = [seeds EXCEPT ![n] = Seeds[n]]
      /\ lookup' = [lookup EXCEPT ![n] = NoLookup] /\ asked' = [asked EXCEPT ![n] = <<>>]
  BY DEF Restart
<1>10. LookupInv'
  BY <1>9, FreshLookup, LookupFrame DEF IInv
<1>11. BootInv'
  BY <1>9, SeedsAssumption DEF IInv, BootInv
<1>12. SeedsInv'
  <2>1. seeds'[n] = Seeds[n] /\ \A k \in Nodes \ {n} : seeds'[k] = seeds[k]
    BY <1>9 DEF IInv, BootInv
  <2>2. Len(Seeds[n]) \in Nat
    BY SeedsAssumption, LenProperties
  <2>3. Behind(n)' = 0 /\ \A k \in Nodes \ {n} : Behind(k)' = Behind(k)
    <3>1. Behind(n)' = Len(Seeds[n]) - Len(seeds'[n])
      BY BehindFacts
    <3>2. Behind(n)' = Len(Seeds[n]) - Len(Seeds[n])
      BY <2>1, <3>1
    <3>3. Behind(n)' = 0
      <4> DEFINE a == Len(Seeds[n])
      <4>1. a \in Nat /\ Behind(n)' = a - a
        BY <2>2, <3>2
      <4> HIDE DEF a
      <4>. QED BY <4>1
    <3>4. \A k \in Nodes \ {n} : Behind(k)' = Behind(k)
      BY <2>1 DEF Behind
    <3>. QED BY <3>3, <3>4
  <2>4. ASSUME NEW k \in Nodes
        PROVE  /\ Len(seeds'[k]) <= Len(Seeds[k])
               /\ \A j \in 1..Len(seeds'[k]) : seeds'[k][j] = Seeds[k][Behind(k)' + j]
    <3>1. CASE k = n
      BY <2>1, <2>2, <2>3, <3>1
    <3>2. CASE k # n
      BY <2>1, <2>3, <3>2 DEF IInv, SeedsInv
    <3>. QED BY <3>1, <3>2
  <2>. QED BY <2>4 DEF SeedsInv
<1>. QED BY <1>6, <1>7, <1>8, <1>10, <1>11, <1>12 DEF IInv

LEMMA NextInv ==
    ASSUME IInv, [Next]_vars
    PROVE  IInv'
<1>1. CASE \E m \in net : HandleRPC(m)
  BY <1>1, HandleInv
<1>2. CASE \E n \in Nodes : BootStep(n)
  BY <1>2, BootInvStep
<1>3. CASE \E n \in Nodes : LookupStep(n)
  BY <1>3, LookupStartInv, LookupRoundInv, LookupSendInv DEF LookupStep
<1>4. CASE Break \/ Lose
  BY <1>4, BreakInv
<1>5. CASE \E n \in Nodes : Restart(n)
  BY <1>5, RestartInv
<1>6. CASE UNCHANGED vars
  <2>1. UNCHANGED <<life, rt, netVars, bootVars>> /\ lookup' = lookup /\ asked' = asked
    BY <1>6 DEF vars, lookupVars
  <2>2. LookupInv'
    BY <2>1 DEF IInv, LookupInv
  <2>. QED BY <2>1, <2>2, QuietStep DEF IInv
<1>. QED BY <1>1, <1>2, <1>3, <1>4, <1>5, <1>6 DEF Next

(* The tables, the network, the bootstraps and the lookups stay consistent     *)
(* through every handler, bootstrap step, lookup step, failure and restart.   *)
THEOREM Invariance == Spec => []IInv
BY InitInv, NextInv, PTL DEF Spec

-----------------------------------------------------------------------------
(* Theorems *)

(* The tables and the messages are well formed. *)
THEOREM TypeCorrect == Spec => []TypeOK
<1>1. IInv => TypeOK
  BY DEF IInv, LifeInv, Lives, NetInv, TableInv, BootInv, GoodMail, GoodMsg, PastIDs, TypeOK
<1>. QED BY <1>1, Invariance, PTL

(* The contacts of a table are those of its buckets. *)
LEMMA TableContacts ==
    ASSUME NEW n \in Nodes, NEW T, GoodTable(n, T, life)
    PROVE  /\ \A c \in ToSet(AllContacts(T)) : Truthful(c, life)
           /\ \A id : (\E c \in ToSet(AllContacts(T)) : c.id = id) <=> Has(T, id)
<1> DEFINE a == AllContacts(T)
<1>1. a \in Seq(Contact)
  BY AllContactsFacts
<1>2. \A p \in 1..Len(a) : \E i \in BucketIndices : \E q \in 1..Len(T[i]) : a[p] = T[i][q]
  BY AllContactsFacts
<1>3. \A i \in BucketIndices : \A q \in 1..Len(T[i]) : \E p \in 1..Len(a) : a[p] = T[i][q]
  BY AllContactsFacts
<1> HIDE DEF a
<1>4. ToSet(a) = {a[p] : p \in 1..Len(a)}
  BY <1>1, LenProperties DEF ToSet
<1>5. ASSUME NEW c \in ToSet(a) PROVE Truthful(c, life)
  <2>1. \A i \in BucketIndices : \A q \in 1..Len(T[i]) : Truthful(T[i][q], life)
    BY DEF GoodTable, GoodBucket
  <2>2. PICK p \in 1..Len(a) : c = a[p]
    BY <1>4
  <2>. QED BY <1>2, <2>1, <2>2
<1>6. ASSUME NEW id, NEW c \in ToSet(a), c.id = id PROVE Has(T, id)
  <2>1. PICK p \in 1..Len(a) : c = a[p]
    BY <1>4
  <2>. QED BY <1>2, <1>6, <2>1 DEF Has
<1>7. ASSUME NEW id, Has(T, id) PROVE \E c \in ToSet(a) : c.id = id
  <2>1. PICK i \in BucketIndices : \E q \in 1..Len(T[i]) : T[i][q].id = id
    BY <1>7 DEF Has
  <2>2. PICK q \in 1..Len(T[i]) : T[i][q].id = id
    BY <2>1
  <2>3. PICK p \in 1..Len(a) : a[p] = T[i][q]
    BY <1>3
  <2>. QED BY <1>4, <2>2, <2>3
<1>. QED BY <1>5, <1>6, <1>7 DEF a

(* What a node knows is what its buckets hold. *)
LEMMA ContactFacts ==
    ASSUME IInv, NEW n \in Nodes
    PROVE  /\ \A c \in Contacts(n) : Truthful(c, life)
           /\ \A m \in Nodes : Knows(n, m) <=> Has(rt[n], SelfID(m))
<1>1. GoodTable(n, rt[n], life)
  BY DEF IInv, TableInv
<1>. QED BY <1>1, TableContacts DEF Contacts, Knows

(* No node is ever recorded under another node's address, however often nodes *)
(* restart under new IDs and ephemeral ports are reused: the handlers take the *)
(* address of a sender from its own announcement or from the connection it     *)
(* used, and a NODES answer passes on only such addresses.                    *)
THEOREM Truth == Spec => []AddressesAreTruthful
<1>1. IInv => AddressesAreTruthful
  BY ContactFacts DEF AddressesAreTruthful, Truthful, PastIDs
<1>. QED BY <1>1, Invariance, PTL

(* A Lookup asks an address again only in the same round and for another ID,   *)
(* however the table changes and whatever is lost between its rounds.         *)
THEOREM LookupAsksOnce == Spec => []AsksOnce
<1>1. IInv => AsksOnce
  BY DEF IInv, LookupInv, GoodLookup, AnotherID, AsksOnce
<1>. QED BY <1>1, Invariance, PTL

(* In a network whose nodes all fit into one bucket and where nobody           *)
(* bootstraps from itself, a bootstrap that is over and whose messages have    *)
(* all been handled has made the node and its bootstrap peers known to each    *)
(* other, unless the network failed or a node restarted.                      *)
THEOREM JoinMutual == Spec => [](SmallNetwork => JoinIsMutual)
<1>1. IInv => (SmallNetwork => JoinIsMutual)
  <2> SUFFICES ASSUME IInv, SmallNetwork, NEW n \in Nodes, seeds[n] = <<>>, net = {},
                      ~faulty, NEW s \in ToSet(Seeds[n])
               PROVE  Knows(n, s) /\ Knows(s, n)
    BY DEF JoinIsMutual
  <2>1. Seeds[n] \in Seq(Nodes)
    BY SeedsAssumption
  <2>2. DOMAIN Seeds[n] = 1..Len(Seeds[n]) /\ Len(Seeds[n]) \in Nat
    BY <2>1, LenProperties
  <2>3. PICK i \in 1..Len(Seeds[n]) : s = Seeds[n][i]
    BY <2>2 DEF ToSet
  <2>4. s \in Nodes
    BY <2>1, <2>3, ElementOfSeq
  <2>5. Behind(n) = Len(Seeds[n])
    <3>1. Len(seeds[n]) = 0
      BY EmptySeq
    <3>2. Behind(n) = Len(Seeds[n]) - 0
      BY <3>1, BehindFacts
    <3>. QED BY <2>2, <3>2
  <2>6. Introduced(n, s)
    BY <2>3, <2>5 DEF IInv, JoinInv
  <2>7. Has(rt[s], IDOf[n][1]) /\ Has(rt[n], IDOf[s][1])
    BY <2>6 DEF Introduced
  <2>8. SelfID(n) = IDOf[n][1] /\ SelfID(s) = IDOf[s][1]
    BY <2>4 DEF IInv, LifeInv, Original, SelfID
  <2>. QED BY <2>4, <2>7, <2>8, ContactFacts
<1>. QED BY <1>1, Invariance, PTL
=============================================================================

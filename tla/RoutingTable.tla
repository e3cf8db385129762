---------------------------- MODULE RoutingTable ----------------------------
(***************************************************************************)
(* The routing table of one node as a state machine.  AddContact and          *)
(* FindClosest hold rt.mu for their whole body, so each is one step; the      *)
(* clock is read inside the critical section.                                *)
(***************************************************************************)
EXTENDS Buckets

CONSTANTS
    Self,       \* rt.self
    MaxTime     \* bound on the clock, for TLC

ASSUME SelfAssumption == Self \in ID

VARIABLES
    buckets,    \* rt.buckets
    now         \* time.Now()

vars == <<buckets, now>>

Init == buckets = NewRoutingTable /\ now = 0

(* A message, or an entry of a NODES message, names a contact. *)
Contacted(id, addr) ==
    /\ buckets' = AddContact(buckets, Self, id, addr, now)
    /\ UNCHANGED now

Tick ==
    /\ now < MaxTime
    /\ now' = now + 1
    /\ UNCHANGED buckets

Next == Tick \/ \E id \in ID, addr \in Addresses : Contacted(id, addr)

Spec == Init /\ [][Next]_vars

-----------------------------------------------------------------------------
(* Properties *)

(* Every bucket is a sequence of contacts. *)
TypeOK == buckets \in Tables /\ now \in Nat

(* The number whose binary digits are the bits of d. *)
Value(d) ==
    LET v[n \in 0..IDBits] == IF n = 0 THEN 0 ELSE 2 * v[n-1] + d[n]
    IN  v[IDBits]

(* The distance between two IDs as a number: the definition of the metric.   *)
Distance(a, b) == Value([i \in 1..IDBits |-> IF a[i] = b[i] THEN 0 ELSE 1])

(* What bit i adds to a number: 2^(IDBits-i). *)
Weight(i) == Value([j \in 1..IDBits |-> IF j = i THEN 1 ELSE 0])

(* No bucket outgrows K, no ID occurs twice in the table, and self is not in  *)
(* it, however often and with whatever addresses peers announce themselves.  *)
NoDuplicates ==
    /\ \A i \in BucketIndices : Len(buckets[i]) <= K
    /\ \A i, j \in BucketIndices :
         \A p \in 1..Len(buckets[i]), q \in 1..Len(buckets[j]) :
           /\ buckets[i][p].id = buckets[j][q].id => i = j /\ p = q
           /\ buckets[i][p].id # Self

(* Bucket i covers the distances from 2^(IDBits-1-i) to 2^(IDBits-i) - 1: the *)
(* k-bucket structure that makes FIND_NODE converge.                         *)
PlacedByDistance ==
    \A i \in BucketIndices : \A p \in 1..Len(buckets[i]) :
      LET d == Distance(Self, buckets[i][p].id)
      IN  Weight(i + 1) <= d /\ d < 2 * Weight(i + 1)

(* "Least recently seen at the back": LastSeen never increases along a        *)
(* bucket, whatever mixture of new and known contacts arrives.               *)
RecencyOrder ==
    \A i \in BucketIndices : \A p, q \in 1..Len(buckets[i]) :
      /\ buckets[i][p].seen <= now
      /\ p <= q => buckets[i][q].seen <= buckets[i][p].seen

(* FindClosest returns min(n, size) contacts, each ID once, in the order of   *)
(* their distances, and no contact left out is closer than one returned.     *)
ClosestIsRight ==
    \A target \in ID, n \in 0..K :
      LET res == FindClosest(buckets, target, n)
          D(c) == Distance(target, c.id)
          out == ToSet(AllContacts(buckets)) \ ToSet(res)
      IN  /\ Len(res) = n \/ (Len(res) < n /\ out = {})
          /\ \A p, q \in 1..Len(res) : p < q => D(res[p]) < D(res[q])
          /\ \A c \in out, p \in 1..Len(res) : D(res[p]) < D(c)

Known(id) == Positions(buckets[bucketIndex(Self, id)], id) # {}

Evicts(id) ==
    LET i == bucketIndex(Self, id)
        b == buckets[i]
    IN  /\ Len(b) = K /\ b[K].id = id
        /\ \A p \in 1..K : b[K].seen <= b[p].seen
        /\ \A j \in ID : Known(j) /\ j # id => Known(j)'
        /\ \E j \in ID : Known(j)' /\ ~Known(j) /\ bucketIndex(Self, j) = i

(* A contact disappears only when a stranger arrives in its full bucket and   *)
(* no contact of that bucket was seen longer ago; at most one disappears, and *)
(* the stranger takes its place.                                             *)
EvictsTheOldest ==
    [][\A id \in ID : Known(id) /\ ~Known(id)' => Evicts(id)]_vars

-----------------------------------------------------------------------------
(* The inductive invariant: what each bucket satisfies by itself. *)
GoodBucket(i, b, t) ==
    /\ Len(b) <= K
    /\ \A p, q \in 1..Len(b) : b[p].id = b[q].id => p = q
    /\ \A p \in 1..Len(b) : /\ b[p].id # Self
                            /\ bucketIndex(Self, b[p].id) = i
                            /\ b[p].seen <= t
    /\ \A p, q \in 1..Len(b) : p <= q => b[q].seen <= b[p].seen

IInv == TypeOK /\ \A i \in BucketIndices : GoodBucket(i, buckets[i], now)
=============================================================================

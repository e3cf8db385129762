------------------------------ MODULE Buckets -------------------------------
(***************************************************************************)
(* internal/dht/routing_table.go, as operators on the value of a table: a     *)
(* function from bucket indices to sequences of contacts, the most recently   *)
(* seen first.  RoutingTable makes a state machine of one table, Dht gives    *)
(* one to every node.                                                        *)
(***************************************************************************)
EXTENDS KadID, Sequences, SequencesExt

CONSTANTS
    K,          \* the capacity of a bucket
    Addresses   \* network addresses

ASSUME KAssumption == K \in Nat \ {0}

Contact == [id : ID, addr : Addresses, seen : Nat]

BucketIndices == 0..IDBits-1

NewRoutingTable == [i \in BucketIndices |-> <<>>]

Tables == [BucketIndices -> Seq(Contact)]

(* Where an ID belongs: the length of the prefix it shares with self. *)
bucketIndex(self, id) ==
    LET prefix == PrefixLen(XOR(self, id))
    IN  IF prefix >= IDBits THEN IDBits - 1 ELSE prefix

(* The positions at which a bucket holds an ID. *)
Positions(b, id) == {i \in 1..Len(b) : b[i].id = id}

(* Seeded fault: a known contact stays where it is in its bucket. *)
touchInPlace(b, i, t) == [b EXCEPT ![i].seen = t]

(* touch of the contact at position i, and the update of its LastSeen. *)
touch(b, i, t) ==
    <<[b[i] EXCEPT !.seen = t]>> \o SubSeq(b, 1, i-1) \o SubSeq(b, i+1, Len(b))

(* Seeded fault: the newcomer pushes out the most recently seen contact. *)
addOverFirst(b, c) ==
    IF Len(b) + 1 > K THEN [b EXCEPT ![1] = c] ELSE <<c>> \o b

(* Seeded fault: a new contact keeps Go's zero time, which is before any      *)
(* reading of the clock.                                                     *)
addUnstamped(b, c) ==
    LET longer == <<[c EXCEPT !.seen = -1]>> \o b
    IN  IF Len(longer) > K THEN SubSeq(longer, 1, K) ELSE longer

(* Prepend, then evict the least recently seen contact if over capacity. *)
add(b, c) ==
    LET longer == <<c>> \o b
    IN  IF Len(longer) > K THEN SubSeq(longer, 1, K) ELSE longer

(* Seeded fault: a known contact is not recognised when its address changed. *)
updateBucketByAddress(b, id, addr, t) ==
    LET same == {i \in Positions(b, id) : b[i].addr = addr}
    IN  IF same # {} THEN touch(b, Min(same), t)
                     ELSE add(b, [id |-> id, addr |-> addr, seen |-> t])

(* The bucket after AddContact of (id, addr) at time t: a known ID keeps its  *)
(* entry, address included; only LastSeen and the position change.           *)
updateBucket(b, id, addr, t) ==
    IF Positions(b, id) # {}
    THEN touch(b, Min(Positions(b, id)), t)
    ELSE add(b, [id |-> id, addr |-> addr, seen |-> t])

AddContact(rt, self, id, addr, t) ==
    IF id = self THEN rt
    ELSE [rt EXCEPT ![bucketIndex(self, id)] = updateBucket(@, id, addr, t)]

AllContacts(rt) == FlattenSeq([i \in 1..IDBits |-> rt[i-1]])

(* How many contacts of s come before the one at position i when they are     *)
(* sorted: the closer ones and, at the same distance, the earlier ones.      *)
Rank(s, target, i) ==
    Cardinality({j \in 1..Len(s) : \/ Closer(target, s[j].id, s[i].id)
                                   \/ s[j].id = s[i].id /\ j < i})

(* sort.Slice by the distance to target. *)
SortByDistance(s, target) ==
    [p \in 1..Len(s) |-> s[CHOOSE i \in 1..Len(s) : Rank(s, target, i) = p - 1]]

(* Seeded fault: the first n contacts, sorted afterwards. *)
FindClosestUnsorted(rt, target, n) ==
    LET all == AllContacts(rt)
        m == IF n > Len(all) THEN Len(all) ELSE n
    IN  SortByDistance(SubSeq(all, 1, m), target)

(* The n contacts of the table closest to target, the closest first. *)
FindClosest(rt, target, n) ==
    LET all == AllContacts(rt)
        m == IF n > Len(all) THEN Len(all) ELSE n
    IN  SubSeq(SortByDistance(all, target), 1, m)
=============================================================================

------------------------------- MODULE KadID --------------------------------
(***************************************************************************)
(* internal/dht/id.go: node identifiers and the XOR metric, bit by bit.      *)
(* Position 1 is the most significant bit.  The code has IDBits = 160 and    *)
(* compares byte by byte; comparing the bits in the same order gives the     *)
(* same answer, since a byte is smaller than another exactly when it has a 0  *)
(* where they first differ.                                                  *)
(***************************************************************************)
EXTENDS Integers, FiniteSetsExt

CONSTANT IDBits     \* the number of bits of an ID

ASSUME IDBitsAssumption == IDBits \in Nat \ {0}

ID == [1..IDBits -> {0, 1}]

XOR(a, b) == [i \in 1..IDBits |-> IF a[i] = b[i] THEN 0 ELSE 1]

(* Lexicographic order, most significant position first. *)
Less(a, b) ==
    \E i \in 1..IDBits : a[i] < b[i] /\ \A j \in 1..i-1 : a[j] = b[j]

Ones(d) == {i \in 1..IDBits : d[i] = 1}

(* Seeded fault: the first 1 bit is counted too. *)
PrefixLenOffByOne(d) == IF Ones(d) = {} THEN IDBits ELSE Min(Ones(d))

(* The number of leading zero bits; IDBits for the ID that is all zeros. *)
PrefixLen(d) == IF Ones(d) = {} THEN IDBits ELSE Min(Ones(d)) - 1

(* a is closer than b to the target: FindClosest's comparison. *)
Closer(target, a, b) == Less(XOR(target, a), XOR(target, b))
=============================================================================

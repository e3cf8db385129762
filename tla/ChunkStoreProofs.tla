-------------------------- MODULE ChunkStoreProofs --------------------------
(***************************************************************************)
(* Proofs about ChunkStore, for any number of writers, readers and parts, and *)
(* any of the failures.                                                      *)
(***************************************************************************)
EXTENDS ChunkStore, TLAPS, FiniteSetTheorems

Busy(p) == pc[p] # "idle"

(* A call that has not opened its file is at offset 0, one that is past its   *)
(* writes at the end.                                                        *)
OffsetInv ==
    \A p \in Putters : /\ pc[p] \in {"idle", "open"} => offset[p] = 0
                       /\ pc[p] = "rename" => offset[p] = Parts

(* The temporary file is neither the final one nor open for reading. *)
TmpInv ==
    tmp # None => tmp # file /\ \A r \in Readers : rfd[r] # tmp

(* Calls that are under way together have met. *)
MetInv == \A p, q \in Putters : p # q /\ Busy(p) /\ Busy(q) => p \in met

(* A call that has met nobody owns the temporary file, and what it has written *)
(* is there.                                                                 *)
AloneInv ==
    \A p \in Putters \ met : pc[p] \in {"write", "rename"} =>
        tmp # None /\ fd[p] = tmp /\ 1..offset[p] \subseteq content[tmp]

(* What can be read is whole, unless calls that met had to do with it. *)
VisibleInv ==
    /\ file # None => Complete(file) \/ file \in shared
    /\ \A r \in Readers : rfd[r] # None => Complete(rfd[r]) \/ rfd[r] \in shared

(* As long as nothing fails, what a file lacks that has a name or a reader is   *)
(* still being written.                                                      *)
InGoodHands(i) == Complete(i) \/ BeingWritten(i)

Reachable == ({file, tmp} \union {rfd[r] : r \in Readers}) \ {None}

HandsInv == ~failed => \A i \in Reachable : InGoodHands(i)

(* A call that has met nobody removes its temporary file only after a failure. *)
RemoveInv == \A p \in Putters : pc[p] = "remove" => failed \/ p \in met

IInv ==
    /\ TypeOK /\ OffsetInv /\ TmpInv /\ MetInv /\ AloneInv /\ VisibleInv /\ HandsInv
    /\ RemoveInv

-----------------------------------------------------------------------------
(* Free inodes *)

(* A non-empty set of naturals has a minimum, and Min is it. *)
LEMMA MinFacts ==
    ASSUME NEW T \in SUBSET Nat, T # {}
    PROVE  Min(T) \in T
<1> DEFINE R == {ss \in Nat \X Nat : ss[1] < ss[2]}
<1>1. IsWellFoundedOn(R, Nat)
  BY NatLessThanWellFounded, Zenon DEF OpToRel
<1>2. PICK x \in T : \A y \in T : ~(<<y, x>> \in R)
  <2> HIDE DEF R
  <2>. QED BY <1>1, WFMin
<1>3. \A y \in T : x <= y
  <2> SUFFICES ASSUME NEW y \in T, y < x PROVE FALSE
    OBVIOUS
  <2>1. <<y, x>> \in R
    OBVIOUS
  <2>. QED BY <1>2, <2>1
<1>. QED BY <1>3 DEF Min

(* A function's values are no more than its arguments. *)
LEMMA ImageFacts ==
    ASSUME NEW S, IsFiniteSet(S), NEW T, NEW f \in [S -> T]
    PROVE  /\ IsFiniteSet({f[x] : x \in S})
           /\ Cardinality({f[x] : x \in S}) \in Nat
           /\ Cardinality({f[x] : x \in S}) <= Cardinality(S)
<1> DEFINE I == {f[x] : x \in S}
<1>1. f \in Surjection(S, I)
  BY DEF Surjection
<1> HIDE DEF I
<1>2. IsFiniteSet(I) /\ Cardinality(I) <= Cardinality(S)
  BY <1>1, FS_Surjection
<1>3. Cardinality(I) \in Nat
  BY <1>2, FS_CardinalityType
<1>. QED BY <1>2, <1>3 DEF I

(* There is room for a new temporary file, and it takes an inode that has no   *)
(* name and that nobody has open.                                            *)
LEMMA NewInodeIsFree ==
    ASSUME TypeOK, tmp = None
    PROVE  NewInode \in Inodes \ InUse
<1> DEFINE names == {file, tmp}
           fds == {fd[p] : p \in Putters}
           rfds == {rfd[r] : r \in Readers}
<1>1. /\ IsFiniteSet(names) /\ Cardinality(names) \in Nat /\ Cardinality(names) <= 2
  <2>1. IsFiniteSet({file}) /\ Cardinality({file}) = 1
    BY FS_Singleton
  <2>2. names = {file} \union {tmp}
    OBVIOUS
  <2>. QED BY <2>1, <2>2, FS_AddElement, FS_CardinalityType
<1>2. IsFiniteSet(fds) /\ Cardinality(fds) \in Nat /\ Cardinality(fds) <= Cardinality(Putters)
  <2>1. IsFiniteSet(Putters) /\ fd \in [Putters -> Inodes \union {None}]
    BY InodesAssumption DEF TypeOK
  <2>. QED BY <2>1, ImageFacts, Zenon
<1>3. IsFiniteSet(rfds) /\ Cardinality(rfds) \in Nat /\ Cardinality(rfds) <= Cardinality(Readers)
  <2>1. IsFiniteSet(Readers) /\ rfd \in [Readers -> Inodes \union {None}]
    BY InodesAssumption DEF TypeOK
  <2>. QED BY <2>1, ImageFacts, Zenon
<1>4. InUse = (names \union fds) \union rfds
  BY DEF InUse
<1> HIDE DEF names, fds, rfds
<1>5. Cardinality(Putters) \in Nat /\ Cardinality(Readers) \in Nat
  BY InodesAssumption, FS_CardinalityType
<1>6. /\ IsFiniteSet(InUse)
      /\ Cardinality(InUse) \in Nat
      /\ Cardinality(InUse) <= 2 + Cardinality(Putters) + Cardinality(Readers)
  <2> DEFINE nf == names \union fds
  <2>1. /\ IsFiniteSet(nf)
        /\ Cardinality(nf) = Cardinality(names) + Cardinality(fds) - Cardinality(names \intersect fds)
    BY <1>1, <1>2, FS_Union
  <2>2. Cardinality(names \intersect fds) \in Nat
    BY <1>1, FS_Intersection, FS_CardinalityType
  <2> HIDE DEF nf
  <2>3. /\ IsFiniteSet(InUse)
        /\ Cardinality(InUse) = Cardinality(nf) + Cardinality(rfds) - Cardinality(nf \intersect rfds)
    BY <1>3, <1>4, <2>1, FS_Union DEF nf
  <2>4. Cardinality(nf \intersect rfds) \in Nat
    BY <2>1, FS_Intersection, FS_CardinalityType
  <2>5. Cardinality(InUse) \in Nat
    BY <2>3, FS_CardinalityType
  <2>. QED BY <1>1, <1>2, <1>3, <1>5, <2>1, <2>2, <2>3, <2>4, <2>5
<1>7. ASSUME Inodes \subseteq InUse
      PROVE  FALSE
  <2>1. None \in InUse
    BY <1>4 DEF names
  <2>2. IsFiniteSet(Inodes) /\ Cardinality(Inodes) \in Nat
    BY <1>6, <1>7, FS_Subset, FS_CardinalityType
  <2>3. Cardinality(Inodes \union {None}) = Cardinality(Inodes) + 1
    BY <2>2, InodesAssumption, FS_AddElement
  <2>4. Cardinality(Inodes \union {None}) <= Cardinality(InUse)
    BY <1>6, <1>7, <2>1, FS_Subset
  <2>. QED BY <1>5, <1>6, <2>2, <2>3, <2>4, InodesAssumption
<1>8. Inodes \ InUse \in SUBSET Nat /\ Inodes \ InUse # {}
  BY <1>7, InodesAssumption
<1>. QED BY <1>8, MinFacts DEF NewInode

-----------------------------------------------------------------------------
(* PutChunk *)

(* The part of the type invariant that is about the calls of PutChunk. *)
PutTypes ==
    /\ pc \in [Putters -> {"idle", "open", "write", "rename", "remove"}]
    /\ fd \in [Putters -> Inodes \union {None}]
    /\ \A p \in Putters : pc[p] = "write" => fd[p] # None /\ offset[p] < Parts
    /\ offset \in [Putters -> 0..Parts]
    /\ ret \in [Putters -> {"none", "ok", "error"}]
    /\ met \subseteq {p \in Putters : pc[p] # "idle"}

(* A call that has met nobody is the only one under way. *)
LEMMA AloneIsAlone ==
    ASSUME IInv, NEW p \in Putters, NEW q \in Putters, p # q, Busy(p), Busy(q)
    PROVE  p \in met /\ q \in met
BY DEF IInv, MetInv

(* An inode whose content and writers do not change stays in good hands. *)
LEMMA StaysInGoodHands ==
    ASSUME NEW i, InGoodHands(i), content'[i] = content[i],
           \A q \in Putters : pc[q] = "write" =>
             pc'[q] = "write" /\ fd'[q] = fd[q] /\ offset'[q] = offset[q]
    PROVE  InGoodHands(i)'
BY DEF InGoodHands, BeingWritten, Complete

(* So do all of them when a step makes no inode reachable and, unless it       *)
(* fails, no writer stops.                                                   *)
LEMMA HandsKept ==
    ASSUME IInv, content' = content, failed => failed', Reachable' \subseteq Reachable,
           ~failed' => \A q \in Putters : pc[q] = "write" =>
             pc'[q] = "write" /\ fd'[q] = fd[q] /\ offset'[q] = offset[q]
    PROVE  HandsInv'
<1> SUFFICES ASSUME ~failed', NEW i \in Reachable'
             PROVE  InGoodHands(i)'
  BY DEF HandsInv
<1>1. InGoodHands(i)
  BY DEF IInv, HandsInv
<1>. QED BY <1>1, StaysInGoodHands

(* A call that returns leaves the other calls alone. *)
LEMMA ReturnFacts ==
    ASSUME IInv, NEW p \in Putters, NEW res \in {"none", "ok", "error"}, Return(p, res)
    PROVE  /\ PutTypes' /\ OffsetInv' /\ MetInv'
           /\ pc'[p] = "idle" /\ ret'[p] = res /\ met' = met \ {p}
           /\ \A q \in Putters \ {p} : /\ pc'[q] = pc[q] /\ fd'[q] = fd[q]
                                       /\ offset'[q] = offset[q] /\ ret'[q] = ret[q]
<1>1. /\ pc' \in [Putters -> {"idle", "open", "write", "rename", "remove"}]
      /\ fd' \in [Putters -> Inodes \union {None}]
      /\ offset' \in [Putters -> 0..Parts]
      /\ ret' \in [Putters -> {"none", "ok", "error"}]
  BY PartsAssumption DEF IInv, TypeOK, Return
<1>2. /\ pc'[p] = "idle" /\ ret'[p] = res /\ offset'[p] = 0 /\ met' = met \ {p}
      /\ \A q \in Putters \ {p} : /\ pc'[q] = pc[q] /\ fd'[q] = fd[q]
                                  /\ offset'[q] = offset[q] /\ ret'[q] = ret[q]
  BY DEF IInv, TypeOK, Return
<1>3. \A q \in Putters : pc'[q] = "write" => fd'[q] # None /\ offset'[q] < Parts
  BY <1>2 DEF IInv, TypeOK
<1>4. met' \subseteq {q \in Putters : pc'[q] # "idle"}
  BY <1>2 DEF IInv, TypeOK
<1>5. OffsetInv'
  BY <1>2 DEF IInv, OffsetInv
<1>6. MetInv'
  BY <1>2 DEF IInv, MetInv, Busy
<1>. QED BY <1>1, <1>2, <1>3, <1>4, <1>5, <1>6 DEF PutTypes

(* A call that returns without touching the files keeps the invariant, if it   *)
(* does not break off in the middle of its writes without a failure.         *)
LEMMA ReturnInv ==
    ASSUME IInv, NEW p \in Putters, NEW res \in {"none", "ok", "error"}, Return(p, res),
           UNCHANGED <<dirVars, content, readVars, shared>>,
           failed' \in BOOLEAN, failed => failed', pc[p] = "write" => failed'
    PROVE  IInv'
<1>1. UNCHANGED <<file, tmp, content, rfd, got, shared>>
  BY DEF dirVars, readVars
<1>2. TypeOK'
  BY <1>1, ReturnFacts DEF IInv, TypeOK, PutTypes
<1>3. TmpInv' /\ VisibleInv'
  BY <1>1 DEF IInv, TmpInv, VisibleInv, Complete
<1>4. AloneInv'
  BY <1>1, ReturnFacts DEF IInv, AloneInv
<1>5. HandsInv'
  <2>1. ~failed' => \A q \in Putters : pc[q] = "write" =>
          pc'[q] = "write" /\ fd'[q] = fd[q] /\ offset'[q] = offset[q]
    BY ReturnFacts
  <2>2. Reachable' = Reachable
    BY <1>1 DEF Reachable
  <2>. QED BY <1>1, <2>1, <2>2, HandsKept
<1>6. RemoveInv'
  BY ReturnFacts DEF IInv, RemoveInv
<1>. QED BY <1>2, <1>3, <1>4, <1>5, <1>6, ReturnFacts DEF IInv

LEMMA StatInv ==
    ASSUME IInv, NEW p \in Putters, Stat(p)
    PROVE  IInv'
<1>1. CASE file # None
  BY <1>1, ReturnInv DEF Stat, IInv, TypeOK
<1>2. CASE file = None
  <2> DEFINE others == {q \in Putters : pc[q] # "idle"}
  <2>1. /\ pc[p] = "idle" /\ pc' = [pc EXCEPT ![p] = "open"]
        /\ ret' = [ret EXCEPT ![p] = "none"]
        /\ met' = IF others = {} THEN met ELSE met \union others \union {p}
        /\ UNCHANGED <<file, tmp, content, fd, offset, rfd, got, shared, failed>>
    BY <1>2 DEF Stat, Meet, dirVars, readVars
  <2> HIDE DEF others
  <2>2. \A q \in Putters : q \in others <=> pc[q] # "idle"
    BY DEF others
  <2>3. pc'[p] = "open" /\ \A q \in Putters \ {p} : pc'[q] = pc[q]
    BY <2>1 DEF IInv, TypeOK
  <2>4. /\ met \subseteq met'
        /\ \A q \in Putters \ {p} : pc[q] # "idle" => q \in met' /\ p \in met'
    BY <2>1, <2>2
  <2>5. TypeOK'
    <3>1. others \subseteq Putters
      BY DEF others
    <3>2. \A q \in met' : q \in Putters /\ pc'[q] # "idle"
      BY <2>1, <2>2, <2>3, <3>1 DEF IInv, TypeOK
    <3>3. pc' \in [Putters -> {"idle", "open", "write", "rename", "remove"}]
      BY <2>1 DEF IInv, TypeOK
    <3>4. ret' \in [Putters -> {"none", "ok", "error"}]
      BY <2>1 DEF IInv, TypeOK
    <3>5. \A q \in Putters : pc'[q] = "write" => fd'[q] # None /\ offset'[q] < Parts
      BY <2>1, <2>3 DEF IInv, TypeOK
    <3>. QED BY <2>1, <3>2, <3>3, <3>4, <3>5 DEF IInv, TypeOK
  <2>6. OffsetInv'
    BY <2>1, <2>3 DEF IInv, OffsetInv
  <2>7. TmpInv' /\ VisibleInv'
    BY <2>1 DEF IInv, TmpInv, VisibleInv, Complete
  <2>8. MetInv'
    BY <2>3, <2>4 DEF MetInv, Busy, IInv
  <2>9. AloneInv'
    BY <2>3, <2>4 DEF AloneInv
  <2>10. HandsInv'
    <3>1. Reachable' = Reachable
      BY <2>1 DEF Reachable
    <3>. QED BY <2>1, <2>3, <3>1, HandsKept
  <2>11. RemoveInv'
    BY <2>1, <2>3, <2>4 DEF IInv, RemoveInv
  <2>. QED BY <2>5, <2>6, <2>7, <2>8, <2>9, <2>10, <2>11 DEF IInv
<1>. QED BY <1>1, <1>2

(* Opening truncates the temporary file or makes a new one; neither has a     *)
(* reader nor the final name.                                                *)
LEMMA OpenInv ==
    ASSUME IInv, NEW p \in Putters, Open(p)
    PROVE  IInv'
<1> DEFINE i == IF tmp = None THEN NewInode ELSE tmp
<1>1. /\ pc[p] = "open" /\ pc' = [pc EXCEPT ![p] = "write"]
      /\ tmp' = i /\ content' = Truncated(i) /\ fd' = [fd EXCEPT ![p] = i]
      /\ shared' = (shared \intersect InUse) \ {i}
      /\ UNCHANGED <<file, offset, ret, rfd, got, met, failed>>
  BY DEF Open, readVars
<1>2. i \in Inodes /\ i # None /\ i # file /\ \A r \in Readers : rfd[r] # i
  <2>1. CASE tmp = None
    BY <2>1, NewInodeIsFree, InodesAssumption DEF IInv, InUse
  <2>2. CASE tmp # None
    BY <2>2 DEF IInv, TypeOK, TmpInv
  <2>. QED BY <2>1, <2>2
<1> HIDE DEF i
<1>3. /\ content' \in [Inodes -> SUBSET Whole]
      /\ content'[i] = {}
      /\ \A j \in (Inodes \intersect InUse) \ {i} : content'[j] = content[j]
  BY <1>1, <1>2 DEF IInv, TypeOK, Truncated
<1>4. /\ pc'[p] = "write" /\ fd'[p] = i
      /\ \A q \in Putters \ {p} : pc'[q] = pc[q] /\ fd'[q] = fd[q]
  BY <1>1 DEF IInv, TypeOK
<1>5. offset[p] = 0
  BY <1>1 DEF IInv, OffsetInv
<1>6. file \in InUse /\ \A r \in Readers : rfd[r] \in InUse
  BY DEF InUse
<1>7. TypeOK'
  <2>1. pc' \in [Putters -> {"idle", "open", "write", "rename", "remove"}]
    BY <1>1 DEF IInv, TypeOK
  <2>2. fd' \in [Putters -> Inodes \union {None}]
    BY <1>1, <1>2 DEF IInv, TypeOK
  <2>3. \A q \in Putters : pc'[q] = "write" => fd'[q] # None /\ offset[q] < Parts
    BY <1>2, <1>4, <1>5, PartsAssumption DEF IInv, TypeOK
  <2>4. met \subseteq {q \in Putters : pc'[q] # "idle"}
    BY <1>4 DEF IInv, TypeOK
  <2>5. shared' \subseteq Inodes
    BY <1>1 DEF IInv, TypeOK
  <2>. QED BY <1>1, <1>2, <1>3, <2>1, <2>2, <2>3, <2>4, <2>5 DEF IInv, TypeOK
<1>8. OffsetInv'
  BY <1>1, <1>4 DEF IInv, OffsetInv
<1>9. TmpInv'
  BY <1>1, <1>2 DEF TmpInv
<1>10. MetInv'
  BY <1>1, <1>4 DEF IInv, MetInv, Busy
<1>11. AloneInv'
  <2> SUFFICES ASSUME NEW q \in Putters \ met, pc'[q] \in {"write", "rename"}
               PROVE  tmp' # None /\ fd'[q] = tmp' /\ 1..offset[q] \subseteq content'[tmp']
    BY <1>1 DEF AloneInv
  <2>1. q = p
    BY <1>1, <1>4, AloneIsAlone DEF Busy
  <2>2. 1..offset[p] = {}
    BY <1>5
  <2>. QED BY <1>1, <1>2, <1>4, <2>1, <2>2
<1>12. VisibleInv'
  <2>1. \A j \in Inodes : j \in InUse /\ j # i /\ (Complete(j) \/ j \in shared)
          => Complete(j)' \/ j \in shared'
    BY <1>1, <1>3 DEF Complete
  <2>2. file # None => Complete(file)' \/ file \in shared'
    <3>1. file # None => file \in Inodes /\ (Complete(file) \/ file \in shared)
      BY DEF IInv, TypeOK, VisibleInv
    <3>2. file # None => content'[file] = Whole \/ file \in shared'
      BY <1>2, <1>6, <2>1, <3>1 DEF Complete
    <3>. QED BY <1>1, <3>2 DEF Complete
  <2>3. ASSUME NEW r \in Readers, rfd[r] # None
        PROVE  content'[rfd[r]] = Whole \/ rfd[r] \in shared'
    <3>1. rfd[r] \in Inodes /\ (Complete(rfd[r]) \/ rfd[r] \in shared)
      BY <2>3 DEF IInv, TypeOK, VisibleInv
    <3>. QED BY <1>2, <1>6, <2>1, <3>1 DEF Complete
  <2>. QED BY <1>1, <2>2, <2>3 DEF VisibleInv, Complete
<1>13. HandsInv'
  <2> SUFFICES ASSUME ~failed, NEW j \in Reachable'
               PROVE  InGoodHands(j)'
    BY <1>1 DEF HandsInv
  <2>1. CASE j = i
    <3>1. Whole \subseteq content'[i] \union (offset'[p] + 1)..Parts
      BY <1>1, <1>5 DEF Whole
    <3>. QED BY <1>4, <2>1, <3>1 DEF InGoodHands, BeingWritten
  <2>2. CASE j # i
    <3>1. j \in Reachable /\ j \in Inodes \intersect InUse
      BY <1>1, <1>6, <2>2 DEF Reachable, IInv, TypeOK
    <3>2. InGoodHands(j)
      BY <3>1 DEF IInv, HandsInv
    <3>3. content'[j] = content[j]
      BY <1>3, <2>2, <3>1
    <3>4. \A q \in Putters : pc[q] = "write" =>
            pc'[q] = "write" /\ fd'[q] = fd[q] /\ offset'[q] = offset[q]
      BY <1>1, <1>4
    <3>. QED BY <3>2, <3>3, <3>4, StaysInGoodHands
  <2>. QED BY <2>1, <2>2
<1>14. RemoveInv'
  BY <1>1, <1>4 DEF IInv, RemoveInv
<1>. QED BY <1>7, <1>8, <1>9, <1>10, <1>11, <1>12, <1>13, <1>14 DEF IInv

(* A write adds the next part, to whatever file the call has open. *)
LEMMA WriteInv ==
    ASSUME IInv, NEW p \in Putters, Write(p)
    PROVE  IInv'
<1> DEFINE o == offset[p]
           i == fd[p]
<1>1. /\ pc[p] = "write"
      /\ content' = [content EXCEPT ![i] = @ \union {o + 1}]
      /\ offset' = [offset EXCEPT ![p] = @ + 1]
      /\ pc' = [pc EXCEPT ![p] = IF offset'[p] = Parts THEN "rename" ELSE @]
      /\ UNCHANGED <<file, tmp, fd, ret, rfd, got, met, shared, failed>>
  BY DEF Write, dirVars, readVars, historyVars
<1>2. i \in Inodes /\ o \in Nat /\ o < Parts
  BY <1>1, PartsAssumption DEF IInv, TypeOK
<1>3. /\ offset'[p] = o + 1
      /\ pc'[p] = IF o + 1 = Parts THEN "rename" ELSE "write"
      /\ \A q \in Putters \ {p} : pc'[q] = pc[q] /\ offset'[q] = offset[q]
  BY <1>1 DEF IInv, TypeOK
<1>4. /\ content' \in [Inodes -> SUBSET Whole]
      /\ content'[i] = content[i] \union {o + 1}
      /\ \A j \in Inodes : content[j] \subseteq content'[j]
  <2>1. o + 1 \in Whole
    BY <1>2, PartsAssumption DEF Whole
  <2>. QED BY <1>1, <1>2, <2>1 DEF IInv, TypeOK
<1>5. \A j \in Inodes : content[j] = Whole => content'[j] = Whole
  <2>1. \A j \in Inodes : content'[j] \in SUBSET Whole
    BY <1>4
  <2>. QED BY <1>4, <2>1
<1> HIDE DEF o, i
<1>6. TypeOK'
  <2>1. pc' \in [Putters -> {"idle", "open", "write", "rename", "remove"}]
    BY <1>1, <1>3 DEF IInv, TypeOK
  <2>2. offset' \in [Putters -> 0..Parts]
    <3>1. o + 1 \in 0..Parts
      BY <1>2, PartsAssumption
    <3>. QED BY <1>1, <3>1 DEF IInv, TypeOK, o
  <2>3. \A q \in Putters : pc'[q] = "write" => fd[q] # None /\ offset'[q] < Parts
    <3>1. pc'[p] = "write" => o + 1 < Parts
      BY <1>2, <1>3, PartsAssumption
    <3>. QED BY <1>1, <1>3, <3>1 DEF IInv, TypeOK
  <2>4. met \subseteq {q \in Putters : pc'[q] # "idle"}
    BY <1>3 DEF IInv, TypeOK
  <2>. QED BY <1>1, <1>4, <2>1, <2>2, <2>3, <2>4 DEF IInv, TypeOK
<1>7. OffsetInv'
  BY <1>3 DEF IInv, OffsetInv
<1>8. TmpInv'
  BY <1>1 DEF IInv, TmpInv
<1>9. MetInv'
  BY <1>1, <1>3 DEF IInv, MetInv, Busy
<1>10. AloneInv'
  <2> SUFFICES ASSUME NEW q \in Putters \ met, pc'[q] \in {"write", "rename"}
               PROVE  tmp # None /\ fd[q] = tmp /\ 1..offset'[q] \subseteq content'[tmp]
    BY <1>1 DEF AloneInv
  <2>1. q = p
    BY <1>1, <1>3, AloneIsAlone DEF Busy
  <2>2. tmp # None /\ i = tmp /\ 1..o \subseteq content[tmp]
    BY <1>1, <2>1 DEF IInv, AloneInv, i, o
  <2>3. 1..(o + 1) \subseteq content[tmp] \union {o + 1}
    BY <1>2, <2>2
  <2>. QED BY <1>3, <1>4, <2>1, <2>2, <2>3 DEF i
<1>11. VisibleInv'
  <2>1. file # None => content'[file] = Whole \/ file \in shared
    BY <1>5 DEF IInv, TypeOK, VisibleInv, Complete
  <2>2. \A r \in Readers : rfd[r] # None => content'[rfd[r]] = Whole \/ rfd[r] \in shared
    BY <1>5 DEF IInv, TypeOK, VisibleInv, Complete
  <2>. QED BY <1>1, <2>1, <2>2 DEF VisibleInv, Complete
<1>12. HandsInv'
  <2> SUFFICES ASSUME ~failed, NEW j \in Reachable
               PROVE  InGoodHands(j)'
    BY <1>1 DEF HandsInv, Reachable
  <2>1. j \in Inodes /\ InGoodHands(j)
    BY DEF IInv, TypeOK, HandsInv, Reachable
  <2>2. CASE Complete(j)
    BY <1>5, <2>1, <2>2 DEF Complete, InGoodHands
  <2>3. ASSUME NEW q \in Putters, pc[q] = "write", fd[q] = j,
               Whole \subseteq content[j] \union (offset[q] + 1)..Parts
        PROVE  InGoodHands(j)'
    <3>1. CASE q # p
      <4>1. Whole \subseteq content'[j] \union (offset'[q] + 1)..Parts
        BY <1>3, <1>4, <2>1, <2>3, <3>1
      <4>. QED BY <1>1, <1>3, <2>3, <3>1, <4>1 DEF InGoodHands, BeingWritten
    <3>2. CASE q = p
      <4>1. content'[j] = content[j] \union {o + 1}
        BY <1>4, <2>3, <3>2 DEF i
      <4>2. Whole \subseteq content'[j] \union (o + 2)..Parts
        <5>1. (o + 1)..Parts \subseteq {o + 1} \union (o + 2)..Parts
          BY <1>2, PartsAssumption
        <5>. QED BY <2>3, <3>2, <4>1, <5>1 DEF o
      <4>3. CASE o + 1 = Parts
        <5>1. (o + 2)..Parts = {}
          BY <1>2, <4>3, PartsAssumption
        <5>2. content'[j] = Whole
          BY <1>4, <2>1, <4>2, <5>1
        <5>. QED BY <5>2 DEF InGoodHands, Complete
      <4>4. CASE o + 1 # Parts
        <5>1. pc'[p] = "write" /\ fd'[p] = j /\ offset'[p] + 1 = o + 2
          BY <1>1, <1>2, <1>3, <2>3, <3>2, <4>4 DEF i
        <5>. QED BY <4>2, <5>1 DEF InGoodHands, BeingWritten
      <4>. QED BY <4>3, <4>4
    <3>. QED BY <3>1, <3>2
  <2>. QED BY <2>1, <2>2, <2>3 DEF InGoodHands, BeingWritten
<1>13. RemoveInv'
  BY <1>1, <1>3 DEF IInv, RemoveInv
<1>. QED BY <1>6, <1>7, <1>8, <1>9, <1>10, <1>11, <1>12, <1>13 DEF IInv

(* A call that has met nobody renames a whole file. *)
LEMMA RenameInv ==
    ASSUME IInv, NEW p \in Putters, Rename(p)
    PROVE  IInv'
<1>1. /\ pc[p] = "rename" /\ tmp # None /\ file' = tmp /\ tmp' = None /\ Return(p, "ok")
      /\ shared' = IF p \in met THEN shared \union {tmp} ELSE shared
      /\ UNCHANGED <<content, rfd, got, failed>>
  BY DEF Rename, readVars
<1>2. /\ PutTypes' /\ OffsetInv' /\ MetInv'
      /\ pc'[p] = "idle" /\ met' = met \ {p}
      /\ \A q \in Putters \ {p} : pc'[q] = pc[q] /\ fd'[q] = fd[q] /\ offset'[q] = offset[q]
  BY <1>1, ReturnFacts
<1>3. TypeOK'
  <2>1. shared' \subseteq Inodes
    BY <1>1 DEF IInv, TypeOK
  <2>. QED BY <1>1, <1>2, <2>1 DEF IInv, TypeOK, PutTypes
<1>4. TmpInv'
  BY <1>1 DEF TmpInv
<1>5. AloneInv'
  BY <1>1, <1>2, AloneIsAlone DEF AloneInv, Busy
<1>6. VisibleInv'
  <2>1. content[tmp] = Whole \/ tmp \in shared'
    <3>1. CASE p \in met
      BY <1>1, <3>1
    <3>2. CASE p \notin met
      <4>1. 1..Parts \subseteq content[tmp]
        BY <1>1, <3>2 DEF IInv, AloneInv, OffsetInv
      <4>2. content[tmp] \subseteq Whole
        BY <1>1 DEF IInv, TypeOK
      <4>. QED BY <4>1, <4>2 DEF Whole
    <3>. QED BY <3>1, <3>2
  <2>2. shared \subseteq shared'
    BY <1>1
  <2>. QED BY <1>1, <2>1, <2>2 DEF IInv, VisibleInv, Complete
<1>7. HandsInv'
  <2>1. Reachable' \subseteq Reachable
    BY <1>1 DEF Reachable
  <2>2. \A q \in Putters : pc[q] = "write" =>
          pc'[q] = "write" /\ fd'[q] = fd[q] /\ offset'[q] = offset[q]
    BY <1>1, <1>2
  <2>. QED BY <1>1, <2>1, <2>2, HandsKept
<1>8. RemoveInv'
  BY <1>1, <1>2 DEF IInv, RemoveInv
<1>. QED BY <1>2, <1>3, <1>4, <1>5, <1>6, <1>7, <1>8 DEF IInv

LEMMA RenameErrorInv ==
    ASSUME IInv, NEW p \in Putters, RenameError(p)
    PROVE  IInv'
<1>1. /\ pc[p] = "rename" /\ pc' = [pc EXCEPT ![p] = "remove"]
      /\ failed' = (failed \/ tmp # None)
      /\ UNCHANGED <<file, tmp, content, fd, offset, ret, rfd, got, met, shared>>
  BY DEF RenameError, dirVars, readVars
<1>2. pc'[p] = "remove" /\ \A q \in Putters \ {p} : pc'[q] = pc[q]
  BY <1>1 DEF IInv, TypeOK
<1>3. TypeOK'
  <2>1. pc' \in [Putters -> {"idle", "open", "write", "rename", "remove"}]
    BY <1>1 DEF IInv, TypeOK
  <2>2. \A q \in Putters : pc'[q] = "write" => fd[q] # None /\ offset[q] < Parts
    BY <1>2 DEF IInv, TypeOK
  <2>3. met \subseteq {q \in Putters : pc'[q] # "idle"}
    BY <1>2 DEF IInv, TypeOK
  <2>. QED BY <1>1, <2>1, <2>2, <2>3 DEF IInv, TypeOK
<1>4. OffsetInv' /\ MetInv' /\ AloneInv'
  BY <1>1, <1>2 DEF IInv, OffsetInv, MetInv, AloneInv, Busy
<1>5. TmpInv' /\ VisibleInv'
  BY <1>1 DEF IInv, TmpInv, VisibleInv, Complete
<1>6. HandsInv'
  <2>1. Reachable' = Reachable
    BY <1>1 DEF Reachable
  <2>2. \A q \in Putters : pc[q] = "write" => pc'[q] = "write"
    BY <1>1, <1>2
  <2>. QED BY <1>1, <2>1, <2>2, HandsKept
<1>7. RemoveInv'
  <2>1. p \in met \/ tmp # None
    BY <1>1 DEF IInv, AloneInv
  <2>. QED BY <1>1, <1>2, <2>1 DEF IInv, RemoveInv
<1>. QED BY <1>3, <1>4, <1>5, <1>6, <1>7 DEF IInv

LEMMA RemoveStepInv ==
    ASSUME IInv, NEW p \in Putters, Remove(p)
    PROVE  IInv'
<1>1. /\ pc[p] = "remove" /\ tmp' = None /\ Return(p, "error")
      /\ UNCHANGED <<file, content, rfd, got, shared, failed>>
  BY DEF Remove, readVars
<1>2. /\ PutTypes' /\ OffsetInv' /\ MetInv'
      /\ pc'[p] = "idle" /\ met' = met \ {p}
      /\ \A q \in Putters \ {p} : pc'[q] = pc[q] /\ fd'[q] = fd[q] /\ offset'[q] = offset[q]
  BY <1>1, ReturnFacts
<1>3. TypeOK'
  BY <1>1, <1>2 DEF IInv, TypeOK, PutTypes
<1>4. TmpInv' /\ VisibleInv'
  BY <1>1 DEF IInv, TmpInv, VisibleInv, Complete
<1>5. AloneInv'
  BY <1>1, <1>2, AloneIsAlone DEF AloneInv, Busy
<1>6. HandsInv'
  <2>1. Reachable' \subseteq Reachable
    BY <1>1 DEF Reachable
  <2>. QED BY <1>1, <1>2, <2>1, HandsKept
<1>7. RemoveInv'
  BY <1>1, <1>2 DEF IInv, RemoveInv
<1>. QED BY <1>2, <1>3, <1>4, <1>5, <1>6, <1>7 DEF IInv

LEMMA PutterInv ==
    ASSUME IInv, NEW p \in Putters, PutStep(p) \/ WriteError(p) \/ Crash(p)
    PROVE  IInv'
<1>1. CASE WriteError(p)
  BY <1>1, ReturnInv DEF WriteError
<1>2. CASE Crash(p)
  BY <1>2, ReturnInv DEF Crash
<1>. QED BY <1>1, <1>2, StatInv, OpenInv, WriteInv, RenameInv, RenameErrorInv, RemoveStepInv
         DEF PutStep

-----------------------------------------------------------------------------
(* GetChunk and DeleteChunk leave PutChunk alone. *)

LEMMA PuttersUntouched ==
    ASSUME IInv, UNCHANGED <<putVars, met, failed, tmp, content>>
    PROVE  OffsetInv' /\ MetInv' /\ AloneInv' /\ RemoveInv'
BY DEF IInv, putVars, OffsetInv, MetInv, AloneInv, RemoveInv, Busy

LEMMA OpenToReadInv ==
    ASSUME IInv, NEW r \in Readers, OpenToRead(r)
    PROVE  IInv'
<1>1. /\ file # None /\ rfd' = [rfd EXCEPT ![r] = file]
      /\ UNCHANGED <<file, tmp, content, pc, fd, offset, ret, got, met, shared, failed>>
  BY DEF OpenToRead, dirVars, putVars, historyVars
<1>2. rfd'[r] = file /\ \A t \in Readers \ {r} : rfd'[t] = rfd[t]
  BY <1>1 DEF IInv, TypeOK
<1>3. TypeOK'
  BY <1>1 DEF IInv, TypeOK
<1>4. TmpInv'
  BY <1>1, <1>2 DEF IInv, TmpInv
<1>5. VisibleInv'
  BY <1>1, <1>2 DEF IInv, VisibleInv, Complete
<1>6. HandsInv'
  <2>1. Reachable' \subseteq Reachable
    BY <1>1, <1>2 DEF Reachable
  <2>. QED BY <1>1, <2>1, HandsKept
<1>. QED BY <1>1, <1>3, <1>4, <1>5, <1>6, PuttersUntouched DEF IInv, putVars

LEMMA ReadInv ==
    ASSUME IInv, NEW r \in Readers, Read(r)
    PROVE  IInv'
<1>1. /\ rfd[r] # None /\ got' = [got EXCEPT ![r] = content[rfd[r]]]
      /\ rfd' = [rfd EXCEPT ![r] = None]
      /\ UNCHANGED <<file, tmp, content, pc, fd, offset, ret, met, shared, failed>>
  BY DEF Read, dirVars, putVars, historyVars
<1>2. rfd'[r] = None /\ \A t \in Readers \ {r} : rfd'[t] = rfd[t]
  BY <1>1 DEF IInv, TypeOK
<1>3. TypeOK'
  <2>1. content[rfd[r]] \in SUBSET Whole
    BY <1>1 DEF IInv, TypeOK
  <2>. QED BY <1>1, <2>1 DEF IInv, TypeOK
<1>4. TmpInv'
  BY <1>1, <1>2 DEF IInv, TmpInv
<1>5. VisibleInv'
  BY <1>1, <1>2 DEF IInv, VisibleInv, Complete
<1>6. HandsInv'
  <2>1. Reachable' \subseteq Reachable
    BY <1>1, <1>2 DEF Reachable
  <2>. QED BY <1>1, <2>1, HandsKept
<1>. QED BY <1>1, <1>3, <1>4, <1>5, <1>6, PuttersUntouched DEF IInv, putVars

LEMMA DeleteChunkInv ==
    ASSUME IInv, DeleteChunk
    PROVE  IInv'
<1>1. /\ file' = None
      /\ UNCHANGED <<tmp, content, pc, fd, offset, ret, rfd, got, met, shared, failed>>
  BY DEF DeleteChunk, putVars, readVars, historyVars
<1>2. TypeOK'
  BY <1>1 DEF IInv, TypeOK
<1>3. TmpInv' /\ VisibleInv'
  BY <1>1 DEF IInv, TmpInv, VisibleInv, Complete
<1>4. HandsInv'
  <2>1. Reachable' \subseteq Reachable
    BY <1>1 DEF Reachable
  <2>. QED BY <1>1, <2>1, HandsKept
<1>. QED BY <1>1, <1>2, <1>3, <1>4, PuttersUntouched DEF IInv, putVars

-----------------------------------------------------------------------------
(* The theorems *)

LEMMA InitInv == Init => IInv
<1> SUFFICES ASSUME Init
             PROVE  IInv
  OBVIOUS
<1>1. TypeOK
  <2>1. offset \in [Putters -> 0..Parts]
    BY PartsAssumption DEF Init
  <2>2. content \in [Inodes -> SUBSET Whole] /\ got \in [Readers -> SUBSET Whole]
    BY DEF Init
  <2>3. \A p \in Putters : pc[p] = "idle"
    BY DEF Init
  <2>. QED BY <2>1, <2>2, <2>3 DEF Init, TypeOK
<1>2. OffsetInv /\ TmpInv /\ MetInv /\ AloneInv /\ RemoveInv
  BY DEF Init, OffsetInv, TmpInv, MetInv, AloneInv, RemoveInv, Busy
<1>3. VisibleInv /\ HandsInv
  BY DEF Init, VisibleInv, HandsInv, Reachable
<1>. QED BY <1>1, <1>2, <1>3 DEF IInv

LEMMA NextInv == IInv /\ [Next]_vars => IInv'
<1> SUFFICES ASSUME IInv, [Next]_vars
             PROVE  IInv'
  OBVIOUS
<1>1. CASE UNCHANGED vars
  <2>1. UNCHANGED <<file, tmp, content, pc, fd, offset, ret, rfd, got, met, shared, failed>>
    BY <1>1 DEF vars, dirVars, putVars, readVars, historyVars
  <2>2. TypeOK'
    BY <2>1 DEF IInv, TypeOK
  <2>. QED BY <2>1, <2>2, PuttersUntouched
           DEF IInv, putVars, TmpInv, VisibleInv, HandsInv, Reachable, InGoodHands,
               BeingWritten, Complete
<1>. QED BY <1>1, PutterInv, OpenToReadInv, ReadInv, DeleteChunkInv DEF Next

(* The inductive invariant. *)
THEOREM Invariance == Spec => []IInv
BY InitInv, NextInv, PTL DEF Spec

(* The file system and the calls are well formed; a new temporary file always  *)
(* finds a free inode.                                                       *)
THEOREM TypeCorrect == Spec => []TypeOK
<1>1. IInv => TypeOK
  BY DEF IInv
<1>. QED BY <1>1, Invariance, PTL

(* A PutChunk that met no other one is atomic: what it has put under the final *)
(* path is whole, for any number of writers, readers and parts.              *)
THEOREM PutIsAtomicAlone == Spec => []VisibleIsComplete
<1>1. IInv => VisibleIsComplete
  BY DEF IInv, VisibleInv, VisibleIsComplete
<1>. QED BY <1>1, Invariance, PTL

(* Without failures the chunk is whole once the last of any number of writers  *)
(* of the same content is done.                                              *)
THEOREM RestIsWhole == Spec => []WholeAtRest
<1>1. IInv => WholeAtRest
  BY DEF IInv, HandsInv, Reachable, InGoodHands, BeingWritten, WholeAtRest
<1>. QED BY <1>1, Invariance, PTL

(* GetChunk returns the whole chunk, whatever is deleted and stored again while *)
(* it reads, unless calls that met put the file there and one of them is still *)
(* writing it or one of them failed.                                         *)
THEOREM ReadersSeeWholeChunks == Spec => ReadsAreComplete
<1> DEFINE ReadsWhole(r) ==
      rfd[r] # None /\ rfd'[r] = None => got'[r] = Whole \/ ExcusablyTorn(rfd[r])
<1>1. ASSUME IInv, [Next]_vars, NEW r \in Readers
      PROVE  ReadsWhole(r)
  <2> SUFFICES ASSUME rfd[r] # None, rfd'[r] = None
               PROVE  got'[r] = Whole \/ ExcusablyTorn(rfd[r])
    OBVIOUS
  <2>1. rfd' # rfd
    OBVIOUS
  <2>2. PICK t \in Readers : OpenToRead(t) \/ Read(t)
    BY <1>1, <2>1 DEF Next, vars, readVars, PutStep, Stat, Open, Write, Rename, RenameError,
                      Remove, WriteError, Crash, DeleteChunk
  <2>3. t = r /\ Read(r)
    BY <1>1, <2>2 DEF IInv, TypeOK, OpenToRead, Read
  <2>4. got'[r] = content[rfd[r]]
    BY <1>1, <2>3 DEF IInv, TypeOK, Read
  <2>5. rfd[r] \in Reachable
    BY DEF Reachable
  <2>. QED BY <1>1, <2>4, <2>5
           DEF IInv, VisibleInv, HandsInv, InGoodHands, Complete, ExcusablyTorn
<1>2. ASSUME IInv, [Next]_vars
      PROVE  [\A r \in Readers : ReadsWhole(r)]_vars
  BY <1>1, <1>2
<1>. QED BY <1>2, Invariance, PTL DEF Spec, ReadsAreComplete

(* After an ID from PutChunk the whole chunk is under its path, unless calls    *)
(* that met put the file there and one of them is still writing it or one of   *)
(* them failed; an error means that the file system failed or that another    *)
(* PutChunk of the content was there.                                        *)
THEOREM PutChunkIsTruthful == Spec => PutReturnsTruth
<1> DEFINE Truth(p) ==
      /\ (ret'[p] = "ok" /\ pc'[p] = "idle" /\ (pc[p] # "idle" \/ ret[p] # "ok"))
            => file' # None /\ (Complete(file) \/ ExcusablyTorn(file))'
      /\ (ret'[p] = "error" /\ ret[p] # "error") => failed' \/ p \in met
<1>1. ASSUME IInv, IInv', [Next]_vars, NEW p \in Putters
      PROVE  Truth(p)
  <2>1. file' # None => (Complete(file) \/ ExcusablyTorn(file))'
    BY <1>1 DEF IInv, VisibleInv, HandsInv, Reachable, InGoodHands, ExcusablyTorn
  <2>2. CASE pc'[p] = pc[p] /\ ret'[p] = ret[p]
    BY <2>2
  <2>3. CASE ~(pc'[p] = pc[p] /\ ret'[p] = ret[p])
    <3>1. PICK q \in Putters : PutStep(q) \/ WriteError(q) \/ Crash(q)
      BY <1>1, <2>3 DEF Next, vars, putVars, OpenToRead, Read, DeleteChunk
    <3>2. q = p
      BY <1>1, <2>3, <3>1 DEF IInv, TypeOK, PutStep, Stat, Open, Write, Rename, RenameError,
                              Remove, WriteError, Crash, Return
    <3>3. CASE Stat(p) \/ Rename(p)
      <4>1. (ret'[p] = "ok" => file' # None) /\ ret'[p] # "error"
        BY <1>1, <3>3 DEF IInv, TypeOK, Stat, Rename, Return, dirVars
      <4>. QED BY <2>1, <4>1
    <3>4. CASE Open(p) \/ Write(p) \/ RenameError(p)
      <4>1. ret'[p] = ret[p] /\ pc'[p] # "idle"
        BY <1>1, <3>4 DEF IInv, TypeOK, Open, Write, RenameError
      <4>. QED BY <4>1
    <3>5. CASE WriteError(p) \/ Crash(p)
      <4>1. ret'[p] # "ok" /\ failed'
        BY <1>1, <3>5 DEF IInv, TypeOK, WriteError, Crash, Return
      <4>. QED BY <4>1
    <3>6. CASE Remove(p)
      <4>1. ret'[p] = "error" /\ pc[p] = "remove" /\ failed' = failed
        BY <1>1, <3>6 DEF IInv, TypeOK, Remove, Return
      <4>2. failed \/ p \in met
        BY <1>1, <4>1 DEF IInv, RemoveInv
      <4>. QED BY <4>1, <4>2
    <3>. QED BY <3>1, <3>2, <3>3, <3>4, <3>5, <3>6 DEF PutStep
  <2>. QED BY <2>2, <2>3
<1>2. ASSUME IInv, [Next]_vars
      PROVE  [\A p \in Putters : Truth(p)]_vars
  BY <1>1, <1>2, NextInv
<1>. QED BY <1>2, Invariance, PTL DEF Spec, PutReturnsTruth
=============================================================================

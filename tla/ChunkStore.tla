----------------------------- MODULE ChunkStore -----------------------------
(***************************************************************************)
(* internal/storage/store.go: FSChunkStore on a POSIX file system.  A chunk's *)
(* path depends on its ID alone and so does its temporary path, so the stores   *)
(* of different contents do not meet: the module follows the two paths of ONE *)
(* ChunkID, and every PutChunk of that content, by whichever goroutine (the   *)
(* reader serving STORE_CHUNK, a local upload) or process (cmd/node gives     *)
(* every node started in a directory the store ./data/chunks).                *)
(*                                                                           *)
(* The file system is the external part: paths name inodes, os.WriteFile       *)
(* opens with O_CREATE|O_TRUNC and writes at its own offset, rename moves a    *)
(* name atomically, and an open file survives its name.  The content is cut    *)
(* into parts; a file holds the set of parts that have been written to it      *)
(* since it was last truncated.                                               *)
(***************************************************************************)
EXTENDS Naturals, FiniteSetsExt

CONSTANTS
    Putters,    \* the goroutines that call PutChunk with this content
    Readers,    \* the goroutines that call GetChunk with its ID
    Inodes,     \* inode numbers, enough for every name and every open file
    Parts,      \* the content is the parts 1..Parts
    Failures,   \* what may go wrong: a subset of {"io", "crash", "delete"}
    None        \* no inode

ASSUME PartsAssumption == Parts \in Nat \ {0}
ASSUME InodesAssumption ==
    /\ IsFiniteSet(Putters) /\ IsFiniteSet(Readers)
    /\ Inodes \subseteq Nat
    /\ None \notin Inodes
    /\ Cardinality(Inodes) >= 2 + Cardinality(Putters) + Cardinality(Readers)

VARIABLES
    file,       \* the inode at chunkPath(id), or None
    tmp,        \* the inode at chunkPath(id) + ".tmp", or None
    content,    \* content[i]: the parts written to inode i
    pc,         \* pc[p]: where a PutChunk is
    fd,         \* fd[p]: the inode it writes to
    offset,     \* offset[p]: how many parts it has written
    ret,        \* ret[p]: what the last PutChunk of p returned
    rfd,        \* rfd[r]: the inode GetChunk of r has open
    got,        \* got[r]: the parts its last GetChunk returned
    \* History, read by no step of the program:
    met,        \* the PutChunk calls under way that met another one past its Stat
    shared,     \* the inodes that such a call has renamed to the final path
    failed      \* the disk has failed, or the process has crashed, in a PutChunk

dirVars == <<file, tmp>>
putVars == <<pc, fd, offset, ret>>
readVars == <<rfd, got>>
historyVars == <<met, shared, failed>>
vars == <<dirVars, content, putVars, readVars, historyVars>>

Whole == 1..Parts

Complete(i) == content[i] = Whole

Init ==
    /\ file = None
    /\ tmp = None
    /\ content = [i \in Inodes |-> {}]
    /\ pc = [p \in Putters |-> "idle"]
    /\ fd = [p \in Putters |-> None]
    /\ offset = [p \in Putters |-> 0]
    /\ ret = [p \in Putters |-> "none"]
    /\ rfd = [r \in Readers |-> None]
    /\ got = [r \in Readers |-> Whole]
    /\ met = {}
    /\ shared = {}
    /\ failed = FALSE

InUse == {file, tmp} \union {fd[p] : p \in Putters} \union {rfd[r] : r \in Readers}

(* The file system takes the first free inode for a new file. *)
NewInode == Min(Inodes \ InUse)

(* The inodes when i is created or truncated; those not in use are free. *)
Truncated(i) == [j \in Inodes |-> IF j = i \/ j \notin InUse THEN {} ELSE content[j]]

(* PutChunk of p is over. *)
Return(p, result) ==
    /\ pc' = [pc EXCEPT ![p] = "idle"]
    /\ fd' = [fd EXCEPT ![p] = None]
    /\ offset' = [offset EXCEPT ![p] = 0]
    /\ ret' = [ret EXCEPT ![p] = result]
    /\ met' = met \ {p}

(* PutChunk of p goes past its Stat, where it may find others. *)
Meet(p) ==
    LET others == {q \in Putters : pc[q] # "idle"} IN
    met' = IF others = {} THEN met ELSE met \union others \union {p}

-----------------------------------------------------------------------------
(* PutChunk *)

(* Seeded fault: a temporary file left by an earlier call counts as stored. *)
StatTemp(p) ==
    /\ pc[p] = "idle"
    /\ \/ /\ file # None \/ tmp # None
          /\ Return(p, "ok")
       \/ /\ file = None /\ tmp = None
          /\ pc' = [pc EXCEPT ![p] = "open"]
          /\ ret' = [ret EXCEPT ![p] = "none"]
          /\ Meet(p)
          /\ UNCHANGED <<fd, offset>>
    /\ UNCHANGED <<dirVars, content, readVars, shared, failed>>

(* os.Stat(path): a file that exists ends the call. *)
Stat(p) ==
    /\ pc[p] = "idle"
    /\ \/ /\ file # None
          /\ Return(p, "ok")
       \/ /\ file = None
          /\ pc' = [pc EXCEPT ![p] = "open"]
          /\ ret' = [ret EXCEPT ![p] = "none"]
          /\ Meet(p)
          /\ UNCHANGED <<fd, offset>>
    /\ UNCHANGED <<dirVars, content, readVars, shared, failed>>

(* Seeded fault: the content is written to its final path at once. *)
OpenFinal(p) ==
    /\ pc[p] = "open"
    /\ LET i == IF file = None THEN NewInode ELSE file IN
         /\ file' = i
         /\ content' = Truncated(i)
         /\ fd' = [fd EXCEPT ![p] = i]
         /\ shared' = (shared \intersect InUse) \ {i}
    /\ pc' = [pc EXCEPT ![p] = "write"]
    /\ UNCHANGED <<tmp, offset, ret, readVars, met, failed>>

(* os.WriteFile(tmpPath, ...), first half: open, creating or truncating. *)
Open(p) ==
    /\ pc[p] = "open"
    /\ LET i == IF tmp = None THEN NewInode ELSE tmp IN
         /\ tmp' = i
         /\ content' = Truncated(i)
         /\ fd' = [fd EXCEPT ![p] = i]
         /\ shared' = (shared \intersect InUse) \ {i}
    /\ pc' = [pc EXCEPT ![p] = "write"]
    /\ UNCHANGED <<file, offset, ret, readVars, met, failed>>

(* Seeded fault: a short write is taken for a complete one. *)
WriteShort(p) ==
    /\ pc[p] = "write"
    /\ content' = [content EXCEPT ![fd[p]] = @ \union {offset[p] + 1}]
    /\ offset' = [offset EXCEPT ![p] = @ + 1]
    /\ pc' = [pc EXCEPT ![p] = "rename"]
    /\ UNCHANGED <<dirVars, fd, ret, readVars, historyVars>>

(* os.WriteFile, second half: the next part at the writer's own offset, and   *)
(* the close after the last one.                                             *)
Write(p) ==
    /\ pc[p] = "write"
    /\ content' = [content EXCEPT ![fd[p]] = @ \union {offset[p] + 1}]
    /\ offset' = [offset EXCEPT ![p] = @ + 1]
    /\ pc' = [pc EXCEPT ![p] = IF offset'[p] = Parts THEN "rename" ELSE @]
    /\ UNCHANGED <<dirVars, fd, ret, readVars, historyVars>>

(* os.WriteFile fails: whatever is in the temporary file stays there. *)
WriteError(p) ==
    /\ "io" \in Failures
    /\ pc[p] \in {"open", "write"}
    /\ Return(p, "error")
    /\ failed' = TRUE
    /\ UNCHANGED <<dirVars, content, readVars, shared>>

(* os.Rename(tmpPath, path) moves whatever file the temporary name has now. *)
Rename(p) ==
    /\ pc[p] = "rename"
    /\ tmp # None
    /\ file' = tmp
    /\ tmp' = None
    /\ Return(p, "ok")
    /\ shared' = IF p \in met THEN shared \union {tmp} ELSE shared
    /\ UNCHANGED <<content, readVars, failed>>

(* os.Rename fails: there is no temporary file, or the disk says no. *)
RenameError(p) ==
    /\ pc[p] = "rename"
    /\ tmp = None \/ "io" \in Failures
    /\ pc' = [pc EXCEPT ![p] = "remove"]
    /\ failed' = (failed \/ tmp # None)
    /\ UNCHANGED <<dirVars, content, fd, offset, ret, readVars, met, shared>>

(* os.Remove(tmpPath), its own error ignored. *)
Remove(p) ==
    /\ pc[p] = "remove"
    /\ tmp' = None
    /\ Return(p, "error")
    /\ UNCHANGED <<file, content, readVars, shared, failed>>

(* The process stops in the middle of a PutChunk; names and data stay.       *)
Crash(p) ==
    /\ "crash" \in Failures
    /\ pc[p] # "idle"
    /\ Return(p, "none")
    /\ failed' = TRUE
    /\ UNCHANGED <<dirVars, content, readVars, shared>>

-----------------------------------------------------------------------------
(* GetChunk: os.ReadFile opens and then reads; a missing file is an error.   *)

OpenToRead(r) ==
    /\ rfd[r] = None
    /\ file # None
    /\ rfd' = [rfd EXCEPT ![r] = file]
    /\ UNCHANGED <<dirVars, content, putVars, got, historyVars>>

Read(r) ==
    /\ rfd[r] # None
    /\ got' = [got EXCEPT ![r] = content[rfd[r]]]
    /\ rfd' = [rfd EXCEPT ![r] = None]
    /\ UNCHANGED <<dirVars, content, putVars, historyVars>>

DeleteChunk ==
    /\ "delete" \in Failures
    /\ file # None
    /\ file' = None
    /\ UNCHANGED <<tmp, content, putVars, readVars, historyVars>>

PutStep(p) ==
    \/ Stat(p) \/ Open(p) \/ Write(p) \/ Rename(p) \/ RenameError(p) \/ Remove(p)

Next ==
    \/ \E p \in Putters : PutStep(p) \/ WriteError(p) \/ Crash(p)
    \/ \E r \in Readers : OpenToRead(r) \/ Read(r)
    \/ DeleteChunk

Spec == Init /\ [][Next]_vars

-----------------------------------------------------------------------------
(* Properties *)

(* Every variable has its type. *)
TypeOK ==
    /\ file \in Inodes \union {None}
    /\ tmp \in Inodes \union {None}
    /\ content \in [Inodes -> SUBSET Whole]
    /\ pc \in [Putters -> {"idle", "open", "write", "rename", "remove"}]
    /\ fd \in [Putters -> Inodes \union {None}]
    /\ \A p \in Putters : pc[p] = "write" => fd[p] # None /\ offset[p] < Parts
    /\ offset \in [Putters -> 0..Parts]
    /\ ret \in [Putters -> {"none", "ok", "error"}]
    /\ rfd \in [Readers -> Inodes \union {None}]
    /\ got \in [Readers -> SUBSET Whole]
    /\ met \subseteq {p \in Putters : pc[p] # "idle"}
    /\ shared \subseteq Inodes
    /\ failed \in BOOLEAN

(* "Write atomically" (store.go:68): the file under the final path is the     *)
(* whole chunk.  With two writers of the same content it is not.             *)
WritesAtomically == file # None => Complete(file)

(* A PutChunk that met no other one is atomic, whatever fails or stops        *)
(* half-way and whatever earlier calls left behind: the file it puts under    *)
(* the final path is the whole chunk and stays so.                           *)
VisibleIsComplete == file # None => Complete(file) \/ file \in shared

(* A call that has inode i open has yet to write every part that i lacks. *)
BeingWritten(i) ==
    \E p \in Putters : /\ pc[p] = "write" /\ fd[p] = i
                       /\ Whole \subseteq content[i] \union (offset[p] + 1)..Parts

(* The inode is torn, and it may be: calls that met put it under the final     *)
(* path, and either one of them is still writing it or one of them failed     *)
(* before it had written it, and then it stays torn.                         *)
ExcusablyTorn(i) == i \in shared /\ (failed \/ BeingWritten(i))

(* GetChunk returns the whole chunk, even when the chunk is deleted and stored *)
(* again while it reads, with one exception, which store.go has and which     *)
(* this property confines: a file put under the final path by calls that met, *)
(* while a later one of them still writes it, or after one of them failed.    *)
ReadsAreComplete ==
    [][\A r \in Readers :
         rfd[r] # None /\ rfd'[r] = None =>
           got'[r] = Whole \/ ExcusablyTorn(rfd[r])]_vars

(* With several writers of the same content and no failure, the chunk is      *)
(* whole again once the last of them is done, however they truncated and      *)
(* renamed each other's temporary file.                                      *)
WholeAtRest ==
    (~failed /\ (\A p \in Putters : pc[p] = "idle") /\ file # None) => Complete(file)

(* How far what PutChunk returns is true.  After an ID there is a file under   *)
(* the chunk's path, be it renamed there or found by the shortcut of           *)
(* store.go:64, and it is the whole chunk, unless calls that met put it there: *)
(* then the ID may be returned for a torn file, but only while one of those    *)
(* calls has yet to write everything that is missing, or after one of them     *)
(* failed.  An error means that the file system failed, or that another        *)
(* PutChunk of the content renamed or removed the temporary file: otherwise    *)
(* the call is "idempotent for the same content" (store.go:63).               *)
PutReturnsTruth ==
    [][\A p \in Putters :
         /\ (ret'[p] = "ok" /\ pc'[p] = "idle" /\ (pc[p] # "idle" \/ ret[p] # "ok"))
               => file' # None /\ (Complete(file) \/ ExcusablyTorn(file))'
         /\ (ret'[p] = "error" /\ ret[p] # "error") => failed' \/ p \in met]_vars
=============================================================================

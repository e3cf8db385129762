---------------------------- MODULE MCFileShare ----------------------------
(* An uploader, a downloader and two peers.  The uploader also has a contact   *)
(* with its own address and one with the address of q, both from before a      *)
(* restart of the node that listens there.                                    *)
EXTENDS FileShare, TLC

CONSTANTS u, d, p, q, g, c1, c2

At(n) == [id |-> n, addr |-> Own(n)]

Former(n) == [id |-> <<g, n>>, addr |-> Own(n)]

MCGone == {<<g, u>>, <<g, q>>}

MCContacts ==
    [n \in Nodes |-> CASE n = u -> {At(p), At(q), Former(u), Former(q)}
                       [] n = d -> {At(p), At(u)}
                       [] OTHER -> {}]

TwoChunks == <<c1, c2>>

Ordinary(faults) == [faults |-> faults, oversize |-> {}, bootstrap |-> {Own(u)}]

(* A second chunk that fits STORE_CHUNK and not CHUNK_DATA, or neither. *)
Large(types) == types \X {{Content(c2)}}

MCSetups ==
    {Ordinary({"network"}), Ordinary({"disk", "torn"}),
     [Ordinary({}) EXCEPT !.bootstrap = {}],
     [Ordinary({}) EXCEPT !.oversize = Large({"CHUNK_DATA"})],
     [Ordinary({"disk"}) EXCEPT !.oversize = Large({"STORE_CHUNK", "CHUNK_DATA"})],
     [Ordinary({}) EXCEPT !.oversize = {<<"FILE_META", {}>>}]}

(* Nothing fails; the downloader has joined by one of the replicas. *)
FaultFree == {[Ordinary({}) EXCEPT !.bootstrap = {Own(p)}]}
=============================================================================

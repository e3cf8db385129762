---------------------------- MODULE MCServiceRpc ----------------------------
(* Two services, of which only n2 has a chunk store.  One call of n1 fetches   *)
(* a chunk from n2; the other stores a chunk there, or asks it for something   *)
(* else, or goes the other way, so that each reader both serves and receives.  *)
EXTENDS ServiceRpc, TLC

CONSTANTS n1, n2, c1, c2

Fetches == {r \in Requests : r.from = n1 /\ r.to = n2 /\ r.op = "GET_CHUNK"}

Others == {r \in Requests : /\ r.op # "GET_CHUNK"
                            /\ \/ r.from = n1 /\ r.to = n2
                               \/ r.from = n2 /\ r.to = n1 /\ r.op = "GET_FILE_META"}

MCWorkload == c1 :> Others @@ c2 :> Fetches
=============================================================================

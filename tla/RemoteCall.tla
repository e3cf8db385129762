----------------------------- MODULE RemoteCall -----------------------------
(***************************************************************************)
(* What a remote request of dht.Service promises its caller, with no        *)
(* channel, pending table, timer, reader goroutine or message in sight: the *)
(* peer executes a request AT MOST ONCE, a caller that gets a value gets    *)
(* the value of that one execution, and a caller that gets an error knows   *)
(* nothing about whether the request was, or still will be, executed.       *)
(* ServiceRpc implements this specification.                                *)
(***************************************************************************)
EXTENDS Sequences

CONSTANTS
    Calls,      \* the request IDs
    Bodies,     \* what an execution can answer
    Failure     \* the answer, and the outcome, "error"

VARIABLES
    phase,      \* phase[c]: "idle", "open" or "done"
    executions, \* executions[c]: the answers the peer computed for c
    outcome     \* outcome[c]: what the caller of c was told

vars == <<phase, executions, outcome>>

Init ==
    /\ phase = [c \in Calls |-> "idle"]
    /\ executions = [c \in Calls |-> <<>>]
    /\ outcome = [c \in Calls |-> Failure]

(* The caller issues the request. *)
Begin(c) ==
    /\ phase[c] = "idle"
    /\ phase' = [phase EXCEPT ![c] = "open"]
    /\ UNCHANGED <<executions, outcome>>

(* The peer executes it: once at most, and possibly only after the caller    *)
(* has given up.                                                             *)
Execute(c) ==
    /\ phase[c] # "idle"
    /\ executions[c] = <<>>
    /\ \E b \in Bodies : executions' = [executions EXCEPT ![c] = <<b>>]
    /\ UNCHANGED <<phase, outcome>>

(* The caller is given the value the execution computed. *)
Succeed(c) ==
    /\ phase[c] = "open"
    /\ executions[c] # <<>>
    /\ phase' = [phase EXCEPT ![c] = "done"]
    /\ outcome' = [outcome EXCEPT ![c] = executions[c][1]]
    /\ UNCHANGED executions

(* The caller is given an error, whatever happened at the peer. *)
Fail(c) ==
    /\ phase[c] = "open"
    /\ phase' = [phase EXCEPT ![c] = "done"]
    /\ UNCHANGED <<executions, outcome>>

Next == \E c \in Calls : Begin(c) \/ Execute(c) \/ Succeed(c) \/ Fail(c)

Spec == Init /\ [][Next]_vars
=============================================================================

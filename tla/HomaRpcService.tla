---------------------------- MODULE HomaRpcService ----------------------------
(***************************************************************************)
(* What a Homa socket promises its application, RPC by RPC (spec sections *)
(* 4.C and 5): an RPC is created only while the socket is open; its        *)
(* incoming message becomes ready (complete, or a client RPC failed);      *)
(* recvmsg takes a ready message at most once, which ends a client RPC     *)
(* and puts a server RPC in service; a server RPC in service can send its  *)
(* response; any live RPC can end (abort, timeout, ioctl, shutdown), and   *)
(* an ended RPC never comes back.  Once the socket is shut down, every     *)
(* live RPC ends.  HomaSocket refines this specification.                  *)
(***************************************************************************)
CONSTANTS ClientIds, ServerIds

Ids == ClientIds \cup ServerIds

VARIABLES
    open,    \* the socket is not shut down
    ast,     \* each RPC: none, active, ready, serving, replying, done
    taken    \* how many times recvmsg returned each RPC's message

avars == <<open, ast, taken>>

LiveStates == {"active", "ready", "serving", "replying"}

Init ==
    /\ open = TRUE
    /\ ast = [r \in Ids |-> "none"]
    /\ taken = [r \in Ids |-> 0]

(* A request is sent (client), or the first packet of a request arrives   *)
(* (server); a one-packet message is ready at once.                        *)
Create(r) ==
    /\ open
    /\ ast[r] = "none"
    /\ \E s \in {"active", "ready"} : ast' = [ast EXCEPT ![r] = s]
    /\ UNCHANGED <<open, taken>>

Complete(r) ==
    /\ ast[r] = "active"
    /\ ast' = [ast EXCEPT ![r] = "ready"]
    /\ UNCHANGED <<open, taken>>

Take(r) ==
    /\ ast[r] = "ready"
    /\ taken[r] = 0
    /\ taken' = [taken EXCEPT ![r] = 1]
    /\ ast' = [ast EXCEPT ![r] = IF r \in ClientIds THEN "done" ELSE "serving"]
    /\ UNCHANGED open

Respond(r) ==
    /\ r \in ServerIds
    /\ ast[r] = "serving"
    /\ ast' = [ast EXCEPT ![r] = "replying"]
    /\ UNCHANGED <<open, taken>>

(* Some live RPCs end together (homa_abort_sock_rpcs ends several). *)
End(S) ==
    /\ S # {}
    /\ \A r \in S : ast[r] \in LiveStates
    /\ ast' = [r \in Ids |-> IF r \in S THEN "done" ELSE ast[r]]
    /\ UNCHANGED <<open, taken>>

Close ==
    /\ open
    /\ open' = FALSE
    /\ UNCHANGED <<ast, taken>>

Next ==
    \/ \E r \in Ids : Create(r) \/ Complete(r) \/ Take(r) \/ Respond(r)
    \/ \E S \in SUBSET Ids : End(S)
    \/ Close

SafetySpec == Init /\ [][Next]_avars

(* After shutdown the live RPCs keep being ended until none is left.       *)
Spec == SafetySpec /\ WF_avars(~open /\ \E S \in SUBSET Ids : End(S))

==============================================================================

----------------------------- MODULE HomaConnect -----------------------------
(***************************************************************************)
(* Addressing of one Homa socket: homa_connect, the dispatcher            *)
(* homa_sendmsg, and the address checks of its four variants for a request *)
(* message (args.id == 0).                                                 *)
(*                                                                         *)
(* homa_connect stores hsk->target_addr and hsk->connected under the       *)
(* socket lock.  homa_sendmsg reads hsk->connected, and the connected      *)
(* variants read hsk->target_addr, without any lock or barrier.  Plain     *)
(* stores of one critical section may become visible to such a reader in  *)
(* any order (the compiler may reorder stores to distinct fields, and a    *)
(* weakly ordered CPU may too); only spin_unlock publishes them all.  So   *)
(* the stores are kept pending and each is published by its own step.     *)
(*                                                                         *)
(* An address is abstracted to its family and its host (port and IP        *)
(* address); the zeroed target_addr is Zero.  A length is abstracted to    *)
(* where it falls against sizeof(struct sockaddr_in) and sockaddr_in6.     *)
(* Argument checks, the wait for tx memory and the rest of the request     *)
(* path are modelled in HomaSocket and HomaWmem; a call that fails them    *)
(* changes nothing here.                                                   *)
(***************************************************************************)
EXTENDS FiniteSets

CONSTANTS
    Threads,      \* application threads calling sendmsg
    Hosts,        \* peer hosts (address and port)
    SockFamily,   \* sk->sk_family
    NULL

Fams == {"AF_INET", "AF_INET6", "AF_OTHER"}
Addrs == [fam : Fams, host : Hosts]
Zero == [fam |-> "AF_UNSPEC", host |-> NULL]

(* msg_namelen / addrlen: 0, shorter than a sockaddr_in, at least a        *)
(* sockaddr_in but shorter than a sockaddr_in6, or at least a sockaddr_in6. *)
Lens == {"zero", "short", "in4", "in6"}

ASSUME SockFamily \in {"AF_INET", "AF_INET6"} /\ NULL \notin Hosts

VARIABLES
    shut,       \* hsk->shutdown
    connected,  \* hsk->connected, as a lockless reader sees it
    target,     \* hsk->target_addr, as a lockless reader sees it
    pend,       \* stores of the running connect not yet visible: "conn", "fam", "host"
    newAddr,    \* the address that connect is storing
    connAddr,   \* ghost: the address given to the connect that succeeded
    spc,        \* each thread: "idle", or the sendmsg variant it is in
    call,       \* each thread: msg_name and msg_namelen of its sendmsg
    outcome     \* ghost: results of the sendmsg calls that passed their argument checks

vars == <<shut, connected, target, pend, newAddr, connAddr, spc, call, outcome>>

-----------------------------------------------------------------------------

(* __homa_connect's checks, in order; "ok" means the target is stored. *)
ConnectResult(a, len) ==
    CASE connected                                   -> "EISCONN"
      [] shut                                        -> "ESHUTDOWN"
      [] a.fam \notin {"AF_INET", "AF_INET6"}        -> "EAFNOSUPPORT"
      [] a.fam = "AF_INET" /\ len \in {"zero", "short"} -> "EINVAL"
      [] a.fam = "AF_INET6" /\ len # "in6"           -> "EINVAL"
      [] OTHER                                       -> "ok"

(* homa_connect takes the socket lock (so no other connect or shutdown is  *)
(* inside it) and runs __homa_connect.  On success the memset and memcpy   *)
(* of target_addr and connected = true are stores not yet visible.         *)
Connect(a, len) ==
    /\ pend = {}
    /\ IF ConnectResult(a, len) = "ok"
       THEN /\ pend' = {"conn", "fam", "host"}
            /\ newAddr' = a
            /\ connAddr' = a
       ELSE UNCHANGED <<pend, newAddr, connAddr>>
    /\ UNCHANGED <<shut, connected, target, spc, call, outcome>>

(* One pending store of the connect becomes visible; the last one is       *)
(* published at the latest by homa_sock_unlock.                             *)
Publish(x) ==
    /\ x \in pend
    /\ pend' = pend \ {x}
    /\ connected' = IF x = "conn" THEN TRUE ELSE connected
    /\ target' = CASE x = "fam"  -> [target EXCEPT !.fam = newAddr.fam]
                   [] x = "host" -> [target EXCEPT !.host = newAddr.host]
                   [] OTHER      -> target
    /\ UNCHANGED <<shut, newAddr, connAddr, spc, call, outcome>>

(* homa_sock_shutdown sets hsk->shutdown under the socket lock. *)
Shutdown ==
    /\ pend = {}
    /\ ~shut
    /\ shut' = TRUE
    /\ UNCHANGED <<connected, target, pend, newAddr, connAddr, spc, call, outcome>>

-----------------------------------------------------------------------------

(* homa_sendmsg picks the variant by hsk->connected, read without a lock;  *)
(* each variant first checks msg_name: it must be NULL on a connected      *)
(* socket and non-NULL otherwise (-EINVAL).                                *)
SendStart(t, name, len) ==
    LET variant == IF connected THEN "conn" ELSE "unconn"
    IN
    /\ spc[t] = "idle"
    /\ IF (variant = "conn") = (name = NULL)
       THEN /\ spc' = [spc EXCEPT ![t] = variant]
            /\ call' = [call EXCEPT ![t] = [name |-> name, len |-> len]]
       ELSE UNCHANGED <<spc, call>>
    /\ UNCHANGED <<shut, connected, target, pend, newAddr, connAddr, outcome>>

(* The length check of the unconnected variants. *)
NameLenOk(a, len) ==
    /\ len \in {"in4", "in6"}
    /\ a.fam = "AF_INET6" => len = "in6"

(* After the wait for tx memory: the family of the address (target_addr,   *)
(* or msg_name) must be sk_family (-EAFNOSUPPORT); msg_namelen must be 0   *)
(* when connected, and long enough otherwise (-EINVAL); then               *)
(* homa_rpc_alloc_client fails on a shut socket (-ESHUTDOWN).              *)
AddrCheck(variant, addr, len) ==
    CASE addr.fam # SockFamily                       -> "EAFNOSUPPORT"
      [] variant = "conn" /\ len # "zero"            -> "EINVAL"
      [] variant = "unconn" /\ ~NameLenOk(addr, len) -> "EINVAL"
      [] shut                                        -> "ESHUTDOWN"
      [] OTHER                                       -> "ok"

(* The rest of the variant: the connected ones read hsk->target_addr, the  *)
(* others msg_name; on success the RPC is created for that address.       *)
SendAddr(t) ==
    LET addr == IF spc[t] = "conn" THEN target ELSE call[t].name
        len == call[t].len
        res == AddrCheck(spc[t], addr, len)
    IN
    /\ spc[t] \in {"conn", "unconn"}
    /\ outcome' = outcome \cup {[via |-> spc[t], len |-> len, res |-> res,
                                 dest |-> IF res = "ok" THEN addr ELSE Zero]}
    /\ spc' = [spc EXCEPT ![t] = "idle"]
    /\ call' = [call EXCEPT ![t] = [name |-> NULL, len |-> "zero"]]
    /\ UNCHANGED <<shut, connected, target, pend, newAddr, connAddr>>

-----------------------------------------------------------------------------

(* homa_sock_init zeroes the socket, target_addr included. *)
Init ==
    /\ shut = FALSE
    /\ connected = FALSE
    /\ target = Zero
    /\ pend = {}
    /\ newAddr = Zero
    /\ connAddr = Zero
    /\ spc = [t \in Threads |-> "idle"]
    /\ call = [t \in Threads |-> [name |-> NULL, len |-> "zero"]]
    /\ outcome = {}

Next ==
    \/ \E a \in Addrs, len \in Lens \ {"zero"} : Connect(a, len)
    \/ \E x \in {"conn", "fam", "host"} : Publish(x)
    \/ Shutdown
    \/ \E t \in Threads, name \in Addrs \cup {NULL}, len \in Lens :
         SendStart(t, name, len)
    \/ \E t \in Threads : SendAddr(t)

Spec == Init /\ [][Next]_vars

-----------------------------------------------------------------------------

(* A request sent on a connected socket with msg_namelen 0 goes to the     *)
(* address given to connect, or fails only because the socket is shut     *)
(* down: homa_connect accepted the address, so the connected variants'     *)
(* family check and their lockless reads of hsk->connected and             *)
(* hsk->target_addr must not turn it into another destination or an error. *)
ConnectedSendsToTarget ==
    \A o \in outcome :
        o.via = "conn" /\ o.len = "zero" =>
            \/ o.res = "ok" /\ o.dest = connAddr
            \/ o.res = "ESHUTDOWN"

==============================================================================

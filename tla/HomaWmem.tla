------------------------------ MODULE HomaWmem ------------------------------
(***************************************************************************)
(* Transmit memory of one Homa socket: the sendmsg check                   *)
(* homa_sock_wmem_avl / homa_sock_wait_wmem, the SOCK_NOSPACE bit that     *)
(* homa_sock_wait_wmem and homa_poll set and homa_recvmsg tests, and the   *)
(* way memory comes back: the packet buffers of an outgoing message are    *)
(* charged to sk_wmem_alloc until its RPC is reaped, and freeing them      *)
(* calls sk_write_space, which wakes the sleepers on sk_sleep once the     *)
(* socket is writeable (sock_def_write_space: 2 * wmem < sndbuf).          *)
(*                                                                         *)
(* An RPC is abstracted to the memory it holds: one unit from its creation *)
(* by sendmsg until homa_rpc_reap frees it.  The socket's other behaviour  *)
(* (receiving, handoff) is in HomaSocket; only its effect on RPC ends and  *)
(* reaping is kept here.  homa_sock_shutdown sets hsk->shutdown and ends   *)
(* the RPCs; it does not wake sk_sleep.                                    *)
(***************************************************************************)
EXTENDS Naturals, FiniteSets

CONSTANTS
    Threads,   \* application threads calling sendmsg / recvmsg / poll
    Slots,     \* RPC records (a reaped RPC's record is reused)
    SndBuf     \* hsk->sock.sk_sndbuf, in messages

ASSUME SndBuf \in 1..Cardinality(Slots)

VARIABLES
    shut,      \* hsk->shutdown
    sdDone,    \* homa_sock_shutdown has ended every RPC
    st,        \* each slot: "FREE", "LIVE" or "DEAD" (ended, not yet reaped)
    nospace,   \* SOCK_NOSPACE in hsk->sock.sk_socket->flags
    pc,        \* "idle" or "wait" (asleep in homa_sock_wait_wmem)
    woken      \* a wake_up on sk_sleep reached the sleeping thread

vars == <<shut, sdDone, st, nospace, pc, woken>>

(* sk_wmem_alloc, in messages: every RPC not yet reaped holds its buffers. *)
Wmem == Cardinality({r \in Slots : st[r] # "FREE"})

(* homa_sock_wmem_avl *)
WmemAvl == Wmem < SndBuf

(* sock_writeable, the test sock_def_write_space makes before waking. *)
Writeable(w) == 2 * w < SndBuf

-----------------------------------------------------------------------------

(* The rest of sendmsg's request path once memory was found (or the wait   *)
(* ended because of shutdown): homa_rpc_alloc_client fails with -ESHUTDOWN *)
(* on a shut socket, else the new RPC's buffers are charged.               *)
Alloc(t) ==
    /\ IF shut THEN UNCHANGED st
       ELSE \E r \in Slots : st[r] = "FREE" /\ st' = [st EXCEPT ![r] = "LIVE"]
    /\ pc' = [pc EXCEPT ![t] = "idle"]
    /\ woken' = [woken EXCEPT ![t] = FALSE]

(* sendmsg: if !homa_sock_wmem_avl, homa_sock_wait_wmem sets SOCK_NOSPACE *)
(* and evaluates its condition before sleeping; a non-blocking call (a     *)
(* zero timeout) returns -EWOULDBLOCK when the condition is false.         *)
SendStart(t, nonblocking) ==
    /\ pc[t] = "idle"
    /\ \/ /\ WmemAvl
          /\ Alloc(t)
          /\ UNCHANGED nospace
       \/ /\ ~WmemAvl
          /\ nospace' = TRUE
          /\ \/ /\ shut
                /\ Alloc(t)
             \/ /\ ~shut /\ nonblocking
                /\ UNCHANGED <<st, pc, woken>>
             \/ /\ ~shut /\ ~nonblocking
                /\ pc' = [pc EXCEPT ![t] = "wait"]
                /\ UNCHANGED <<st, woken>>
    /\ UNCHANGED <<shut, sdDone>>

(* Woken on sk_sleep: wait_event re-evaluates homa_sock_wmem_avl(hsk) ||  *)
(* hsk->shutdown and goes back to sleep if it is false.                    *)
WmemWake(t) ==
    /\ pc[t] = "wait"
    /\ woken[t]
    /\ \/ /\ WmemAvl \/ shut
          /\ Alloc(t)
       \/ /\ ~WmemAvl /\ ~shut
          /\ woken' = [woken EXCEPT ![t] = FALSE]
          /\ UNCHANGED <<st, pc>>
    /\ UNCHANGED <<shut, sdDone, nospace>>

(* signal_pending: -EINTR; or a finite sk_sndtimeo ran out: -EWOULDBLOCK. *)
WmemGiveUp(t) ==
    /\ pc[t] = "wait"
    /\ pc' = [pc EXCEPT ![t] = "idle"]
    /\ woken' = [woken EXCEPT ![t] = FALSE]
    /\ UNCHANGED <<shut, sdDone, st, nospace>>

(* homa_poll: no EPOLLOUT, so SOCK_NOSPACE is set. *)
Poll ==
    /\ ~WmemAvl
    /\ nospace' = TRUE
    /\ UNCHANGED <<shut, sdDone, st, pc, woken>>

(* An RPC ends other than by shutdown: its response arrived and recvmsg    *)
(* returned it, it was aborted, or it timed out.                           *)
RpcEnd(r) ==
    /\ st[r] = "LIVE"
    /\ st' = [st EXCEPT ![r] = "DEAD"]
    /\ UNCHANGED <<shut, sdDone, nospace, pc, woken>>

(* Freeing the buffers of the RPCs in D: sock_wfree calls sk_write_space, *)
(* which wakes every sleeper on sk_sleep if the socket is now writeable.   *)
FreeBuffers(D) ==
    /\ st' = [r \in Slots |-> IF r \in D THEN "FREE" ELSE st[r]]
    /\ LET w == Wmem - Cardinality(D)
       IN  woken' = [t \in Threads |-> woken[t] \/ (pc[t] = "wait" /\ Writeable(w))]

(* homa_recvmsg after returning a client RPC (which ends it): if          *)
(* SOCK_NOSPACE is set, homa_rpc_reap(hsk, true) reaps every dead RPC.     *)
RecvReap(r) ==
    /\ st[r] = "LIVE"
    /\ LET dead == {x \in Slots : st[x] = "DEAD"} \cup {r}
       IN  IF nospace
           THEN FreeBuffers(dead)
           ELSE /\ st' = [st EXCEPT ![r] = "DEAD"]
                /\ UNCHANGED woken
    /\ UNCHANGED <<shut, sdDone, nospace, pc>>

(* Mutant: the sleepers are woken as exclusive waiters, one per free.     *)
ReapWakesOne(r) ==
    /\ st[r] = "DEAD"
    /\ st' = [st EXCEPT ![r] = "FREE"]
    /\ \E t \in Threads :
         woken' = [woken EXCEPT ![t] = @ \/ (pc[t] = "wait" /\ Writeable(Wmem - 1))]
    /\ UNCHANGED <<shut, sdDone, nospace, pc>>

Reap(r) ==
    /\ st[r] = "DEAD"
    /\ FreeBuffers({r})
    /\ UNCHANGED <<shut, sdDone, nospace, pc>>

(* homa_sock_shutdown: set hsk->shutdown, then end every RPC.  Neither    *)
(* step touches sk_sleep.                                                  *)
ShutdownBegin ==
    /\ ~shut
    /\ shut' = TRUE
    /\ UNCHANGED <<sdDone, st, nospace, pc, woken>>

ShutdownEndRpcs ==
    /\ shut /\ ~sdDone
    /\ sdDone' = TRUE
    /\ st' = [r \in Slots |-> IF st[r] = "LIVE" THEN "DEAD" ELSE st[r]]
    /\ UNCHANGED <<shut, nospace, pc, woken>>

Init ==
    /\ shut = FALSE
    /\ sdDone = FALSE
    /\ st = [r \in Slots |-> "FREE"]
    /\ nospace = FALSE
    /\ pc = [t \in Threads |-> "idle"]
    /\ woken = [t \in Threads |-> FALSE]

Next ==
    \/ \E t \in Threads :
         \/ \E nb \in BOOLEAN : SendStart(t, nb)
         \/ WmemWake(t)
         \/ WmemGiveUp(t)
    \/ Poll
    \/ \E r \in Slots : RpcEnd(r) \/ RecvReap(r) \/ Reap(r)
    \/ ShutdownBegin
    \/ ShutdownEndRpcs

(* A woken thread runs; a shutdown that has begun finishes; the timer     *)
(* keeps reaping dead RPCs (spec 4.J).  Peers, signals and timeouts are    *)
(* not assumed.                                                            *)
Fairness ==
    /\ \A t \in Threads : WF_vars(WmemWake(t))
    /\ WF_vars(ShutdownEndRpcs)
    /\ WF_vars(\E r \in Slots : Reap(r))

Spec == Init /\ [][Next]_vars /\ Fairness

-----------------------------------------------------------------------------

(* No lost wakeup: a sender asleep in homa_sock_wait_wmem while the socket *)
(* is writeable has had a wake_up delivered, whichever of the timer, the   *)
(* reaping in recvmsg or another sender freed the memory.                  *)
NoLostWakeup ==
    \A t \in Threads : pc[t] = "wait" /\ Writeable(Wmem) => woken[t]

=============================================================================

----------------------------- MODULE HomaSocket -----------------------------
(***************************************************************************)
(* One Homa socket (struct homa_sock) seen from the system-call layer of   *)
(* homa_plumbing.c and homa_sock.c: the application threads that call      *)
(* homa_recvmsg and homa_sendmsg, the shutdown cascade of                  *)
(* homa_sock_shutdown, homa_sock_destroy, homa_ioc_abort, and the          *)
(* softirq/timer events that create, complete, abort and end RPCs.         *)
(*                                                                         *)
(* The RPC table (homa_rpc.c), the interest/wait code (homa_interest.c)    *)
(* and the incoming engine are not in this repository's src/; the helpers  *)
(* that stand for them (EndRpcs, Handoff, WaitShared, WaitPrivate, Abort,  *)
(* the packet events) are modelled from spec.md sections 4.C, 4.E, 4.F.    *)
(*                                                                         *)
(* Data is abstracted to what the properties tell apart: a message is its  *)
(* progress (none/partial/complete) and whether it owns bpages; an errno   *)
(* is a model value of AbortErrors.  Locks are not variables: every action *)
(* is one critical section of the code, and a call that drops its locks   *)
(* in the middle (waiting, copying user data) is split into actions at     *)
(* exactly those points.                                                   *)
(***************************************************************************)
EXTENDS Naturals, Sequences, SequencesExt, FiniteSets

CONSTANTS
    Threads,        \* application threads making system calls on the socket
    NumClientRpcs,  \* bound: client RPCs the socket may create (ids 2, 4, ...)
    NumServerRpcs,  \* bound: incoming requests the socket may see (ids 3, 5, ...)
    AbortErrors,    \* errno values an RPC can be aborted with (timeout, ioctl)
    NULL

ASSUME NumClientRpcs \in Nat /\ NumServerRpcs \in Nat /\ Threads # {}

(* homa_is_client: client ids are even, server ids are odd. *)
ClientIds == {2 * k : k \in 1..NumClientRpcs}
ServerIds == {2 * k + 1 : k \in 1..NumServerRpcs}
Ids == ClientIds \cup ServerIds
IsClient(id) == id % 2 = 0
MaxClientId == 2 * NumClientRpcs

NoError == "none"
RpcStates == {"FREE", "OUTGOING", "INCOMING", "IN_SERVICE", "DEAD", "REAPED"}
Pcs == {"idle", "shared", "sleep_shared", "lock_rpc", "private",
        "sleep_private", "fill_req", "fill_resp"}

VARIABLES
    shut,       \* hsk->shutdown
    sd,         \* progress of the homa_sock_shutdown call: none/ending/done
    sdRpcs,     \* RPCs on hsk->active_rpcs that the shutdown loop has yet to end
    isServer,   \* hsk->is_server
    connected,  \* hsk->connected
    destroyed,  \* homa_sock_destroy has run (buffer pool freed)
    rpc,        \* id -> [st, err, len, bufs, priv, pint]: the struct homa_rpc
    nextId,     \* homa->next_outgoing_id
    ready,      \* hsk->ready_rpcs
    interests,  \* hsk->interests: threads blocked in homa_wait_shared
    pc,         \* where each thread is in its system call
    cur,        \* the RPC id the thread's call works on
    arg,        \* MSG_DONTWAIT for recvmsg, msg_control_is_user for sendmsg
    intr,       \* each thread's struct homa_interest: [ready, rpc]
    held,       \* ids whose bpages the application holds (returned by recvmsg)
    delivered,  \* ghost: times recvmsg returned each RPC
    viaShared,  \* ghost: the RPC was returned by a recvmsg with id 0
    wantPriv,   \* ghost: the request was sent with HOMA_SENDMSG_PRIVATE
    badArgs,    \* ghost: the request was sent with invalid homa_sendmsg_args
    freed       \* ghost: times each message's bpages went back to the pool

sockVars == <<shut, sd, sdRpcs, isServer, connected, destroyed>>
threadVars == <<pc, cur, arg, intr, held>>
ghostVars == <<delivered, viaShared, wantPriv, badArgs, freed>>
vars == <<sockVars, rpc, nextId, ready, interests, threadVars, ghostVars>>

-----------------------------------------------------------------------------
(* RPC predicates *)

Live(r) == rpc[r].st \in {"OUTGOING", "INCOMING", "IN_SERVICE"}

(* homa_rpc_find_client / homa_rpc_find_server: homa_rpc_end unhashes. *)
Hashed(r) == Live(r)

(* A message the application can be given: complete, or failed. *)
MsgReady(r) == rpc[r].len = "complete" \/ rpc[r].err # NoError

(* The RPC is waiting on its peer, so the timer may time it out. *)
WaitingOnPeer(r) ==
    \/ rpc[r].st = "OUTGOING"
    \/ rpc[r].st = "INCOMING" /\ rpc[r].len # "complete"

(* A thread or an interest holds a reference (homa_rpc_hold) that keeps   *)
(* the reaper off.                                                         *)
Referenced(r) ==
    \E t \in Threads :
        \/ cur[t] = r /\ pc[t] \in {"lock_rpc", "sleep_private",
                                   "fill_req", "fill_resp"}
        \/ intr[t].rpc = r /\ pc[t] = "sleep_shared"

Capped(n) == IF n >= 2 THEN 2 ELSE n + 1

-----------------------------------------------------------------------------
(* homa_rpc_end (homa_rpc.c, from spec 4.C): idempotent; moves each live  *)
(* RPC of S to DEAD, takes it off the ready list, returns the bpages it    *)
(* still owns to the pool and clears rpc->private_interest, which wakes a  *)
(* private waiter.  R is the rpc table as the calling action left it.      *)
EndRpcs(R, S) ==
    LET ending == {r \in S : R[r].st \in {"OUTGOING", "INCOMING", "IN_SERVICE"}}
    IN  /\ rpc' = [r \in Ids |-> IF r \in ending
                                 THEN [R[r] EXCEPT !.st = "DEAD", !.bufs = FALSE,
                                                   !.pint = NULL]
                                 ELSE R[r]]
        /\ ready' = SelectSeq(ready, LAMBDA x : x \notin ending)
        /\ freed' = [r \in Ids |-> IF r \in ending /\ R[r].bufs
                                   THEN Capped(freed[r]) ELSE freed[r]]

(* homa_rpc_handoff (homa_interest.c, from spec 4.E): called with the RPC  *)
(* locked when its message completes or it fails.  A private RPC wakes its *)
(* private interest; a shared one goes to a waiting thread (any of them:   *)
(* the choice by idle core is not modelled) or onto ready_rpcs.            *)
Handoff(R, r) ==
    \/ /\ R[r].priv
       /\ rpc' = [R EXCEPT ![r].pint = NULL]
       /\ UNCHANGED <<ready, interests, intr>>
    \/ /\ ~R[r].priv
       /\ Contains(ready, r)
       /\ rpc' = R
       /\ UNCHANGED <<ready, interests, intr>>
    \/ /\ ~R[r].priv
       /\ ~Contains(ready, r)
       /\ interests = <<>>
       /\ ready' = Append(ready, r)
       /\ rpc' = R
       /\ UNCHANGED <<interests, intr>>
    \/ /\ ~R[r].priv
       /\ ~Contains(ready, r)
       /\ \E i \in 1..Len(interests) :
            /\ intr' = [intr EXCEPT ![interests[i]] = [ready |-> TRUE, rpc |-> r]]
            /\ interests' = RemoveAt(interests, i)
       /\ rpc' = R
       /\ UNCHANGED ready

(* homa_rpc_abort (homa_rpc.c, from spec 4.C): a server RPC is silently   *)
(* ended, a client RPC records the error for a later recvmsg.              *)
Abort(r, e) ==
    \/ /\ ~IsClient(r)
       /\ EndRpcs(rpc, {r})
       /\ UNCHANGED <<interests, intr>>
    \/ /\ IsClient(r)
       /\ Handoff([rpc EXCEPT ![r].err = e], r)
       /\ UNCHANGED freed

-----------------------------------------------------------------------------
(* Thread helpers.  The interest and the call's arguments live on the     *)
(* thread's stack: they are reset when the call returns.                   *)

Return(t) ==
    /\ pc' = [pc EXCEPT ![t] = "idle"]
    /\ cur' = [cur EXCEPT ![t] = NULL]
    /\ arg' = [arg EXCEPT ![t] = FALSE]

Goto(t, p, r) ==
    /\ pc' = [pc EXCEPT ![t] = p]
    /\ cur' = [cur EXCEPT ![t] = r]
    /\ UNCHANGED arg

(* homa_pool_release_buffers: the application hands back the bpages of    *)
(* the messages recvmsg gave it.                                           *)
ReleaseBuffers(t) ==
    /\ held' = [held EXCEPT ![t] = {}]
    /\ freed' = [r \in Ids |-> IF r \in held[t] THEN Capped(freed[r])
                               ELSE freed[r]]

-----------------------------------------------------------------------------
(* homa_recvmsg *)

(* Entry: release the returned bpages, then either wait on a private RPC  *)
(* (control.id != 0) or on the socket.  id = NULL stands for id 0.        *)
RecvStart(t, id, nonblocking) ==
    /\ pc[t] = "idle"
    /\ ~destroyed
    /\ ReleaseBuffers(t)
    /\ arg' = [arg EXCEPT ![t] = nonblocking]
    /\ pc' = [pc EXCEPT ![t] = IF id = NULL THEN "shared" ELSE "private"]
    /\ cur' = [cur EXCEPT ![t] = id]
    /\ UNCHANGED <<sockVars, rpc, nextId, ready, interests, intr,
                   delivered, viaShared, wantPriv, badArgs>>

(* Mutant: recvmsg keeps msgin.num_bpages, so homa_rpc_end frees bpages   *)
(* the application now owns.                                               *)
DeliverKeepsBpages(t, r, shared) ==
    /\ held' = [held EXCEPT ![t] = IF rpc[r].bufs THEN @ \cup {r} ELSE @]
    /\ delivered' = [delivered EXCEPT ![r] = Capped(@)]
    /\ viaShared' = [viaShared EXCEPT ![r] = @ \/ shared]
    /\ \/ /\ IsClient(r) \/ rpc[r].err # NoError
          /\ EndRpcs(rpc, {r})
       \/ /\ ~IsClient(r) /\ rpc[r].err = NoError
          /\ rpc' = [rpc EXCEPT ![r].st = "IN_SERVICE"]
          /\ UNCHANGED <<ready, freed>>
    /\ Return(t)
    /\ UNCHANGED <<sockVars, nextId, interests, intr, wantPriv, badArgs>>

(* Mutant: recvmsg does not end a client RPC it returned.                  *)
DeliverKeepsClient(t, r, shared) ==
    LET R == [rpc EXCEPT ![r].bufs = FALSE]
    IN
    /\ held' = [held EXCEPT ![t] = IF rpc[r].bufs THEN @ \cup {r} ELSE @]
    /\ delivered' = [delivered EXCEPT ![r] = Capped(@)]
    /\ viaShared' = [viaShared EXCEPT ![r] = @ \/ shared]
    /\ \/ /\ rpc[r].err # NoError
          /\ EndRpcs(R, {r})
       \/ /\ IsClient(r) /\ rpc[r].err = NoError
          /\ rpc' = R
          /\ UNCHANGED <<ready, freed>>
       \/ /\ ~IsClient(r) /\ rpc[r].err = NoError
          /\ rpc' = [R EXCEPT ![r].st = "IN_SERVICE"]
          /\ UNCHANGED <<ready, freed>>
    /\ Return(t)
    /\ UNCHANGED <<sockVars, nextId, interests, intr, wantPriv, badArgs>>

(* Collect the result of an RPC found ready, with its lock held: hand the *)
(* bpages to the application, then end a client RPC (or a failed one) and *)
(* put a server RPC IN_SERVICE.  At done: the control block carrying the   *)
(* bpage offsets is copied back with memcpy, since homa_sock_init sets     *)
(* hsk->in_kernel to true for every socket; the copy_to_user branch is     *)
(* never taken.                                                            *)
Deliver(t, r, shared) ==
    LET R == [rpc EXCEPT ![r].bufs = FALSE]   \* rpc->msgin.num_bpages = 0
    IN
    /\ held' = [held EXCEPT ![t] = IF rpc[r].bufs THEN @ \cup {r} ELSE @]
    /\ delivered' = [delivered EXCEPT ![r] = Capped(@)]
    /\ viaShared' = [viaShared EXCEPT ![r] = @ \/ shared]
    /\ \/ /\ IsClient(r) \/ rpc[r].err # NoError
          /\ EndRpcs(R, {r})
       \/ /\ ~IsClient(r) /\ rpc[r].err = NoError
          /\ rpc' = [R EXCEPT ![r].st = "IN_SERVICE"]
          /\ UNCHANGED <<ready, freed>>
    /\ Return(t)
    /\ UNCHANGED <<sockVars, nextId, interests, intr, wantPriv, badArgs>>

(* homa_wait_shared (homa_interest.c, from spec 4.E), one pass under the  *)
(* socket lock.                                                            *)
WaitShared(t) ==
    /\ pc[t] = "shared"
    /\ \/ /\ shut                                 \* -ESHUTDOWN
          /\ Return(t)
          /\ UNCHANGED <<ready, interests>>
       \/ /\ ~shut
          /\ ready # <<>>
          /\ Goto(t, "lock_rpc", Head(ready))
          /\ ready' = Tail(ready)
          /\ UNCHANGED interests
       \/ /\ ~shut /\ ready = <<>> /\ arg[t]     \* -EAGAIN
          /\ Return(t)
          /\ UNCHANGED <<ready, interests>>
       \/ /\ ~shut /\ ready = <<>> /\ ~arg[t]
          /\ interests' = Append(interests, t)
          /\ Goto(t, "sleep_shared", NULL)
          /\ UNCHANGED ready
    /\ UNCHANGED <<sockVars, rpc, nextId, intr, held, ghostVars>>

(* The interest became ready: shutdown (no RPC) or a handoff.             *)
WakeShared(t) ==
    /\ pc[t] = "sleep_shared"
    /\ intr[t].ready
    /\ Goto(t, IF intr[t].rpc = NULL THEN "shared" ELSE "lock_rpc", intr[t].rpc)
    /\ intr' = [intr EXCEPT ![t] = [ready |-> FALSE, rpc |-> NULL]]
    /\ UNCHANGED <<sockVars, rpc, nextId, ready, interests, held, ghostVars>>

(* Mutant: the signal path gives up even if a handoff already assigned an *)
(* RPC to the interest.                                                    *)
InterruptSharedIgnoringReady(t) ==
    /\ pc[t] = "sleep_shared"
    /\ interests' = SelectSeq(interests, LAMBDA x : x # t)
    /\ intr' = [intr EXCEPT ![t] = [ready |-> FALSE, rpc |-> NULL]]
    /\ Return(t)
    /\ UNCHANGED <<sockVars, rpc, nextId, ready, held, ghostVars>>

(* A signal: unlink the interest under the socket lock; -EINTR.           *)
InterruptShared(t) ==
    /\ pc[t] = "sleep_shared"
    /\ ~intr[t].ready
    /\ interests' = SelectSeq(interests, LAMBDA x : x # t)
    /\ Return(t)
    /\ UNCHANGED <<sockVars, rpc, nextId, ready, intr, held, ghostVars>>

(* Lock the RPC taken from the ready list or the interest; one ended in   *)
(* the meantime is skipped and the wait starts over.                       *)
LockRpc(t) ==
    /\ pc[t] = "lock_rpc"
    /\ \/ /\ rpc[cur[t]].st = "DEAD"
          /\ Goto(t, "shared", NULL)
          /\ UNCHANGED <<sockVars, rpc, nextId, ready, interests, intr, held,
                         ghostVars>>
       \/ /\ rpc[cur[t]].st # "DEAD"
          /\ Deliver(t, cur[t], TRUE)

(* homa_wait_private (homa_interest.c, from spec 4.E), with the RPC       *)
(* locked by homa_rpc_find_client.  The thread sleeps with its interest   *)
(* in rpc->private_interest until a handoff or homa_rpc_end clears it.    *)
WaitPrivate(t, r) ==
    \/ /\ ~rpc[r].priv \/ rpc[r].pint \notin {NULL, t}      \* -EINVAL
       /\ Return(t)
       /\ UNCHANGED <<sockVars, rpc, nextId, ready, interests, intr, held,
                      ghostVars>>
    \/ /\ rpc[r].priv /\ rpc[r].pint = NULL /\ MsgReady(r)
       /\ Deliver(t, r, FALSE)
    \/ /\ rpc[r].priv /\ rpc[r].pint = NULL /\ ~MsgReady(r) /\ arg[t]  \* -EAGAIN
       /\ Return(t)
       /\ UNCHANGED <<sockVars, rpc, nextId, ready, interests, intr, held,
                      ghostVars>>
    \/ /\ rpc[r].priv /\ rpc[r].pint = NULL /\ ~MsgReady(r) /\ ~arg[t]
       /\ rpc' = [rpc EXCEPT ![r].pint = t]
       /\ Goto(t, "sleep_private", r)
       /\ UNCHANGED <<sockVars, nextId, ready, interests, intr, held,
                      ghostVars>>

(* control.id != 0: homa_rpc_find_client, then homa_wait_private.         *)
FindPrivate(t) ==
    /\ pc[t] = "private"
    /\ \/ /\ ~Hashed(cur[t])                          \* -EINVAL
          /\ Return(t)
          /\ UNCHANGED <<sockVars, rpc, nextId, ready, interests, intr, held,
                         ghostVars>>
       \/ /\ Hashed(cur[t])
          /\ WaitPrivate(t, cur[t])

(* Woken: relock the RPC and check it again.                               *)
WakePrivate(t) ==
    /\ pc[t] = "sleep_private"
    /\ rpc[cur[t]].pint # t
    /\ \/ /\ rpc[cur[t]].st = "DEAD"                  \* RPC ended: error
          /\ Return(t)
          /\ UNCHANGED <<sockVars, rpc, nextId, ready, interests, intr, held,
                         ghostVars>>
       \/ /\ rpc[cur[t]].st # "DEAD"
          /\ WaitPrivate(t, cur[t])

(* A signal while the private interest is still registered: -EINTR.        *)
InterruptPrivate(t) ==
    /\ pc[t] = "sleep_private"
    /\ rpc[cur[t]].pint = t
    /\ rpc' = [rpc EXCEPT ![cur[t]].pint = NULL]
    /\ Return(t)
    /\ UNCHANGED <<sockVars, nextId, ready, interests, intr, held, ghostVars>>

-----------------------------------------------------------------------------
(* homa_sendmsg: the dispatcher picks one of four variants by             *)
(* msg_control_is_user and hsk->connected; all share one structure.       *)

(* Whether the homa_sendmsg_args check passes.  The in-kernel connected    *)
(* variant tests args.flags and args.reserved before it memcpys args from  *)
(* msg_control, so it tests uninitialised stack: any outcome is possible.  *)
ArgsCheckPasses(user, argsOk, stackOk) ==
    IF ~user /\ connected THEN stackOk ELSE argsOk

(* Mutant: the HOMA_SENDMSG_PRIVATE flag is not copied into rpc->flags.   *)
SendRequestDropsPrivate(t, user, argsOk, stackOk, private) ==
    /\ pc[t] = "idle"
    /\ ~destroyed
    /\ \/ /\ ~ArgsCheckPasses(user, argsOk, stackOk)
          /\ UNCHANGED <<rpc, nextId, pc, cur, wantPriv, badArgs>>
       \/ /\ ArgsCheckPasses(user, argsOk, stackOk)
          /\ shut
          /\ UNCHANGED <<rpc, nextId, pc, cur, wantPriv, badArgs>>
       \/ /\ ArgsCheckPasses(user, argsOk, stackOk)
          /\ ~shut
          /\ nextId <= MaxClientId
          /\ rpc' = [rpc EXCEPT ![nextId].st = "OUTGOING"]
          /\ nextId' = nextId + 2
          /\ wantPriv' = [wantPriv EXCEPT ![nextId] = private]
          /\ badArgs' = [badArgs EXCEPT ![nextId] = ~argsOk]
          /\ Goto(t, "fill_req", nextId)
    /\ UNCHANGED <<sockVars, ready, interests, arg, intr, held, delivered,
                   viaShared, freed>>

(* Mutant: next_outgoing_id advances by 1, so client ids lose their parity. *)
SendRequestIdStep1(t, user, argsOk, stackOk, private) ==
    /\ pc[t] = "idle"
    /\ ~destroyed
    /\ ArgsCheckPasses(user, argsOk, stackOk)
    /\ ~shut
    /\ nextId <= MaxClientId
    /\ rpc' = [rpc EXCEPT ![nextId] = [@ EXCEPT !.st = "OUTGOING", !.priv = private]]
    /\ nextId' = nextId + 1
    /\ wantPriv' = [wantPriv EXCEPT ![nextId] = private]
    /\ badArgs' = [badArgs EXCEPT ![nextId] = ~argsOk]
    /\ Goto(t, "fill_req", nextId)
    /\ UNCHANGED <<sockVars, ready, interests, arg, intr, held, delivered,
                   viaShared, freed>>

(* Request path (args.id == 0): homa_rpc_alloc_client (fails with          *)
(* -ESHUTDOWN on a shut socket), the PRIVATE flag, then                    *)
(* homa_message_out_fill, which drops the RPC lock while it copies.        *)
SendRequest(t, user, argsOk, stackOk, private) ==
    /\ pc[t] = "idle"
    /\ ~destroyed
    /\ \/ /\ ~ArgsCheckPasses(user, argsOk, stackOk)    \* -EINVAL
          /\ UNCHANGED <<rpc, nextId, pc, cur, wantPriv, badArgs>>
       \/ /\ ArgsCheckPasses(user, argsOk, stackOk)
          /\ shut                                       \* -ESHUTDOWN
          /\ UNCHANGED <<rpc, nextId, pc, cur, wantPriv, badArgs>>
       \/ /\ ArgsCheckPasses(user, argsOk, stackOk)
          /\ ~shut
          /\ nextId <= MaxClientId
          /\ rpc' = [rpc EXCEPT ![nextId] =
                       [@ EXCEPT !.st = "OUTGOING", !.priv = private]]
          /\ nextId' = nextId + 2
          /\ wantPriv' = [wantPriv EXCEPT ![nextId] = private]
          /\ badArgs' = [badArgs EXCEPT ![nextId] = ~argsOk]
          /\ Goto(t, "fill_req", nextId)
    /\ UNCHANGED <<sockVars, ready, interests, arg, intr, held, delivered,
                   viaShared, freed>>

(* The request's homa_message_out_fill returns.  It can fail (the RPC is   *)
(* ended), and for a user caller so can the copy_to_user of args.id, after *)
(* which homa_rpc_find_client + homa_rpc_end end it if still hashed.       *)
SendRequestDone(t) ==
    /\ pc[t] = "fill_req"
    /\ \/ /\ Return(t)
          /\ UNCHANGED <<rpc, ready, freed>>
       \/ /\ EndRpcs(rpc, {cur[t]})
          /\ Return(t)
    /\ UNCHANGED <<sockVars, nextId, interests, intr, held, delivered,
                   viaShared, wantPriv, badArgs>>

(* Mutant: the response path skips the rpc->state != RPC_IN_SERVICE test. *)
SendResponseAnyState(t, id) ==
    /\ pc[t] = "idle"
    /\ ~destroyed
    /\ \/ /\ ~Hashed(id)
          /\ UNCHANGED <<rpc, pc, cur>>
       \/ /\ Hashed(id)
          /\ rpc' = [rpc EXCEPT ![id].st = "OUTGOING"]
          /\ Goto(t, "fill_resp", id)
    /\ UNCHANGED <<sockVars, nextId, ready, interests, arg, intr, held,
                   ghostVars>>

(* Response path (args.id != 0): homa_rpc_find_server; a missing RPC is   *)
(* not an error; one not IN_SERVICE is -EINVAL.  (The rpc->error branch    *)
(* before the state test needs an error on a server RPC, and an aborted    *)
(* server RPC is ended, never given an error, so it is never taken.)      *)
SendResponse(t, id) ==
    /\ pc[t] = "idle"
    /\ ~destroyed
    /\ \/ /\ ~Hashed(id)
          /\ UNCHANGED <<rpc, pc, cur>>
       \/ /\ Hashed(id)
          /\ rpc[id].st # "IN_SERVICE"
          /\ UNCHANGED <<rpc, pc, cur>>
       \/ /\ Hashed(id)
          /\ rpc[id].st = "IN_SERVICE"
          /\ rpc' = [rpc EXCEPT ![id].st = "OUTGOING"]
          /\ Goto(t, "fill_resp", id)
    /\ UNCHANGED <<sockVars, nextId, ready, interests, arg, intr, held,
                   ghostVars>>

(* The response's homa_message_out_fill returns: on failure the RPC is     *)
(* ended unless it died meanwhile.                                         *)
SendResponseDone(t) ==
    /\ pc[t] = "fill_resp"
    /\ \/ /\ Return(t)
          /\ UNCHANGED <<rpc, ready, freed>>
       \/ /\ rpc[cur[t]].st # "DEAD"
          /\ EndRpcs(rpc, {cur[t]})
          /\ Return(t)
    /\ UNCHANGED <<sockVars, nextId, interests, intr, held, delivered,
                   viaShared, wantPriv, badArgs>>

-----------------------------------------------------------------------------
(* Other system calls *)

(* homa_abort_sock_rpcs (homa_rpc.c, from spec 5: "socket-wide (end all  *)
(* client RPCs)"): every live client RPC of the socket is ended.           *)
AbortSockRpcs == EndRpcs(rpc, {r \in ClientIds : Live(r)})

(* homa_ioc_abort: args.id == 0 (NULL here) aborts every client RPC of the *)
(* socket; otherwise homa_rpc_find_client (EINVAL if absent), then         *)
(* homa_rpc_end (args.error == 0) or homa_rpc_abort.                       *)
IocAbort(id, e) ==
    /\ ~destroyed
    /\ \/ /\ id = NULL
          /\ AbortSockRpcs
          /\ UNCHANGED <<interests, intr>>
       \/ /\ id # NULL /\ Hashed(id) /\ e = NoError
          /\ EndRpcs(rpc, {id})
          /\ UNCHANGED <<interests, intr>>
       \/ /\ id # NULL /\ Hashed(id) /\ e # NoError
          /\ Abort(id, e)
    /\ UNCHANGED <<sockVars, nextId, pc, cur, arg, held, delivered, viaShared,
                   wantPriv, badArgs>>

(* homa_setsockopt(SO_HOMA_SERVER) *)
SetServer(v) ==
    /\ ~destroyed
    /\ isServer' = v
    /\ UNCHANGED <<shut, sd, sdRpcs, connected, destroyed, rpc, nextId, ready,
                   interests, threadVars, ghostVars>>

(* homa_connect: __homa_connect under the socket lock (EISCONN, ESHUTDOWN) *)
Connect ==
    /\ ~destroyed
    /\ ~connected
    /\ ~shut
    /\ connected' = TRUE
    /\ UNCHANGED <<shut, sd, sdRpcs, isServer, destroyed, rpc, nextId, ready,
                   interests, threadVars, ghostVars>>

-----------------------------------------------------------------------------
(* homa_sock_shutdown, in its three critical sections. *)

(* Mutant: hsk->shutdown is not set before the RPCs are walked.           *)
ShutdownBeginNoFlag ==
    /\ sd = "none"
    /\ ~destroyed
    /\ sd' = "ending"
    /\ sdRpcs' = {r \in Ids : rpc[r].st # "FREE"}
    /\ UNCHANGED <<shut, isServer, connected, destroyed, rpc, nextId, ready,
                   interests, threadVars, ghostVars>>

(* Mutant: the RPCs to end are taken from the lists of RPCs with incoming *)
(* messages only, missing client RPCs still sending their request.         *)
ShutdownBeginMissesOutgoing ==
    /\ sd = "none"
    /\ ~destroyed
    /\ shut' = TRUE
    /\ sd' = "ending"
    /\ sdRpcs' = {r \in Ids : rpc[r].st \notin {"FREE", "OUTGOING"}}
    /\ UNCHANGED <<isServer, connected, destroyed, rpc, nextId, ready,
                   interests, threadVars, ghostVars>>

(* 1-2: under the socket lock set hsk->shutdown and unlink the socket; the *)
(* RPCs then on hsk->active_rpcs are the ones the loop will end.           *)
ShutdownBegin ==
    /\ sd = "none"
    /\ ~destroyed
    /\ shut' = TRUE
    /\ sd' = "ending"
    /\ sdRpcs' = {r \in Ids : rpc[r].st # "FREE"}
    /\ UNCHANGED <<isServer, connected, destroyed, rpc, nextId, ready,
                   interests, threadVars, ghostVars>>

(* 3: the RCU walk of active_rpcs ends one RPC per lock/unlock. *)
ShutdownEndRpc ==
    /\ sd = "ending"
    /\ \E r \in sdRpcs :
         /\ EndRpcs(rpc, {r})
         /\ sdRpcs' = sdRpcs \ {r}
    /\ UNCHANGED <<shut, sd, isServer, connected, destroyed, nextId,
                   interests, intr, pc, cur, arg, held, delivered, viaShared,
                   wantPriv, badArgs>>

(* Mutant: the interests are unlinked but not marked ready.               *)
ShutdownWakeUnlinkOnly ==
    /\ sd = "ending"
    /\ sdRpcs = {}
    /\ interests' = <<>>
    /\ sd' = "done"
    /\ UNCHANGED <<shut, sdRpcs, isServer, connected, destroyed, rpc, nextId,
                   ready, threadVars, ghostVars>>

(* 4: under the socket lock, empty hsk->interests, marking each ready.     *)
ShutdownWake ==
    /\ sd = "ending"
    /\ sdRpcs = {}
    /\ intr' = [t \in Threads |-> IF Contains(interests, t)
                                  THEN [ready |-> TRUE, rpc |-> NULL]
                                  ELSE intr[t]]
    /\ interests' = <<>>
    /\ sd' = "done"
    /\ UNCHANGED <<shut, sdRpcs, isServer, connected, destroyed, rpc, nextId,
                   ready, pc, cur, arg, held, ghostVars>>

(* homa_sock_destroy, once the last reference is gone: reap until          *)
(* dead_rpcs is empty, then free the buffer pool.                          *)
Destroy ==
    /\ sd = "done"
    /\ ~destroyed
    /\ \A t \in Threads : pc[t] = "idle"
    /\ rpc' = [r \in Ids |-> IF rpc[r].st = "DEAD"
                             THEN [rpc[r] EXCEPT !.st = "REAPED"] ELSE rpc[r]]
    /\ destroyed' = TRUE
    /\ UNCHANGED <<shut, sd, sdRpcs, isServer, connected, nextId, ready,
                   interests, threadVars, ghostVars>>

-----------------------------------------------------------------------------
(* Events from softirq and the timer (homa_incoming.c, homa_timer.c, from  *)
(* spec 4.C/4.F/4.J).  Packets for a shut socket are dropped because       *)
(* homa_sock_unlink removed it from the socket table.                      *)

(* The last byte of a request left (homa_xmit_data): OUTGOING -> INCOMING. *)
ClientXmitDone(r) ==
    /\ rpc[r].st = "OUTGOING"
    /\ IsClient(r)
    /\ \A t \in Threads : ~(pc[t] = "fill_req" /\ cur[t] = r)
    /\ rpc' = [rpc EXCEPT ![r].st = "INCOMING"]
    /\ UNCHANGED <<sockVars, nextId, ready, interests, threadVars, ghostVars>>

(* A DATA packet of an incoming message.  The first one of a request      *)
(* creates the server RPC (homa_rpc_alloc_server: only if is_server and    *)
(* not shut down); the first one of any message allocates its bpages; the  *)
(* last one completes it and hands the RPC off.                            *)
DataPacket(r, last) ==
    LET R == [rpc EXCEPT ![r].st = "INCOMING", ![r].bufs = TRUE,
                         ![r].len = IF last THEN "complete" ELSE "partial"]
    IN
    /\ \/ IsClient(r) /\ rpc[r].st = "INCOMING" /\ rpc[r].len # "complete"
       \/ ~IsClient(r) /\ rpc[r].st = "FREE" /\ isServer /\ ~shut
       \/ ~IsClient(r) /\ rpc[r].st = "INCOMING" /\ rpc[r].len = "partial"
    /\ \/ /\ last
          /\ Handoff(R, r)
       \/ /\ ~last
          /\ rpc' = R
          /\ UNCHANGED <<ready, interests, intr>>
    /\ UNCHANGED <<sockVars, nextId, pc, cur, arg, held, ghostVars>>

(* The client acknowledged the response: the server RPC is ended.         *)
ServerAcked(r) ==
    /\ ~IsClient(r)
    /\ rpc[r].st = "OUTGOING"
    /\ \A t \in Threads : ~(pc[t] = "fill_resp" /\ cur[t] = r)
    /\ EndRpcs(rpc, {r})
    /\ UNCHANGED <<sockVars, nextId, interests, intr, pc, cur, arg, held,
                   delivered,
                   viaShared, wantPriv, badArgs>>

(* homa_timer: an RPC whose peer stopped answering is aborted.             *)
Timeout(r, e) ==
    /\ WaitingOnPeer(r)
    /\ Abort(r, e)
    /\ UNCHANGED <<sockVars, nextId, pc, cur, arg, held, delivered, viaShared,
                   wantPriv, badArgs>>

(* homa_rpc_reap: a dead RPC nobody references is freed.                   *)
Reap(r) ==
    /\ rpc[r].st = "DEAD"
    /\ ~Referenced(r)
    /\ rpc' = [rpc EXCEPT ![r].st = "REAPED"]
    /\ UNCHANGED <<sockVars, nextId, ready, interests, threadVars, ghostVars>>

(* The socket is gone; nothing more happens on it. *)
Closed ==
    /\ destroyed
    /\ UNCHANGED vars

-----------------------------------------------------------------------------

Init ==
    /\ shut = FALSE
    /\ sd = "none"
    /\ sdRpcs = {}
    /\ isServer = FALSE
    /\ connected = FALSE
    /\ destroyed = FALSE
    /\ rpc = [r \in Ids |-> [st |-> "FREE", err |-> NoError, len |-> "none",
                             bufs |-> FALSE, priv |-> FALSE, pint |-> NULL]]
    /\ nextId = 2
    /\ ready = <<>>
    /\ interests = <<>>
    /\ pc = [t \in Threads |-> "idle"]
    /\ cur = [t \in Threads |-> NULL]
    /\ arg = [t \in Threads |-> FALSE]
    /\ intr = [t \in Threads |-> [ready |-> FALSE, rpc |-> NULL]]
    /\ held = [t \in Threads |-> {}]
    /\ delivered = [r \in Ids |-> 0]
    /\ viaShared = [r \in Ids |-> FALSE]
    /\ wantPriv = [r \in Ids |-> FALSE]
    /\ badArgs = [r \in Ids |-> FALSE]
    /\ freed = [r \in Ids |-> 0]

ThreadStep(t) ==
    \/ \E id \in ClientIds \cup {NULL}, nb \in BOOLEAN : RecvStart(t, id, nb)
    \/ WaitShared(t)
    \/ WakeShared(t)
    \/ InterruptShared(t)
    \/ LockRpc(t)
    \/ FindPrivate(t)
    \/ WakePrivate(t)
    \/ InterruptPrivate(t)
    \/ \E user, ok, stackOk, private \in BOOLEAN :
          SendRequest(t, user, ok, stackOk, private)
    \/ SendRequestDone(t)
    \/ \E id \in ServerIds : SendResponse(t, id)
    \/ SendResponseDone(t)

Next ==
    \/ \E t \in Threads : ThreadStep(t)
    \/ \E id \in ClientIds \cup {NULL}, e \in AbortErrors \cup {NoError} : IocAbort(id, e)
    \/ \E v \in BOOLEAN : SetServer(v)
    \/ Connect
    \/ ShutdownBegin
    \/ ShutdownEndRpc
    \/ ShutdownWake
    \/ Destroy
    \/ \E r \in Ids, last \in BOOLEAN : DataPacket(r, last)
    \/ \E r \in ClientIds : ClientXmitDone(r)
    \/ \E r \in ServerIds : ServerAcked(r)
    \/ \E r \in Ids, e \in AbortErrors : Timeout(r, e)
    \/ \E r \in Ids : Reap(r)
    \/ Closed

(* Fairness: once a thread is runnable inside a call, the scheduler runs   *)
(* it; once homa_sock_shutdown has begun it runs to completion.  Starting  *)
(* a call, signals, packets and the peer are not assumed to happen.        *)
Fairness ==
    /\ \A t \in Threads :
         /\ WF_vars(WaitShared(t))
         /\ WF_vars(WakeShared(t))
         /\ WF_vars(LockRpc(t))
         /\ WF_vars(FindPrivate(t))
         /\ WF_vars(WakePrivate(t))
         /\ WF_vars(SendRequestDone(t))
         /\ WF_vars(SendResponseDone(t))
    /\ WF_vars(ShutdownEndRpc)
    /\ WF_vars(ShutdownWake)

Spec == Init /\ [][Next]_vars /\ Fairness

-----------------------------------------------------------------------------
(* Properties *)

TypeOK ==
    /\ shut \in BOOLEAN /\ isServer \in BOOLEAN /\ connected \in BOOLEAN
    /\ destroyed \in BOOLEAN
    /\ sd \in {"none", "ending", "done"}
    /\ sdRpcs \subseteq Ids
    /\ rpc \in [Ids -> [st : RpcStates, err : AbortErrors \cup {NoError},
                        len : {"none", "partial", "complete"}, bufs : BOOLEAN,
                        priv : BOOLEAN, pint : Threads \cup {NULL}]]
    /\ nextId \in {2 * k : k \in 1..(NumClientRpcs + 1)}
    /\ ready \in Seq(Ids) /\ interests \in Seq(Threads)
    /\ pc \in [Threads -> Pcs]
    /\ cur \in [Threads -> Ids \cup {NULL}]
    /\ arg \in [Threads -> BOOLEAN]
    /\ intr \in [Threads -> [ready : BOOLEAN, rpc : Ids \cup {NULL}]]
    /\ held \in [Threads -> SUBSET Ids]
    /\ delivered \in [Ids -> 0..2] /\ freed \in [Ids -> 0..2]
    /\ viaShared \in [Ids -> BOOLEAN] /\ wantPriv \in [Ids -> BOOLEAN]
    /\ badArgs \in [Ids -> BOOLEAN]

(* Once homa_sock_shutdown has finished, no RPC of the socket is alive:   *)
(* setting hsk->shutdown before walking active_rpcs stops every RPC        *)
(* creation (client or server) from slipping in behind the walk.           *)
NoLiveRpcAfterShutdown ==
    sd = "done" => \A r \in Ids : ~Live(r)

(* The bpages of a message have one owner at a time: the RPC, the          *)
(* application (after recvmsg zeroes msgin.num_bpages), or the pool; they  *)
(* are never returned to the pool twice.                                   *)
BpagesSingleOwner ==
    \A r \in Ids :
        freed[r] + (IF rpc[r].bufs THEN 1 ELSE 0)
                 + Cardinality({t \in Threads : r \in held[t]}) <= 1

(* A live, non-private RPC whose message is complete or failed and not yet *)
(* returned is never lost: it is on ready_rpcs, in a ready interest, or    *)
(* held by a thread about to lock it.                                      *)
Pending(r) ==
    /\ Live(r) /\ ~rpc[r].priv
    /\ \/ rpc[r].st = "INCOMING" /\ rpc[r].len = "complete"
       \/ IsClient(r) /\ rpc[r].err # NoError

HandoffNotLost ==
    \A r \in Ids : Pending(r) =>
        \/ Contains(ready, r)
        \/ \E t \in Threads :
             \/ pc[t] = "sleep_shared" /\ intr[t].ready /\ intr[t].rpc = r
             \/ pc[t] = "lock_rpc" /\ cur[t] = r

(* An RPC sent with HOMA_SENDMSG_PRIVATE is never returned by a recvmsg    *)
(* that asked for any RPC (id 0).                                          *)
PrivateNotShared ==
    \A r \in Ids : wantPriv[r] => ~viaShared[r]

(* Every state change of an RPC follows the lifecycle of spec 4.C: a       *)
(* client goes OUTGOING, INCOMING; a server INCOMING, IN_SERVICE,          *)
(* OUTGOING; either may die from a live state, and only the dead are       *)
(* reaped.  No step revives a dead RPC.                                    *)
Lifecycle(r) ==
    IF IsClient(r)
    THEN {<<"FREE", "OUTGOING">>, <<"OUTGOING", "INCOMING">>,
          <<"OUTGOING", "DEAD">>, <<"INCOMING", "DEAD">>, <<"DEAD", "REAPED">>}
    ELSE {<<"FREE", "INCOMING">>, <<"INCOMING", "IN_SERVICE">>,
          <<"IN_SERVICE", "OUTGOING">>, <<"INCOMING", "DEAD">>,
          <<"IN_SERVICE", "DEAD">>, <<"OUTGOING", "DEAD">>,
          <<"DEAD", "REAPED">>}

RpcLifecycle ==
    [][\A r \in Ids : rpc'[r].st # rpc[r].st =>
                        <<rpc[r].st, rpc'[r].st>> \in Lifecycle(r)]_rpc

(* A thread blocked in recvmsg when the socket is shut down returns.       *)
Sleeping(t) == pc[t] \in {"sleep_shared", "sleep_private"}

WaitersReleased ==
    \A t \in Threads : (shut /\ Sleeping(t)) ~> pc[t] = "idle"

(* Every RPC a sendmsg created passed the homa_sendmsg_args check: its     *)
(* flags are valid and reserved is 0 (spec 9(a): validate before use).     *)
SendArgsValidated ==
    \A r \in Ids : ~badArgs[r]

-----------------------------------------------------------------------------
(* Refinement of the RPC service the socket promises (HomaRpcService).    *)
(* A message is ready when recvmsg may return it; a server RPC in service  *)
(* or sending its response is serving or replying; DEAD and REAPED are     *)
(* done.  taken counts the recvmsg calls that returned the RPC.            *)
ServiceState(r) ==
    CASE rpc[r].st = "FREE" -> "none"
      [] rpc[r].st \in {"DEAD", "REAPED"} -> "done"
      [] rpc[r].st = "IN_SERVICE" -> "serving"
      [] ~IsClient(r) /\ rpc[r].st = "OUTGOING" -> "replying"
      [] MsgReady(r) -> "ready"
      [] OTHER -> "active"

Service == INSTANCE HomaRpcService
    WITH open <- ~shut,
         ast <- [r \in Ids |-> ServiceState(r)],
         taken <- delivered

(* Every step of the socket is a step of the RPC service: no RPC is        *)
(* created on a shut socket, recvmsg returns only ready messages and each  *)
(* at most once, a response is sent only for an RPC in service, and no     *)
(* ended RPC comes back, whatever threads, packets, aborts and shutdown    *)
(* interleave.                                                             *)
ServiceSafety == Service!SafetySpec

(* The same with the service's liveness: once the socket is shut down,    *)
(* every live RPC ends.                                                    *)
ServiceRefined == Service!Spec

=============================================================================

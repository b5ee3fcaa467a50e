----------------------------- MODULE HomaSoftirq -----------------------------
(***************************************************************************)
(* homa_softirq (src/homa_sock.c): one invocation receives a GRO chain of  *)
(* packets (the head skb and its frag_list) and hands them to              *)
(* homa_dispatch_pkts.  A first loop discards malformed and FREEZE         *)
(* packets and dispatches control packets and DATA packets of short        *)
(* messages one by one, unlinking each through prev_link; a second loop    *)
(* repeatedly takes the first remaining packet, relinks every later packet *)
(* either onto that packet's list (same sender_id and source address,      *)
(* through prev_link) or onto other_pkts (through other_link), dispatches  *)
(* the first list and goes on with other_pkts.                             *)
(*                                                                         *)
(* A packet is abstracted to its class and its RPC key: "drop" (no header, *)
(* too short, bogus type, FREEZE), "now" (a control packet, or DATA of a   *)
(* message shorter than 1400 bytes) or "long" (DATA of a longer message).  *)
(* The skbs of a chain are its positions 1..Len(chain).  Memory is the     *)
(* function link: link[i] is skb i's next field, link[PACKETS] and         *)
(* link[OTHER_PKTS] the local list heads packets and other_pkts; a       *)
(* pointer to a link (prev_link, other_link) is that link's address.       *)
(***************************************************************************)
EXTENDS Naturals, Sequences, SequencesExt, FiniteSets

CONSTANTS
    Srcs,        \* source addresses (skb_canonical_ipv6_saddr)
    SenderIds,   \* values of the common header's sender_id
    MaxPackets   \* bound: packets in one GRO chain

Classes == {"drop", "now", "long"}
Packets == [cls : Classes, src : Srcs, id : SenderIds]

(* The chains the GRO layer can hand to one softirq call. *)
Chains == UNION {[1..n -> Packets] : n \in 1..MaxPackets}

(* Addresses: 0 is NULL, skb i is i, and the two list heads, the local    *)
(* variables packets and other_pkts, are -1 and -2.                       *)
NULL == 0
PACKETS == -1
OTHER_PKTS == -2
Heads == {PACKETS, OTHER_PKTS}

VARIABLES
    phase,     \* "first" loop, "second" loop header, "inner" loop, "idle" after return
    chain,     \* the packets of the current (or last) call
    link,      \* the next fields of the skbs, and the heads packets / other_pkts
    skb,       \* first loop: the skb examined; second loop: the head of the group
    skb2,      \* inner loop: the skb examined
    prevLink,  \* prev_link
    otherLink, \* other_link
    out        \* the lists given to homa_dispatch_pkts so far in this call

vars == <<phase, chain, link, skb, skb2, prevLink, otherLink, out>>

(* Two packets belong to the same RPC: equal sender_id and source.        *)
SameRpc(p, q) == p.id = q.id /\ p.src = q.src

(* The store *l = v through a pointer to a link. *)
Store(L, l, v) == [L EXCEPT ![l] = v]

(* The list homa_dispatch_pkts walks from skb x through the next fields,  *)
(* cut after k skbs (a cycle shows up as a repeated skb).                  *)
RECURSIVE ListFrom(_, _, _)
ListFrom(L, x, k) ==
    IF x = NULL \/ k = 0 THEN <<>> ELSE <<x>> \o ListFrom(L, L[x], k - 1)

Dispatched(L, x) == ListFrom(L, x, Len(chain) + 1)

-----------------------------------------------------------------------------

(* Mutant: the kept packet's successor becomes prev_link                  *)
(* (prev_link = &next->next), NULL at the end of the chain.               *)
FirstPassLinkNext ==
    /\ phase = "first"
    /\ skb # NULL
    /\ LET p == chain[skb]
           nx == link[skb]
       IN
       /\ \/ /\ p.cls = "drop"
             /\ link' = Store(link, prevLink, nx)
             /\ UNCHANGED <<prevLink, out>>
          \/ /\ p.cls = "now"
             /\ link' = Store(Store(link, prevLink, nx), skb, NULL)
             /\ out' = Append(out, Dispatched(link', skb))
             /\ UNCHANGED prevLink
          \/ /\ p.cls = "long"
             /\ prevLink' = nx
             /\ UNCHANGED <<link, out>>
       /\ skb' = nx
    /\ UNCHANGED <<phase, chain, skb2, otherLink>>

(* Mutant: the shortcut clears skb->next but does not unlink skb          *)
(* (the store *prev_link = skb->next is missing).                         *)
FirstPassKeepsShort ==
    /\ phase = "first"
    /\ skb # NULL
    /\ LET p == chain[skb]
           nx == link[skb]
       IN
       /\ \/ /\ p.cls = "drop"
             /\ link' = Store(link, prevLink, nx)
             /\ UNCHANGED <<prevLink, out>>
          \/ /\ p.cls = "now"
             /\ link' = Store(link, skb, NULL)
             /\ out' = Append(out, Dispatched(link', skb))
             /\ UNCHANGED prevLink
          \/ /\ p.cls = "long"
             /\ prevLink' = skb
             /\ UNCHANGED <<link, out>>
       /\ skb' = nx
    /\ UNCHANGED <<phase, chain, skb2, otherLink>>

(* One iteration of the first loop (next = skb->next first): a discarded  *)
(* packet is unlinked (the store *prev_link = skb->next) and freed; a short one is   *)
(* unlinked, gets skb->next = NULL and is dispatched alone; a long one     *)
(* stays, and prev_link = &skb->next.                                      *)
FirstPass ==
    /\ phase = "first"
    /\ skb # NULL
    /\ LET p == chain[skb]
           nx == link[skb]
       IN
       /\ \/ /\ p.cls = "drop"
             /\ link' = Store(link, prevLink, nx)
             /\ UNCHANGED <<prevLink, out>>
          \/ /\ p.cls = "now"
             /\ link' = Store(Store(link, prevLink, nx), skb, NULL)
             /\ out' = Append(out, Dispatched(link', skb))
             /\ UNCHANGED prevLink
          \/ /\ p.cls = "long"
             /\ prevLink' = skb
             /\ UNCHANGED <<link, out>>
       /\ skb' = nx
    /\ UNCHANGED <<phase, chain, skb2, otherLink>>

(* The first loop ends when skb is NULL. *)
FirstPassDone ==
    /\ phase = "first"
    /\ skb = NULL
    /\ phase' = "second"
    /\ UNCHANGED <<chain, link, skb, skb2, prevLink, otherLink, out>>

(* Top of the second loop, while packets is not NULL: skb = packets,       *)
(* prev_link = &skb->next, other_pkts = NULL, other_link = &other_pkts,    *)
(* and the inner loop starts at skb->next.                                 *)
GroupStart ==
    /\ phase = "second"
    /\ link[PACKETS] # NULL
    /\ skb' = link[PACKETS]
    /\ prevLink' = link[PACKETS]
    /\ link' = Store(link, OTHER_PKTS, NULL)
    /\ otherLink' = OTHER_PKTS
    /\ skb2' = link[link[PACKETS]]
    /\ phase' = "inner"
    /\ UNCHANGED <<chain, out>>

(* Mutant: only sender_id is compared, not the source address.            *)
InnerStepIdOnly ==
    /\ phase = "inner"
    /\ skb2 # NULL
    /\ LET nx == link[skb2] IN
       /\ \/ /\ chain[skb2].id = chain[skb].id
             /\ link' = Store(link, prevLink, skb2)
             /\ prevLink' = skb2
             /\ UNCHANGED otherLink
          \/ /\ chain[skb2].id # chain[skb].id
             /\ link' = Store(link, otherLink, skb2)
             /\ otherLink' = skb2
             /\ UNCHANGED prevLink
       /\ skb2' = nx
    /\ UNCHANGED <<phase, chain, skb, out>>

(* One iteration of the inner loop (next = skb2->next first): a packet of *)
(* skb's RPC is appended through prev_link, any other through other_link. *)
InnerStep ==
    /\ phase = "inner"
    /\ skb2 # NULL
    /\ LET nx == link[skb2] IN
       /\ \/ /\ SameRpc(chain[skb2], chain[skb])
             /\ link' = Store(link, prevLink, skb2)
             /\ prevLink' = skb2
             /\ UNCHANGED otherLink
          \/ /\ ~SameRpc(chain[skb2], chain[skb])
             /\ link' = Store(link, otherLink, skb2)
             /\ otherLink' = skb2
             /\ UNCHANGED prevLink
       /\ skb2' = nx
    /\ UNCHANGED <<phase, chain, skb, out>>

(* Mutant: the RPC's list is not terminated (the store *prev_link = NULL is missing).  *)
InnerDoneNoTerminate ==
    /\ phase = "inner"
    /\ skb2 = NULL
    /\ LET L == Store(link, otherLink, NULL) IN
       /\ out' = Append(out, Dispatched(L, L[PACKETS]))
       /\ link' = Store(L, PACKETS, L[OTHER_PKTS])
    /\ phase' = "second"
    /\ UNCHANGED <<chain, skb, skb2, prevLink, otherLink>>

(* End of the inner loop: *prev_link = NULL, *other_link = NULL, the list  *)
(* at packets goes to homa_dispatch_pkts, and packets = other_pkts.        *)
InnerDone ==
    /\ phase = "inner"
    /\ skb2 = NULL
    /\ LET L == Store(Store(link, prevLink, NULL), otherLink, NULL) IN
       /\ out' = Append(out, Dispatched(L, L[PACKETS]))
       /\ link' = Store(L, PACKETS, L[OTHER_PKTS])
    /\ phase' = "second"
    /\ UNCHANGED <<chain, skb, skb2, prevLink, otherLink>>

(* homa_softirq returns once packets is NULL. *)
Return ==
    /\ phase = "second"
    /\ link[PACKETS] = NULL
    /\ phase' = "idle"
    /\ UNCHANGED <<chain, link, skb, skb2, prevLink, otherLink, out>>

(* The call has returned; the packets of this chain are all handled.     *)
Finished ==
    /\ phase = "idle"
    /\ UNCHANGED vars

(* A softirq call starts on a chain: skb->next = frag_list (the GRO layer *)
(* links the frag_list skbs in order), packets = skb, prev_link =          *)
(* &packets, and the first loop starts at packets.                         *)
Init ==
    /\ phase = "first"
    /\ chain \in Chains
    /\ link = [l \in Heads \cup DOMAIN chain |->
                 IF l = PACKETS THEN 1
                 ELSE IF l \in {OTHER_PKTS, Len(chain)} THEN NULL
                 ELSE l + 1]
    /\ skb = 1
    /\ skb2 = NULL
    /\ prevLink = PACKETS
    /\ otherLink = OTHER_PKTS
    /\ out = <<>>

Next ==
    \/ FirstPass
    \/ FirstPassDone
    \/ GroupStart
    \/ InnerStep
    \/ InnerDone
    \/ Return
    \/ Finished

Spec == Init /\ [][Next]_vars

(* A softirq call runs to completion: it waits for nothing between steps. *)
LiveSpec ==
    Spec /\ WF_vars(FirstPass \/ FirstPassDone \/ GroupStart \/ InnerStep
                    \/ InnerDone \/ Return)

-----------------------------------------------------------------------------
(* Properties *)

Returned == phase = "idle"
(* How many times packet i was handed to homa_dispatch_pkts. *)
Times(i) == Len(SelectSeq(FlattenSeq(out), LAMBDA x : x = i))

TypeOK ==
    /\ phase \in {"idle", "first", "second", "inner"}
    /\ chain \in Chains
    /\ link \in [Heads \cup DOMAIN chain -> {NULL} \cup DOMAIN chain]
    /\ skb \in {NULL} \cup DOMAIN chain
    /\ skb2 \in {NULL} \cup DOMAIN chain
    /\ prevLink \in {PACKETS} \cup DOMAIN chain
    /\ otherLink \in {OTHER_PKTS} \cup DOMAIN chain
    /\ out \in Seq(Seq(DOMAIN chain))

(* Every packet that is not discarded reaches homa_dispatch_pkts exactly  *)
(* once, and a discarded one never: the first loop unlinks what it        *)
(* dispatches or frees, and the relinking of the second loop loses and    *)
(* repeats nothing.                                                        *)
DispatchedOnce ==
    Returned =>
        \A i \in DOMAIN chain :
            Times(i) = IF chain[i].cls = "drop" THEN 0 ELSE 1

(* homa_dispatch_pkts is given packets of one RPC at a time (spec 4.F:    *)
(* "a batch of packets for one (sender, sender_id) tuple"): every list the *)
(* second loop builds through prev_link ends before another RPC's packet. *)
BatchOneRpc ==
    \A k \in DOMAIN out :
        \A i, j \in Range(out[k]) : SameRpc(chain[i], chain[j])

(* Refinement: inside a call nothing has been dispatched yet in the       *)
(* abstract view; when the call returns, the lists the two loops handed   *)
(* to homa_dispatch_pkts are exactly the reference grouping of            *)
(* HomaSoftirqDispatch (short packets alone in chain order, then each     *)
(* RPC's long packets in chain order, RPCs by first packet), and every    *)
(* call returns.                                                           *)
Dispatch == INSTANCE HomaSoftirqDispatch
    WITH busy <- phase # "idle",
         out <- IF phase = "idle" THEN out ELSE <<>>

DispatchRefined == Dispatch!Spec

=============================================================================

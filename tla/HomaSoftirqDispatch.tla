-------------------------- MODULE HomaSoftirqDispatch --------------------------
(***************************************************************************)
(* What one homa_softirq call promises, as a single step: given a GRO      *)
(* chain, it hands homa_dispatch_pkts first each control packet and each   *)
(* DATA packet of a short message, one at a time and in chain order, then  *)
(* the long DATA packets grouped by RPC, the groups in the order of their  *)
(* first packet and each group in chain order.  Malformed and FREEZE       *)
(* packets are dropped.  HomaSoftirq refines this specification.           *)
(***************************************************************************)
EXTENDS Naturals, Sequences, SequencesExt

CONSTANTS Srcs, SenderIds, MaxPackets

Classes == {"drop", "now", "long"}
Packets == [cls : Classes, src : Srcs, id : SenderIds]
Chains == UNION {[1..n -> Packets] : n \in 1..MaxPackets}

VARIABLES busy, chain, out

(* The positions of chain c, in order, whose packets satisfy P. *)
Positions(c, P(_)) == SelectSeq([i \in 1..Len(c) |-> i], LAMBDA i : P(c[i]))

(* The RPC groups of a list of positions, by first appearance. *)
RECURSIVE Groups(_, _)
Groups(c, l) ==
    IF l = <<>> THEN <<>>
    ELSE LET h == c[Head(l)]
             mine(i) == c[i].id = h.id /\ c[i].src = h.src
         IN  <<SelectSeq(l, mine)>> \o Groups(c, SelectSeq(l, LAMBDA i : ~mine(i)))

(* The batches a call on chain c hands to homa_dispatch_pkts. *)
Expected(c) ==
    [k \in 1..Len(Positions(c, LAMBDA p : p.cls = "now")) |->
        <<Positions(c, LAMBDA p : p.cls = "now")[k]>>]
    \o Groups(c, Positions(c, LAMBDA p : p.cls = "long"))

Init ==
    /\ busy = TRUE
    /\ chain \in Chains
    /\ out = <<>>

Dispatch ==
    /\ busy
    /\ busy' = FALSE
    /\ out' = Expected(chain)
    /\ UNCHANGED chain

Spec == Init /\ [][Dispatch]_<<busy, chain, out>> /\ WF_<<busy, chain, out>>(Dispatch)

==============================================================================

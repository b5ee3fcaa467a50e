------------------------------ MODULE HomaIcmp ------------------------------
(***************************************************************************)
(* homa_err_handler_v4 and homa_err_handler_v6 (src/homa_sock.c): IP       *)
(* hands Homa the ICMP errors that quote a Homa packet; the handler turns  *)
(* type and code into an errno and calls homa_abort_rpcs, which aborts the *)
(* client RPCs to the packet's destination (and, for a port unreachable,   *)
(* to its destination port).  homa_abort_rpcs is not in src/; it is        *)
(* modelled from spec 4.C and section 6 ("Error mapping from ICMP").       *)
(*                                                                         *)
(* Type and code are the numbers of the kernel's icmp.h and icmpv6.h.  To  *)
(* state the spec's mapping, each (type, code) is classified as the        *)
(* network condition RFC 792 and RFC 4443 give it.                         *)
(***************************************************************************)
EXTENDS Naturals, FiniteSets

CONSTANTS
    Hosts,   \* destination addresses
    Ports,   \* destination ports (nonzero)
    Rpcs     \* client RPCs

NoError == "none"
Errnos == {"ENOTCONN", "EPROTONOSUPPORT", "EHOSTUNREACH"}

(* include/uapi/linux/icmp.h *)
ICMP_DEST_UNREACH == 3
ICMP_TIME_EXCEEDED == 11
ICMP_PROT_UNREACH == 2
ICMP_PORT_UNREACH == 3
(* include/uapi/linux/icmpv6.h *)
ICMPV6_DEST_UNREACH == 1
ICMPV6_PKT_TOOBIG == 2
ICMPV6_TIME_EXCEED == 3
ICMPV6_PARAMPROB == 4
ICMPV6_ADDR_UNREACH == 3
ICMPV6_PORT_UNREACH == 4
ICMPV6_UNK_NEXTHDR == 1

V4Msgs == ({ICMP_DEST_UNREACH} \X (0..15)) \cup ({ICMP_TIME_EXCEEDED} \X (0..1))
V6Msgs == ({ICMPV6_DEST_UNREACH} \X (0..6)) \cup ({ICMPV6_PKT_TOOBIG} \X {0})
              \cup ({ICMPV6_TIME_EXCEED} \X (0..1)) \cup ({ICMPV6_PARAMPROB} \X (0..2))

(* The condition an ICMP message reports (RFC 792, RFC 1812, RFC 4443).   *)
Cond4(m) ==
    CASE m[1] = ICMP_TIME_EXCEEDED -> "time_exceeded"
      [] m[2] = 2 -> "proto_unreach"
      [] m[2] = 3 -> "port_unreach"
      [] m[2] = 4 -> "packet_too_big"
      [] m[2] \in {0, 6, 11} -> "net_unreach"
      [] m[2] \in {1, 7, 12} -> "host_unreach"
      [] OTHER -> "prohibited"
Cond6(m) ==
    CASE m[1] = ICMPV6_PKT_TOOBIG -> "packet_too_big"
      [] m[1] = ICMPV6_TIME_EXCEED -> "time_exceeded"
      [] m[1] = ICMPV6_PARAMPROB -> IF m[2] = ICMPV6_UNK_NEXTHDR
                                    THEN "proto_unreach" ELSE "param_problem"
      [] m[2] = 0 -> "net_unreach"
      [] m[2] = 3 -> "host_unreach"
      [] m[2] = 4 -> "port_unreach"
      [] OTHER -> "prohibited"

(* Spec section 6: port unreachable -> ENOTCONN, protocol unreachable ->  *)
(* EPROTONOSUPPORT, host/address unreachable -> EHOSTUNREACH; only an      *)
(* unrecoverable condition kills RPCs (spec 4.C), so a packet-too-big or   *)
(* time-exceeded report aborts nothing.  The spec is silent on the others. *)
SpecErrors(c) ==
    CASE c = "port_unreach" -> {"ENOTCONN"}
      [] c = "proto_unreach" -> {"EPROTONOSUPPORT"}
      [] c = "host_unreach" -> {"EHOSTUNREACH"}
      [] c \in {"packet_too_big", "time_exceeded"} -> {NoError}
      [] OTHER -> Errnos \cup {NoError}

VARIABLES
    dest,     \* each client RPC's peer: [host, port]
    err,      \* rpc->error of each client RPC (NoError while it runs)
    handled   \* ghost: <<condition, errno>> of every ICMP message handled

vars == <<dest, err, handled>>

-----------------------------------------------------------------------------

(* homa_abort_rpcs (spec 4.C): every live client RPC to addr, and to port  *)
(* unless port is 0, is aborted with error.                                *)
AbortRpcs(addr, port, error) ==
    err' = [r \in Rpcs |->
              IF /\ err[r] = NoError
                 /\ dest[r].host = addr
                 /\ port = 0 \/ dest[r].port = port
              THEN error ELSE err[r]]

(* The errno homa_err_handler_v4 computes, and the port it passes. *)
ErrorV4(m) ==
    CASE m[1] = ICMP_DEST_UNREACH /\ m[2] = ICMP_PORT_UNREACH -> "ENOTCONN"
      [] m[1] = ICMP_DEST_UNREACH /\ m[2] = ICMP_PROT_UNREACH -> "EPROTONOSUPPORT"
      [] m[1] = ICMP_DEST_UNREACH -> "EHOSTUNREACH"
      [] OTHER -> NoError

ErrorV6(m) ==
    CASE m[1] = ICMPV6_DEST_UNREACH /\ m[2] = ICMPV6_PORT_UNREACH -> "ENOTCONN"
      [] m[1] = ICMPV6_DEST_UNREACH /\ m[2] = ICMPV6_ADDR_UNREACH -> "EHOSTUNREACH"
      [] m[1] = ICMPV6_PARAMPROB /\ m[2] = ICMPV6_UNK_NEXTHDR -> "EPROTONOSUPPORT"
      [] OTHER -> NoError

(* Only a port unreachable carries the quoted header's dport. *)
PortOf(e, dport) == IF e = "ENOTCONN" THEN dport ELSE 0

(* One call of a handler for message m about a packet to [addr, dport].   *)
Handle(e, c, addr, dport) ==
    /\ IF e # NoError THEN AbortRpcs(addr, PortOf(e, dport), e)
                      ELSE UNCHANGED err
    /\ handled' = handled \cup {<<c, e>>}
    /\ UNCHANGED dest

ErrHandlerV4(m, addr, dport) == Handle(ErrorV4(m), Cond4(m), addr, dport)

ErrHandlerV6(m, addr, dport) == Handle(ErrorV6(m), Cond6(m), addr, dport)

Init ==
    /\ dest \in [Rpcs -> [host : Hosts, port : Ports]]
    /\ err = [r \in Rpcs |-> NoError]
    /\ handled = {}

Next ==
    \E addr \in Hosts, dport \in Ports :
        \/ \E m \in V4Msgs : ErrHandlerV4(m, addr, dport)
        \/ \E m \in V6Msgs : ErrHandlerV6(m, addr, dport)

Spec == Init /\ [][Next]_vars

-----------------------------------------------------------------------------

(* Every ICMP message, over IPv4 or IPv6, aborts RPCs with the errno spec *)
(* section 6 gives its condition, and a recoverable report (packet too    *)
(* big, time exceeded) aborts nothing.                                     *)
IcmpErrorAsSpecified ==
    \A h \in handled : h[2] \in SpecErrors(h[1])

=============================================================================

---------------------------- MODULE HomaPortTable ----------------------------
(***************************************************************************)
(* What the socket table promises (spec invariant 4 and section 4.A): a    *)
(* port names at most one socket.  A new socket gets a free default port,  *)
(* or fails; it fails for want of a port only when every default port is   *)
(* taken.  An open socket that is not shut down can move to a free server  *)
(* port.  Shutdown takes the socket out for good.  HomaSockTab refines     *)
(* this specification, with lookup given by homa_sock_find.                *)
(***************************************************************************)
CONSTANTS Socks, DefaultPorts, ServerPorts, NULL

Ports == DefaultPorts \cup ServerPorts

VARIABLES
    born,     \* the sockets whose creation has been attempted
    lookup,   \* each port: the socket found for it, or NULL
    shut      \* the sockets shut down

pvars == <<born, lookup, shut>>

InTable(s) == \E p \in Ports : lookup[p] = s

Init ==
    /\ born = {}
    /\ lookup = [p \in Ports |-> NULL]
    /\ shut = {}

Create(s, p) ==
    /\ s \notin born
    /\ p \in DefaultPorts /\ lookup[p] = NULL
    /\ born' = born \cup {s}
    /\ lookup' = [lookup EXCEPT ![p] = s]
    /\ UNCHANGED shut

(* Creation fails for another reason (no memory), or for want of a port,  *)
(* which leaves the socket shut down.                                      *)
CreateFails(s) ==
    /\ s \notin born
    /\ born' = born \cup {s}
    /\ \/ UNCHANGED shut
       \/ /\ \A p \in DefaultPorts : lookup[p] # NULL
          /\ shut' = shut \cup {s}
    /\ UNCHANGED lookup

Bind(s, p) ==
    /\ InTable(s) /\ s \notin shut
    /\ p \in ServerPorts /\ lookup[p] = NULL
    /\ lookup' = [q \in Ports |-> IF q = p THEN s ELSE IF lookup[q] = s THEN NULL ELSE lookup[q]]
    /\ UNCHANGED <<born, shut>>

Close(s) ==
    /\ s \in born \ shut
    /\ shut' = shut \cup {s}
    /\ lookup' = [q \in Ports |-> IF lookup[q] = s THEN NULL ELSE lookup[q]]
    /\ UNCHANGED born

Next ==
    \E s \in Socks :
        \/ \E p \in Ports : Create(s, p) \/ Bind(s, p)
        \/ CreateFails(s)
        \/ Close(s)

Spec == Init /\ [][Next]_pvars

==============================================================================

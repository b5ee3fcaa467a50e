----------------------------- MODULE HomaSockTab -----------------------------
(***************************************************************************)
(* The socket table of homa_sock.c: the hash buckets of hlists that map a  *)
(* port to its socket, default-port allocation in homa_sock_init,          *)
(* homa_sock_bind, the unlink step of homa_sock_shutdown, and the          *)
(* lock-free scan (homa_socktab_start_scan / homa_socktab_next) that the   *)
(* timer, homa_abort_rpcs and homa_socktab_destroy use.                    *)
(*                                                                         *)
(* The hlists are kept as pointers: head[b] is the first socket of bucket  *)
(* b and next[s] the socket after s.  hlist_del_rcu unlinks s but leaves   *)
(* next[s] as it was, so a reader standing on s still finds a way on;      *)
(* hlist_add_head_rcu points next[s] at the old head.  Writers hold        *)
(* socktab->write_lock, so each writer step is one action; the scan reads  *)
(* under rcu_read_lock only, so its steps interleave with the writers.     *)
(***************************************************************************)
EXTENDS Naturals, Sequences, SequencesExt, FiniteSets

CONSTANTS
    Socks,       \* the struct homa_sock objects that may be created
    PortBits,    \* width of hnet->prev_default_port (u16 in the kernel)
    NumBuckets,  \* HOMA_SOCKTAB_BUCKETS
    NULL

ASSUME PortBits \in 2..16 /\ NumBuckets \in Nat \ {0} /\ NULL \notin Socks

PortCount == 2 ^ PortBits
HOMA_MIN_DEFAULT_PORT == PortCount \div 2
DefaultPorts == HOMA_MIN_DEFAULT_PORT..(PortCount - 1)
ServerPorts == 1..(HOMA_MIN_DEFAULT_PORT - 1)

(* homa_socktab_bucket: the port hashed onto a bucket. *)
Bucket(port) == port % NumBuckets

VARIABLES
    status,     \* "none" (not created), "open", "failed" (homa_sock_init failed)
    port,       \* hsk->port
    isServer,   \* hsk->is_server
    shutdown,   \* hsk->shutdown
    head,       \* socktab->buckets[b]: first socket of each hlist
    next,       \* hsk->socktab_links.next
    inTable,    \* ghost: s is on an hlist (added and not deleted since)
    prevPort,   \* hnet->prev_default_port
    scanPc,     \* the scanner: "idle", "scanning" or "done"
    scanHsk,    \* scan->hsk
    scanBucket, \* scan->current_bucket
    present,    \* ghost: sockets in the table when the scan started
    touched,    \* ghost: sockets deleted from an hlist during the scan
    seen        \* ghost: sockets the scan has returned

tabVars == <<head, next, inTable>>
scanVars == <<scanPc, scanHsk, scanBucket, present, touched, seen>>
vars == <<status, port, isServer, shutdown, tabVars, prevPort, scanVars>>

-----------------------------------------------------------------------------
(* The hlists *)

(* The chain of sockets reached from x by following the next pointers N,  *)
(* cut after k steps (a cycle shows up as a repeated socket).              *)
RECURSIVE ChainFrom(_, _, _)
ChainFrom(N, x, k) ==
    IF x = NULL \/ k = 0 THEN <<>> ELSE <<x>> \o ChainFrom(N, N[x], k - 1)

ChainOf(H, N, b) == ChainFrom(N, H[b], Cardinality(Socks) + 1)
Chain(b) == ChainOf(head, next, b)
Linked == UNION {ToSet(Chain(b)) : b \in 0..(NumBuckets - 1)}

(* hlist_del_rcu of s from bucket b: its predecessor skips it; next[s] is  *)
(* left alone.                                                             *)
DelHead(H, N, s, b) == IF H[b] = s THEN [H EXCEPT ![b] = N[s]] ELSE H
DelNext(H, N, s, b) ==
    IF H[b] = s THEN N
    ELSE LET x == CHOOSE x \in ToSet(ChainOf(H, N, b)) : N[x] = s
         IN  [N EXCEPT ![x] = N[s]]

(* homa_sock_find: walk the bucket of p for a socket with that port. *)
Find(p) ==
    LET hits == {s \in ToSet(Chain(Bucket(p))) : port[s] = p}
    IN  IF hits = {} THEN NULL ELSE CHOOSE s \in hits : TRUE

-----------------------------------------------------------------------------
(* Default-port allocation in homa_sock_init *)

(* Mutant: the counter is not kept to its width, so it never wraps.      *)
NextPortNoWrap(p) ==
    IF p + 1 < HOMA_MIN_DEFAULT_PORT THEN HOMA_MIN_DEFAULT_PORT ELSE p + 1

(* One turn of the loop: prev_default_port++ in PortBits bits, raised to   *)
(* HOMA_MIN_DEFAULT_PORT if it fell below.                                 *)
NextPort(p) ==
    LET q == (p + 1) % PortCount
    IN  IF q < HOMA_MIN_DEFAULT_PORT THEN HOMA_MIN_DEFAULT_PORT ELSE q

(* Mutant: the loop tests for a full sweep before it looks the port up.  *)
RECURSIVE PortSearchStartFirst(_, _, _)
PortSearchStartFirst(p, start, k) ==
    LET q == NextPort(p)
    IN  IF q = start THEN [outcome |-> "full", port |-> q]
        ELSE IF Find(q) = NULL THEN [outcome |-> "found", port |-> q]
        ELSE IF k = 0 THEN [outcome |-> "spin", port |-> q]
        ELSE PortSearchStartFirst(q, start, k - 1)

(* The loop from starting_port: "found" with the first free port, "full"  *)
(* when it comes back to starting_port, or "spin" when it has passed every *)
(* port without doing either (the code would loop for ever).              *)
RECURSIVE PortSearch(_, _, _)
PortSearch(p, start, k) ==
    LET q == NextPort(p)
    IN  IF Find(q) = NULL THEN [outcome |-> "found", port |-> q]
        ELSE IF q = start THEN [outcome |-> "full", port |-> q]
        ELSE IF k = 0 THEN [outcome |-> "spin", port |-> q]
        ELSE PortSearch(q, start, k - 1)

(* homa_sock_init: the buffer pool may fail to allocate (-ENOMEM); under   *)
(* the write lock a default port is chosen (or -EADDRNOTAVAIL, with        *)
(* shutdown set) and the socket goes on the head of the port's bucket.     *)
SockInit(s) ==
    LET found == PortSearch(prevPort, prevPort, PortCount)
    IN
    /\ status[s] = "none"
    /\ \/ /\ status' = [status EXCEPT ![s] = "failed"]       \* pool -ENOMEM
          /\ UNCHANGED <<port, isServer, shutdown, tabVars, prevPort>>
       \/ /\ found.outcome = "full"                                  \* -EADDRNOTAVAIL
          /\ status' = [status EXCEPT ![s] = "failed"]
          /\ shutdown' = [shutdown EXCEPT ![s] = TRUE]
          /\ UNCHANGED <<port, isServer, tabVars, prevPort>>
       \/ /\ found.outcome = "found"
          /\ status' = [status EXCEPT ![s] = "open"]
          /\ port' = [port EXCEPT ![s] = found.port]
          /\ prevPort' = found.port
          /\ isServer' = [isServer EXCEPT ![s] = FALSE]
          /\ shutdown' = [shutdown EXCEPT ![s] = FALSE]
          /\ next' = [next EXCEPT ![s] = head[Bucket(found.port)]]
          /\ head' = [head EXCEPT ![Bucket(found.port)] = s]
          /\ inTable' = [inTable EXCEPT ![s] = TRUE]
    /\ UNCHANGED scanVars

(* Mutant: bind re-adds the socket to the bucket of its old port.        *)
SockBindOldBucket(s, p) ==
    LET owner == Find(p)
        b == Bucket(port[s])
        H == DelHead(head, next, s, b)
        N == DelNext(head, next, s, b)
    IN
    /\ status[s] = "open"
    /\ \/ /\ shutdown[s] \/ owner # NULL
          /\ UNCHANGED <<port, isServer, tabVars, touched>>
       \/ /\ ~shutdown[s] /\ owner = NULL
          /\ port' = [port EXCEPT ![s] = p]
          /\ next' = [N EXCEPT ![s] = H[b]]
          /\ head' = [H EXCEPT ![b] = s]
          /\ isServer' = [isServer EXCEPT ![s] = TRUE]
          /\ touched' = IF scanPc = "scanning" THEN touched \cup {s} ELSE touched
          /\ UNCHANGED inTable
    /\ UNCHANGED <<status, shutdown, prevPort, scanPc, scanHsk, scanBucket,
                   present, seen>>

(* Mutant: bind does not look for an owner of the port (no -EADDRINUSE).  *)
SockBindNoOwnerCheck(s, p) ==
    LET b == Bucket(port[s])
        H == DelHead(head, next, s, b)
        N == DelNext(head, next, s, b)
    IN
    /\ status[s] = "open"
    /\ \/ /\ shutdown[s]
          /\ UNCHANGED <<port, isServer, tabVars, touched>>
       \/ /\ ~shutdown[s]
          /\ port' = [port EXCEPT ![s] = p]
          /\ next' = [N EXCEPT ![s] = H[Bucket(p)]]
          /\ head' = [H EXCEPT ![Bucket(p)] = s]
          /\ isServer' = [isServer EXCEPT ![s] = TRUE]
          /\ touched' = IF scanPc = "scanning" THEN touched \cup {s} ELSE touched
          /\ UNCHANGED inTable
    /\ UNCHANGED <<status, shutdown, prevPort, scanPc, scanHsk, scanBucket,
                   present, seen>>

(* Mutant: bind does not test hsk->shutdown (no -ESHUTDOWN).             *)
SockBindNoShutdownCheck(s, p) ==
    LET owner == Find(p)
        b == Bucket(port[s])
        H == IF inTable[s] THEN DelHead(head, next, s, b) ELSE head
        N == IF inTable[s] THEN DelNext(head, next, s, b) ELSE next
    IN
    /\ status[s] = "open"
    /\ \/ /\ owner # NULL
          /\ UNCHANGED <<port, isServer, tabVars, touched>>
       \/ /\ owner = NULL
          /\ port' = [port EXCEPT ![s] = p]
          /\ next' = [N EXCEPT ![s] = H[Bucket(p)]]
          /\ head' = [H EXCEPT ![Bucket(p)] = s]
          /\ isServer' = [isServer EXCEPT ![s] = TRUE]
          /\ touched' = IF scanPc = "scanning" THEN touched \cup {s} ELSE touched
          /\ UNCHANGED inTable
    /\ UNCHANGED <<status, shutdown, prevPort, scanPc, scanHsk, scanBucket,
                   present, seen>>

(* homa_sock_bind with 0 < port < HOMA_MIN_DEFAULT_PORT (port 0 and       *)
(* larger ports return before any lock is taken and change nothing).      *)
(* Under the socket lock and the write lock: -ESHUTDOWN on a shut socket,  *)
(* -EADDRINUSE if another socket owns the port, success without change if *)
(* s owns it already; otherwise s moves to the head of the new bucket.     *)
SockBind(s, p) ==
    LET owner == Find(p)
        b == Bucket(port[s])
        H == DelHead(head, next, s, b)
        N == DelNext(head, next, s, b)
    IN
    /\ status[s] = "open"
    /\ \/ /\ shutdown[s] \/ owner # NULL
          /\ UNCHANGED <<port, isServer, tabVars, touched>>
       \/ /\ ~shutdown[s] /\ owner = NULL
          /\ port' = [port EXCEPT ![s] = p]
          /\ next' = [N EXCEPT ![s] = H[Bucket(p)]]
          /\ head' = [H EXCEPT ![Bucket(p)] = s]
          /\ isServer' = [isServer EXCEPT ![s] = TRUE]
          /\ touched' = IF scanPc = "scanning" THEN touched \cup {s} ELSE touched
          /\ UNCHANGED inTable
    /\ UNCHANGED <<status, shutdown, prevPort, scanPc, scanHsk, scanBucket,
                   present, seen>>

(* homa_sock_shutdown, first critical section: return if already shut     *)
(* down (or never initialised), else set hsk->shutdown and                 *)
(* homa_sock_unlink (hlist_del_rcu under the write lock).                  *)
SockShutdown(s) ==
    LET b == Bucket(port[s])
    IN
    /\ status[s] = "open"
    /\ ~shutdown[s]
    /\ shutdown' = [shutdown EXCEPT ![s] = TRUE]
    /\ head' = DelHead(head, next, s, b)
    /\ next' = DelNext(head, next, s, b)
    /\ inTable' = [inTable EXCEPT ![s] = FALSE]
    /\ touched' = IF scanPc = "scanning" THEN touched \cup {s} ELSE touched
    /\ UNCHANGED <<status, port, isServer, prevPort, scanPc, scanHsk,
                   scanBucket, present, seen>>

-----------------------------------------------------------------------------
(* The scan *)

(* homa_socktab_next: follow scan->hsk's next pointer; if it is NULL, try  *)
(* the heads of the buckets after scan->current_bucket.                    *)
SocktabNext(hsk, bucket) ==
    LET full == {b \in (bucket + 1)..(NumBuckets - 1) : head[b] # NULL}
        b == CHOOSE b \in full : \A c \in full : b <= c
    IN  IF hsk # NULL /\ next[hsk] # NULL
        THEN [hsk |-> next[hsk], bucket |-> bucket]
        ELSE IF full = {} THEN [hsk |-> NULL, bucket |-> NumBuckets]
        ELSE [hsk |-> head[b], bucket |-> b]

(* The scan takes one step: homa_socktab_start_scan (scan->hsk = NULL,     *)
(* current_bucket = -1, then a first homa_socktab_next) or a further       *)
(* homa_socktab_next; a NULL result ends it.                               *)
ScanStep(r, before) ==
    /\ scanHsk' = r.hsk
    /\ scanBucket' = r.bucket
    /\ seen' = IF r.hsk = NULL THEN before ELSE before \cup {r.hsk}
    /\ scanPc' = IF r.hsk = NULL THEN "done" ELSE "scanning"

ScanStart ==
    /\ scanPc \in {"idle", "done"}
    /\ present' = Linked
    /\ touched' = {}
    /\ ScanStep(SocktabNext(NULL, -1), {})
    /\ UNCHANGED <<status, port, isServer, shutdown, tabVars, prevPort>>

ScanNext ==
    /\ scanPc = "scanning"
    /\ ScanStep(SocktabNext(scanHsk, scanBucket), seen)
    /\ UNCHANGED <<status, port, isServer, shutdown, tabVars, prevPort,
                   present, touched>>

-----------------------------------------------------------------------------

(* homa_socktab_init, and hnet->prev_default_port starting one below      *)
(* HOMA_MIN_DEFAULT_PORT (homa_net_init).                                  *)
Init ==
    /\ status = [s \in Socks |-> "none"]
    /\ port = [s \in Socks |-> 0]
    /\ isServer = [s \in Socks |-> FALSE]
    /\ shutdown = [s \in Socks |-> FALSE]
    /\ head = [b \in 0..(NumBuckets - 1) |-> NULL]
    /\ next = [s \in Socks |-> NULL]
    /\ inTable = [s \in Socks |-> FALSE]
    /\ prevPort = HOMA_MIN_DEFAULT_PORT - 1
    /\ scanPc = "idle"
    /\ scanHsk = NULL
    /\ scanBucket = -1
    /\ present = {}
    /\ touched = {}
    /\ seen = {}

Next ==
    \/ \E s \in Socks : SockInit(s)
    \/ \E s \in Socks, p \in ServerPorts : SockBind(s, p)
    \/ \E s \in Socks : SockShutdown(s)
    \/ ScanStart
    \/ ScanNext

Spec == Init /\ [][Next]_vars

-----------------------------------------------------------------------------
(* Properties *)

TypeOK ==
    /\ status \in [Socks -> {"none", "open", "failed"}]
    /\ port \in [Socks -> 0..(PortCount - 1)]
    /\ isServer \in [Socks -> BOOLEAN] /\ shutdown \in [Socks -> BOOLEAN]
    /\ head \in [0..(NumBuckets - 1) -> Socks \cup {NULL}]
    /\ next \in [Socks -> Socks \cup {NULL}]
    /\ inTable \in [Socks -> BOOLEAN]
    /\ prevPort \in 0..(PortCount - 1)
    /\ scanPc \in {"idle", "scanning", "done"}
    /\ scanHsk \in Socks \cup {NULL}
    /\ scanBucket \in -1..NumBuckets
    /\ present \subseteq Socks /\ touched \subseteq Socks /\ seen \subseteq Socks

(* The hlists hold exactly the sockets added and not deleted since, each   *)
(* once and in the bucket of its current port, without cycles: otherwise  *)
(* homa_sock_find misses a socket or never ends.                           *)
TableWellFormed ==
    \A b \in 0..(NumBuckets - 1) :
        /\ IsInjective(Chain(b))
        /\ Len(Chain(b)) <= Cardinality(Socks)
        /\ ToSet(Chain(b)) = {s \in Socks : inTable[s] /\ Bucket(port[s]) = b}

(* Spec invariant 4: ports of the sockets in the table are unique; a       *)
(* socket has a default port (>= HOMA_MIN_DEFAULT_PORT) until it binds a   *)
(* server port below it.                                                   *)
PortsUnique ==
    /\ \A s, t \in Linked : s # t => port[s] # port[t]
    /\ \A s \in Linked : (port[s] \in DefaultPorts) = ~isServer[s]

(* The table seen through homa_sock_find, as HomaPortTable describes it: *)
(* the sockets created so far, the socket found for each port, and the    *)
(* sockets shut down.                                                     *)
PortTable == INSTANCE HomaPortTable WITH
    born <- {s \in Socks : status[s] # "none"},
    lookup <- [p \in DefaultPorts \cup ServerPorts |-> Find(p)],
    shut <- {s \in Socks : shutdown[s]}

(* homa_sock_init, homa_sock_bind and homa_sock_shutdown implement the     *)
(* port table: every step either leaves what homa_sock_find returns alone *)
(* or is one of its operations.  A new socket takes a free default port,  *)
(* and fails with -EADDRNOTAVAIL only when every default port is taken;   *)
(* a bind moves only a socket that is in the table and not shut down, to  *)
(* a free server port, and leaves it findable there; a shutdown takes the *)
(* socket out of every lookup, and nothing brings it back.                *)
TableRefined == PortTable!Spec

(* The promise of the comment on homa_socktab_start_scan: every socket in  *)
(* the table when the scan starts, and not removed from it during the      *)
(* scan, is returned before the scan ends.                                 *)
ScanComplete ==
    scanPc = "done" => (present \ touched) \subseteq seen

=============================================================================

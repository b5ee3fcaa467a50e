CONSTANTS
    t1 = t1
    h1 = h1
    h2 = h2
    NULL = NULL
    Threads <- MCThreads
    Hosts <- MCHosts
    SockFamily = "AF_INET"
SPECIFICATION Spec
INVARIANT ConnectedSendsToTarget

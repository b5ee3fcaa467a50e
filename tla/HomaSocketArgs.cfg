CONSTANTS
    t1 = t1
    t2 = t2
    e1 = e1
    NULL = NULL
    Threads <- MCThreads
    AbortErrors <- MCAbortErrors
    NumClientRpcs = 1
    NumServerRpcs = 1
SPECIFICATION Spec
INVARIANT
    SendArgsValidated

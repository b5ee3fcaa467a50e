CONSTANTS
    s1 = s1
    s2 = s2
    s3 = s3
    NULL = NULL
    Socks <- MCSocks
    PortBits = 3
    NumBuckets = 2
SPECIFICATION Spec
INVARIANT
    ScanComplete

CONSTANTS
    s1 = s1
    s2 = s2
    s3 = s3
    NULL = NULL
    Socks <- MCSocks
    PortBits = 2
    NumBuckets = 2
SPECIFICATION Spec
SYMMETRY MCSymmetry
INVARIANTS
    TypeOK
    TableWellFormed
    PortsUnique
PROPERTIES
    TableRefined

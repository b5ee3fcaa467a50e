CONSTANTS
    CanFail <- MCCanFail
    n0 = n0
    n1 = n1
    Nets <- MCNets
    InitNet = n0
SPECIFICATION Spec
PROPERTIES
    WakeFindsThread

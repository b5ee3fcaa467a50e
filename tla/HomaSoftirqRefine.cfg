CONSTANTS
    a1 = a1
    a2 = a2
    Srcs <- MCSrcs
    SenderIds = {1, 2}
    MaxPackets = 4
SPECIFICATION LiveSpec
INVARIANTS
    TypeOK
    DispatchedOnce
    BatchOneRpc
PROPERTIES
    DispatchRefined

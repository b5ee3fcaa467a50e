CONSTANTS
    h1 = h1
    h2 = h2
    r1 = r1
    r2 = r2
    Hosts <- MCHosts
    Rpcs <- MCRpcs
    Ports = {1}
SPECIFICATION Spec
INVARIANT
    IcmpErrorAsSpecified

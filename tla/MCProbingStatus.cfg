CONSTANTS
    p1 = p1
    p2 = p2
    a1 = a1
    e1 = e1
    Peers <- MCPeers
    Addrs <- MCAddrs
    Errs <- MCErrs
    Skews <- MCSmallSkew
    RTTs <- MCRTTs
    NoErr = NoErr
    NoField = NoField
    Threshold = 1
    MaxProbes = 2
    MaxRegs = 3
    MaxAddrs = 1
    UseZap = TRUE
SPECIFICATION Spec
SYMMETRY MCPeerSymmetry
INVARIANT TypeOK
INVARIANT EveryProbeMonitored
\* With every registration made and every peer removed, nothing is left to
\* run: the prober and the monitors are idle.
CHECK_DEADLOCK FALSE

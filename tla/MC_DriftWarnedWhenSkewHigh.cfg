CONSTANTS
    p1 = p1
    p2 = p2
    a1 = a1
    e1 = e1
    Peers <- MCOnePeer
    Addrs <- MCAddrs
    Errs <- MCErrs
    Skews <- MCSignedSkews
    RTTs <- MCRTTs
    NoErr = NoErr
    NoField = NoField
    Threshold = 1
    MaxProbes = 1
    MaxRegs = 2
    MaxAddrs = 1
    UseZap = TRUE
SPECIFICATION Spec

PROPERTY DriftWarnedWhenSkewHigh
\* With every registration made and every peer removed, nothing is left to
\* run: the prober and the monitors are idle.
CHECK_DEADLOCK FALSE

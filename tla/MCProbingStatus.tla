--------------------------- MODULE MCProbingStatus ---------------------------
(* Small instances of ProbingStatus for TLC.                                *)
EXTENDS ProbingStatus, TLC

CONSTANTS p1, p2, a1, e1

MCPeers == {p1, p2}
MCOnePeer == {p1}
(* The peers are interchangeable model values.                            *)
MCPeerSymmetry == Permutations(MCPeers)
MCAddrs == {a1}
MCErrs == {e1}
MCRTTs == {1}
(* Clock differences within and above time.Second.                          *)
MCSkews == {0, 2}
(* One clock difference within time.Second, for the runs whose properties *)
(* do not look at the drift check.                                        *)
MCSmallSkew == {0}
(* Clock differences below -time.Second, within it and above it.            *)
MCSignedSkews == {-2, 0, 2}
=============================================================================

CONSTANTS
    s1 = s1
    s2 = s2
    Secrets <- MCSecrets
SPECIFICATION Spec
CHECK_DEADLOCK FALSE
INVARIANT SinglePasswordFlagAccepted

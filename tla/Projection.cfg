SPECIFICATION FairSpec
CONSTANTS
    a = a  b = b  n = n  m = m  p = p  q = q
    Projectors = {p, q}
    LockOrder <- MCLockOrder
    Names = {n, m}
    Setups <- MCSetups
    MaxCheckpoints = 3
    MaxApplied = 2
    MaxFaults = 1
INVARIANTS WellFormed AppliedExactly ReachedMeansApplied
PROPERTIES Progress
CHECK_DEADLOCK FALSE

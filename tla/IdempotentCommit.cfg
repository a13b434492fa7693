CONSTANTS
    w1 = w1  k1 = k1  f1 = f1
    Keys = {k1, k2}
    Fingerprints = {f1, f2}
    NoFingerprint = NoFingerprint
    MaxEntries = 1
    Workers = {w1, w2}
    MaxAttempts = 2
    MaxRenewals = 1
    MaxFaults = 2
SPECIFICATION MCFairSpec
CHECK_DEADLOCK FALSE
INVARIANTS WellFormed AtMostOneEffect AnswersAreCommitted CommitterOwnsKey
PROPERTIES RecordsKept ImplementsExactlyOnce EveryCallSettles

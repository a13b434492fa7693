\* Two overlapping deliveries of one key.
CONSTANTS
    w1 = w1  k1 = k1  f1 = f1
    Keys = {k1}
    Fingerprints = {f1}
    NoFingerprint = NoFingerprint
    MaxEntries = 1
    Workers = {w1, w2}
    MaxAttempts = 2
    MaxRenewals = 1
    MaxFaults = 2
SPECIFICATION Spec
CHECK_DEADLOCK FALSE
SYMMETRY WorkerSymmetry
INVARIANTS CompletionHasClaim

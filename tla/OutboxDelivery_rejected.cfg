\* A batch whose tail is behind its source head once its receipts are evicted.
SPECIFICATION Spec
CONSTANTS
    Sources = {a, b}
    MaxCommits = 2
    MaxSize = 1
    MaxDeliveryAttempts = 1
    MaxRetained = 1
    MaxRecords = 2
    MaxSources = 2
    BatchSize = 2
    MaxVersion = 2
    MaxEvents = 3
    MaxFaults = 1
SYMMETRY SourceSymmetry
INVARIANTS RejectedAddChangesNothing
CHECK_DEADLOCK FALSE

SPECIFICATION FairSpec
CONSTANTS
    Sources = {a, b}
    MaxCommits = 2
    MaxSize = 2
    MaxEvents = 3
    MaxDeliveryAttempts = 2
    MaxRetained = 1
    MaxRecords = 2
    MaxSources = 2
    BatchSize = 2
    MaxVersion = 2
    MaxFaults = 1
INVARIANTS WellFormed NoneLostOrBuried ChainsSound
PROPERTIES OnceWithoutFaults EveryEventSettles
CHECK_DEADLOCK FALSE

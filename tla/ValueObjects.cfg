SPECIFICATION Spec
CONSTANTS
    None = None
    Heaps <- MCHeaps
    Ignored = {"b"}
    MaxDataDepth = 1  MaxDataNodes = 3  MaxDataProperties = 5
INVARIANTS WellFormed WalksExact
PROPERTIES ValuesSound
CHECK_DEADLOCK FALSE

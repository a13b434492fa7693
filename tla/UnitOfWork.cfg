SPECIFICATION FairSpec
CONSTANTS
    r1 = r1  r2 = r2  u1 = u1  u2 = u2  x = x
    Runs = {r1, r2}
    Units = {u1, u2}
    Setups <- MCSetups
    Ids = {x}
    MaxAttempts = 2
INVARIANTS WellFormed OutboxExact OutcomesTruthful
PROPERTIES DeletedIsFinal RunsSettle
CHECK_DEADLOCK FALSE

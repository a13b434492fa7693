SPECIFICATION FairSpec
CONSTANTS
    w1 = w1  w2 = w2  a1 = a1  a2 = a2
    Writers = {w1, w2}
    Addresses = {a1, a2}
    Setups <- MCSetups
INVARIANTS WellFormed StatesFaithful LoadsHonest
PROPERTIES LoadsSettle
CHECK_DEADLOCK FALSE

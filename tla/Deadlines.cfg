SPECIFICATION FairSpec
CONSTANTS
    a = a  b = b  loop = loop  cron = cron
    Addresses = {a, b}
    Callers = {loop, cron}
    Setups <- MCSetups
    MaxSchedules = 3
INVARIANTS WellFormed HandledExactly
PROPERTIES Progress
CHECK_DEADLOCK FALSE

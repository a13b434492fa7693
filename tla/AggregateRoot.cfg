SPECIFICATION Spec
CONSTANTS
    i1 = i1  i2 = i2  p = p
    Instances = {i1, i2}
    Setups <- MCSetups
INVARIANTS TypeOK UpdatesKept InStep
CHECK_DEADLOCK FALSE

SPECIFICATION Spec
CONSTANTS
    m1 = m1  m2 = m2  a = a  b = b  c = c  go = go  back = back
    Pure = Pure  None = None  Bad = Bad
    Contexts = {0, 1}
    Machines = {m1, m2}
    Setups <- MCSetups
INVARIANTS MachinesSound AnalysisSound
PROPERTIES FollowsDefinition
CHECK_DEADLOCK FALSE

SPECIFICATION Spec
CONSTANTS
    Pids = {p1, p2}
    None = None
    MaxFaults = 0
INVARIANTS
    StartServes
CHECK_DEADLOCK FALSE

SPECIFICATION Spec
CONSTANTS
    Daemons = {d1, d2}
    Starts <- MCStarts
    Depth = 2
    SUPL_GROUPS_MAX = 1
    MaxStarts = 2
    MaxFaults = 1
    MaxChanges = 1
INVARIANTS ServesAsConfigured
PROPERTIES StartServes
CHECK_DEADLOCK FALSE

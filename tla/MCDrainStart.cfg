CONSTANTS
    r1 = r1
    r2 = r2
    Requests = {r1, r2}
SPECIFICATION DrainSpec
PROPERTIES NoRunAfterDrain
CHECK_DEADLOCK FALSE

CONSTANTS
    Handles = {c1, c2}
    Ids = {i1, i2}
    Reentered = {c1}
    MaxDepth = 2
SPECIFICATION Spec
INVARIANT OneExecutionAtATime
CHECK_DEADLOCK FALSE

CONSTANTS
    Handles = {c1, c2, c3}
    Reentered = {c3}
    Ids = {i1, i2}
    MaxDepth = 3
SPECIFICATION Spec
INVARIANTS TypeOK RegistryOfLive ExecutingWhileCalled NobodyLeftExecuting
PROPERTIES TransitionsAreLegal ImplementsComponentLife
CHECK_DEADLOCK FALSE

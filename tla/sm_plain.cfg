CONSTANTS
    MaxStates = 2
    MaxTransitions = 2
    TransNames = {go, back}
    GuardedNames = {go}
    Holders = {h1}
    MaxDepth = 2
    MaxVersion = 3
    MaxCount = 1
SPECIFICATION Spec
INVARIANTS TypeOK IndicesAreOfAddedStates VerifiesUntilFirstEntered
PROPERTIES ImplementsLockableMachine
CHECK_DEADLOCK FALSE

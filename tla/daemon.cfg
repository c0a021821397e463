CONSTANTS
    Daemons = {d1, d2}
    Clients = {c1, c2}
    None = None
    Empty = Empty
    Backlog = 2
SPECIFICATION FairSpec
INVARIANT FilesAreTheDaemons
PROPERTIES StopsOnSignal ClientsAnswered
CHECK_DEADLOCK FALSE

CONSTANTS
    Sockets = {s1, s2}
    NoSocket = NoSocket
    MaxRetries = 3
    MaxTimers = 1
    MaxRequests = 2
SPECIFICATION FairSpec
INVARIANTS TypeOK PendingIsOpen NotSentTwice NoSessionWithoutSocket QueueIsServed
PROPERTY ReconnectsOrGivesUp
CHECK_DEADLOCK FALSE

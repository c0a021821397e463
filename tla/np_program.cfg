CONSTANTS
    Peers = {p1, p2, p3}
    NoPeer = NoPeer
    NetMaxClients = 2
    MaxFd = 4
    Backlog = 2
    Hosts = {"config", "interactive", "embedded"}
SPECIFICATION FairSpec
INVARIANTS SocketsAccounted SlotsAreAnnounced DisconnectsOnlyTheGone NoUseAfterCleanup
PROPERTIES HandlersToldInOrder ArrivalsAnswered DataReceived
CHECK_DEADLOCK FALSE

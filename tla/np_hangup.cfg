CONSTANTS
    Peers = {p1}
    NoPeer = NoPeer
    NetMaxClients = 2
    MaxFd = 4
    Backlog = 1
    Hosts = {"config"}
SPECIFICATION FairSpec
PROPERTY HangupsAreRemoved
CHECK_DEADLOCK FALSE

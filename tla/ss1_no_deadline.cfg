CHECK_DEADLOCK FALSE
SPECIFICATION FairSpec
CONSTANTS
    Peers = {a}
    NoPeer = NoPeer
    FailingPeers = {a}
    MaxConn = 1
    MaxSecurityEvents = 1
    UnpairTries = 1
PROPERTIES
    ConnectionResolves

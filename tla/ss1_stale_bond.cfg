CHECK_DEADLOCK FALSE
SPECIFICATION Spec
CONSTANTS
    Peers = {a, b}
    NoPeer = NoPeer
    FailingPeers = {a, b}
    MaxConn = 2
    MaxSecurityEvents = 1
    UnpairTries = 6
INVARIANTS
    StaleBondsCleared

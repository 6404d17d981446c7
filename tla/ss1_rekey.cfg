CHECK_DEADLOCK FALSE
SPECIFICATION Spec
CONSTANTS
    Peers = {a}
    NoPeer = NoPeer
    FailingPeers = {a}
    MaxConn = 2
    MaxSecurityEvents = 2
    UnpairTries = 1
INVARIANTS
    AuthIsEarned

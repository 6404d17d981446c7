CHECK_DEADLOCK FALSE
SPECIFICATION Spec
CONSTANTS
    Peers = {a}
    NoPeer = NoPeer
    FailingPeers = {a}
    MaxConn = 3
    MaxSecurityEvents = 1
    UnpairTries = 1
INVARIANTS
    ResetDoneBeforeAdvertising

CHECK_DEADLOCK FALSE
SPECIFICATION Spec
CONSTANTS
    Peers = {a, b}
    NoPeer = NoPeer
    FailingPeers = {a, b}
    MaxConn = 2
    MaxSecurityEvents = 1
    UnpairTries = 2
SYMMETRY Symmetry
INVARIANTS
    TypeOK
    CountMatchesTable
    SlotsMirrorLinks
    AuthIsEarned
    UnauthenticatedIsTimed
    TableMirrorsLinks
    OneUsableLinkPerPeer
    QuietPeriod
    AdvertisingIsOwed
    RebootWaitsForLinks
    LastFailedBondHandled
PROPERTIES
    NoNewLinkOnDirtyController
    TableSpec

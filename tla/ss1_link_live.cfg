CHECK_DEADLOCK FALSE
SPECIFICATION FairSpec
CONSTANTS
    Peers = {a, b}
    NoPeer = NoPeer
    FailingPeers = {a}
    MaxConn = 2
    MaxSecurityEvents = 1
    UnpairTries = 1
PROPERTIES
    EncryptedLinkResolves
    AdvertisingResumes
    RebootHappens

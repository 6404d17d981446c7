SPECIFICATION FairSpec
CONSTANTS
    MaxConn = 1
    Releases = {1}
    MaxSecurityEvents = 1
PROPERTY SubscriptionsRecreated
CHECK_DEADLOCK FALSE

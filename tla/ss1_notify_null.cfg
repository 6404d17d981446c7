SPECIFICATION Spec
CONSTANTS
    MaxConn = 3
PROPERTIES
    LockedUntilAuthenticated

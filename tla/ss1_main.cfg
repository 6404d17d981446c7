SPECIFICATION MCSpec
CONSTANTS
    MaxConn = 3
    SAMPLE_PERIOD = 4
    NOTIFY_PERIOD = 8
    AUX_TX_PERIOD = 8
    BUTTON_DEBOUNCE = 2
    AVG_WINDOW = 3
    FAKE_LOW = 2400
    FAKE_STEP = 5
    FAKE_HIGH = 2405
    MaxPass = 1
    SeqNumbers = 4
    Environments <- BothEnvironments
INVARIANTS
    AllTypesOK
    NobodyMissed
    PublishedIsAccounted
    MaintenanceIsKept
PROPERTIES
    PacketsAreRight
    BouncingIsAnswered

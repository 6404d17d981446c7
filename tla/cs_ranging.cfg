SPECIFICATION MCSpec
CONSTANTS
    ProcedureCounters = 8
    RangingCounters = 4
    MaxSubevents = 2
    Modes <- AllModes
    Peers <- ThreePeers
    DE_SLIDING_WINDOW_SIZE = 3
    Distances = {2, 10}
    MaxAp = 2
    ToneChannels = {1, 2}
    channel_map = {1, 2}
    TONE_QI_OK_TONE_COUNT_THRESHOLD = 2
    StepPairs <- SomePairs
    MaxSteps = 3
INVARIANTS
    AllTypesOK
    PairedSteps
    RangingIsEquipped
    DistanceIsRobust
    ReportIsGenuine
PROPERTIES
    RangingGoesOn

SPECIFICATION AllSpec
CONSTANTS
    ProcedureCounters = 2
    Pieces = 2
    Outcomes <- SomeOutcomes
    HalfTurn = 4
    Inputs <- SomeInputs
    Slopes <- SomeSlopes
INVARIANTS
    SampleTypeOK
    
    EstimateIsRight
PROPERTIES
    EstimatesGoOn
CHECK_DEADLOCK FALSE

SPECIFICATION FairSpec
CONSTANTS
    Invokes = {"i1", "i2"}
    MaxEvents = 1
    Policies <- MCPolicies
INVARIANTS
    StopIsFinal
    AnswerTruthful
    RecoveryTruthful
PROPERTIES
    StartAnswered
CHECK_DEADLOCK FALSE

SPECIFICATION Spec
CONSTANTS
    Configs <- MCConfigs
    Commands = {"start"}
    Burst = 1
    Limits <- MCLimits
INVARIANT RebootReplays
CHECK_DEADLOCK FALSE

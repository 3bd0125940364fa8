SPECIFICATION FairSpec
CONSTANTS
    Configs <- MCConfigs
    Commands = {"start", "stop", "install", "uninstall", "startOs", "stopOs", "restartOs"}
    Burst = 1
    Limits <- MCLimits
INVARIANTS
    ServiceFollowsUser
    OptOutRespected
    RestartReplaces
PROPERTIES
    JobsReturn
CHECK_DEADLOCK FALSE

CONSTANTS
    Platform = "android"
    BootConsent = TRUE
    StopReasons <- MCPauses
    NativeEvents = {"timeout"}
    MaxGen = 1
    MaxBoots = 0
SPECIFICATION Spec
INVARIANT RestartNotBlocked

CONSTANTS
    Platform = "desktop"
    BootConsent = TRUE
    StopReasons <- MCPauses
    NativeEvents = {"timeout"}
    MaxGen = 2
    MaxBoots = 0
SPECIFICATION Spec
INVARIANT TimeoutPreservesDesired

CONSTANTS
    Platform = "desktop"
    BootConsent = TRUE
    StopReasons = {"UserStop"}
    NativeEvents = {"timeout"}
    MaxGen = 2
    MaxBoots = 1
SPECIFICATION FairSpec
INVARIANTS
    TokenMeansService
    BeliefAgrees
    ReasonIsOwn
    ReasonLostOnlyByOverwrite
    StopSticks
    CallbackBeforeIdle
PROPERTIES
    StopDrains
    ImplementsSingleService

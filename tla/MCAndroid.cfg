CONSTANTS
    Platform = "android"
    BootConsent = TRUE
    StopReasons = {}
    NativeEvents = {"notificationStop"}
    MaxGen = 2
    MaxBoots = 0
SPECIFICATION Spec
PROPERTIES
    RefinesSingleService

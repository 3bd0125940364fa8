\* The status document on both mobile platforms.
CONSTANTS
    Platforms = {"android", "ios"}
    Refusals <- MCRefusals
    MaxEvents = 7
SPECIFICATION Spec
INVARIANTS
    TimeoutSurfaces
    
    ActiveAccounted
CHECK_DEADLOCK FALSE

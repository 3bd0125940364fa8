SPECIFICATION FairSpec
CONSTANTS
    c1 = c1
    c2 = c2
    Calls <- MCCalls
    Loads <- MCLoads
    EventCap = 1
PROPERTIES
    SlotSequential
CHECK_DEADLOCK FALSE

CONSTANTS
    Savers = {"actor"}
    Loaders = {"status", "other"}
    Value = {"idle", "run"}
    Length <- MCLength
    Inode = {1, 2, 3, 4}
    Daemons = {"d1", "d2", "d3"}
    Networks = {"wifi", "cellular"}
    Debounce = 2
    Throttle = 4
    Slack = 1
    MaxChanges = 3
    Calls = {"c1"}
    CallTaps = {"t1"}
    MaxRings = 2
    MaxActs = 2
    Chats = {"a"}
    ChatTaps = {"t1", "t2"}
    PhoneCalls = {"c1", "c2"}
    MaxPhoneRings = 1
SPECIFICATION BesideSpec
INVARIANTS
    StaleNeverBlocks
    AudioRestored
    CoreHearsOnce
PROPERTIES
    ImplementsCell
    SettledIsFired
    TimeoutSparesFresh
    ClearsChat
CHECK_DEADLOCK FALSE

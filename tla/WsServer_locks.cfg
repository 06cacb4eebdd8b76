SPECIFICATION WssSpec
CONSTANTS
    WssSlots = 2
    MaxWssHandles = 2
    MaxWssRecords = 1
    MaxWssChanges = 1
    MaxWssFaults = 1
INVARIANT WssLocks
CHECK_DEADLOCK FALSE

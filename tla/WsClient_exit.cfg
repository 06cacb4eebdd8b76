SPECIFICATION WsSpec
CONSTANTS
    MaxWsRecords = 2
    MaxWsPosts = 3
    MaxWsFaults = 1
    MaxWsPings = 0
    AllowedMissingPongs = 0
CHECK_DEADLOCK FALSE
PROPERTY WsExitDrains

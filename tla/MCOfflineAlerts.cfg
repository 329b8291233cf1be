SPECIFICATION FairSpec
CONSTANTS
    Wakes = {1, 3}
    DefaultWake = 2
    BackoffWake = 8
    MinWake = 1
    Settings <- MCSettings
    Defaults <- MCDefaults
    Durable = TRUE
    MaxAge = 7
    MaxSaves = 1
    MaxRestarts = 1
INVARIANT AlertInv
PROPERTIES
    StaleIsJustified
    RepeatsAreSpaced
    DeadIsTold
    RecoveryIsTold

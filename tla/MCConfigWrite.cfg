SPECIFICATION FairSpec
CONSTANTS
    Writers = {w1, w2}
    NoWriter = NoWriter
    NoConfig = NoConfig
    room = room
    login = login
    wake = wake
    absent = absent
    v1 = v1
    v2 = v2
    Items <- MCItems
    Values <- MCValues
    Derived <- MCDerived
    Passwords <- MCPasswords
    ValidConfigs <- MCValidConfigs
    MaxWrites = 3
    MaxRestarts = 1
CHECK_DEADLOCK FALSE
INVARIANTS
    ConfigInv
    BannerTellsTheTruth
PROPERTIES
    DurableFirst
    EditsAreAnswered

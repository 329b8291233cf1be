SPECIFICATION FairSpec
CONSTANTS
    Devices = {d1, d2}
    Rooms = {r1, r2}
    NoRoom = NoRoom
    Contents = {c1, c2}
    NoContent = NoContent
    MaxFanOut = 2
    MaxVersion = 2
    MaxWrites = 1
    MaxRestarts = 1
INVARIANTS
    PollerInv
    SettledDisplaysAgree
    SettledEntryIsOfItsRoom
PROPERTIES
    CacheCatchesUp
    CacheIsABoard

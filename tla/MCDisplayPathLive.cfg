SPECIFICATION FairPathSpec
CONSTANTS
    Devices = {d1}
    Rooms = {r1}
    NoRoom = NoRoom
    Contents = {c1, c2}
    NoContent = NoContent
    MaxFanOut = 1
    MaxVersion = 2
    MaxWrites = 1
    MaxRestarts = 1
    ForcedRefresh = FALSE
    MaxDay = 1
    MaxCrashes = 1
PROPERTIES
    PanelCatchesUp

SPECIFICATION PathSpec
CONSTANTS
    Devices = {d1}
    Rooms = {r1, r2}
    NoRoom = NoRoom
    Contents = {c1, c2}
    NoContent = NoContent
    MaxFanOut = 2
    MaxVersion = 2
    MaxWrites = 1
    MaxRestarts = 1
    ForcedRefresh = TRUE
    MaxDay = 1
    MaxCrashes = 1
SYMMETRY Symmetry
INVARIANTS
    PathInv
    NotModifiedIsTrue
PROPERTIES
    PanelIsABoard

\* The model stops at the times it follows.
SPECIFICATION Spec
CONSTANTS
    MinWake = 2
    MaxWake = 100
    GridOffset = 10
    SoonWindow = 20
    BackToBackWindow = 10
    TransitionBuffer = 1
    Day = 240
    Weekend = {1}
    BusinessStart = 60
    BusinessEnd = 180
    BusinessSeconds = 20
    OffHoursSeconds = 60
    Calendars <- MCCalendars
    RoomSettings <- MCRoomSettings
    APs = {a1, a2}
    NoAP = NoAP
    Versions = {v1, v2}
    FirstVersion = v1
    DefaultWake = 20
    Ages <- MCAges
    MaxDrift = 1
    Drifts <- MCDrifts
    Touches <- MCTouches
    StartTimes <- MCStartTimes
    Watched <- MCWatched
    MaxChanges = 1
SYMMETRY Symmetry
CHECK_DEADLOCK FALSE
INVARIANTS
    WakeInv
    StatusShownOnTime
    FreshAnswerIsExpected
PROPERTIES
    FlatWakesOncePerSlot
    RoamCostsOneWake

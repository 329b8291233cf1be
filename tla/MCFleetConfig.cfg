SPECIFICATION Spec
CONSTANTS
    Devices = {d1, d2}
    Addresses = {hall}
    Labels = {door, wall}
    Offices = {north, south}
    People = {max}
    Browsers = {b1}
    Contacts <- MCContacts
    Wakes = {"flat"}
    Readable = {hall}
    Fallback = FALSE
    None = None
    Unsent = Unsent
SYMMETRY MCSymmetry
INVARIANTS
    FleetInv
    LarkAlertsHaveARoute
    EditsKeepTheRest
    LimitedStaysLimited
CHECK_DEADLOCK FALSE

SPECIFICATION FairSpec
CONSTANTS
    Names = {anna, ben}
    Admin = Admin
    Other = Other
    Founder = anna
    Limit = 1
    MaxSessions = 2
    MaxUpsets = 2
CHECK_DEADLOCK FALSE
INVARIANTS
    AccountsInv
    FullMeansProved
    ResetEndsSessions
PROPERTIES
    LastAdminStays
    HolderGetsIn

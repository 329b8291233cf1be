\* A display, two Lark recipients, a group to fall back on, Slack, one browser.
SPECIFICATION FairSpec
CONSTANTS
    anna = anna
    office = office
    NoTarget = NoTarget
    Addressees <- MCAddressees
    Slack = Slack
    Full = 2
    RiseMV = 1
    UnplugMV = 2
    DoneMV = 3
    MaxGap = 1
    Renotify = 1
    BuiltWith <- MCBuiltWith
    Thresholds <- MCThresholds
    Routes <- MCRoutes
    Browsers = {b1}
    SendTime = 2
    RequestTime = 1
    MaxUpsets = 1
INVARIANTS AlertDeliveryInv NobodyLeftOut
PROPERTIES MessagesAreDue LowIsTold

SPECIFICATION FairSpec
CONSTANTS
    s1 = s1
    s2 = s2
    b1 = b1
    b2 = b2
    None = None
    Senders <- MCSenders
    Browsers <- MCBrowsers
    MaxRequests = 3
CHECK_DEADLOCK FALSE
INVARIANTS
    TypeOK
    WaiterHoldsTx
PROPERTIES
    RelaysOneRequest
    OnlyHolderWaits

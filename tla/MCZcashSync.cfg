SPECIFICATION FairSpec
CONSTANTS
    a1 = a1  a2 = a2
    Accounts <- MCAccounts
    Birthday <- MCSameBirthday
    Regtest = FALSE
    Chunk = 2
    FirstHeight = 1
    MaxHeight = 5
    MaxRegisters = 3
    MaxFaults = 2
INVARIANTS TypeOK GapsAreOwed
PROPERTIES EventuallyScanned 
CHECK_DEADLOCK FALSE

SPECIFICATION FairSpec
CONSTANTS
    n1 = n1  n2 = n2
    c1 = c1
    Notes <- MCNotes
    Fees = {1, 2}
    Clis <- MCClis
    MaxDrafts = 2
CHECK_DEADLOCK FALSE
INVARIANTS TypeOK KeysAreNotReused
PROPERTIES ImplementsPayments SendingEnds

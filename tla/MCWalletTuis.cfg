SPECIFICATION Spec
CONSTANTS
    Zcash = Zcash  Ethereum = Ethereum
    s1 = s1  s2 = s2
    h1 = h1
    t1 = t1  t2 = t2
    Tip = Tip
    None = None
    Protocols <- MCProtocols
    MaxIndex = 1
    Picked = {}
    Tuis <- MCTuis
    Seeds <- MCOneSeed
    Heights = {}
    WritesFail = TRUE
    Resettable = FALSE
SYMMETRY MCTuiSymmetry
CHECK_DEADLOCK FALSE
INVARIANT NextIndexIsFree

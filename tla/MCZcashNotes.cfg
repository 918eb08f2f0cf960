SPECIFICATION Spec
CONSTANTS
    a1 = a1  a2 = a2
    World = World
    Accounts <- MCAccounts
    MaxTx = 3
    MaxHeight = 3
    Delta = 2
SYMMETRY MCSymmetry
CHECK_DEADLOCK FALSE
INVARIANTS TypeOK BalanceIsTrue HistoryExplainsBalance
PROPERTIES NoSelfDoubleSpend

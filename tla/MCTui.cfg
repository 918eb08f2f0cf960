SPECIFICATION Spec
CONSTANTS
    t1 = t1  t2 = t2
    p1 = p1  p2 = p2  q1 = q1
    w1 = w1  w2 = w2
    None = None
    Tuis <- MCTuis
    Fresh <- MCFresh
    Written <- MCWritten
    Passwords <- MCPasswords
    MaxDepth = 2
SYMMETRY MCSymmetry
INVARIANTS TypeOK StoredWasBackedUp 
 

SPECIFICATION Spec
CONSTANTS
    c1 = c1  c2 = c2
    a1 = a1  a2 = a2  junk = junk
    s1 = s1  s2 = s2
    p1 = p1  p2 = p2
    None = None
    Clients <- MCClients
    Artifacts <- MCArtifacts
    Parsable <- MCParsable
    Paths = {1, 2}
    Seeds <- MCSeeds
    Passwords <- MCPasswords
    MaxBoots = 2
SYMMETRY MCSymmetry
INVARIANTS TypeOK SignedWasPreviewed AckedIsStored
PROPERTY ImplementsService
CHECK_DEADLOCK FALSE

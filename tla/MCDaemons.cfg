SPECIFICATION FairSpec
CONSTANTS
    c1 = c1  c2 = c2
    None = None
    Clis <- MCClis
    Faults = {"kill", "crash", "slow"}
    MaxDaemons = 4
INVARIANTS NoOrphans OnePair
PROPERTIES StartEnds

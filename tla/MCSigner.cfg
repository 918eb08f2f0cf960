SPECIFICATION SSpec
CONSTANTS
    s1 = s1  s2 = s2
    None = None
    Seeds <- MCSeeds
    PathCount = 2
    MaxRequests = 4
    MaxRows = 4
INVARIANTS STypeOK PhoneSignsWhatItShows  RegisteredIsFresh MarkerMeansComplete

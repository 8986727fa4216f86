SPECIFICATION FairSpec
CONSTANTS
    Mutators = {m1, m2}
    Readers = {r1}
    Initers = {i1}
    Stale = 1
    AcquireMax = 0
    MaxClock = 2
    LastStart = 1
    ReadOnlyDir = FALSE
    NoLock = NoLock
    Abandoned = Abandoned
INVARIANT DocumentHolds
PROPERTIES AcquireEnds ImplementsDocument

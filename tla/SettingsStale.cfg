SPECIFICATION Spec
CONSTANTS
    Mutators = {m1, m2}
    Readers = {}
    Initers = {}
    Stale = 1
    AcquireMax = 0
    MaxClock = 2
    LastStart = 1
    ReadOnlyDir = FALSE
    NoLock = NoLock
    Abandoned = Abandoned
INVARIANT UpdatesNeverClobbered

SPECIFICATION Spec
CONSTANTS
    f1 = f1
    u1 = u1
    c1 = c1
    Fetchers <- MCFetchers
    Updaters <- MCUpdaters
    Commands <- MCCommands
    Flavors <- MCFlavors
    Base = Base
    Legacy = Legacy
    System = System
    None = None
INVARIANTS NamedIsSound SweepIsExact
PROPERTIES ActivationStands

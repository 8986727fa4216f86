CONSTANTS
    Absent = Absent
    None = None
    Main = Main
    Side = Side
    Light = Light
    Annotated = Annotated
    Code = Code
    Secret = Secret
    MaxCommits = 4
    Paths <- PathSet
    Contents <- ContentSet
    Refs <- RefSet
    Tags <- TagSet
    Rewrites <- RewriteSet
SPECIFICATION Spec
CHECK_DEADLOCK FALSE
INVARIANTS AncestryIsKept RewriteHolds
PROPERTIES CommitsImport

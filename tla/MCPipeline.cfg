SPECIFICATION Spec
CONSTANTS
    Policies <- MCPolicies
    Verbs <- MCVerbs
    Worlds <- MCWorlds
    Edits = 1
    Running = Running
    None = None
CHECK_DEADLOCK FALSE
INVARIANTS CoreIsVetted PolicyIsHonoured EndsAreTrue
PROPERTIES StagesEnd

SPECIFICATION Spec
CONSTANTS
    Procs = {p1, p2, p3}
    Mortal = {p1}
    Old = Old
    Edited = Edited
    Faulty = TRUE
    None = None
INVARIANTS ChainIntact DamageFound LogIsSound

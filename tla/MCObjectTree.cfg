\* Four objects in dynamic memory, and a fifth number that names none.
SPECIFICATION Spec
CONSTANTS
    MaxObject    = 5
    Held         = 4
    ChainLimit   = 4
    MaxTampering = 1
INVARIANTS
    TypeOK
    WellFounded
    DamageIsReal
PROPERTIES
    RefusalsChangeNothing
    ImplementsForest

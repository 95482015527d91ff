SPECIFICATION Spec
CONSTANTS
    Object = {o1, o2}
    Resource = {r1, r2, r3}
    Null = Null
INVARIANTS
    TypeOK
    OnePlace

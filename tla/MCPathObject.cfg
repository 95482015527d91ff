SPECIFICATION Spec
CONSTANTS
    a = a
    b = b
    FileName = {a, b}
    DotFile = {b}
    MaxSegments = 3
    Start <- MCStart
INVARIANTS
    TypeOK
    SanitizeIsNormal
    SanitizeKeepsPlace
    EquivalentIsSound
    OpensWhereMeant
PROPERTY
    UpLeadsToParent

SPECIFICATION Spec
CONSTANTS
    Word = 8
    MaxEnd = 9
    Count = {0, 3}
    Offset <- MCOffset
INVARIANTS
    TypeOK
    SeekLands
PROPERTY
    NotEofMeansMore

SPECIFICATION Spec
CONSTANTS
    Word = 64
    Digit = {0, 1, 3, 9, 33}
    Bases = {0, 2, 10, 16, 36}
    MaxLen = 2
INVARIANT
    NegativeExact
\* The function returns.
CHECK_DEADLOCK FALSE

SPECIFICATION FairSpec
CONSTANTS
    t1 = t1
    t2 = t2
    Threads = {t1, t2}
    Texts <- MCTexts
    LD_MAX_MAN_LEN = 3
    TMAX10 = 10
    H = 3
    LD_BIAS = 31
    LD_MAXEXP = 63
    precision = 8
    exp_width = 4
    HALF = 2
    INT_BITS = 9
    maxExponent = 15
    POWERS = 4
    DBL_MAX_10_EXP = 7
INVARIANTS
    TypeOK
    ReadsInside
    NonZeroDigit
    EndPtrBehindNumber
    DigitsAreTheNumber
    NearestDouble
    StrToDReadsNumber
PROPERTIES
    MulNearlyExact
    CallReturns
\* Every call ends.
CHECK_DEADLOCK FALSE

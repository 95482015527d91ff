SPECIFICATION Spec
CONSTANTS
    Thread = {t1, t2}
    PoolSize = 10
    M = 7
    Request = {0, 1, 2, 4}
    Value = {0, 1}
INVARIANTS
    TypeOK
    BlocksAccounted
PROPERTIES
    HeapSpec
\* A bug check stops the system.
CHECK_DEADLOCK FALSE

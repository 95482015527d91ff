SPECIFICATION Spec
CONSTANTS
    Thread = {t1, t2}
    Name = {n1}
    Handle = {h1, h2, h3}
    NoHandle = NoHandle
INVARIANTS
    TypeOK
    BuffersAccounted
    HandlesAccounted
    WriterAlone
    OpenFileExists
SYMMETRY Symmetry
\* A write through NULL stops the system.
CHECK_DEADLOCK FALSE

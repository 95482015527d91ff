SPECIFICATION Spec
CONSTANTS
    Thread = {t1}
    Name = {n1}
    Handle = {h1, h2, h3}
    NoHandle = NoHandle
INVARIANT
    RemoveClosesHandle
SYMMETRY Symmetry
\* A write through NULL stops the system.
CHECK_DEADLOCK FALSE

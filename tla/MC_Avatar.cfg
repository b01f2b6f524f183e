CONSTANTS
    Name = {n1, n2, n3}
    Proc = {p1, p2}
    Faults = TRUE
    None = None
    Miss = Miss
SPECIFICATION Spec
SYMMETRY Symmetry
INVARIANT
    TypeOK
PROPERTY
    RemovalsAreOwed

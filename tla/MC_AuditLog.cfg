CONSTANTS
    Token = {t1, t2, t3, t4}
    Device = {d1, d2}
    Slot = {k1, k2}
    None = None
SPECIFICATION Spec
SYMMETRY Symmetry
INVARIANTS
    TypeOK
    RowsKeepApart
    AuditAgrees
PROPERTIES
    ClosedStaysClosed

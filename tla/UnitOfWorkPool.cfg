SPECIFICATION Spec
CONSTANTS
    Threads = {t1, t2, t3}
    Readers = {r1, r2}
    NoThread = NoThread
    NoReader = NoReader
SYMMETRY Symmetry
INVARIANTS
    WriterExclusive
    WriterIdleClean
    PermitsConserved
PROPERTIES
    EndedByItsThread
    ImplementsPool

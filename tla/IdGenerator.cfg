SPECIFICATION IdSpec
CONSTANTS
    Threads = {t1, t2, t3}
    MaxTime = 2
    MaxIds = 3
SYMMETRY Symmetry
INVARIANTS
    Increasing
    CallsOrdered

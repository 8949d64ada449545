SPECIFICATION Spec
CONSTANTS
    Files = {f1, f2}
    NoFile = NoFile
    Other = Other
    MaxTakes = 2
    MaxExtras = 1
SYMMETRY Symmetry
CHECK_DEADLOCK FALSE
INVARIANTS
    EditsUnderLock
    LocksKept
    SavesOwnWork
    BusyIsAwaited

SPECIFICATION Spec
CONSTANTS
    Sessions = {s1, s2}
    Users = {u1, u2}
    MaxEvents = 2
SYMMETRY Symmetry
\* All events have been written and nobody has to publish another.
CHECK_DEADLOCK FALSE
INVARIANTS
    StreamInOrder
    OneWrite
    ClosedIsRemoved

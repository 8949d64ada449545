SPECIFICATION Spec
CONSTANTS
    Users = {alice, bob}
    Teams = {}
    Files = {f1}
    Threads = {t1}
    NoName = NoName
    MaxGroups = 3
SYMMETRY Symmetry
INVARIANTS
    NothingDangles
    AclJustified
    AclSufficient
PROPERTY
    RemovedWithAccess

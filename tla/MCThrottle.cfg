\* An address need not connect again: the system may stop.
SPECIFICATION Spec
CONSTANTS
    Conns = {c1, c2, c3, c4, c5}
    throttleLimit = 2
    MaxWindows = 3
INVARIANTS TypeOK PassesBounded
PROPERTY RefusalDeserved
SYMMETRY Slots
CHECK_DEADLOCK FALSE

\* Three messages, two holds one after the other, one broker crash, two ids remembered.
SPECIFICATION Spec
CONSTANTS
    Msgs = {m1, m2, m3}
    Conns = {c1, c2}
    NoConn = NoConn
    MaxCrashes = 1
    SeenLimit = 2
SYMMETRY Symmetry
INVARIANTS DeletedMailIsDelivered
PROPERTIES ImplementsMail
CHECK_DEADLOCK FALSE

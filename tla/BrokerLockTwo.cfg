\* Three broker processes started by a session; one of them may crash.
SPECIFICATION Spec
CONSTANTS
    Procs = {p1, p2, p3}
    Sessions = {s1}
    NoProc = NoProc
    MaxCrashes = 1
INVARIANTS OneBrokerPerRoot
CHECK_DEADLOCK FALSE

\* Three broker processes started by a session; two of them may crash.
SPECIFICATION Spec
CONSTANTS
    Procs = {p1, p2, p3}
    Sessions = {s1}
    NoProc = NoProc
    MaxCrashes = 2
INVARIANTS TwoOwnersOnlyByWrongReap 
PROPERTIES StaleLockGoes LoneStarterRecovers
CHECK_DEADLOCK FALSE

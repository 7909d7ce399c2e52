\* Two threads, an agent that comes, goes and stalls, and a link that does so too.
SPECIFICATION Spec
CONSTANTS
    Agents = {a1}
    Threads = {t1, t2}
    Links = {l1}
    MaxQueued = 1
INVARIANTS OrderlyViewsAreTrue NoChangeMissed
PROPERTIES FileCatchesUp
CHECK_DEADLOCK FALSE

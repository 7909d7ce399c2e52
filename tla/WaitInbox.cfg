\* Two calls, at once or one after the other, and two messages of two teammates.
SPECIFICATION Spec
CONSTANTS
    Waits = {w1, w2}
    Mates = {m1, m2}
    Messages = {x1, x2}
INVARIANTS NoMessageLost NotTakenAgain EndedHoldsNothing
PROPERTIES MessageWakesLoneWait WaitEnds
CHECK_DEADLOCK FALSE

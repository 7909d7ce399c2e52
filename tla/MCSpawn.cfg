\* A request that asks a provider first and one that hosts by itself.
SPECIFICATION MCSpec
CONSTANTS
    k1 = k1  k2 = k2
    Keys = {k1, k2}
INVARIANTS HeldIsFindable GivenUpIsStopped FallbackReclaims
PROPERTIES SpawnAnswered EndedLeavesNoState
CHECK_DEADLOCK FALSE

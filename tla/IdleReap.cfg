\* A session a provider hosts and one it does not, which sends by itself.
SPECIFICATION IdleSpec
CONSTANTS
    Sessions = {a1, a2}
    Hosted = {a1}
    Speakers = {a2}
INVARIANTS NotAskedTwice MarkMeansAsked
PROPERTIES IdleIsAsked
CHECK_DEADLOCK FALSE

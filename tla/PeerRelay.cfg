\* A relay and a spawn, a link and the one that replaces it.
SPECIFICATION Spec
CONSTANTS
    Reqs = {r1, r2}
    Relays = {r1}
    Spawns = {r2}
    Links = {l1, l2}
    NoLink = NoLink
INVARIANTS SentRequestHasOneAnswer DeadLinkHoldsNoRequest
PROPERTIES ImplementsRequests HostKeepsNewerLink SentRequestIsAnswered
CHECK_DEADLOCK FALSE

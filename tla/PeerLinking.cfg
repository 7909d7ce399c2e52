\* One add by the smaller host, two by the other under two labels; all troubles.
SPECIFICATION Spec
CONSTANTS
    SmallTries = {a1}
    LargeTries = {b1, b2}
    OtherLabel = {b2}
    Troubles = {"overlap", "exit", "remove", "restart"}
    NoTry = NoTry
INVARIANTS OwnerIsKnown AddsSettle OneSideKeepsTunnel
PROPERTIES ClosedTunnelIsSilent
CHECK_DEADLOCK FALSE

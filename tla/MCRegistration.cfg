\* One caller thread (it serves one request after another) and three holds:
\* a fork's restart and a main that comes under the same id.
SPECIFICATION Spec
CONSTANTS
    a1 = a1  a2 = a2
    c1 = c1  c2 = c2  c3 = c3  c4 = c4
    o1 = o1  o2 = o2
    t1 = t1  t2 = t2
    NoConn = NoConn  NoOwner = NoOwner  NoToken = NoToken
    Agents = {a1, a2}
    Conns = {c1, c3, c4}
    Callers = {w1}
    Owners = {o1, o2}
    Publishers = {c1}
    Tokens = {t1, t2}
    IdOf <- MCIdOf
    RoleOf <- MCRoleOf
    TokenOf <- MCTokenOf
    OwnerOf <- MCOwnerOf
INVARIANTS HolderIsServed OneRegistrationPerSession SecretIsTheHolders
PROPERTIES ReleasedForCause
CHECK_DEADLOCK FALSE

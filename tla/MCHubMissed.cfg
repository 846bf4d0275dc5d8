CONSTANTS
    c1 = c1
    c2 = c2
    u1 = u1
    w1 = w1
    p1 = p1
    Client = {c1, c2}
    User = {u1}
    Room = {w1}
    Publisher = {p1}
    BufSize = 1
SPECIFICATION HubSpec
SYMMETRY Perms
INVARIANTS AllConnectionsReached
CHECK_DEADLOCK FALSE

CONSTANTS
    c1 = c1
    c2 = c2
    u1 = u1
    w1 = w1
    w2 = w2
    p1 = p1
    Client = {c1, c2}
    User = {u1}
    Room = {w1, w2}
    Publisher = {p1}
    BufSize = 1
    Agents = {agent1, agent2}
    agent1 = agent1
    agent2 = agent2
    NoAgent = none
    MaxDrops = 3
    Convs = {k1, k2}
    k1 = k1
    k2 = k2
    NoConv = none
    MaxMsgs = 2
    PageLimit = 1
    MaxAsked = 2
    MaxVisits = 2
    MaxFails = 1
    MaxProbes = 2
    MaxPolls = 2
    MaxFailures = 1
    Spaces = {s1, s2}
    s1 = s1
    s2 = s2
    NoSpace = nospace
    MaxConfigEdits = 1
    MaxLosses = 1
    MaxStarts = 1
SPECIFICATION EndsSpec
INVARIANTS RoomsAndWatches
PROPERTIES GoneIsCleaned LinkComesUp ViewSettles  WatchSettles
CHECK_DEADLOCK FALSE

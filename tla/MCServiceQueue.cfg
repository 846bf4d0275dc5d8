CONSTANTS
    a1 = a1
    i1 = i1
    i2 = i2
    i3 = i3
    r1 = r1
    s1 = s1
    s2 = s2
    sw = sw
    Agent = {a1}
    Issue = {i1, i2, i3}
    Runtime = {r1}
    Session = {s1, s2, sw}
    Sweeper = sw
    Priority = {0}
    MaxTasks = 3
    MaxAgentTasks = {1}
    Kinds = {"create", "assign", "member", "edit", "comment", "claim", "cancel"}
SPECIFICATION ServiceSpec
SYMMETRY Perms
CONSTRAINT OneByOne
INVARIANTS OvershootBounded QueueFollowsAssignee

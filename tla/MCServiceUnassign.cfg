CONSTANTS
    a1 = a1
    i1 = i1
    r1 = r1
    s1 = s1
    sw = sw
    Agent = {a1}
    Issue = {i1}
    Runtime = {r1}
    Session = {s1, sw}
    Sweeper = sw
    Priority = {0}
    MaxTasks = 2
    MaxAgentTasks = {1}
    Kinds = {"create", "unassign"}
SPECIFICATION ServiceSpec
SYMMETRY Perms
INVARIANTS QueueFollowsAssignee

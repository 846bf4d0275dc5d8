CONSTANTS
    a1 = a1
    a2 = a2
    i1 = i1
    r1 = r1
    s1 = s1
    sw = sw
    Agent = {a1, a2}
    Issue = {i1}
    Runtime = {r1}
    Session = {s1, sw}
    Sweeper = sw
    Priority = {0}
    MaxTasks = 2
    MaxAgentTasks = {1}
    Kinds = {"claim", "start", "complete", "fail", "cancel", "assign", "member", "unassign", "edit", "create", "delete", "comment", "archive", "restore", "configure", "deregister", "stale", "late", "abort", "drop"}
SPECIFICATION ServiceSpec
SYMMETRY Perms
INVARIANTS ServiceTypeOK
PROPERTIES TableSpec

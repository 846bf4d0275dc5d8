CONSTANTS
    a1 = a1  a2 = a2
    i1 = i1  i2 = i2
    r1 = r1
    s1 = s1  s2 = s2
    Agent = {a1, a2}
    Issue = {i1, i2}
    Runtime = {r1}
    Session = {s1, s2}
    Priority = {0}
    MaxTasks = 3
SPECIFICATION TableSpec
SYMMETRY Perms
INVARIANTS TableTypeOK SerialPerIssue OnePendingPerIssue SnapshotStaysValid
PROPERTIES NeverGoesBack FormsLanes

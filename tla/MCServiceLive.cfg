CONSTANTS
    a1 = a1
    i1 = i1
    i2 = i2
    r1 = r1
    r2 = r2
    s1 = s1
    sw = sw
    Agent = {a1}
    Issue = {i1, i2}
    Runtime = {r1, r2}
    Session = {s1, sw}
    Sweeper = sw
    Priority = {0}
    MaxTasks = 2
    MaxAgentTasks = {1}
    Kinds = {"create", "comment", "claim", "start", "complete", "late", "drop", "configure"}
SPECIFICATION FairService
PROPERTIES ActiveEnds 

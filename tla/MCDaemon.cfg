CONSTANTS
    a1 = a1
    r1 = r1
    d = d
    i1 = i1
    Agent = {a1}
    Issue = {i1}
    Runtime = {r1}
    Session = {d}
    Poller = d
    Priority = {0}
    MaxTasks = 2
    MaxSlots = 2
    OwnRuntime = {r1}
    MaxPings = 2
    MaxUpdates = 2
SPECIFICATION MachineSpec
INVARIANTS MachineTypeOK SlotsAccounted ReportsTrue HandedOutOnce UpdatesOneByOne
PROPERTIES CancelStopsAgent VerdictStands UpdateSettles

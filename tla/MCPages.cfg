CONSTANTS
    NAgents = 2
    s = s
    Skills = {s}
    ListTabs = {"triggers"}
    MaxAgentCalls = 2
    MaxAgentEdits = 2
    NSkills = 2
    p = p
    Paths = {p}
    MaxSkillCalls = 2
    MaxSkillEdits = 1
    NHomes = 2
    MaxSettingCalls = 2
    MaxSettingEdits = 2
    ann = ann
    bob = bob
    cid = cid
    People = {ann, bob, cid}
    Me = ann
    MaxMemberCalls = 2
    MaxMemberWrites = 2
    MaxLog = 3
    MaxTurns = 2
    PageSize = 2
    n1 = n1
    n2 = n2
    Notes = {n1, n2}
    MaxTyped = 2
    MaxModalCalls = 2
    MaxAgentChanges = 2
    Emails = {11, 12}
    MaxAttempts = 2
    Production = FALSE
    MaxCodes = 2
    MaxSignIns = 3
    NRuntimes = 2
    MaxFetches = 2
    MaxRuntimeWrites = 3
    f1 = f1
    f2 = f2
    Pictures = {f1}
    Papers = {f2}
    MaxPicks = 1
    MaxKeys = 1
    MaxSaves = 2
SPECIFICATION PagesSpec
INVARIANTS  ToolsKeepOrder OwnersGuarded  SignInsAreWhole
CHECK_DEADLOCK FALSE

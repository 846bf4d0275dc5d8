CONSTANTS
    space1 = space1
    space2 = space2
    i1 = i1
    Ws = {space1, space2}
    NoWs = none
    MaxPending = 2
    Id = {space1, space2}
    NoId = none
    Slots = {1, 2}
    Issues = {i1}
    FieldNames = {"status"}
    Values = {0, 1}
    MaxIssueEvents = 2
    MaxIssueCalls = 2
    MaxComments = 2
    MaxCommentEvents = 1
    MaxCommentCalls = 2
    MaxMinted = 3
    MaxMarkEvents = 1
    MaxMarkCalls = 2
    MaxItems = 2
    SharedItems = 2
    MaxInboxCalls = 2
    MaxTasks = 2
    MaxSeq = 2
    MaxCardEvents = 2
    MaxCardCalls = 1
    NIssues = 3
    Columns = {"todo", "done"}
    Dims = {"assignee"}
    MaxDrops = 2
    MaxViewEdits = 3
SPECIFICATION WebSpec
INVARIANTS  OneSocket   ThreadsConverge MarksConverge InboxConverges CardFollows 
CHECK_DEADLOCK FALSE

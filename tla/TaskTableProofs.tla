-------------------------- MODULE TaskTableProofs --------------------------
(* Proofs about TaskTable: its type, and per-issue serialization. *)
EXTENDS TaskTable, TLAPS

\* The status a row may move to in one step, with the columns that stay.
RowStep(x, y) ==
    /\ y.agent = x.agent /\ y.runtime = x.runtime
    /\ y.issue = x.issue /\ y.prio = x.prio

\* What every statement but the insert and the dispatch does to the table: no
\* row appears, and each row keeps its status, is started, or leaves Open.
QuietStep ==
    /\ DOMAIN task' = DOMAIN task
    /\ \A t \in Rows :
          /\ RowStep(task[t], task'[t])
          /\ \/ task'[t].status = task[t].status
             \/ task[t].status = "dispatched" /\ task'[t].status = "running"
             \/ task[t].status \in Open /\ task'[t].status \notin Open
             \/ task'[t].status = "deleted"

LEMMA RowsRange == ASSUME TableTypeOK
                   PROVE  /\ Len(task) \in Nat
                          /\ Rows = 1..Len(task)
                          /\ \A t \in Rows : task[t] \in Row
  BY DEF TableTypeOK, Rows

LEMMA SeqOfRows == ASSUME NEW n \in Nat, NEW f \in [1..n -> Row]
                   PROVE  f \in Seq(Row) /\ Len(f) = n
  BY Z3

LEMMA SetStatusType ==
  ASSUME TableTypeOK, NEW S, NEW st \in Status, SetStatus(S, st)
  PROVE  /\ task' \in Seq(Row)
         /\ Len(task') = Len(task)
         /\ DOMAIN task' = DOMAIN task
         /\ \A t \in Rows : /\ RowStep(task[t], task'[t])
                            /\ task'[t].status = IF t \in S THEN st ELSE task[t].status
  <1> USE RowsRange
  <1>1. \A t \in Rows : [task[t] EXCEPT !.status = st] \in Row
    BY DEF Row
  <1>2. task' \in [1..Len(task) -> Row]
    BY <1>1 DEF SetStatus
  <1>3. task' \in Seq(Row) /\ Len(task') = Len(task)
    BY <1>2, SeqOfRows
  <1>4. \A t \in Rows : RowStep(task[t], task'[t])
    BY DEF SetStatus, RowStep, Row
  <1>5. \A t \in Rows : task'[t].status = IF t \in S THEN st ELSE task[t].status
    BY DEF SetStatus, Row
  <1>6. QED BY <1>2, <1>3, <1>4, <1>5

\* A statement that only cancels, fails, completes or deletes rows.
LEMMA SetStatusQuiet ==
  ASSUME TableTypeOK, NEW S, NEW st \in Status \ Open, SetStatus(S, st),
         (\A t \in S : task[t].status \in Open) \/ st = "deleted"
  PROVE  task' \in Seq(Row) /\ Len(task') = Len(task) /\ QuietStep
  <1>1. st \in Status /\ st \notin Open
    OBVIOUS
  <1> QED BY <1>1, SetStatusType DEF QuietStep, Rows

LEMMA ExceptRow ==
  ASSUME TableTypeOK, NEW t \in Rows, NEW st \in Status, NEW od \in BOOLEAN,
         task' = [task EXCEPT ![t].status = st, ![t].overdue = od]
  PROVE  /\ task' \in Seq(Row)
         /\ Len(task') = Len(task)
         /\ DOMAIN task' = DOMAIN task
         /\ \A u \in Rows : /\ RowStep(task[u], task'[u])
                            /\ task'[u].status = IF u = t THEN st ELSE task[u].status
  <1> USE RowsRange
  <1> DEFINE new == [[task[t] EXCEPT !.status = st] EXCEPT !.overdue = od]
  <1>1. new \in Row /\ RowStep(task[t], new) /\ new.status = st
    BY DEF Row, RowStep
  <1>2. task' = [task EXCEPT ![t] = new]
    BY DEF Row
  <1> HIDE DEF new
  <1>3. task' \in [1..Len(task) -> Row]
    BY <1>1, <1>2
  <1>4. task' \in Seq(Row) /\ Len(task') = Len(task)
    BY <1>3, SeqOfRows
  <1>5. \A u \in Rows : task'[u] = IF u = t THEN new ELSE task[u]
    BY <1>2
  <1>6. \A u \in Rows : RowStep(task[u], task'[u])
    BY <1>1, <1>5 DEF RowStep
  <1> QED BY <1>1, <1>3, <1>4, <1>5, <1>6

\* Every step of the table is one of four kinds.
ScanShrinks == /\ scan' \in [Session -> [on: BOOLEAN, rows: SUBSET (1..MaxTasks)]]
               /\ \A s \in Session : scan'[s].rows \subseteq scan[s].rows

LEMMA ScanReset == ASSUME TableTypeOK, NEW s \in Session,
                          scan' = [scan EXCEPT ![s] = NoScan]
                   PROVE  ScanShrinks
  BY DEF ScanShrinks, TableTypeOK, NoScan

LEMMA ScanKept == ASSUME TableTypeOK, UNCHANGED scan PROVE ScanShrinks
  BY DEF ScanShrinks, TableTypeOK

InsertStep == \E a \in Agent, r \in Runtime, i \in Issue, p \in Priority :
                  CreateAgentTask(a, r, i, p)
SnapshotStep == \E s \in Session, a \in Agent : ClaimSnapshot(s, a)
DispatchStep == \E s \in Session, t \in Rows : ClaimLock(s, t)
QuietTyped == /\ task' \in Seq(Row) /\ Len(task') = Len(task)
              /\ QuietStep
              /\ ScanShrinks

LEMMA StepKinds ==
  ASSUME TableInv, [TableNext]_tableVars
  PROVE  InsertStep \/ SnapshotStep \/ DispatchStep \/ QuietTyped
  <1> TableTypeOK
    BY DEF TableInv
  <1> USE RowsRange
  <1>0. ASSUME UNCHANGED task PROVE task' \in Seq(Row) /\ Len(task') = Len(task) /\ QuietStep
    BY <1>0 DEF QuietStep, RowStep, Rows, TableTypeOK
  <1>1. ASSUME NEW S, NEW st \in {"completed", "failed", "cancelled", "deleted"},
               (\A t \in S : task[t].status \in Open) \/ st = "deleted",
               SetStatus(S, st), UNCHANGED scan
        PROVE  QuietTyped
    <2>1. st \in Status \ Open
      BY DEF Status, Open, Pending, Active
    <2> QED BY <1>1, <2>1, SetStatusQuiet, ScanKept DEF QuietTyped
  <1>2. ASSUME NEW s \in Session, ClaimNoRows(s) \/ Disconnect(s) PROVE QuietTyped
    BY <1>0, <1>2, ScanReset DEF QuietTyped, ClaimNoRows, Disconnect
  <1>3. ASSUME NEW t \in Rows, StartAgentTask(t) PROVE QuietTyped
    <2>1. "running" \in Status /\ FALSE \in BOOLEAN /\ task[t].status = "dispatched"
      BY <1>3 DEF Status, StartAgentTask
    <2>2. task' = [task EXCEPT ![t].status = "running", ![t].overdue = FALSE]
      BY <1>3 DEF StartAgentTask
    <2>3. /\ task' \in Seq(Row) /\ Len(task') = Len(task)
          /\ DOMAIN task' = DOMAIN task
          /\ \A u \in Rows : /\ RowStep(task[u], task'[u])
                             /\ task'[u].status = IF u = t THEN "running" ELSE task[u].status
      BY <2>1, <2>2, ExceptRow
    <2>4. QuietStep
      BY <2>1, <2>3 DEF QuietStep, Rows
    <2> QED BY <1>3, <2>3, <2>4, ScanKept DEF QuietTyped, StartAgentTask
  <1>4. ASSUME NEW t \in Rows, DeadlinePasses(t) PROVE QuietTyped
    <2> DEFINE st == task[t].status
    <2>1. st \in Status /\ TRUE \in BOOLEAN
      BY DEF Row
    <2>2. task' = [task EXCEPT ![t].status = st, ![t].overdue = TRUE]
      <3>1. [task[t] EXCEPT !.overdue = TRUE]
               = [[task[t] EXCEPT !.status = task[t].status] EXCEPT !.overdue = TRUE]
        BY DEF Row
      <3> QED BY <1>4, <3>1 DEF DeadlinePasses
    <2> HIDE DEF st
    <2>3. /\ task' \in Seq(Row) /\ Len(task') = Len(task)
          /\ DOMAIN task' = DOMAIN task
          /\ \A u \in Rows : /\ RowStep(task[u], task'[u])
                             /\ task'[u].status = IF u = t THEN st ELSE task[u].status
      BY <2>1, <2>2, ExceptRow
    <2>4. QuietStep
      BY <2>3 DEF QuietStep, Rows, st
    <2> QED BY <1>4, <2>3, <2>4, ScanKept DEF QuietTyped, DeadlinePasses
  <1>5. ASSUME NEW t \in Rows, CompleteAgentTask(t) \/ FailAgentTask(t) \/ CancelAgentTask(t)
        PROVE QuietTyped
    BY <1>1, <1>5 DEF CompleteAgentTask, FailAgentTask, CancelAgentTask, Open, Active
  <1>6. ASSUME NEW i \in Issue, CancelAgentTasksByIssue(i) \/ DeleteIssueRows(i) PROVE QuietTyped
    BY <1>1, <1>6 DEF CancelAgentTasksByIssue, DeleteIssueRows, OpenOf
  <1>7. ASSUME NEW a \in Agent, CancelAgentTasksByAgent(a) PROVE QuietTyped
    BY <1>1, <1>7 DEF CancelAgentTasksByAgent
  <1>8. ASSUME NEW off \in SUBSET Runtime, FailTasksForOfflineRuntimes(off) PROVE QuietTyped
    BY <1>1, <1>8 DEF FailTasksForOfflineRuntimes, OrphanedBy, Open
  <1>9. ASSUME FailStaleTasks PROVE QuietTyped
    BY <1>1, <1>9 DEF FailStaleTasks, Stale, Open
  <1>10. ASSUME UNCHANGED tableVars PROVE QuietTyped
    BY <1>0, <1>10, ScanKept DEF QuietTyped, tableVars
  <1> QED
    BY <1>2, <1>3, <1>4, <1>5, <1>6, <1>7, <1>8, <1>9, <1>10
    DEF TableNext, InsertStep, SnapshotStep, DispatchStep

-----------------------------------------------------------------------------
(* The inductive invariant *)

LEMMA QuietPreserves == ASSUME TableInv, QuietTyped PROVE TableInv'
  <1> TableTypeOK
    BY DEF TableInv
  <1> USE RowsRange
  <1>1. TableTypeOK'
    BY DEF TableTypeOK, QuietTyped, ScanShrinks
  <1>2. /\ DOMAIN task' = Rows /\ Rows' = Rows
        /\ \A t \in Rows : task'[t].issue = task[t].issue
    BY DEF QuietTyped, QuietStep, RowStep, Rows
  <1>3. \A t \in Rows : /\ task'[t].status \in Active => task[t].status \in Active
                        /\ task'[t].status \in Pending => task[t].status \in Pending
                        /\ task'[t].status = "queued" => task[t].status = "queued"
    BY DEF QuietTyped, QuietStep, Active, Pending, Open, Rows
  <1>4. SerialPerIssue'
    BY <1>2, <1>3 DEF TableInv, SerialPerIssue
  <1>5. OnePendingPerIssue'
    BY <1>2, <1>3 DEF TableInv, OnePendingPerIssue
  <1>6. (\A s \in Session : scan[s].rows \subseteq Rows)'
    BY <1>2 DEF TableInv, QuietTyped, ScanShrinks
  <1>7. SnapshotStaysValid'
    BY <1>2, <1>3, <1>6 DEF TableInv, SnapshotStaysValid, QuietTyped, ScanShrinks, ActiveOf
  <1> QED BY <1>1, <1>4, <1>5, <1>6, <1>7 DEF TableInv

LEMMA InsertPreserves == ASSUME TableInv, InsertStep PROVE TableInv'
  <1> TableTypeOK
    BY DEF TableInv
  <1> USE RowsRange
  <1> PICK a \in Agent, r \in Runtime, i \in Issue, p \in Priority : CreateAgentTask(a, r, i, p)
    BY DEF InsertStep
  <1> DEFINE new == [status |-> "queued", agent |-> a, runtime |-> r,
                     issue |-> i, prio |-> p, overdue |-> FALSE]
             k == Len(task) + 1
  <1>1. new \in Row
    BY DEF Row, Status
  <1>2. /\ task' = Append(task, new) /\ UNCHANGED scan /\ PendingOf(i) = {}
        /\ Len(task) < MaxTasks
    BY DEF CreateAgentTask, InsertRefused, HasPendingTaskForIssue
  <1>2a. new.status = "queued" /\ new.issue = i
    OBVIOUS
  <1> HIDE DEF new
  <1>3. /\ task' \in Seq(Row) /\ Len(task') = k /\ Rows' = Rows \union {k} /\ k \notin Rows
        /\ \A t \in Rows : task'[t] = task[t]
        /\ task'[k] = new
    BY <1>1, <1>2 DEF TableTypeOK, Rows
  <1> HIDE DEF k
  <1>4. TableTypeOK'
    BY <1>2, <1>3, TableConstants DEF TableTypeOK, k
  <1>5. "queued" \notin Active /\ "queued" \in Pending
    BY DEF Active, Pending
  <1>6. SerialPerIssue'
    BY <1>2a, <1>3, <1>5 DEF TableInv, SerialPerIssue
  <1>7. OnePendingPerIssue'
    BY <1>2, <1>2a, <1>3, <1>5 DEF TableInv, OnePendingPerIssue, PendingOf
  <1>8. (\A s \in Session : scan[s].rows \subseteq Rows)'
    BY <1>2, <1>3 DEF TableInv
  <1>9. SnapshotStaysValid'
    <2> SUFFICES ASSUME NEW s \in Session, NEW t \in scan[s].rows, task'[t].status = "queued",
                        NEW u \in Rows', task'[u].issue = task'[t].issue,
                        task'[u].status \in Active
                 PROVE  FALSE
      BY <1>2 DEF SnapshotStaysValid, ActiveOf
    <2>1. t \in Rows /\ ActiveOf(task[t].issue) = {}
      BY <1>3 DEF TableInv, SnapshotStaysValid
    <2>2. u \in Rows
      BY <1>2a, <1>3, <1>5
    <2> QED BY <1>3, <2>1, <2>2 DEF ActiveOf
  <1> QED BY <1>4, <1>6, <1>7, <1>8, <1>9 DEF TableInv

LEMMA SnapshotPreserves == ASSUME TableInv, SnapshotStep PROVE TableInv'
  <1> TableTypeOK
    BY DEF TableInv
  <1> USE RowsRange
  <1> PICK s \in Session, a \in Agent : ClaimSnapshot(s, a)
    BY DEF SnapshotStep
  <1>1. UNCHANGED task /\ scan' = [scan EXCEPT ![s] = [on |-> TRUE, rows |-> Claimable(a)]]
    BY DEF ClaimSnapshot
  <1>2. Claimable(a) \subseteq Rows /\ Rows \subseteq 1..MaxTasks
    BY TableConstants DEF Claimable, TableTypeOK
  <1>3. TableTypeOK'
    BY <1>1, <1>2 DEF TableTypeOK
  <1>4. SerialPerIssue' /\ OnePendingPerIssue'
    BY <1>1 DEF TableInv, SerialPerIssue, OnePendingPerIssue, Rows
  <1>5. \A x \in Session : scan'[x].rows = IF x = s THEN Claimable(a) ELSE scan[x].rows
    BY <1>1 DEF TableTypeOK
  <1>6. (\A x \in Session : scan[x].rows \subseteq Rows)'
    BY <1>1, <1>2, <1>5 DEF TableInv, Rows
  <1>7. SnapshotStaysValid'
    BY <1>1, <1>5 DEF TableInv, SnapshotStaysValid, Claimable, ActiveOf, Rows
  <1> QED BY <1>3, <1>4, <1>6, <1>7 DEF TableInv

LEMMA DispatchPreserves == ASSUME TableInv, DispatchStep PROVE TableInv'
  <1> TableTypeOK
    BY DEF TableInv
  <1> USE RowsRange
  <1> PICK s \in Session, c \in Rows : ClaimLock(s, c)
    BY DEF DispatchStep
  <1>1. c \in scan[s].rows /\ task[c].status = "queued" /\ ActiveOf(task[c].issue) = {}
    BY DEF ClaimLock, StillQueued, TableInv, SnapshotStaysValid
  <1>2. /\ task' \in Seq(Row) /\ Len(task') = Len(task) /\ Rows' = Rows
        /\ \A u \in Rows : /\ task'[u].issue = task[u].issue
                           /\ task'[u].status = IF u = c THEN "dispatched" ELSE task[u].status
    <2>1. "dispatched" \in Status /\ FALSE \in BOOLEAN
      BY DEF Status
    <2>2. task' = [task EXCEPT ![c].status = "dispatched", ![c].overdue = FALSE]
      BY DEF ClaimLock
    <2> QED BY <2>1, <2>2, ExceptRow DEF RowStep, Rows
  <1>3. ScanShrinks
    BY ScanReset DEF ClaimLock
  <1>4. TableTypeOK'
    BY <1>2, <1>3 DEF TableTypeOK, ScanShrinks
  <1>5. SerialPerIssue'
    BY <1>1, <1>2 DEF TableInv, SerialPerIssue, ActiveOf
  <1>6. OnePendingPerIssue'
    BY <1>1, <1>2 DEF TableInv, OnePendingPerIssue, Pending
  <1>7. (\A x \in Session : scan[x].rows \subseteq Rows)'
    BY <1>2, <1>3 DEF TableInv, ScanShrinks
  \* A row another session selected and that is still queued is a row of another
  \* issue, because the dispatched one was the only pending row of its own.
  <1>8. SnapshotStaysValid'
    <2> SUFFICES ASSUME NEW x \in Session, NEW t \in scan'[x].rows, task'[t].status = "queued",
                        NEW u \in Rows', task'[u].issue = task'[t].issue,
                        task'[u].status \in Active
                 PROVE  FALSE
      BY DEF SnapshotStaysValid, ActiveOf
    <2>1. t \in Rows /\ t \in scan[x].rows /\ u \in Rows
      BY <1>2, <1>3 DEF TableInv, ScanShrinks
    <2>2. t # c /\ task[t].status = "queued"
      BY <1>2, <2>1
    <2>3. ActiveOf(task[t].issue) = {}
      BY <2>1, <2>2 DEF TableInv, SnapshotStaysValid
    <2>4. u = c
      BY <1>2, <2>1, <2>3 DEF ActiveOf
    <2>5. task[t].status \in Pending /\ task[c].status \in Pending
      BY <1>1, <2>2 DEF Pending
    <2> QED BY <1>2, <2>1, <2>2, <2>4, <2>5 DEF TableInv, OnePendingPerIssue
  <1> QED BY <1>4, <1>5, <1>6, <1>7, <1>8 DEF TableInv

LEMMA TableInductive == TableInv /\ [TableNext]_tableVars => TableInv'
  BY StepKinds, QuietPreserves, InsertPreserves, SnapshotPreserves, DispatchPreserves

LEMMA TableInitially == TableInit => TableInv
  BY TableConstants DEF TableInit, TableInv, TableTypeOK, NoScan, Rows, SerialPerIssue,
                        OnePendingPerIssue, SnapshotStaysValid

\* The inductive invariant holds in every reachable state of the table.
THEOREM TableInvariant == TableSpec => []TableInv
  BY TableInitially, TableInductive, PTL DEF TableSpec

\* Every reachable table has the type the queries rely on.
THEOREM TableTyped == TableSpec => []TableTypeOK
  <1>1. TableInv => TableTypeOK
    BY DEF TableInv
  <1> QED BY <1>1, TableInvariant, PTL

\* Per-issue serialization: for any number of agents, issues, runtimes, tasks
\* and concurrent sessions no issue ever has two dispatched or running tasks.
THEOREM TableSerial == TableSpec => []SerialPerIssue
  <1>1. TableInv => SerialPerIssue
    BY DEF TableInv
  <1> QED BY <1>1, TableInvariant, PTL

-----------------------------------------------------------------------------
(* What a step may never do *)

LEMMA SameColumns == ASSUME NEW x, NEW y, RowStep(x, y)
                     PROVE  \A f \in {"agent", "runtime", "issue", "prio"} : y[f] = x[f]
  BY DEF RowStep

LEMMA AfterFacts ==
  ASSUME NEW st \in Status
  PROVE  /\ st \in After(st) /\ "deleted" \in After(st)
         /\ st = "dispatched" => "running" \in After(st)
         /\ st = "queued" => "dispatched" \in After(st)
         /\ st \in Open => Status \ Open \subseteq After(st)
  BY DEF Status, After, Open, Pending, Active

LEMMA StepIsForward == ASSUME TableInv, [TableNext]_tableVars PROVE StepForward
  <1> TableTypeOK
    BY DEF TableInv
  <1> USE RowsRange
  <1>0. \A t \in Rows : task[t].status \in Status
    BY DEF Row
  <1>1. CASE QuietTyped
    <2>1. \A t \in Rows : t \in DOMAIN task' /\ task'[t].status \in Status
                          /\ RowStep(task[t], task'[t])
      <3>1. DOMAIN task' = Rows /\ task' \in Seq(Row)
        BY <1>1 DEF QuietTyped, QuietStep, Rows
      <3>2. \A t \in Rows : task'[t] \in Row
        BY <3>1
      <3> QED BY <1>1, <3>1, <3>2 DEF QuietTyped, QuietStep, Row
    <2>2. \A t \in Rows : task'[t].status \in After(task[t].status)
      BY <1>0, <1>1, <2>1, AfterFacts DEF QuietTyped, QuietStep
    <2> QED BY <2>1, <2>2, SameColumns DEF StepForward
  <1>2. CASE InsertStep
    <2>1. PICK a \in Agent, r \in Runtime, i \in Issue, p \in Priority : CreateAgentTask(a, r, i, p)
      BY <1>2 DEF InsertStep
    <2>2. \A t \in Rows : t \in DOMAIN task' /\ task'[t] = task[t]
      BY <2>1 DEF CreateAgentTask, TableTypeOK, Rows
    <2> QED BY <1>0, <2>2, AfterFacts DEF StepForward
  <1>3. CASE SnapshotStep
    <2>1. task' = task
      BY <1>3 DEF SnapshotStep, ClaimSnapshot
    <2> QED BY <1>0, <2>1, AfterFacts DEF StepForward, Rows
  <1>4. CASE DispatchStep
    <2>1. PICK s \in Session, c \in Rows : ClaimLock(s, c)
      BY <1>4 DEF DispatchStep
    <2>2. task[c].status = "queued" /\ "dispatched" \in Status /\ FALSE \in BOOLEAN
      BY <2>1 DEF ClaimLock, StillQueued, Status
    <2>3. task' = [task EXCEPT ![c].status = "dispatched", ![c].overdue = FALSE]
      BY <2>1 DEF ClaimLock
    <2>4. \A u \in Rows : /\ u \in DOMAIN task' /\ RowStep(task[u], task'[u])
                          /\ task'[u].status = IF u = c THEN "dispatched" ELSE task[u].status
      BY <2>2, <2>3, ExceptRow DEF Rows
    <2>5. \A u \in Rows : task'[u].status \in After(task[u].status)
      BY <1>0, <2>2, <2>4, AfterFacts
    <2> QED BY <2>4, <2>5, SameColumns DEF StepForward
  <1> QED BY <1>1, <1>2, <1>3, <1>4, StepKinds

\* No task ever goes back in its life, whatever happens concurrently.
THEOREM TableNeverGoesBack == TableSpec => NeverGoesBack
  <1>1. TableInv /\ [TableNext]_tableVars => [StepForward]_tableVars
    BY StepIsForward
  <1> QED BY <1>1, TableInvariant, PTL DEF TableSpec, NeverGoesBack

\* The coalescing queue: no issue ever has two tasks that wait to be started.
THEOREM TableOnePending == TableSpec => []OnePendingPerIssue
  <1>1. TableInv => OnePendingPerIssue
    BY DEF TableInv
  <1> QED BY <1>1, TableInvariant, PTL

\* A claim's selection stays right until its row is locked.
THEOREM TableSnapshots == TableSpec => []SnapshotStaysValid
  <1>1. TableInv => SnapshotStaysValid
    BY DEF TableInv
  <1> QED BY <1>1, TableInvariant, PTL

-----------------------------------------------------------------------------
(* The table implements IssueLane *)

LEMMA LanesInitially == TableInit => Lanes!LaneInit
  BY DEF TableInit, Lanes!LaneInit, Rows, QueuedOf, ActiveOf

LEMMA RowsInBound == ASSUME TableTypeOK PROVE Rows \subseteq 1..MaxTasks
  BY RowsRange, TableConstants DEF TableTypeOK

LEMMA LaneStep ==
  ASSUME TableInv, [TableNext]_tableVars
  PROVE  [Lanes!LaneNext]_(Lanes!laneVars)
  <1> TableTypeOK
    BY DEF TableInv
  <1> DEFINE W == [i \in Issue |-> QueuedOf(i)]
             A == [i \in Issue |-> ActiveOf(i)]
  <1>1. CASE QuietTyped
    <2>1. Rows' = Rows /\ Rows \subseteq 1..MaxTasks
      BY <1>1, RowsInBound DEF QuietTyped, QuietStep, Rows
    <2>2. ASSUME NEW i \in Issue
          PROVE  QueuedOf(i)' \subseteq QueuedOf(i) /\ ActiveOf(i)' \subseteq ActiveOf(i)
      BY <1>1, <2>1
      DEF QuietTyped, QuietStep, RowStep, QueuedOf, ActiveOf, Active, Open, Pending, Rows
    <2>3. Lanes!Leave
      BY <2>1, <2>2 DEF Lanes!Leave, QueuedOf, ActiveOf
    <2> QED BY <2>3 DEF Lanes!LaneNext
  <1>2. CASE InsertStep
    <2> PICK a \in Agent, r \in Runtime, i \in Issue, p \in Priority : CreateAgentTask(a, r, i, p)
      BY <1>2 DEF InsertStep
    <2> DEFINE k == Len(task) + 1
    <2>1. /\ Rows' = Rows \union {k} /\ k \notin Rows /\ k \in 1..MaxTasks
          /\ \A t \in Rows : task'[t] = task[t]
          /\ task'[k].issue = i /\ task'[k].status = "queued"
      BY RowsRange, TableConstants DEF CreateAgentTask, TableTypeOK, Rows
    <2>2. PendingOf(i) = {}
      BY DEF CreateAgentTask, InsertRefused, HasPendingTaskForIssue
    <2> HIDE DEF k
    <2>3. W[i] = {}
      BY <2>2 DEF QueuedOf, PendingOf, Pending
    <2>4. \A j \in Issue : QueuedOf(j)' = IF j = i THEN {k} ELSE QueuedOf(j)
      BY <2>1, <2>3 DEF QueuedOf
    <2>5. \A j \in Issue : ActiveOf(j)' = ActiveOf(j)
      BY <2>1 DEF ActiveOf, Active
    <2>6. Lanes!EnterLane(i, k)
      BY <2>1, <2>3, <2>4, <2>5 DEF Lanes!EnterLane
    <2> QED BY <2>1, <2>6 DEF Lanes!LaneNext
  <1>3. CASE SnapshotStep
    <2>1. UNCHANGED task
      BY <1>3 DEF SnapshotStep, ClaimSnapshot
    <2> QED BY <2>1 DEF Lanes!laneVars, QueuedOf, ActiveOf, Rows
  <1>4. CASE DispatchStep
    <2> PICK s \in Session, c \in Rows : ClaimLock(s, c)
      BY <1>4 DEF DispatchStep
    <2> DEFINE i == task[c].issue
    <2>1. task[c].status = "queued" /\ ActiveOf(i) = {} /\ i \in Issue
      BY RowsRange DEF ClaimLock, StillQueued, TableInv, SnapshotStaysValid, Row
    <2>2. /\ Rows' = Rows
          /\ \A u \in Rows : /\ task'[u].issue = task[u].issue
                             /\ task'[u].status = IF u = c THEN "dispatched" ELSE task[u].status
      <3>1. "dispatched" \in Status /\ FALSE \in BOOLEAN
        BY DEF Status
      <3>2. task' = [task EXCEPT ![c].status = "dispatched", ![c].overdue = FALSE]
        BY DEF ClaimLock
      <3> QED BY <3>1, <3>2, ExceptRow DEF RowStep, Rows
    <2> HIDE DEF i
    <2>3. QueuedOf(i) = {c}
      BY <2>1 DEF TableInv, OnePendingPerIssue, QueuedOf, Pending, i
    <2>4. \A j \in Issue : QueuedOf(j)' = IF j = i THEN {} ELSE QueuedOf(j)
      BY <2>2, <2>3 DEF QueuedOf, i
    <2>5. \A j \in Issue : ActiveOf(j)' = IF j = i THEN {c} ELSE ActiveOf(j)
      BY <2>1, <2>2 DEF ActiveOf, Active, i
    <2>6. Lanes!TakeUp(i, c)
      BY <2>1, <2>2, <2>3, <2>4, <2>5 DEF Lanes!TakeUp
    <2>7. c \in 1..MaxTasks
      BY RowsInBound
    <2> QED BY <2>1, <2>6, <2>7 DEF Lanes!LaneNext
  <1> QED BY <1>1, <1>2, <1>3, <1>4, StepKinds

\* The table implements the lanes: whatever sequence of statements is executed,
\* each issue sees its tasks wait one at a time and be worked on one at a time.
THEOREM TableFormsLanes == TableSpec => FormsLanes
  <1>1. TableInv /\ [TableNext]_tableVars => [Lanes!LaneNext]_(Lanes!laneVars)
    BY LaneStep
  <1> QED BY <1>1, LanesInitially, TableInvariant, PTL DEF TableSpec, FormsLanes, Lanes!LaneSpec
=============================================================================

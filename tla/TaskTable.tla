----------------------------- MODULE TaskTable -----------------------------
(***************************************************************************)
(* The table agent_task_queue of the multica server, one action per SQL    *)
(* statement that writes it.  A statement is atomic, except the claim:     *)
(* PostgreSQL (READ COMMITTED) evaluates its sub-select on the snapshot    *)
(* taken when the statement starts and then locks the row it chose, so     *)
(* the claim is two steps and other statements may commit in between.      *)
(***************************************************************************)
EXTENDS Integers, Sequences, FiniteSets

CONSTANTS Agent,      \* ids of table agent
          Issue,      \* ids of table issue
          Runtime,    \* ids of table agent_runtime
          Session,    \* database sessions that can be executing a statement
          Priority,   \* the values of priorityToInt that occur
          MaxTasks    \* bound on the number of rows ever inserted

ASSUME TableConstants ==
    /\ Priority \subseteq Int
    /\ MaxTasks \in Nat

VARIABLES task,       \* the rows, in insertion order (ORDER BY created_at)
          scan        \* per session: the rows its running claim has selected

tableVars == <<task, scan>>

NoScan == [on |-> FALSE, rows |-> {}]

Status == {"queued", "dispatched", "running",
           "completed", "failed", "cancelled", "deleted"}
Pending == {"queued", "dispatched"}       \* what the unique index covers
Active  == {"dispatched", "running"}      \* what CountRunningTasks counts
Open    == Pending \union Active          \* what the cancel statements match

Row == [status: Status, agent: Agent, runtime: Runtime, issue: Issue,
        prio: Priority, overdue: BOOLEAN]

Rows == DOMAIN task

\* overdue stands for "dispatched_at (running: started_at) lies further back
\* than the sweeper's threshold"; dispatch and start reset the timestamp.
TableTypeOK ==
    /\ task \in Seq(Row)
    /\ Len(task) <= MaxTasks
    /\ scan \in [Session -> [on: BOOLEAN, rows: SUBSET (1..MaxTasks)]]

-----------------------------------------------------------------------------
(* Queries *)

OpenOf(i)    == {t \in Rows : task[t].issue = i /\ task[t].status \in Open}
PendingOf(i) == {t \in Rows : task[t].issue = i /\ task[t].status \in Pending}
ActiveOf(i)  == {t \in Rows : task[t].issue = i /\ task[t].status \in Active}

HasPendingTaskForIssue(i) == PendingOf(i) # {}
HasPendingTaskForIssueAndAgent(i, a) == \E t \in PendingOf(i) : task[t].agent = a

RunningTasks(a) == {t \in Rows : task[t].agent = a /\ task[t].status \in Active}
CountRunningTasks(a) == Cardinality(RunningTasks(a))

ListPendingTasksByRuntime(r) ==
    {t \in Rows : task[t].runtime = r /\ task[t].status \in Pending}

\* ORDER BY priority DESC, created_at ASC
Before(t, u) == \/ task[t].prio > task[u].prio
                \/ task[t].prio = task[u].prio /\ t < u
IsFirst(t, S) == t \in S /\ \A u \in S \ {t} : Before(t, u)

\* Mutant of Claimable: without the NOT EXISTS on the issue's active tasks.
ClaimableAnyIssue(a) ==
    {t \in Rows : task[t].agent = a /\ task[t].status = "queued"}

\* The sub-select of ClaimAgentTask.
Claimable(a) ==
    {t \in Rows : /\ task[t].agent = a
                  /\ task[t].status = "queued"
                  /\ ActiveOf(task[t].issue) = {}}

-----------------------------------------------------------------------------
(* Statements *)

TableInit == /\ task = <<>>
             /\ scan = [s \in Session |-> NoScan]

\* SET status = st on every row of S.
SetStatus(S, st) ==
    task' = [t \in Rows |-> IF t \in S THEN [task[t] EXCEPT !.status = st]
                                       ELSE task[t]]

\* Mutants of InsertRefused: an index on one of its two statuses only.
RefusedIfQueued(i) == \E t \in PendingOf(i) : task[t].status = "queued"
RefusedIfDispatched(i) == \E t \in PendingOf(i) : task[t].status = "dispatched"

\* The partial unique index idx_one_pending_task_per_issue refuses the row.
InsertRefused(i) == HasPendingTaskForIssue(i)

CreateAgentTask(a, r, i, p) ==
    /\ ~InsertRefused(i)
    /\ Len(task) < MaxTasks
    /\ task' = Append(task, [status |-> "queued", agent |-> a, runtime |-> r,
                             issue |-> i, prio |-> p, overdue |-> FALSE])
    /\ UNCHANGED scan

ClaimSnapshot(s, a) ==
    /\ ~scan[s].on
    /\ scan' = [scan EXCEPT ![s] = [on |-> TRUE, rows |-> Claimable(a)]]
    /\ UNCHANGED task

\* Mutant of StillQueued: the row is locked, its status is not looked at again.
Selected(s) == scan[s].rows

\* FOR UPDATE re-reads a row another session has changed: one that is no
\* longer queued is passed over and the next selected one is tried.
StillQueued(s) == {t \in scan[s].rows : task[t].status = "queued"}

\* SKIP LOCKED: a row that another claim may have locked is passed over too,
\* also when that claim is then rolled back and the row stays queued.
LockedElsewhere(s) == UNION {scan[x].rows : x \in Session \ {s}}

ClaimLock(s, t) ==
    /\ scan[s].on
    /\ t \in StillQueued(s)
    /\ \A u \in StillQueued(s) \ {t} : Before(t, u) \/ u \in LockedElsewhere(s)
    /\ task' = [task EXCEPT ![t].status = "dispatched", ![t].overdue = FALSE]
    /\ scan' = [scan EXCEPT ![s] = NoScan]

ClaimNoRows(s) ==
    /\ scan[s].on
    /\ StillQueued(s) \subseteq LockedElsewhere(s)
    /\ scan' = [scan EXCEPT ![s] = NoScan]
    /\ UNCHANGED task

\* The connection of a cancelled request or of a dead server goes away.
Disconnect(s) ==
    /\ scan' = [scan EXCEPT ![s] = NoScan]
    /\ UNCHANGED task

StartAgentTask(t) ==
    /\ task[t].status = "dispatched"
    /\ task' = [task EXCEPT ![t].status = "running", ![t].overdue = FALSE]
    /\ UNCHANGED scan

CompleteAgentTask(t) ==
    /\ task[t].status = "running"
    /\ SetStatus({t}, "completed")
    /\ UNCHANGED scan

FailAgentTask(t) ==
    /\ task[t].status \in Active
    /\ SetStatus({t}, "failed")
    /\ UNCHANGED scan

CancelAgentTask(t) ==
    /\ task[t].status \in Open
    /\ SetStatus({t}, "cancelled")
    /\ UNCHANGED scan

\* Mutant of CancelAgentTasksByIssue: a status the CHECK does not know.
CancelMisspelt(i) ==
    /\ SetStatus(OpenOf(i), "canceled")
    /\ UNCHANGED scan

CancelAgentTasksByIssue(i) ==
    /\ SetStatus(OpenOf(i), "cancelled")
    /\ UNCHANGED scan

CancelAgentTasksByAgent(a) ==
    /\ SetStatus({t \in Rows : task[t].agent = a /\ task[t].status \in Open},
                 "cancelled")
    /\ UNCHANGED scan

\* DELETE FROM issue removes the issue's rows by ON DELETE CASCADE.
DeleteIssueRows(i) ==
    /\ SetStatus({t \in Rows : task[t].issue = i}, "deleted")
    /\ UNCHANGED scan

OrphanedBy(off) == {t \in Rows : /\ task[t].runtime \in off
                                 /\ task[t].status \in Active}
FailTasksForOfflineRuntimes(off) ==
    /\ SetStatus(OrphanedBy(off), "failed")
    /\ UNCHANGED scan

\* Mutant of Stale: the sweep forgets the tasks that never started.
StaleRunning == {t \in Rows : task[t].status = "running" /\ task[t].overdue}

Stale == {t \in Rows : task[t].status \in Active /\ task[t].overdue}
FailStaleTasks ==
    /\ SetStatus(Stale, "failed")
    /\ UNCHANGED scan

\* Time: the dispatch (300 s) or running (9000 s) threshold of a row passes.
DeadlinePasses(t) ==
    /\ task[t].status \in Active
    /\ ~task[t].overdue
    /\ task' = [task EXCEPT ![t].overdue = TRUE]
    /\ UNCHANGED scan

-----------------------------------------------------------------------------
TableNext ==
    \/ \E a \in Agent, r \in Runtime, i \in Issue, p \in Priority :
           CreateAgentTask(a, r, i, p)
    \/ \E s \in Session :
           \/ \E a \in Agent : ClaimSnapshot(s, a)
           \/ \E t \in Rows : ClaimLock(s, t)
           \/ ClaimNoRows(s) \/ Disconnect(s)
    \/ \E t \in Rows :
           \/ StartAgentTask(t) \/ CompleteAgentTask(t) \/ FailAgentTask(t)
           \/ CancelAgentTask(t) \/ DeadlinePasses(t)
    \/ \E i \in Issue : CancelAgentTasksByIssue(i) \/ DeleteIssueRows(i)
    \/ \E a \in Agent : CancelAgentTasksByAgent(a)
    \/ \E off \in SUBSET Runtime : FailTasksForOfflineRuntimes(off)
    \/ FailStaleTasks

TableSpec == TableInit /\ [][TableNext]_tableVars

-----------------------------------------------------------------------------
(* Properties *)

\* Per-issue serialization, what the comment on ClaimAgentTask promises: an
\* issue never has two tasks that are dispatched or running, whatever claims,
\* cancellations and sweeps interleave.
SerialPerIssue == \A t, u \in Rows :
    /\ t # u
    /\ task[t].issue = task[u].issue
    => ~(task[t].status \in Active /\ task[u].status \in Active)

\* The coalescing queue: a task of an issue waits (queued or dispatched) alone.
OnePendingPerIssue == \A t, u \in Rows :
    /\ t # u
    /\ task[t].issue = task[u].issue
    => ~(task[t].status \in Pending /\ task[u].status \in Pending)

\* A claim that has taken its snapshot stays right until it locks its row: a
\* row it chose that is still queued has no active sibling, however old the
\* snapshot is.  This is why claiming needs no lock on the issue.
SnapshotStaysValid == \A s \in Session : \A t \in scan[s].rows :
    task[t].status = "queued" => ActiveOf(task[t].issue) = {}

\* The strengthening under which the three above are inductive.
TableInv ==
    /\ TableTypeOK
    /\ SerialPerIssue
    /\ OnePendingPerIssue
    /\ \A s \in Session : scan[s].rows \subseteq Rows
    /\ SnapshotStaysValid

\* The statuses a row of status st may have later.
After(st) == CASE st = "queued"     -> Status
               [] st = "dispatched" -> Status \ {"queued"}
               [] st = "running"    -> Status \ Pending
               [] OTHER             -> {st, "deleted"}

\* A task never goes back: it is dispatched once, it is started once, and when
\* it has ended nothing changes it, so a late start, completion or failure of a
\* task that was cancelled or swept in between has no effect.  Nor does any
\* statement change whose task it is.
StepForward == \A t \in Rows :
    /\ t \in DOMAIN task'
    /\ task'[t].status \in After(task[t].status)
    /\ \A f \in {"agent", "runtime", "issue", "prio"} : task'[t][f] = task[t][f]
NeverGoesBack == [][StepForward]_tableVars

\* The rows of each issue form a lane: the promise of the queue to an issue, as
\* IssueLane states it, with one task waiting and one worked on at a time.
QueuedOf(i) == {t \in Rows : task[t].issue = i /\ task[t].status = "queued"}

Lanes == INSTANCE IssueLane WITH
             Lane <- Issue, LaneTask <- 1..MaxTasks, seen <- Rows,
             waiting <- [i \in Issue |-> QueuedOf(i)],
             working <- [i \in Issue |-> ActiveOf(i)]
FormsLanes == Lanes!LaneSpec
=============================================================================

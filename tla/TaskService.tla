---------------------------- MODULE TaskService ----------------------------
(***************************************************************************)
(* The handlers of the multica server that work on the task queue.  A      *)
(* handler runs its statements one after the other in autocommit mode: no  *)
(* transaction spans two of them, so a request is a little process         *)
(* (req[s]) and every statement of every other request may come in         *)
(* between.  The runtime sweeper is one more such process.                 *)
(*                                                                         *)
(* Two reads that follow each other are one step: only an agent whose      *)
(* limit or runtime is edited between them could tell the difference.      *)
(***************************************************************************)
EXTENDS TaskTable

CONSTANTS Sweeper,    \* the session of the background sweeper
          Kinds,      \* the kinds of requests that are made (Kind in general)
          MaxAgentTasks  \* values of max_concurrent_tasks that occur

Kind == {"claim", "start", "complete", "fail", "cancel", "assign", "member",
         "unassign", "edit", "create", "delete", "comment", "archive",
         "restore", "configure", "deregister", "stale", "late", "abort", "drop"}

ASSUME ServiceConstants ==
    /\ Sweeper \in Session
    /\ Kinds \subseteq Kind
    /\ MaxAgentTasks \subseteq Nat \ {0}

VARIABLES
    assignee,      \* issue.assignee_id, or what stands in its place
    agentRuntime,  \* agent.runtime_id
    maxTasks,      \* agent.max_concurrent_tasks
    archived,      \* agent.archived_at IS NOT NULL
    agentStatus,   \* agent.status
    online,        \* agent_runtime.status = 'online'
    fresh,         \* agent_runtime.last_seen_at is less than 45 s old
    req,           \* per session: the request it serves, and how far it got
    held           \* tasks handed to a daemon that it has not reported on

agentVars   == <<agentRuntime, maxTasks, archived>>
runtimeVars == <<online, fresh>>
serviceVars == <<task, scan, assignee, agentVars, agentStatus, runtimeVars, req, held>>

Handlers == Session \ {Sweeper}

\* assignee_type is 'member', or there is no assignee; no such row (yet).
NotAgent == {"member", "nobody", "absent", "deleted"}
Exists(i) == assignee[i] \notin {"absent", "deleted"}

\* agent: whom the next statement is about; old: the issue row read at the
\* start; todo: rows still to try; agents: agents still to treat.
Request == [pc: {"idle", "claim", "claim_row", "claim_lock", "claim_status",
                 "reconcile", "reconcile_write", "update", "cancel_issue",
                 "delete_issue", "comment_check", "mention", "enqueue",
                 "insert", "cancel_agent", "sweep_offline", "sweep_tasks"},
            agent: Agent \union NotAgent, runtime: Runtime \union {"none"},
            issue: Issue \union {"none"}, task: 0..MaxTasks,
            old: Agent \union NotAgent, todo: SUBSET (1..MaxTasks),
            agents: SUBSET Agent, flag: BOOLEAN, next: {"idle", "sweep_tasks"}]

Idle == [pc |-> "idle", agent |-> "nobody", runtime |-> "none", issue |-> "none",
         task |-> 0, old |-> "nobody", todo |-> {}, agents |-> {},
         flag |-> FALSE, next |-> "idle"]

ServiceTypeOK ==
    /\ TableTypeOK
    /\ assignee \in [Issue -> Agent \union NotAgent]
    /\ agentRuntime \in [Agent -> Runtime]
    /\ maxTasks \in [Agent -> MaxAgentTasks]
    /\ archived \in [Agent -> BOOLEAN]
    /\ agentStatus \in [Agent -> {"idle", "working"}]
    /\ online \in [Runtime -> BOOLEAN]
    /\ fresh \in [Runtime -> BOOLEAN]
    /\ req \in [Session -> Request]
    /\ held \subseteq Rows

ServiceInit ==
    /\ TableInit
    /\ assignee \in [Issue -> {"absent", "nobody"}]
    /\ agentRuntime \in [Agent -> Runtime]
    /\ maxTasks \in [Agent -> MaxAgentTasks]
    /\ archived = [a \in Agent |-> FALSE]
    /\ agentStatus = [a \in Agent |-> "idle"]
    /\ online = [r \in Runtime |-> TRUE]
    /\ fresh = [r \in Runtime |-> TRUE]
    /\ req = [s \in Session |-> Idle]
    /\ held = {}

At(s, pc)   == req[s].pc = pc
Become(s, q) == req' = [req EXCEPT ![s] = q]
Goto(s, pc) == Become(s, [req[s] EXCEPT !.pc = pc])
Done(s)     == Become(s, Idle)
Free(s, k)  == s \in Handlers /\ At(s, "idle") /\ k \in Kinds

\* Reconcile the agents A, then continue with the step nxt.
Reconciling(A, nxt) ==
    IF A = {} THEN [Idle EXCEPT !.pc = nxt]
              ELSE [Idle EXCEPT !.pc = "reconcile", !.agents = A, !.next = nxt]

\* Bound: a request starts only while the rows it may insert still fit.
Promised == UNION {{s} \X (req[s].agents \union {req[s].agent}) :
                       s \in {x \in Session : req[x].pc \in {"update", "cancel_issue",
                                "comment_check", "mention", "enqueue", "insert"}}}
Room(n) == Len(task) + Cardinality(Promised) + n <= MaxTasks

-----------------------------------------------------------------------------
(* Claiming: ClaimTaskForRuntime and ClaimTask *)

\* The first task of every agent in the runtime's pending list.
FirstOfEachAgent(r) ==
    LET list == ListPendingTasksByRuntime(r)
    IN {t \in list : IsFirst(t, {u \in list : task[u].agent = task[t].agent})}

BeginClaim(s, r) ==
    /\ Free(s, "claim")
    /\ FirstOfEachAgent(r) # {}
    /\ Become(s, [Idle EXCEPT !.pc = "claim", !.runtime = r,
                              !.todo = FirstOfEachAgent(r)])
    /\ UNCHANGED <<tableVars, assignee, agentVars, agentStatus, runtimeVars, held>>

\* Mutant of HasCapacity: off by one.
HasCapacityIncl(a) == CountRunningTasks(a) <= maxTasks[a]

HasCapacity(a) == CountRunningTasks(a) < maxTasks[a]

ClaimCheck(s, t) ==
    /\ At(s, "claim")
    /\ IsFirst(t, req[s].todo)
    /\ LET a == task[t].agent
       IN Become(s, [req[s] EXCEPT
              !.todo = @ \ {t},
              !.pc = IF HasCapacity(a) THEN "claim_row" ELSE "claim",
              !.agent = IF HasCapacity(a) THEN a ELSE @])
    /\ UNCHANGED <<tableVars, assignee, agentVars, agentStatus, runtimeVars, held>>

ClaimSelect(s) ==
    /\ At(s, "claim_row")
    /\ ClaimSnapshot(s, req[s].agent)
    /\ Goto(s, "claim_lock")
    /\ UNCHANGED <<assignee, agentVars, agentStatus, runtimeVars, held>>

ClaimDispatch(s, t) ==
    /\ At(s, "claim_lock")
    /\ ClaimLock(s, t)
    /\ Become(s, [req[s] EXCEPT !.pc = "claim_status", !.task = t])
    /\ UNCHANGED <<assignee, agentVars, agentStatus, runtimeVars, held>>

ClaimNothing(s) ==
    /\ At(s, "claim_lock")
    /\ ClaimNoRows(s)
    /\ Become(s, [req[s] EXCEPT !.pc = "claim", !.agent = "nobody"])
    /\ UNCHANGED <<assignee, agentVars, agentStatus, runtimeVars, held>>

\* A task of another runtime is not returned, and not given back either.
ClaimedHere(s) == task[req[s].task].runtime = req[s].runtime

\* Mutant of ClaimAnswer: a task the daemon did not hear of is queued again.
AnswerOrRequeue(s) ==
    /\ At(s, "claim_status")
    /\ \/ held' = held \union {req[s].task} /\ UNCHANGED task
       \/ SetStatus({req[s].task}, "queued") /\ UNCHANGED held
    /\ Done(s)
    /\ UNCHANGED <<scan, assignee, agentVars, agentStatus, runtimeVars>>

ClaimAnswer(s) ==
    /\ At(s, "claim_status")
    /\ agentStatus' = [agentStatus EXCEPT ![req[s].agent] = "working"]
    /\ IF ClaimedHere(s)
       THEN /\ held' \in {held \union {req[s].task}, held}  \* or the answer is lost
            /\ Done(s)
       ELSE /\ Become(s, [req[s] EXCEPT !.pc = "claim", !.agent = "nobody", !.task = 0])
            /\ UNCHANGED held
    /\ UNCHANGED <<tableVars, assignee, agentVars, runtimeVars>>

ClaimGiveUp(s) ==
    /\ At(s, "claim") /\ req[s].todo = {}
    /\ Done(s)
    /\ UNCHANGED <<tableVars, assignee, agentVars, agentStatus, runtimeVars, held>>

-----------------------------------------------------------------------------
(* Reports of the daemon, and a user cancelling a task *)

StartTask(t) ==
    /\ "start" \in Kinds /\ t \in held
    /\ StartAgentTask(t)
    /\ UNCHANGED <<assignee, agentVars, agentStatus, runtimeVars, req, held>>

CompleteTask(s, t) ==
    /\ Free(s, "complete") /\ t \in held
    /\ CompleteAgentTask(t)
    /\ held' = held \ {t}
    /\ Become(s, Reconciling({task[t].agent}, "idle"))
    /\ UNCHANGED <<assignee, agentVars, agentStatus, runtimeVars>>

FailTask(s, t) ==
    /\ Free(s, "fail") /\ t \in held
    /\ FailAgentTask(t)
    /\ held' = held \ {t}
    /\ Become(s, Reconciling({task[t].agent}, "idle"))
    /\ UNCHANGED <<assignee, agentVars, agentStatus, runtimeVars>>

\* The daemon dies, or its reports never arrive or are refused.
DaemonDrops(t) ==
    /\ t \in held
    /\ "drop" \in Kinds \/ task[t].status \notin Open
    /\ held' = held \ {t}
    /\ UNCHANGED <<tableVars, assignee, agentVars, agentStatus, runtimeVars, req>>

CancelTask(s, t) ==
    /\ Free(s, "cancel")
    /\ CancelAgentTask(t)
    /\ Become(s, Reconciling({task[t].agent}, "idle"))
    /\ UNCHANGED <<assignee, agentVars, agentStatus, runtimeVars, held>>

ReconcileCount(s, a) ==
    /\ At(s, "reconcile") /\ a \in req[s].agents
    /\ Become(s, [req[s] EXCEPT !.pc = "reconcile_write", !.agent = a,
                                !.flag = CountRunningTasks(a) > 0])
    /\ UNCHANGED <<tableVars, assignee, agentVars, agentStatus, runtimeVars, held>>

\* Mutant of ReconcileWrite: a status that is none of the agent's.
WriteBusy(s) ==
    /\ At(s, "reconcile_write")
    /\ agentStatus' = [agentStatus EXCEPT ![req[s].agent] = "busy"]
    /\ Done(s)
    /\ UNCHANGED <<tableVars, assignee, agentVars, runtimeVars, held>>

ReconcileWrite(s) ==
    /\ At(s, "reconcile_write")
    /\ agentStatus' = [agentStatus EXCEPT
           ![req[s].agent] = IF req[s].flag THEN "working" ELSE "idle"]
    /\ Become(s, Reconciling(req[s].agents \ {req[s].agent}, req[s].next))
    /\ UNCHANGED <<tableVars, assignee, agentVars, runtimeVars, held>>

-----------------------------------------------------------------------------
(* Issues: CreateIssue, UpdateIssue, DeleteIssue, and comments *)

\* canAssignAgent refuses an archived agent.
Assignable == {a \in Agent : ~archived[a]}

\* shouldEnqueueAgentTask: an agent's trigger on_assign may be switched off.
CreateIssue(s, i, b) ==
    /\ Free(s, "create") /\ Room(1) /\ assignee[i] = "absent"
    /\ b \in Assignable \union {"nobody"}
    /\ assignee' = [assignee EXCEPT ![i] = b]
    /\ \/ /\ b \in Agent
          /\ Become(s, [Idle EXCEPT !.pc = "enqueue", !.issue = i, !.agent = b])
       \/ UNCHANGED req
    /\ UNCHANGED <<tableVars, agentVars, agentStatus, runtimeVars, held>>

\* A change of title, status or the like sends the assignee it has read back.
NewAssignee(k, i) == CASE k = "assign"   -> Assignable
                       [] k = "member"   -> {"member"}
                       [] k = "unassign" -> {"nobody"}
                       [] k = "edit"     -> {assignee[i]}

\* req.AssigneeType and req.AssigneeID are nil when the client sends null.
NamesAssignee(k) == k \in {"assign", "member"}

BeginUpdateIssue(s, i, k) ==
    /\ Free(s, k) /\ Room(1) /\ Exists(i)
    /\ \E b \in NewAssignee(k, i) :
          Become(s, [Idle EXCEPT !.pc = "update", !.issue = i, !.old = assignee[i],
                                 !.agent = b, !.flag = NamesAssignee(k)])
    /\ UNCHANGED <<tableVars, assignee, agentVars, agentStatus, runtimeVars, held>>

AssigneeChanged(s) == req[s].flag /\ req[s].old # req[s].agent

UpdateIssue(s) ==
    /\ At(s, "update")
    /\ IF Exists(req[s].issue)
       THEN /\ assignee' = [assignee EXCEPT ![req[s].issue] = req[s].agent]
            /\ IF AssigneeChanged(s)
               THEN Become(s, [Idle EXCEPT !.pc = "cancel_issue", !.issue = req[s].issue,
                                           !.agent = req[s].agent, !.next = "idle"])
               ELSE Done(s)
       ELSE Done(s) /\ UNCHANGED assignee
    /\ UNCHANGED <<tableVars, agentVars, agentStatus, runtimeVars, held>>

\* Mutant of CancelTasksForIssue: only the enqueue of the new assignee is left.
EnqueueWithoutCancel(s) ==
    /\ At(s, "cancel_issue")
    /\ (req[s].agent \in Agent /\ Goto(s, "enqueue")) \/ Done(s)
    /\ UNCHANGED <<tableVars, assignee, agentVars, agentStatus, runtimeVars, held>>

\* CancelTasksForIssue, then shouldEnqueueAgentTask
CancelTasksForIssue(s) ==
    /\ At(s, "cancel_issue")
    /\ CancelAgentTasksByIssue(req[s].issue)
    /\ (req[s].agent \in Agent /\ Goto(s, "enqueue")) \/ Done(s)
    /\ UNCHANGED <<assignee, agentVars, agentStatus, runtimeVars, held>>

\* DeleteIssue cancels the issue's tasks, then deletes the row.
BeginDeleteIssue(s, i) ==
    /\ Free(s, "delete") /\ Exists(i)
    /\ CancelAgentTasksByIssue(i)
    /\ Become(s, [Idle EXCEPT !.pc = "delete_issue", !.issue = i])
    /\ UNCHANGED <<assignee, agentVars, agentStatus, runtimeVars, held>>

DeleteIssue(s) ==
    /\ At(s, "delete_issue")
    /\ DeleteIssueRows(req[s].issue)
    /\ assignee' = [assignee EXCEPT ![req[s].issue] = "deleted"]
    /\ Done(s)
    /\ UNCHANGED <<agentVars, agentStatus, runtimeVars, held>>

\* A comment that mentions the agents M.  direct: the conditions on the text
\* and the thread that let a comment trigger the assignee.
CreateComment(s, i, M, direct) ==
    /\ Free(s, "comment") /\ Room(1 + Cardinality(M)) /\ Exists(i)
    /\ direct => assignee[i] \in Agent /\ (M = {} \/ assignee[i] \in M)
    /\ direct \/ M \ {assignee[i]} # {}
    /\ Become(s, [Idle EXCEPT !.pc = IF direct THEN "comment_check" ELSE "mention",
                              !.issue = i, !.old = assignee[i], !.agent = assignee[i],
                              !.agents = M \ {assignee[i]}])
    /\ UNCHANGED <<tableVars, assignee, agentVars, agentStatus, runtimeVars, held>>

AfterEnqueue(s) == IF req[s].agents = {} THEN Done(s) ELSE Goto(s, "mention")

\* shouldEnqueueOnComment
CommentCheck(s) ==
    /\ At(s, "comment_check")
    /\ IF HasPendingTaskForIssue(req[s].issue) THEN AfterEnqueue(s) ELSE Goto(s, "enqueue")
    /\ UNCHANGED <<tableVars, assignee, agentVars, agentStatus, runtimeVars, held>>

\* enqueueMentionedAgentTasks, one round of its loop
SkipMention(s, m) == archived[m] \/ HasPendingTaskForIssueAndAgent(req[s].issue, m)

Mention(s, m) ==
    /\ At(s, "mention") /\ m \in req[s].agents
    /\ LET rest == req[s].agents \ {m}
       IN IF SkipMention(s, m)
          THEN IF rest = {} THEN Done(s) ELSE Become(s, [req[s] EXCEPT !.agents = rest])
          ELSE Become(s, [req[s] EXCEPT !.pc = "enqueue", !.agent = m, !.agents = rest])
    /\ UNCHANGED <<tableVars, assignee, agentVars, agentStatus, runtimeVars, held>>

\* EnqueueTaskForIssue and EnqueueTaskForMention: read the agent, insert.
Enqueue(s) ==
    /\ At(s, "enqueue")
    /\ LET a == req[s].agent
       IN IF archived[a] THEN AfterEnqueue(s)
          ELSE Become(s, [req[s] EXCEPT !.pc = "insert", !.runtime = agentRuntime[a]])
    /\ UNCHANGED <<tableVars, assignee, agentVars, agentStatus, runtimeVars, held>>

\* The foreign key on issue_id and the unique index can refuse the insert.
Refused(s) == ~Exists(req[s].issue) \/ InsertRefused(req[s].issue)

Insert(s, p) ==
    /\ At(s, "insert")
    /\ IF Refused(s) THEN UNCHANGED tableVars
       ELSE CreateAgentTask(req[s].agent, req[s].runtime, req[s].issue, p)
    /\ AfterEnqueue(s)
    /\ UNCHANGED <<assignee, agentVars, agentStatus, runtimeVars, held>>

-----------------------------------------------------------------------------
(* Agents and runtimes *)

ArchiveAgent(s, a) ==
    /\ Free(s, "archive") /\ ~archived[a]
    /\ archived' = [archived EXCEPT ![a] = TRUE]
    /\ Become(s, [Idle EXCEPT !.pc = "cancel_agent", !.agent = a])
    /\ UNCHANGED <<tableVars, assignee, agentRuntime, maxTasks, agentStatus,
                   runtimeVars, held>>

CancelTasksOfAgent(s) ==
    /\ At(s, "cancel_agent")
    /\ CancelAgentTasksByAgent(req[s].agent)
    /\ Done(s)
    /\ UNCHANGED <<assignee, agentVars, agentStatus, runtimeVars, held>>

RestoreAgent(a) ==
    /\ "restore" \in Kinds /\ archived[a]
    /\ archived' = [archived EXCEPT ![a] = FALSE]
    /\ UNCHANGED <<tableVars, assignee, agentRuntime, maxTasks, agentStatus,
                   runtimeVars, req, held>>

UpdateAgent(a, r, n) ==
    /\ "configure" \in Kinds
    /\ agentRuntime' = [agentRuntime EXCEPT ![a] = r]
    /\ maxTasks' = [maxTasks EXCEPT ![a] = n]
    /\ UNCHANGED <<tableVars, assignee, archived, agentStatus, runtimeVars, req, held>>

\* DaemonHeartbeat; DaemonRegister writes the same two columns.
DaemonHeartbeat(r) ==
    /\ online' = [online EXCEPT ![r] = TRUE]
    /\ fresh' = [fresh EXCEPT ![r] = TRUE]
    /\ UNCHANGED <<tableVars, assignee, agentVars, agentStatus, req, held>>

DaemonDeregister(r) ==
    /\ "deregister" \in Kinds
    /\ online' = [online EXCEPT ![r] = FALSE]
    /\ UNCHANGED <<tableVars, assignee, agentVars, agentStatus, fresh, req, held>>

\* Time: 45 s without a heartbeat; a task's own deadline.
GoesStale(r) ==
    /\ "stale" \in Kinds
    /\ fresh' = [fresh EXCEPT ![r] = FALSE]
    /\ UNCHANGED <<tableVars, assignee, agentVars, agentStatus, online, req, held>>

GetsLate(t) ==
    /\ "late" \in Kinds
    /\ DeadlinePasses(t)
    /\ UNCHANGED <<assignee, agentVars, agentStatus, runtimeVars, req, held>>

-----------------------------------------------------------------------------
(* The sweeper *)

\* MarkStaleRuntimesOffline; with nothing marked sweepStaleRuntimes returns.
SweepRuntimes ==
    /\ At(Sweeper, "idle")
    /\ LET stale == {r \in Runtime : online[r] /\ ~fresh[r]}
       IN /\ online' = [r \in Runtime |-> online[r] /\ r \notin stale]
          /\ Goto(Sweeper, IF stale = {} THEN "sweep_tasks" ELSE "sweep_offline")
    /\ UNCHANGED <<tableVars, assignee, agentVars, agentStatus, fresh, held>>

AgentsOf(S) == {task[t].agent : t \in S}

SweepOffline ==
    /\ At(Sweeper, "sweep_offline")
    /\ LET off == {r \in Runtime : ~online[r]}
       IN /\ FailTasksForOfflineRuntimes(off)
          /\ Become(Sweeper, Reconciling(AgentsOf(OrphanedBy(off)), "sweep_tasks"))
    /\ UNCHANGED <<assignee, agentVars, agentStatus, runtimeVars, held>>

SweepTasks ==
    /\ At(Sweeper, "sweep_tasks")
    /\ FailStaleTasks
    /\ Become(Sweeper, Reconciling(AgentsOf(Stale), "idle"))
    /\ UNCHANGED <<assignee, agentVars, agentStatus, runtimeVars, held>>

\* The client goes away and its context is cancelled, or the server dies.
Abort(s) ==
    /\ "abort" \in Kinds /\ ~At(s, "idle")
    /\ Disconnect(s)
    /\ Done(s)
    /\ UNCHANGED <<assignee, agentVars, agentStatus, runtimeVars, held>>

-----------------------------------------------------------------------------
ClaimStep(s) ==
    \/ \E t \in Rows : ClaimCheck(s, t) \/ ClaimDispatch(s, t)
    \/ ClaimSelect(s) \/ ClaimNothing(s) \/ ClaimAnswer(s) \/ ClaimGiveUp(s)

ReconcileStep(s) == ReconcileWrite(s) \/ \E a \in Agent : ReconcileCount(s, a)

IssueStep(s) ==
    \/ UpdateIssue(s) \/ CancelTasksForIssue(s) \/ DeleteIssue(s)
    \/ CommentCheck(s) \/ Enqueue(s)
    \/ \E m \in Agent : Mention(s, m)
    \/ \E p \in Priority : Insert(s, p)

\* One more step of the request s serves.
Proceed(s) == ClaimStep(s) \/ ReconcileStep(s) \/ IssueStep(s) \/ CancelTasksOfAgent(s)

Begin(s) ==
    \/ \E r \in Runtime : BeginClaim(s, r)
    \/ \E t \in Rows : CompleteTask(s, t) \/ FailTask(s, t) \/ CancelTask(s, t)
    \/ \E i \in Issue :
          \/ \E b \in Agent \union {"nobody"} : CreateIssue(s, i, b)
          \/ \E k \in {"assign", "member", "unassign", "edit"} : BeginUpdateIssue(s, i, k)
          \/ BeginDeleteIssue(s, i)
          \/ \E M \in SUBSET Agent, d \in BOOLEAN : CreateComment(s, i, M, d)
    \/ \E a \in Agent : ArchiveAgent(s, a)

Sweep == SweepRuntimes \/ SweepOffline \/ SweepTasks

ServiceNext ==
    \/ \E s \in Session : Proceed(s) \/ Begin(s) \/ Abort(s)
    \/ \E t \in Rows : StartTask(t) \/ DaemonDrops(t) \/ GetsLate(t)
    \/ \E a \in Agent :
          RestoreAgent(a) \/ \E r \in Runtime, n \in MaxAgentTasks : UpdateAgent(a, r, n)
    \/ \E r \in Runtime : DaemonHeartbeat(r) \/ DaemonDeregister(r) \/ GoesStale(r)
    \/ Sweep

ServiceSpec == ServiceInit /\ [][ServiceNext]_serviceVars

\* Requests make progress, daemons poll, time passes and the sweeper ticks.  A
\* session that is free now and then serves every runtime's poll (strong): the
\* number of sessions is a bound of the model, not of the server.
Fairness ==
    /\ \A s \in Session : WF_serviceVars(Proceed(s))
    /\ \A r \in Runtime : SF_serviceVars(\E s \in Session : BeginClaim(s, r))
    /\ \A t \in 1..MaxTasks : WF_serviceVars(t \in Rows /\ GetsLate(t))
    /\ WF_serviceVars(Sweep)

FairService == ServiceSpec /\ Fairness

-----------------------------------------------------------------------------
(* Properties *)

Quiet == \A s \in Session : At(s, "idle")

\* What the code keeps while the limit itself is not changed: the count and the
\* claim are two statements, so each further concurrent request can push an
\* agent one task beyond its limit, and no more than that.
OvershootBounded == \A a \in Agent :
    CountRunningTasks(a) < maxTasks[a] + Cardinality(Handlers)

\* A request at one of these steps is about to write an issue or its queue.
Writing == {"update", "cancel_issue", "delete_issue", "comment_check", "mention",
            "enqueue", "insert"}

\* Of the requests that write one issue, none begins before the last has ended.
OneWriterPerIssue == \A x, y \in Session :
    /\ req[x].pc \in Writing
    /\ req[y].pc \in Writing
    /\ req[x].issue = req[y].issue
    => x = y

\* A comment is made to the assignee, and names no agent besides.
NoMentions == \A s \in Session : req[s].pc \in Writing => req[s].agents = {}

OneByOne == OneWriterPerIssue /\ NoMentions

\* When nothing is in flight, every open task of an issue is its assignee's:
\* reassigning cancels the old agent's work (where requests come OneByOne).
QueueFollowsAssignee == Quiet =>
    \A i \in Issue : \A t \in OpenOf(i) : task[t].agent = assignee[i]

\* A runtime's claim dispatches tasks of that runtime.
ClaimsOwnTasks == [][\A s \in Session, t \in Rows :
    At(s, "claim_lock") /\ task[t].status = "queued" /\ task'[t].status = "dispatched"
        /\ req'[s].pc = "claim_status" /\ req'[s].task = t
    => task[t].runtime = req[s].runtime]_serviceVars

Has(t, S) == t \in Rows /\ task[t].status \in S

\* A task that was dispatched, by whatever claim and for whatever daemon, ends:
\* also one whose claim answer was lost, one claimed for another runtime, and
\* one whose daemon or server died.
ActiveEnds == \A t \in 1..MaxTasks : Has(t, Active) ~> Has(t, Status \ Open)

\* A queued task is claimed, cancelled or deleted as long as runtimes poll: no
\* serialization, capacity limit or stranded sibling blocks it for ever.
QueuedLeaves ==
    \A t \in 1..MaxTasks : Has(t, {"queued"}) ~> Has(t, Status \ {"queued"})
=============================================================================

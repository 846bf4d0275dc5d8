------------------------- MODULE TaskServiceProofs -------------------------
(***************************************************************************)
(* The service implements the table: whatever the requests do, what they   *)
(* do to agent_task_queue is a step of TaskTable.  So all that is proved   *)
(* of the table holds of the service, for every set of requests.           *)
(***************************************************************************)
EXTENDS TaskService, TaskTableProofs, FiniteSetTheorems

\* What a request holds is what its next statement needs: an agent, an issue,
\* a runtime or a row that exists in R.
GoodRequest(q, R) ==
    /\ q \in Request
    /\ q.pc \in {"claim_row", "claim_lock", "claim_status", "comment_check", "enqueue",
                 "insert", "cancel_agent"} => q.agent \in Agent
    /\ q.pc \in {"update", "cancel_issue", "delete_issue", "comment_check", "mention",
                 "enqueue", "insert"} => q.issue \in Issue
    /\ q.pc = "insert" => q.runtime \in Runtime
    /\ q.pc = "claim_status" => q.task \in R

GoodRequests == /\ req \in [Session -> Request]
                /\ \A s \in Session : GoodRequest(req[s], Rows)

ServiceInv == ServiceTypeOK /\ TableInv /\ GoodRequests

-----------------------------------------------------------------------------
(* Requests *)

LEMMA IdleIsGood == \A R : GoodRequest(Idle, R)
  BY TableConstants DEF GoodRequest, Request, Idle, NotAgent

LEMMA BecomesGood ==
  ASSUME GoodRequests, Rows \subseteq Rows', NEW s \in Session, NEW q,
         GoodRequest(q, Rows'), Become(s, q)
  PROVE  GoodRequests'
  <1>1. q \in Request
    BY DEF GoodRequest
  <1>2. req' \in [Session -> Request]
    BY <1>1 DEF GoodRequests, Become
  <1>3. \A x \in Session : req'[x] = IF x = s THEN q ELSE req[x]
    BY DEF GoodRequests, Become
  <1>4. \A x \in Session : GoodRequest(req[x], Rows')
    BY DEF GoodRequests, GoodRequest
  <1> QED BY <1>2, <1>3, <1>4 DEF GoodRequests

LEMMA KeepsGood == ASSUME GoodRequests, Rows \subseteq Rows', UNCHANGED req
                   PROVE  GoodRequests'
  BY DEF GoodRequests, GoodRequest

LEMMA DoneIsGood == ASSUME GoodRequests, Rows \subseteq Rows', NEW s \in Session, Done(s)
                    PROVE  GoodRequests'
  BY IdleIsGood, BecomesGood DEF Done

LEMMA ReconcilingIsGood ==
  ASSUME NEW A \in SUBSET Agent, NEW nxt \in {"idle", "sweep_tasks"}, NEW R
  PROVE  GoodRequest(Reconciling(A, nxt), R)
  <1> DEFINE again == [Idle EXCEPT !.pc = "reconcile", !.agents = A, !.next = nxt]
             over  == [Idle EXCEPT !.pc = nxt]
  <1>0. Idle \in Request
    BY IdleIsGood DEF GoodRequest
  <1>1. over \in Request /\ over.pc = nxt
    BY <1>0 DEF Request
  <1>2. again \in Request /\ again.pc = "reconcile"
    BY <1>0 DEF Request
  <1>3. Reconciling(A, nxt) \in {again, over}
    BY DEF Reconciling
  <1> HIDE DEF again, over
  <1> QED BY <1>1, <1>2, <1>3 DEF GoodRequest

\* The part of a request that only moves on.
LEMMA MovedIsGood ==
  ASSUME NEW R, NEW q, GoodRequest(q, R),
         NEW pc \in {"claim", "claim_lock", "mention", "enqueue"},
         pc \in {"mention", "enqueue"} => q.issue \in Issue,
         pc \in {"claim_lock", "enqueue"} => q.agent \in Agent
  PROVE  GoodRequest([q EXCEPT !.pc = pc], R)
  BY DEF GoodRequest, Request

LEMMA AfterEnqueueIsGood ==
  ASSUME GoodRequests, Rows \subseteq Rows', NEW s \in Session, AfterEnqueue(s),
         req[s].pc \in {"comment_check", "enqueue", "insert"}
  PROVE  GoodRequests'
  <1>1. CASE Done(s)
    BY <1>1, DoneIsGood
  <1>2. CASE Goto(s, "mention")
    <2>1. GoodRequest(req[s], Rows') /\ req[s].issue \in Issue
      BY DEF GoodRequests, GoodRequest
    <2>2. GoodRequest([req[s] EXCEPT !.pc = "mention"], Rows')
      BY <2>1, MovedIsGood
    <2> QED BY <1>2, <2>2, BecomesGood DEF Goto
  <1> QED BY <1>1, <1>2 DEF AfterEnqueue

-----------------------------------------------------------------------------
(* Every step is a step of the table or leaves it alone *)

LEMMA SweeperIsSession == Sweeper \in Session
  BY ServiceConstants

LEMMA ClaimIsTableStep ==
  ASSUME ServiceInv, NEW s \in Session, ClaimStep(s) \/ \E r \in Runtime : BeginClaim(s, r)
  PROVE  [TableNext]_tableVars
  <1>1. CASE \E r \in Runtime : BeginClaim(s, r)
    BY <1>1 DEF BeginClaim
  <1>2. CASE \E t \in Rows : ClaimCheck(s, t)
    BY <1>2 DEF ClaimCheck
  <1>3. CASE ClaimSelect(s)
    <2>1. req[s].agent \in Agent
      BY <1>3 DEF ClaimSelect, At, ServiceInv, GoodRequests, GoodRequest
    <2> QED BY <1>3, <2>1 DEF ClaimSelect, TableNext
  <1>4. CASE \E t \in Rows : ClaimDispatch(s, t)
    BY <1>4 DEF ClaimDispatch, TableNext
  <1>5. CASE ClaimNothing(s)
    BY <1>5 DEF ClaimNothing, TableNext
  <1>6. CASE ClaimAnswer(s)
    BY <1>6 DEF ClaimAnswer
  <1>7. CASE ClaimGiveUp(s)
    BY <1>7 DEF ClaimGiveUp
  <1> QED BY <1>1, <1>2, <1>3, <1>4, <1>5, <1>6, <1>7 DEF ClaimStep

LEMMA ReportIsTableStep ==
  ASSUME NEW s \in Session, NEW t \in Rows,
         \/ CompleteTask(s, t) \/ FailTask(s, t) \/ CancelTask(s, t)
         \/ StartTask(t) \/ DaemonDrops(t) \/ GetsLate(t)
  PROVE  [TableNext]_tableVars
  BY DEF CompleteTask, FailTask, CancelTask, StartTask, DaemonDrops, GetsLate, TableNext

LEMMA IssueIsTableStep ==
  ASSUME ServiceInv, NEW s \in Session, IssueStep(s) \/ CancelTasksOfAgent(s)
  PROVE  [TableNext]_tableVars
  <1>1. CASE UpdateIssue(s)
    BY <1>1 DEF UpdateIssue
  <1>2. CASE CancelTasksForIssue(s)
    <2>1. req[s].issue \in Issue
      BY <1>2 DEF CancelTasksForIssue, At, ServiceInv, GoodRequests, GoodRequest
    <2> QED BY <1>2, <2>1 DEF CancelTasksForIssue, TableNext
  <1>3. CASE DeleteIssue(s)
    <2>1. req[s].issue \in Issue
      BY <1>3 DEF DeleteIssue, At, ServiceInv, GoodRequests, GoodRequest
    <2> QED BY <1>3, <2>1 DEF DeleteIssue, TableNext
  <1>4. CASE CommentCheck(s) \/ Enqueue(s) \/ \E m \in Agent : Mention(s, m)
    BY <1>4 DEF CommentCheck, Enqueue, Mention
  <1>5. CASE \E p \in Priority : Insert(s, p)
    <2>1. req[s].agent \in Agent /\ req[s].runtime \in Runtime /\ req[s].issue \in Issue
      BY <1>5 DEF Insert, At, ServiceInv, GoodRequests, GoodRequest
    <2> QED BY <1>5, <2>1 DEF Insert, TableNext
  <1>6. CASE CancelTasksOfAgent(s)
    <2>1. req[s].agent \in Agent
      BY <1>6 DEF CancelTasksOfAgent, At, ServiceInv, GoodRequests, GoodRequest
    <2> QED BY <1>6, <2>1 DEF CancelTasksOfAgent, TableNext
  <1> QED BY <1>1, <1>2, <1>3, <1>4, <1>5, <1>6 DEF IssueStep

LEMMA BeginIsTableStep ==
  ASSUME ServiceInv, NEW s \in Session, Begin(s)
  PROVE  [TableNext]_tableVars
  <1>1. CASE \E r \in Runtime : BeginClaim(s, r)
    BY <1>1, ClaimIsTableStep
  <1>2. CASE \E t \in Rows : CompleteTask(s, t) \/ FailTask(s, t) \/ CancelTask(s, t)
    BY <1>2, ReportIsTableStep
  <1>3. ASSUME NEW i \in Issue,
               \/ \E b \in Agent \union {"nobody"} : CreateIssue(s, i, b)
               \/ \E k \in {"assign", "member", "unassign", "edit"} : BeginUpdateIssue(s, i, k)
               \/ \E M \in SUBSET Agent, d \in BOOLEAN : CreateComment(s, i, M, d)
        PROVE  [TableNext]_tableVars
    BY <1>3 DEF CreateIssue, BeginUpdateIssue, CreateComment
  <1>4. CASE \E i \in Issue : BeginDeleteIssue(s, i)
    BY <1>4 DEF BeginDeleteIssue, TableNext
  <1>5. CASE \E a \in Agent : ArchiveAgent(s, a)
    BY <1>5 DEF ArchiveAgent
  <1> QED BY <1>1, <1>2, <1>3, <1>4, <1>5 DEF Begin

LEMMA SweepIsTableStep == ASSUME Sweep PROVE [TableNext]_tableVars
  <1>1. CASE SweepRuntimes
    BY <1>1 DEF SweepRuntimes
  <1>2. CASE SweepOffline
    <2>1. {r \in Runtime : ~online[r]} \in SUBSET Runtime
      OBVIOUS
    <2> QED BY <1>2, <2>1 DEF SweepOffline, TableNext
  <1>3. CASE SweepTasks
    BY <1>3 DEF SweepTasks, TableNext
  <1> QED BY <1>1, <1>2, <1>3 DEF Sweep

LEMMA ServiceIsTableStep ==
  ASSUME ServiceInv, [ServiceNext]_serviceVars
  PROVE  [TableNext]_tableVars
  <1>1. ASSUME NEW s \in Session, Proceed(s) \/ Begin(s) \/ Abort(s)
        PROVE  [TableNext]_tableVars
    <2>1. CASE ReconcileStep(s)
      BY <2>1 DEF ReconcileStep, ReconcileWrite, ReconcileCount
    <2>2. CASE Abort(s)
      BY <2>2 DEF Abort, TableNext
    <2> QED
      BY <1>1, <2>1, <2>2, ClaimIsTableStep, IssueIsTableStep, BeginIsTableStep DEF Proceed
  <1>2. ASSUME NEW t \in Rows, StartTask(t) \/ DaemonDrops(t) \/ GetsLate(t)
        PROVE  [TableNext]_tableVars
    BY <1>2, SweeperIsSession, ReportIsTableStep
  <1>3. ASSUME NEW a \in Agent,
               RestoreAgent(a) \/ \E r \in Runtime, n \in MaxAgentTasks : UpdateAgent(a, r, n)
        PROVE  [TableNext]_tableVars
    BY <1>3 DEF RestoreAgent, UpdateAgent
  <1>4. ASSUME NEW r \in Runtime, DaemonHeartbeat(r) \/ DaemonDeregister(r) \/ GoesStale(r)
        PROVE  [TableNext]_tableVars
    BY <1>4 DEF DaemonHeartbeat, DaemonDeregister, GoesStale
  <1>5. CASE UNCHANGED serviceVars
    BY <1>5 DEF serviceVars, tableVars
  <1> QED BY <1>1, <1>2, <1>3, <1>4, <1>5, SweepIsTableStep DEF ServiceNext

-----------------------------------------------------------------------------
(* Requests stay good *)

LEMMA RowsStay == ASSUME ServiceInv, [ServiceNext]_serviceVars
                  PROVE  Rows \subseteq Rows'
  BY ServiceIsTableStep, StepIsForward DEF ServiceInv, StepForward, Rows

LEMMA RowFacts == ASSUME TableInv, NEW t \in Rows
                  PROVE  t \in 1..MaxTasks /\ task[t].agent \in Agent /\ task[t].status \in Status
  BY RowsRange, RowsInBound DEF TableInv, Row

LEMMA ClaimKeepsRequests ==
  ASSUME ServiceInv, Rows \subseteq Rows', NEW s \in Session,
         ClaimStep(s) \/ \E r \in Runtime : BeginClaim(s, r)
  PROVE  GoodRequests'
  <1> GoodRequests /\ TableInv
    BY DEF ServiceInv
  <1>q. req[s] \in Request
    BY DEF GoodRequests
  <1>1. ASSUME NEW r \in Runtime, BeginClaim(s, r) PROVE GoodRequests'
    <2> DEFINE q == [Idle EXCEPT !.pc = "claim", !.runtime = r, !.todo = FirstOfEachAgent(r)]
    <2>1. FirstOfEachAgent(r) \subseteq 1..MaxTasks
      BY RowFacts DEF FirstOfEachAgent, ListPendingTasksByRuntime
    <2>2. q \in Request /\ q.pc = "claim"
      BY <2>1, IdleIsGood DEF GoodRequest, Request
    <2>3. Become(s, q)
      BY <1>1 DEF BeginClaim
    <2> HIDE DEF q
    <2> QED BY <2>2, <2>3, BecomesGood DEF GoodRequest
  <1>2. ASSUME NEW t \in Rows, ClaimCheck(s, t) PROVE GoodRequests'
    <2> DEFINE a == task[t].agent
               yes == [req[s] EXCEPT !.todo = @ \ {t}, !.pc = "claim_row", !.agent = a]
               no  == [req[s] EXCEPT !.todo = @ \ {t}]
    <2>1. a \in Agent /\ req[s].pc = "claim"
      BY <1>2, RowFacts DEF ClaimCheck, At
    <2>2. yes \in Request /\ yes.pc = "claim_row" /\ yes.agent \in Agent
      BY <1>q, <2>1 DEF Request
    <2>3. no \in Request /\ no.pc = "claim"
      BY <1>q, <2>1 DEF Request
    <2>4. Become(s, yes) \/ Become(s, no)
      <3>1. CASE HasCapacity(a)
        BY <1>2, <3>1 DEF ClaimCheck
      <3>2. CASE ~HasCapacity(a)
        <4>1. Become(s, [req[s] EXCEPT !.todo = @ \ {t}, !.pc = "claim", !.agent = @])
          BY <1>2, <3>2 DEF ClaimCheck
        <4>2. [req[s] EXCEPT !.todo = @ \ {t}, !.pc = "claim", !.agent = @] = no
          BY <1>q, <2>1 DEF Request
        <4> QED BY <4>1, <4>2
      <3> QED BY <3>1, <3>2
    <2> HIDE DEF yes, no
    <2> QED BY <2>2, <2>3, <2>4, BecomesGood DEF GoodRequest
  <1>3. CASE ClaimSelect(s)
    <2>1. req[s].agent \in Agent
      BY <1>3 DEF ClaimSelect, At, GoodRequests, GoodRequest
    <2>2. GoodRequest([req[s] EXCEPT !.pc = "claim_lock"], Rows')
      BY <2>1, MovedIsGood DEF GoodRequests, GoodRequest
    <2> QED BY <1>3, <2>2, BecomesGood DEF ClaimSelect, Goto
  <1>4. ASSUME NEW t \in Rows, ClaimDispatch(s, t) PROVE GoodRequests'
    <2> DEFINE q == [req[s] EXCEPT !.pc = "claim_status", !.task = t]
    <2>1. req[s].agent \in Agent /\ t \in Rows' /\ t \in 0..MaxTasks /\ Become(s, q)
      BY <1>4, RowFacts, TableConstants DEF ClaimDispatch, At, GoodRequests, GoodRequest
    <2>2. q \in Request /\ q.pc = "claim_status" /\ q.agent \in Agent /\ q.task = t
      BY <1>q, <2>1 DEF Request
    <2> HIDE DEF q
    <2> QED BY <2>1, <2>2, BecomesGood DEF GoodRequest
  <1>5. CASE ClaimNothing(s) \/ ClaimAnswer(s)
    <2> DEFINE q == [req[s] EXCEPT !.pc = "claim", !.agent = "nobody"]
               z == [req[s] EXCEPT !.pc = "claim", !.agent = "nobody", !.task = 0]
    <2>0. "nobody" \in Agent \union NotAgent /\ 0 \in 0..MaxTasks
      BY TableConstants DEF NotAgent
    <2>1a. q \in Request /\ q.pc = "claim"
      BY <1>q, <2>0 DEF Request
    <2>1b. z \in Request /\ z.pc = "claim"
      BY <1>q, <2>0 DEF Request
    <2>2. Become(s, q) \/ Become(s, z) \/ Done(s)
      BY <1>5 DEF ClaimNothing, ClaimAnswer
    <2> HIDE DEF q, z
    <2>3. GoodRequest(q, Rows') /\ GoodRequest(z, Rows')
      BY <2>1a, <2>1b DEF GoodRequest
    <2> QED BY <2>2, <2>3, BecomesGood, DoneIsGood
  <1>6. CASE ClaimGiveUp(s)
    BY <1>6, DoneIsGood DEF ClaimGiveUp
  <1> QED BY <1>1, <1>2, <1>3, <1>4, <1>5, <1>6 DEF ClaimStep

LEMMA ReconcileKeepsRequests ==
  ASSUME ServiceInv, Rows \subseteq Rows', NEW s \in Session, ReconcileStep(s)
  PROVE  GoodRequests'
  <1> GoodRequests
    BY DEF ServiceInv
  <1>q. req[s] \in Request
    BY DEF GoodRequests
  <1>1. CASE ReconcileWrite(s)
    <2> DEFINE A == req[s].agents \ {req[s].agent}
    <2>1. A \in SUBSET Agent /\ req[s].next \in {"idle", "sweep_tasks"}
      BY <1>q DEF Request
    <2>2. Become(s, Reconciling(A, req[s].next))
      BY <1>1 DEF ReconcileWrite
    <2> QED BY <2>1, <2>2, ReconcilingIsGood, BecomesGood
  <1>2. ASSUME NEW a \in Agent, ReconcileCount(s, a) PROVE GoodRequests'
    <2> DEFINE q == [req[s] EXCEPT !.pc = "reconcile_write", !.agent = a,
                                   !.flag = CountRunningTasks(a) > 0]
    <2>1. (CountRunningTasks(a) > 0) \in BOOLEAN
      OBVIOUS
    <2>2. q \in Request /\ q.pc = "reconcile_write"
      BY <1>q, <2>1 DEF Request
    <2>3. Become(s, q)
      BY <1>2 DEF ReconcileCount
    <2> HIDE DEF q
    <2> QED BY <2>2, <2>3, BecomesGood DEF GoodRequest
  <1> QED BY <1>1, <1>2 DEF ReconcileStep

LEMMA ReportKeepsRequests ==
  ASSUME ServiceInv, Rows \subseteq Rows', NEW s \in Session, NEW t \in Rows,
         \/ CompleteTask(s, t) \/ FailTask(s, t) \/ CancelTask(s, t)
         \/ StartTask(t) \/ DaemonDrops(t) \/ GetsLate(t)
  PROVE  GoodRequests'
  <1>1. CASE StartTask(t) \/ DaemonDrops(t) \/ GetsLate(t)
    BY <1>1, KeepsGood DEF ServiceInv, StartTask, DaemonDrops, GetsLate
  <1>2. CASE CompleteTask(s, t) \/ FailTask(s, t) \/ CancelTask(s, t)
    <2>1. {task[t].agent} \in SUBSET Agent
      BY RowFacts DEF ServiceInv
    <2>2. Become(s, Reconciling({task[t].agent}, "idle"))
      BY <1>2 DEF CompleteTask, FailTask, CancelTask
    <2> QED BY <2>1, <2>2, ReconcilingIsGood, BecomesGood DEF ServiceInv
  <1> QED BY <1>1, <1>2

LEMMA IssueKeepsRequests ==
  ASSUME ServiceInv, Rows \subseteq Rows', NEW s \in Session,
         IssueStep(s) \/ CancelTasksOfAgent(s)
  PROVE  GoodRequests'
  <1> GoodRequests
    BY DEF ServiceInv
  <1>q. req[s] \in Request /\ GoodRequest(req[s], Rows')
    BY DEF GoodRequests, GoodRequest
  <1>a. Idle \in Request
    BY IdleIsGood DEF GoodRequest
  <1>e. ASSUME req[s].agent \in Agent, req[s].issue \in Issue, Goto(s, "enqueue")
        PROVE  GoodRequests'
    BY <1>q, <1>e, MovedIsGood, BecomesGood DEF Goto
  <1>1. CASE UpdateIssue(s)
    <2> DEFINE q == [Idle EXCEPT !.pc = "cancel_issue", !.issue = req[s].issue,
                                 !.agent = req[s].agent, !.next = "idle"]
    <2>1. req[s].issue \in Issue /\ req[s].agent \in Agent \union NotAgent
      BY <1>q, <1>1 DEF UpdateIssue, At, GoodRequest, Request
    <2>2. q \in Request /\ q.pc = "cancel_issue" /\ q.issue \in Issue
      BY <1>a, <2>1 DEF Request
    <2>3. Become(s, q) \/ Done(s)
      BY <1>1 DEF UpdateIssue
    <2> HIDE DEF q
    <2> QED BY <2>2, <2>3, BecomesGood, DoneIsGood DEF GoodRequest
  <1>2. CASE CancelTasksForIssue(s)
    <2>1. req[s].issue \in Issue
      BY <1>q, <1>2 DEF CancelTasksForIssue, At, GoodRequest
    <2> QED BY <1>2, <1>e, <2>1, DoneIsGood DEF CancelTasksForIssue
  <1>3. CASE DeleteIssue(s) \/ CancelTasksOfAgent(s)
    BY <1>3, DoneIsGood DEF DeleteIssue, CancelTasksOfAgent
  <1>4. CASE CommentCheck(s)
    <2>1. req[s].issue \in Issue /\ req[s].agent \in Agent /\ req[s].pc = "comment_check"
      BY <1>q, <1>4 DEF CommentCheck, At, GoodRequest
    <2> QED BY <1>4, <1>e, <2>1, AfterEnqueueIsGood DEF CommentCheck
  <1>5. ASSUME NEW m \in Agent, Mention(s, m) PROVE GoodRequests'
    <2> DEFINE rest == req[s].agents \ {m}
               skip == [req[s] EXCEPT !.agents = rest]
               q    == [req[s] EXCEPT !.pc = "enqueue", !.agent = m, !.agents = rest]
    <2>1. req[s].issue \in Issue /\ req[s].pc = "mention"
      BY <1>q, <1>5 DEF Mention, At, GoodRequest
    <2>2. rest \in SUBSET Agent
      BY <1>q DEF Request
    <2>3. skip \in Request /\ skip.pc = "mention" /\ skip.issue \in Issue
      BY <1>q, <2>1, <2>2 DEF Request
    <2>4. q \in Request /\ q.pc = "enqueue" /\ q.issue \in Issue /\ q.agent \in Agent
      BY <1>q, <2>1, <2>2 DEF Request
    <2>5. Become(s, skip) \/ Become(s, q) \/ Done(s)
      BY <1>5 DEF Mention
    <2> HIDE DEF skip, q
    <2> QED BY <2>3, <2>4, <2>5, BecomesGood, DoneIsGood DEF GoodRequest
  <1>6. CASE Enqueue(s)
    <2> DEFINE a == req[s].agent
               q == [req[s] EXCEPT !.pc = "insert", !.runtime = agentRuntime[a]]
    <2>1. req[s].issue \in Issue /\ a \in Agent /\ req[s].pc = "enqueue"
      BY <1>q, <1>6 DEF Enqueue, At, GoodRequest
    <2>2. agentRuntime[a] \in Runtime
      BY <2>1 DEF ServiceInv, ServiceTypeOK
    <2>3. /\ q \in Request /\ q.pc = "insert" /\ q.issue \in Issue
          /\ q.agent \in Agent /\ q.runtime \in Runtime
      BY <1>q, <2>1, <2>2 DEF Request
    <2>4. Become(s, q) \/ AfterEnqueue(s)
      BY <1>6 DEF Enqueue
    <2> HIDE DEF q
    <2> QED BY <2>1, <2>3, <2>4, BecomesGood, AfterEnqueueIsGood DEF GoodRequest
  <1>7. ASSUME NEW p \in Priority, Insert(s, p) PROVE GoodRequests'
    BY <1>7, AfterEnqueueIsGood DEF Insert, At
  <1> QED BY <1>1, <1>2, <1>3, <1>4, <1>5, <1>6, <1>7 DEF IssueStep

LEMMA BeginKeepsRequests ==
  ASSUME ServiceInv, Rows \subseteq Rows', NEW s \in Session, Begin(s)
  PROVE  GoodRequests'
  <1> GoodRequests
    BY DEF ServiceInv
  <1>a. Idle \in Request
    BY IdleIsGood DEF GoodRequest
  <1>b. assignee \in [Issue -> Agent \union NotAgent]
    BY DEF ServiceInv, ServiceTypeOK
  <1>1. ASSUME NEW i \in Issue, NEW b, CreateIssue(s, i, b) PROVE GoodRequests'
    <2> DEFINE q == [Idle EXCEPT !.pc = "enqueue", !.issue = i, !.agent = b]
    <2>1. UNCHANGED req \/ (b \in Agent /\ Become(s, q))
      BY <1>1 DEF CreateIssue
    <2>2. b \in Agent => /\ q \in Request /\ q.pc = "enqueue"
                         /\ q.issue \in Issue /\ q.agent \in Agent
      BY <1>a DEF Request
    <2> HIDE DEF q
    <2> QED BY <2>1, <2>2, BecomesGood, KeepsGood DEF GoodRequest
  <1>2. ASSUME NEW i \in Issue, NEW k \in {"assign", "member", "unassign", "edit"},
               BeginUpdateIssue(s, i, k)
        PROVE  GoodRequests'
    <2> PICK b \in NewAssignee(k, i) :
          Become(s, [Idle EXCEPT !.pc = "update", !.issue = i, !.old = assignee[i],
                                 !.agent = b, !.flag = NamesAssignee(k)])
      BY <1>2 DEF BeginUpdateIssue
    <2> DEFINE q == [Idle EXCEPT !.pc = "update", !.issue = i, !.old = assignee[i],
                                 !.agent = b, !.flag = NamesAssignee(k)]
    <2>1. b \in Agent \union NotAgent /\ assignee[i] \in Agent \union NotAgent
      BY <1>b DEF NewAssignee, Assignable, NotAgent
    <2>2. NamesAssignee(k) \in BOOLEAN
      BY DEF NamesAssignee
    <2>3. q \in Request /\ q.pc = "update" /\ q.issue \in Issue
      BY <1>a, <2>1, <2>2 DEF Request
    <2>4. Become(s, q)
      OBVIOUS
    <2> HIDE DEF q
    <2> QED BY <2>3, <2>4, BecomesGood DEF GoodRequest
  <1>3. ASSUME NEW i \in Issue, BeginDeleteIssue(s, i) PROVE GoodRequests'
    <2> DEFINE q == [Idle EXCEPT !.pc = "delete_issue", !.issue = i]
    <2>1. q \in Request /\ q.pc = "delete_issue" /\ q.issue \in Issue
      BY <1>a DEF Request
    <2>2. Become(s, q)
      BY <1>3 DEF BeginDeleteIssue
    <2> HIDE DEF q
    <2> QED BY <2>1, <2>2, BecomesGood DEF GoodRequest
  <1>4. ASSUME NEW i \in Issue, NEW m \in SUBSET Agent, NEW d \in BOOLEAN,
               CreateComment(s, i, m, d)
        PROVE  GoodRequests'
    <2> DEFINE pc == IF d THEN "comment_check" ELSE "mention"
               q  == [Idle EXCEPT !.pc = pc, !.issue = i, !.old = assignee[i],
                                  !.agent = assignee[i], !.agents = m \ {assignee[i]}]
    <2>1. /\ assignee[i] \in Agent \union NotAgent
          /\ d => assignee[i] \in Agent
          /\ m \ {assignee[i]} \in SUBSET Agent
          /\ Become(s, q)
      BY <1>b, <1>4 DEF CreateComment
    <2>2. pc \in {"comment_check", "mention"} /\ (pc = "comment_check" => d)
      OBVIOUS
    <2> HIDE DEF pc
    <2>3. q \in Request /\ q.pc = pc /\ q.issue \in Issue /\ q.agent = assignee[i]
      BY <1>a, <2>1, <2>2 DEF Request
    <2> HIDE DEF q
    <2> QED BY <2>1, <2>2, <2>3, BecomesGood DEF GoodRequest
  <1>5. ASSUME NEW a \in Agent, ArchiveAgent(s, a) PROVE GoodRequests'
    <2> DEFINE q == [Idle EXCEPT !.pc = "cancel_agent", !.agent = a]
    <2>1. q \in Request /\ q.pc = "cancel_agent" /\ q.agent \in Agent
      BY <1>a DEF Request
    <2>2. Become(s, q)
      BY <1>5 DEF ArchiveAgent
    <2> HIDE DEF q
    <2> QED BY <2>1, <2>2, BecomesGood DEF GoodRequest
  <1> QED
    BY <1>1, <1>2, <1>3, <1>4, <1>5, ClaimKeepsRequests, ReportKeepsRequests DEF Begin

LEMMA SweepKeepsRequests == ASSUME ServiceInv, Rows \subseteq Rows', Sweep
                            PROVE  GoodRequests'
  <1> GoodRequests
    BY DEF ServiceInv
  <1> USE SweeperIsSession
  <1>1. CASE SweepRuntimes
    <2> DEFINE on == [req[Sweeper] EXCEPT !.pc = "sweep_tasks"]
               off == [req[Sweeper] EXCEPT !.pc = "sweep_offline"]
    <2>1. /\ on \in Request /\ on.pc = "sweep_tasks"
          /\ off \in Request /\ off.pc = "sweep_offline"
      BY DEF GoodRequests, Request
    <2>2. Become(Sweeper, on) \/ Become(Sweeper, off)
      BY <1>1 DEF SweepRuntimes, Goto
    <2> HIDE DEF on, off
    <2> QED BY <2>1, <2>2, BecomesGood DEF GoodRequest
  <1>2. ASSUME SweepOffline \/ SweepTasks PROVE GoodRequests'
    <2>1. ASSUME NEW T \in SUBSET Rows PROVE AgentsOf(T) \in SUBSET Agent
      BY RowFacts DEF AgentsOf, ServiceInv
    <2>2. Stale \in SUBSET Rows /\ \A off : OrphanedBy(off) \in SUBSET Rows
      BY DEF Stale, OrphanedBy
    <2> QED BY <1>2, <2>1, <2>2, ReconcilingIsGood, BecomesGood DEF SweepOffline, SweepTasks
  <1> QED BY <1>1, <1>2 DEF Sweep

LEMMA StepKeepsRequests ==
  ASSUME ServiceInv, [ServiceNext]_serviceVars
  PROVE  GoodRequests'
  <1>0. Rows \subseteq Rows' /\ GoodRequests
    BY RowsStay DEF ServiceInv
  <1>1. ASSUME NEW s \in Session, Proceed(s) \/ Begin(s) \/ Abort(s) PROVE GoodRequests'
    <2>1. CASE Abort(s)
      BY <1>0, <2>1, DoneIsGood DEF Abort
    <2> QED BY <1>0, <1>1, <2>1, ClaimKeepsRequests, ReconcileKeepsRequests,
               IssueKeepsRequests, BeginKeepsRequests DEF Proceed
  <1>2. ASSUME NEW t \in Rows, StartTask(t) \/ DaemonDrops(t) \/ GetsLate(t)
        PROVE  GoodRequests'
    BY <1>0, <1>2, SweeperIsSession, ReportKeepsRequests
  <1>3. ASSUME \/ \E a \in Agent : \/ RestoreAgent(a)
                                   \/ \E r \in Runtime, n \in MaxAgentTasks : UpdateAgent(a, r, n)
               \/ \E r \in Runtime : DaemonHeartbeat(r) \/ DaemonDeregister(r) \/ GoesStale(r)
               \/ UNCHANGED serviceVars
        PROVE  GoodRequests'
    BY <1>0, <1>3, KeepsGood
    DEF RestoreAgent, UpdateAgent, DaemonHeartbeat, DaemonDeregister, GoesStale, serviceVars
  <1> QED BY <1>0, <1>1, <1>2, <1>3, SweepKeepsRequests DEF ServiceNext

-----------------------------------------------------------------------------
(* The other columns keep their type *)

OtherColumns ==
    /\ assignee \in [Issue -> Agent \union NotAgent]
    /\ agentRuntime \in [Agent -> Runtime]
    /\ maxTasks \in [Agent -> MaxAgentTasks]
    /\ archived \in [Agent -> BOOLEAN]
    /\ agentStatus \in [Agent -> {"idle", "working"}]
    /\ online \in [Runtime -> BOOLEAN]
    /\ fresh \in [Runtime -> BOOLEAN]

LEMMA ColumnsStay ==
  ASSUME OtherColumns,
         UNCHANGED <<assignee, agentVars, agentStatus, runtimeVars>>
  PROVE  OtherColumns'
  BY DEF OtherColumns, agentVars, runtimeVars

LEMMA ColumnsTyped ==
  ASSUME ServiceInv, [ServiceNext]_serviceVars
  PROVE  OtherColumns'
  <1> OtherColumns
    BY DEF ServiceInv, ServiceTypeOK, OtherColumns
  <1>q. \A s \in Session : GoodRequest(req[s], Rows)
    BY DEF ServiceInv, GoodRequests
  <1>1. ASSUME NEW s \in Session, ClaimStep(s) PROVE OtherColumns'
    <2>1. CASE ClaimAnswer(s)
      BY <2>1 DEF ClaimAnswer, OtherColumns, agentVars, runtimeVars
    <2> QED BY <1>1, <2>1, ColumnsStay DEF ClaimStep, ClaimCheck, ClaimDispatch,
               ClaimSelect, ClaimNothing, ClaimGiveUp
  <1>2. ASSUME NEW s \in Session, ReconcileStep(s) PROVE OtherColumns'
    <2>1. CASE ReconcileWrite(s)
      BY <2>1 DEF ReconcileWrite, OtherColumns, agentVars, runtimeVars
    <2> QED BY <1>2, <2>1, ColumnsStay DEF ReconcileStep, ReconcileCount
  <1>3. ASSUME NEW s \in Session, IssueStep(s) \/ CancelTasksOfAgent(s) PROVE OtherColumns'
    <2>1. CASE UpdateIssue(s)
      <3>1. req[s].agent \in Agent \union NotAgent
        BY <1>q DEF GoodRequest, Request
      <3>2. assignee' \in [Issue -> Agent \union NotAgent]
        BY <2>1, <3>1 DEF UpdateIssue, OtherColumns
      <3> QED BY <2>1, <3>2 DEF UpdateIssue, OtherColumns, agentVars, runtimeVars
    <2>2. CASE DeleteIssue(s)
      <3>1. assignee' \in [Issue -> Agent \union NotAgent]
        BY <2>2 DEF DeleteIssue, OtherColumns, NotAgent
      <3> QED BY <2>2, <3>1 DEF DeleteIssue, OtherColumns, agentVars, runtimeVars
    <2> QED BY <1>3, <2>1, <2>2, ColumnsStay DEF IssueStep, CancelTasksForIssue,
               CommentCheck, Enqueue, Mention, Insert, CancelTasksOfAgent
  <1>4. ASSUME NEW s \in Session, Begin(s) PROVE OtherColumns'
    <2>1. ASSUME NEW i \in Issue, NEW b, CreateIssue(s, i, b) PROVE OtherColumns'
      <3>1. assignee' \in [Issue -> Agent \union NotAgent]
        BY <2>1 DEF CreateIssue, OtherColumns, Assignable, NotAgent
      <3> QED BY <2>1, <3>1 DEF CreateIssue, OtherColumns, agentVars, runtimeVars
    <2>2. ASSUME NEW a \in Agent, ArchiveAgent(s, a) PROVE OtherColumns'
      BY <2>2 DEF ArchiveAgent, OtherColumns, runtimeVars
    <2> QED BY <1>4, <2>1, <2>2, ColumnsStay DEF Begin, BeginClaim, CompleteTask, FailTask,
               CancelTask, BeginUpdateIssue, BeginDeleteIssue, CreateComment
  <1>5. ASSUME NEW a \in Agent, NEW r \in Runtime, NEW n \in MaxAgentTasks, UpdateAgent(a, r, n)
        PROVE  OtherColumns'
    <2>1. agentRuntime' \in [Agent -> Runtime] /\ maxTasks' \in [Agent -> MaxAgentTasks]
      BY <1>5 DEF UpdateAgent, OtherColumns
    <2> QED BY <1>5, <2>1 DEF UpdateAgent, OtherColumns, runtimeVars
  <1>6. ASSUME NEW a \in Agent, RestoreAgent(a) PROVE OtherColumns'
    BY <1>6 DEF RestoreAgent, OtherColumns, runtimeVars
  <1>7. ASSUME NEW r \in Runtime, DaemonHeartbeat(r) \/ DaemonDeregister(r) \/ GoesStale(r)
        PROVE  OtherColumns'
    BY <1>7 DEF DaemonHeartbeat, DaemonDeregister, GoesStale, OtherColumns, agentVars
  <1>8. CASE SweepRuntimes
    BY <1>8 DEF SweepRuntimes, OtherColumns, agentVars
  <1>9. ASSUME SweepOffline \/ SweepTasks \/ UNCHANGED serviceVars PROVE OtherColumns'
    BY <1>9, ColumnsStay DEF SweepOffline, SweepTasks, serviceVars
  <1>10. ASSUME NEW s \in Session, Proceed(s) \/ Begin(s) \/ Abort(s) PROVE OtherColumns'
    <2>1. CASE Abort(s)
      BY <2>1, ColumnsStay DEF Abort
    <2> QED BY <1>1, <1>2, <1>3, <1>4, <1>10, <2>1 DEF Proceed
  <1>11. ASSUME NEW t \in Rows, StartTask(t) \/ DaemonDrops(t) \/ GetsLate(t) PROVE OtherColumns'
    BY <1>11, ColumnsStay DEF StartTask, DaemonDrops, GetsLate
  <1> QED BY <1>5, <1>6, <1>7, <1>8, <1>9, <1>10, <1>11 DEF ServiceNext, Sweep

\* What a daemon holds are rows, and stays rows.
LEMMA HeldStays ==
  ASSUME ServiceInv, [ServiceNext]_serviceVars
  PROVE  held' \subseteq Rows'
  <1>1. Rows \subseteq Rows' /\ held \subseteq Rows
    BY RowsStay DEF ServiceInv, ServiceTypeOK
  <1>2. ASSUME NEW s \in Session, ClaimAnswer(s) PROVE held' \subseteq Rows \union held
    <2>1. req[s].task \in Rows
      BY <1>2 DEF ClaimAnswer, At, ServiceInv, GoodRequests, GoodRequest
    <2> QED BY <1>2, <2>1 DEF ClaimAnswer
  <1>3. held' \subseteq Rows \union held
    <2>1. ASSUME NEW s \in Session, ClaimStep(s) \/ ReconcileStep(s) \/ IssueStep(s)
                                    \/ CancelTasksOfAgent(s) \/ Abort(s)
          PROVE  held' \subseteq Rows \union held
      BY <1>2, <2>1
      DEF ClaimStep, ClaimCheck, ClaimDispatch, ClaimSelect, ClaimNothing, ClaimGiveUp,
          ReconcileStep, ReconcileWrite, ReconcileCount, IssueStep, UpdateIssue,
          CancelTasksForIssue, DeleteIssue, CommentCheck, Enqueue, Mention, Insert,
          CancelTasksOfAgent, Abort
    <2>2. ASSUME NEW s \in Session, Begin(s) PROVE held' \subseteq Rows \union held
      BY <2>2
      DEF Begin, BeginClaim, CompleteTask, FailTask, CancelTask, CreateIssue,
          BeginUpdateIssue, BeginDeleteIssue, CreateComment, ArchiveAgent
    <2>3. ASSUME \/ \E t \in Rows : StartTask(t) \/ DaemonDrops(t) \/ GetsLate(t)
                 \/ \E a \in Agent : \/ RestoreAgent(a)
                                     \/ \E r \in Runtime, n \in MaxAgentTasks : UpdateAgent(a, r, n)
                 \/ \E r \in Runtime : DaemonHeartbeat(r) \/ DaemonDeregister(r) \/ GoesStale(r)
                 \/ Sweep \/ UNCHANGED serviceVars
          PROVE  held' \subseteq Rows \union held
      BY <2>3
      DEF StartTask, DaemonDrops, GetsLate, RestoreAgent, UpdateAgent, DaemonHeartbeat,
          DaemonDeregister, GoesStale, Sweep, SweepRuntimes, SweepOffline, SweepTasks, serviceVars
    <2> QED BY <2>1, <2>2, <2>3 DEF ServiceNext, Proceed
  <1> QED BY <1>1, <1>3

-----------------------------------------------------------------------------
(* The inductive invariant, and what follows from it *)

LEMMA ServiceInductive ==
  ASSUME ServiceInv, [ServiceNext]_serviceVars
  PROVE  ServiceInv'
  <1>1. TableInv'
    BY ServiceIsTableStep, TableInductive DEF ServiceInv
  <1>2. GoodRequests'
    BY StepKeepsRequests
  <1>3. ServiceTypeOK'
    BY <1>1, <1>2, ColumnsTyped, HeldStays
    DEF ServiceTypeOK, OtherColumns, TableInv, GoodRequests
  <1> QED BY <1>1, <1>2, <1>3 DEF ServiceInv

LEMMA ServiceInitially == ServiceInit => ServiceInv
  <1> SUFFICES ASSUME ServiceInit PROVE ServiceInv
    OBVIOUS
  <1>1. TableInv /\ TableTypeOK
    BY TableInitially DEF ServiceInit, TableInv
  <1>2. GoodRequests
    <2>1. req = [s \in Session |-> Idle] /\ Idle \in Request
      BY IdleIsGood DEF ServiceInit, GoodRequest
    <2> QED BY <2>1, IdleIsGood DEF GoodRequests
  <1>3. OtherColumns /\ held \subseteq Rows
    BY DEF ServiceInit, OtherColumns, NotAgent
  <1> QED BY <1>1, <1>2, <1>3 DEF ServiceInv, ServiceTypeOK, OtherColumns, GoodRequests

\* The inductive invariant holds in every reachable state of the service.
THEOREM ServiceInvariant == ServiceSpec => []ServiceInv
  <1>1. ServiceInv /\ [ServiceNext]_serviceVars => ServiceInv'
    BY ServiceInductive
  <1> QED BY <1>1, ServiceInitially, PTL DEF ServiceSpec

\* Every request, agent, runtime and row the service can reach is well typed.
THEOREM ServiceTyped == ServiceSpec => []ServiceTypeOK
  <1>1. ServiceInv => ServiceTypeOK
    BY DEF ServiceInv
  <1> QED BY <1>1, ServiceInvariant, PTL

\* The service implements the table: whatever requests, reports, sweeps, lost
\* clients and crashes do to agent_task_queue, the table's statements can do.
THEOREM ServiceImplementsTable == ServiceSpec => TableSpec
  <1>1. ServiceInit => TableInit
    BY DEF ServiceInit
  <1>2. ServiceInv /\ [ServiceNext]_serviceVars => [TableNext]_tableVars
    BY ServiceIsTableStep
  <1> QED BY <1>1, <1>2, ServiceInvariant, PTL DEF ServiceSpec, TableSpec

\* So the service serializes the tasks of every issue, for every set of requests.
THEOREM ServiceSerial == ServiceSpec => []SerialPerIssue
  BY ServiceImplementsTable, TableSerial, PTL

\* And to every issue the whole service is a lane.
THEOREM ServiceFormsLanes == ServiceSpec => FormsLanes
  BY ServiceImplementsTable, TableFormsLanes, PTL

-----------------------------------------------------------------------------
(***************************************************************************)
(* How far concurrent claims can push an agent beyond its limit.  A claim  *)
(* counts in one statement and dispatches in a later one, so the number of *)
(* tasks an agent works on is not bounded by its limit; but every claim    *)
(* that has counted and has not yet dispatched is a session of its own.    *)
(***************************************************************************)

Counted == {"claim_row", "claim_lock"}

\* The claims that found room for a and have not dispatched its task yet.
Claiming(a) == {s \in Session : req[s].pc \in Counted /\ req[s].agent = a}

SweeperAt == {"idle", "sweep_offline", "sweep_tasks", "reconcile", "reconcile_write"}

\* A claim waiting for its lock has selected rows of the agent it counted for.
ScansOwnAgent == \A s \in Session : req[s].pc = "claim_lock" =>
    \A t \in scan[s].rows : task[t].agent = req[s].agent

\* The strengthening: claims that have counted are charged in advance.
ChargedBound == \A a \in Agent :
    CountRunningTasks(a) + Cardinality(Claiming(a)) < maxTasks[a] + Cardinality(Handlers)

LimitInv == /\ ServiceInv
            /\ req[Sweeper].pc \in SweeperAt
            /\ ScansOwnAgent
            /\ ChargedBound

-----------------------------------------------------------------------------
(* Every step is a check, a selection, a dispatch, or makes no claim advance *)

\* Request x is not a claim that has counted, or it was one before and its
\* scan is as it was.
NoNewClaim(x) == req'[x].pc \in Counted =>
    req'[x].pc = req[x].pc /\ req'[x].agent = req[x].agent /\ scan'[x] = scan[x]

OtherStep == /\ UNCHANGED maxTasks
             /\ UNCHANGED scan \/ UNCHANGED task
             /\ \A x \in Session : NoNewClaim(x)
             /\ req'[Sweeper].pc \in SweeperAt

LEMMA NoRequestMoves ==
  ASSUME req[Sweeper].pc \in SweeperAt, UNCHANGED <<scan, req, maxTasks>>
  PROVE  OtherStep
  BY DEF OtherStep, NoNewClaim

LEMMA RequestMoves ==
  ASSUME ServiceInv, req[Sweeper].pc \in SweeperAt, NEW s \in Session, NEW q,
         Become(s, q), q.pc \notin Counted, s = Sweeper => q.pc \in SweeperAt,
         UNCHANGED maxTasks,
         \/ UNCHANGED scan
         \/ UNCHANGED task /\ scan' = [scan EXCEPT ![s] = NoScan]
  PROVE  OtherStep
  <1>1. \A x \in Session : req'[x] = IF x = s THEN q ELSE req[x]
    BY DEF Become, ServiceInv, GoodRequests
  <1>2. \A x \in Session : x # s => scan'[x] = scan[x]
    BY DEF ServiceInv, TableInv, TableTypeOK
  <1>3. \A x \in Session : NoNewClaim(x)
    BY <1>1, <1>2 DEF NoNewClaim
  <1>4. req'[Sweeper].pc \in SweeperAt
    BY <1>1, SweeperIsSession
  <1> QED BY <1>3, <1>4 DEF OtherStep

\* The same when the request is over.
LEMMA RequestEnds ==
  ASSUME ServiceInv, req[Sweeper].pc \in SweeperAt, NEW s \in Session,
         Done(s), UNCHANGED maxTasks,
         \/ UNCHANGED scan
         \/ UNCHANGED task /\ scan' = [scan EXCEPT ![s] = NoScan]
  PROVE  OtherStep
  <1>1. Idle.pc = "idle"
    BY DEF Idle
  <1> QED BY <1>1, RequestMoves DEF Done, Counted, SweeperAt

\* The same when the request goes on to reconcile agents.
LEMMA RequestReconciles ==
  ASSUME ServiceInv, req[Sweeper].pc \in SweeperAt, NEW s \in Session,
         NEW A, NEW nxt \in {"idle", "sweep_tasks"}, Become(s, Reconciling(A, nxt)),
         UNCHANGED <<scan, maxTasks>>
  PROVE  OtherStep
  <1>1. Reconciling(A, nxt).pc \in {"reconcile", nxt}
    BY DEF Reconciling, Idle
  <1> QED BY <1>1, RequestMoves DEF Counted, SweeperAt

ClaimAdvance == \E s \in Session :
    \/ \E t \in Rows : ClaimCheck(s, t) \/ ClaimDispatch(s, t)
    \/ ClaimSelect(s)

LEMMA ClaimStepKinds ==
  ASSUME ServiceInv, req[Sweeper].pc \in SweeperAt, NEW s \in Session,
         ClaimStep(s) \/ \E r \in Runtime : BeginClaim(s, r)
  PROVE  ClaimAdvance \/ OtherStep
  <1>q. req[s] \in Request
    BY DEF ServiceInv, GoodRequests
  <1>1. ASSUME NEW r \in Runtime, BeginClaim(s, r) PROVE OtherStep
    <2> DEFINE q == [Idle EXCEPT !.pc = "claim", !.runtime = r, !.todo = FirstOfEachAgent(r)]
    <2>1. q.pc = "claim" /\ s # Sweeper /\ Become(s, q) /\ UNCHANGED <<scan, maxTasks>>
      BY <1>1 DEF BeginClaim, Idle, Free, Handlers, tableVars, agentVars
    <2> HIDE DEF q
    <2> QED BY <2>1, RequestMoves DEF Counted
  <1>2. CASE ClaimNothing(s)
    <2> DEFINE q == [req[s] EXCEPT !.pc = "claim", !.agent = "nobody"]
    <2>1. /\ q.pc = "claim" /\ s # Sweeper /\ Become(s, q) /\ UNCHANGED <<task, maxTasks>>
          /\ scan' = [scan EXCEPT ![s] = NoScan]
      BY <1>2, <1>q DEF ClaimNothing, ClaimNoRows, At, SweeperAt, Request, agentVars
    <2> HIDE DEF q
    <2> QED BY <2>1, RequestMoves DEF Counted
  <1>3. CASE ClaimAnswer(s)
    <2> DEFINE q == [req[s] EXCEPT !.pc = "claim", !.agent = "nobody", !.task = 0]
    <2>1. /\ q.pc = "claim" /\ s # Sweeper /\ UNCHANGED <<scan, maxTasks>>
          /\ Become(s, q) \/ Done(s)
      BY <1>3, <1>q DEF ClaimAnswer, At, SweeperAt, Request, agentVars, tableVars
    <2> HIDE DEF q
    <2> QED BY <2>1, RequestMoves, RequestEnds DEF Counted
  <1>4. CASE ClaimGiveUp(s)
    BY <1>4, RequestEnds DEF ClaimGiveUp, tableVars, agentVars
  <1> QED BY <1>1, <1>2, <1>3, <1>4 DEF ClaimStep, ClaimAdvance

LEMMA ReconcileStepKinds ==
  ASSUME ServiceInv, req[Sweeper].pc \in SweeperAt, NEW s \in Session, ReconcileStep(s)
  PROVE  OtherStep
  <1>q. req[s] \in Request
    BY DEF ServiceInv, GoodRequests
  <1>1. CASE ReconcileWrite(s)
    <2>1. /\ Become(s, Reconciling(req[s].agents \ {req[s].agent}, req[s].next))
          /\ req[s].next \in {"idle", "sweep_tasks"} /\ UNCHANGED <<scan, maxTasks>>
      BY <1>1, <1>q DEF ReconcileWrite, Request, tableVars, agentVars
    <2> QED BY <2>1, RequestReconciles
  <1>2. ASSUME NEW a \in Agent, ReconcileCount(s, a) PROVE OtherStep
    <2> DEFINE q == [req[s] EXCEPT !.pc = "reconcile_write", !.agent = a,
                                   !.flag = CountRunningTasks(a) > 0]
    <2>1. q.pc = "reconcile_write" /\ Become(s, q) /\ UNCHANGED <<scan, maxTasks>>
      BY <1>2, <1>q DEF ReconcileCount, Request, tableVars, agentVars
    <2> HIDE DEF q
    <2> QED BY <2>1, RequestMoves DEF Counted, SweeperAt
  <1> QED BY <1>1, <1>2 DEF ReconcileStep

LEMMA IssueStepKinds ==
  ASSUME ServiceInv, req[Sweeper].pc \in SweeperAt, NEW s \in Session,
         IssueStep(s) \/ CancelTasksOfAgent(s)
  PROVE  OtherStep
  <1>q. req[s] \in Request
    BY DEF ServiceInv, GoodRequests
  <1>s. /\ s # Sweeper
        /\ UNCHANGED <<scan, maxTasks>>
    <2>1. s # Sweeper
      BY DEF IssueStep, CancelTasksOfAgent, UpdateIssue, CancelTasksForIssue, DeleteIssue,
             CommentCheck, Enqueue, Mention, Insert, At, SweeperAt
    <2>2. UNCHANGED <<scan, maxTasks>>
      BY DEF IssueStep, CancelTasksOfAgent, UpdateIssue, CancelTasksForIssue, DeleteIssue,
             CommentCheck, Enqueue, Mention, Insert, CreateAgentTask, CancelAgentTasksByIssue,
             DeleteIssueRows, CancelAgentTasksByAgent, tableVars, agentVars
    <2> QED BY <2>1, <2>2
  <1>1. ASSUME NEW pc \in {"enqueue", "mention"}, Goto(s, pc) PROVE OtherStep
    <2>1. [req[s] EXCEPT !.pc = pc].pc = pc
      BY <1>q DEF Request
    <2> QED BY <1>s, <1>1, <2>1, RequestMoves DEF Goto, Counted
  <1>2. ASSUME Done(s) PROVE OtherStep
    BY <1>s, <1>2, RequestEnds
  <1>3. ASSUME AfterEnqueue(s) PROVE OtherStep
    BY <1>1, <1>2, <1>3 DEF AfterEnqueue
  <1>4. CASE UpdateIssue(s)
    <2> DEFINE q == [Idle EXCEPT !.pc = "cancel_issue", !.issue = req[s].issue,
                                 !.agent = req[s].agent, !.next = "idle"]
    <2>1. q.pc = "cancel_issue" /\ (Become(s, q) \/ Done(s))
      BY <1>4 DEF UpdateIssue, Idle
    <2> HIDE DEF q
    <2> QED BY <1>s, <1>2, <2>1, RequestMoves DEF Counted
  <1>5. CASE CancelTasksForIssue(s) \/ DeleteIssue(s) \/ CancelTasksOfAgent(s)
    BY <1>1, <1>2, <1>5 DEF CancelTasksForIssue, DeleteIssue, CancelTasksOfAgent
  <1>6. CASE CommentCheck(s) \/ \E p \in Priority : Insert(s, p)
    BY <1>1, <1>3, <1>6 DEF CommentCheck, Insert
  <1>7. ASSUME NEW m \in Agent, Mention(s, m) PROVE OtherStep
    <2> DEFINE rest == req[s].agents \ {m}
               skip == [req[s] EXCEPT !.agents = rest]
               q    == [req[s] EXCEPT !.pc = "enqueue", !.agent = m, !.agents = rest]
    <2>1. /\ skip.pc = "mention" /\ q.pc = "enqueue"
          /\ Become(s, skip) \/ Become(s, q) \/ Done(s)
      BY <1>7, <1>q DEF Mention, Request, At
    <2> HIDE DEF skip, q
    <2> QED BY <1>s, <1>2, <2>1, RequestMoves DEF Counted
  <1>8. CASE Enqueue(s)
    <2> DEFINE q == [req[s] EXCEPT !.pc = "insert", !.runtime = agentRuntime[req[s].agent]]
    <2>1. q.pc = "insert" /\ (Become(s, q) \/ AfterEnqueue(s))
      BY <1>8, <1>q DEF Enqueue, Request
    <2> HIDE DEF q
    <2> QED BY <1>s, <1>3, <2>1, RequestMoves DEF Counted
  <1> QED BY <1>4, <1>5, <1>6, <1>7, <1>8 DEF IssueStep

LEMMA BeginStepKinds ==
  ASSUME ServiceInv, req[Sweeper].pc \in SweeperAt, NEW s \in Session, Begin(s)
  PROVE  ClaimAdvance \/ OtherStep
  <1>s. ASSUME ~ \E r \in Runtime : BeginClaim(s, r)
        PROVE  s # Sweeper /\ UNCHANGED <<scan, maxTasks>>
    <2>1. s # Sweeper
      BY <1>s DEF Begin, CompleteTask, FailTask, CancelTask, CreateIssue, BeginUpdateIssue,
             BeginDeleteIssue, CreateComment, ArchiveAgent, Free, Handlers
    <2>2. UNCHANGED <<scan, maxTasks>>
      BY <1>s DEF Begin, CompleteTask, FailTask, CancelTask, CreateIssue, BeginUpdateIssue,
             BeginDeleteIssue, CreateComment, ArchiveAgent, CompleteAgentTask, FailAgentTask,
             CancelAgentTask, CancelAgentTasksByIssue, tableVars, agentVars
    <2> QED BY <2>1, <2>2
  <1>1. CASE \E r \in Runtime : BeginClaim(s, r)
    BY <1>1, ClaimStepKinds
  <1> SUFFICES ASSUME ~ \E r \in Runtime : BeginClaim(s, r) PROVE OtherStep
    BY <1>1
  <1>2. ASSUME NEW q, Become(s, q), q.pc \notin Counted PROVE OtherStep
    BY <1>s, <1>2, RequestMoves
  <1>3. ASSUME NEW t \in Rows, CompleteTask(s, t) \/ FailTask(s, t) \/ CancelTask(s, t)
        PROVE  OtherStep
    <2>1. Become(s, Reconciling({task[t].agent}, "idle"))
      BY <1>3 DEF CompleteTask, FailTask, CancelTask
    <2> QED BY <1>s, <2>1, RequestReconciles
  <1>4. ASSUME NEW i \in Issue, NEW b, CreateIssue(s, i, b) PROVE OtherStep
    <2> DEFINE q == [Idle EXCEPT !.pc = "enqueue", !.issue = i, !.agent = b]
    <2>1. q.pc = "enqueue" /\ (Become(s, q) \/ UNCHANGED req)
      BY <1>4 DEF CreateIssue, Idle
    <2> HIDE DEF q
    <2> QED BY <1>s, <1>2, <2>1, NoRequestMoves DEF Counted
  <1>5. ASSUME NEW i \in Issue, NEW k \in {"assign", "member", "unassign", "edit"},
               BeginUpdateIssue(s, i, k)
        PROVE  OtherStep
    <2> PICK b \in NewAssignee(k, i) :
          Become(s, [Idle EXCEPT !.pc = "update", !.issue = i, !.old = assignee[i],
                                 !.agent = b, !.flag = NamesAssignee(k)])
      BY <1>5 DEF BeginUpdateIssue
    <2> DEFINE q == [Idle EXCEPT !.pc = "update", !.issue = i, !.old = assignee[i],
                                 !.agent = b, !.flag = NamesAssignee(k)]
    <2>1. q.pc = "update"
      BY DEF Idle
    <2>2. Become(s, q)
      OBVIOUS
    <2> HIDE DEF q
    <2> QED BY <1>2, <2>1, <2>2 DEF Counted
  <1>6. ASSUME NEW i \in Issue, BeginDeleteIssue(s, i) PROVE OtherStep
    <2> DEFINE q == [Idle EXCEPT !.pc = "delete_issue", !.issue = i]
    <2>1. q.pc = "delete_issue" /\ Become(s, q)
      BY <1>6 DEF BeginDeleteIssue, Idle
    <2> HIDE DEF q
    <2> QED BY <1>2, <2>1 DEF Counted
  <1>7. ASSUME NEW i \in Issue, NEW m \in SUBSET Agent, NEW d \in BOOLEAN,
               CreateComment(s, i, m, d)
        PROVE  OtherStep
    <2> DEFINE pc == IF d THEN "comment_check" ELSE "mention"
               q  == [Idle EXCEPT !.pc = pc, !.issue = i, !.old = assignee[i],
                                  !.agent = assignee[i], !.agents = m \ {assignee[i]}]
    <2>1. pc \notin Counted
      BY DEF Counted
    <2>2. Become(s, q)
      BY <1>7 DEF CreateComment
    <2> HIDE DEF pc
    <2>3. q.pc = pc
      BY DEF Idle
    <2> HIDE DEF q
    <2> QED BY <1>2, <2>1, <2>2, <2>3
  <1>8. ASSUME NEW a \in Agent, ArchiveAgent(s, a) PROVE OtherStep
    <2> DEFINE q == [Idle EXCEPT !.pc = "cancel_agent", !.agent = a]
    <2>1. q.pc = "cancel_agent" /\ Become(s, q)
      BY <1>8 DEF ArchiveAgent, Idle
    <2> HIDE DEF q
    <2> QED BY <1>2, <2>1 DEF Counted
  <1> QED BY <1>3, <1>4, <1>5, <1>6, <1>7, <1>8 DEF Begin

LEMMA SweepStepKinds ==
  ASSUME ServiceInv, req[Sweeper].pc \in SweeperAt, Sweep
  PROVE  OtherStep
  <1> USE SweeperIsSession
  <1>1. CASE SweepRuntimes
    <2> DEFINE on == [req[Sweeper] EXCEPT !.pc = "sweep_tasks"]
               off == [req[Sweeper] EXCEPT !.pc = "sweep_offline"]
    <2>1. on.pc = "sweep_tasks" /\ off.pc = "sweep_offline"
      BY DEF ServiceInv, GoodRequests, Request
    <2>2. (Become(Sweeper, on) \/ Become(Sweeper, off)) /\ UNCHANGED <<scan, maxTasks>>
      BY <1>1 DEF SweepRuntimes, Goto, tableVars, agentVars
    <2> HIDE DEF on, off
    <2> QED BY <2>1, <2>2, RequestMoves DEF Counted, SweeperAt
  <1>2. ASSUME SweepOffline \/ SweepTasks PROVE OtherStep
    <2>1. \E A : \E nxt \in {"idle", "sweep_tasks"} : Become(Sweeper, Reconciling(A, nxt))
      BY <1>2 DEF SweepOffline, SweepTasks
    <2>2. UNCHANGED <<scan, maxTasks>>
      BY <1>2 DEF SweepOffline, SweepTasks, FailTasksForOfflineRuntimes, FailStaleTasks, agentVars
    <2> QED BY <2>1, <2>2, RequestReconciles
  <1> QED BY <1>1, <1>2 DEF Sweep

LEMMA StepIsClaimOrOther ==
  ASSUME ServiceInv, req[Sweeper].pc \in SweeperAt, "configure" \notin Kinds,
         [ServiceNext]_serviceVars
  PROVE  ClaimAdvance \/ OtherStep
  <1>1. ASSUME NEW s \in Session, Abort(s) PROVE OtherStep
    BY <1>1, RequestEnds DEF Abort, Disconnect, agentVars
  <1>2. ASSUME NEW s \in Session, Proceed(s) \/ Begin(s) \/ Abort(s)
        PROVE  ClaimAdvance \/ OtherStep
    BY <1>1, <1>2, ClaimStepKinds, ReconcileStepKinds, IssueStepKinds, BeginStepKinds DEF Proceed
  <1>3. ASSUME NEW t \in Rows, StartTask(t) \/ DaemonDrops(t) \/ GetsLate(t) PROVE OtherStep
    BY <1>3, NoRequestMoves
    DEF StartTask, DaemonDrops, GetsLate, StartAgentTask, DeadlinePasses, tableVars, agentVars
  <1>4. ASSUME \/ \E a \in Agent : \/ RestoreAgent(a)
                                   \/ \E r \in Runtime, n \in MaxAgentTasks : UpdateAgent(a, r, n)
               \/ \E r \in Runtime : DaemonHeartbeat(r) \/ DaemonDeregister(r) \/ GoesStale(r)
               \/ UNCHANGED serviceVars
        PROVE  OtherStep
    BY <1>4, NoRequestMoves
    DEF RestoreAgent, UpdateAgent, DaemonHeartbeat, DaemonDeregister, GoesStale, serviceVars,
        tableVars, agentVars
  <1> QED BY <1>2, <1>3, <1>4, SweepStepKinds DEF ServiceNext

-----------------------------------------------------------------------------
(* What the steps do to the two counts *)

LEMMA CountsFinite ==
  ASSUME ServiceInv, IsFiniteSet(Session), NEW a \in Agent
  PROVE  /\ IsFiniteSet(RunningTasks(a)) /\ CountRunningTasks(a) \in Nat
         /\ IsFiniteSet(Claiming(a)) /\ Cardinality(Claiming(a)) \in Nat
         /\ IsFiniteSet(Handlers) /\ Cardinality(Handlers) \in Nat
         /\ maxTasks[a] \in Nat \ {0}
  <1>1. IsFiniteSet(Rows)
    BY RowsRange, FS_Interval DEF ServiceInv, TableInv
  <1>2. IsFiniteSet(RunningTasks(a)) /\ CountRunningTasks(a) \in Nat
    <2>1. RunningTasks(a) \in SUBSET Rows
      BY DEF RunningTasks
    <2> QED BY <1>1, <2>1, FS_Subset, FS_CardinalityType DEF CountRunningTasks
  <1>3. Claiming(a) \in SUBSET Session /\ Handlers \in SUBSET Session
    BY DEF Claiming, Handlers
  <1>4. maxTasks[a] \in Nat \ {0}
    BY ServiceConstants DEF ServiceInv, ServiceTypeOK
  <1> QED BY <1>2, <1>3, <1>4, FS_Subset, FS_CardinalityType

LEMMA SmallerCount == ASSUME NEW S, IsFiniteSet(S), NEW T \in SUBSET S
                      PROVE  /\ Cardinality(T) \in Nat /\ Cardinality(S) \in Nat
                             /\ Cardinality(T) <= Cardinality(S)
  BY FS_Subset, FS_CardinalityType

\* Only the second half of a claim makes an agent busier.
LEMMA RunningShrinks ==
  ASSUME ServiceInv, [ServiceNext]_serviceVars, UNCHANGED scan \/ UNCHANGED task, NEW a \in Agent
  PROVE  RunningTasks(a)' \subseteq RunningTasks(a)
  <1> TableInv /\ TableTypeOK
    BY DEF ServiceInv, TableInv
  <1> USE RowsRange
  <1>1. CASE InsertStep
    <2>1. PICK row \in [status : {"queued"}, agent : Agent, runtime : Runtime,
                        issue : Issue, prio : Priority, overdue : {FALSE}] :
               task' = Append(task, row)
      BY <1>1 DEF InsertStep, CreateAgentTask
    <2>2. DOMAIN task' = 1..(Len(task) + 1) /\ task'[Len(task) + 1] = row
          /\ \A t \in 1..Len(task) : task'[t] = task[t]
      BY <2>1 DEF TableTypeOK
    <2>3. row.status \notin Active
      BY DEF Active
    <2> QED BY <2>2, <2>3 DEF RunningTasks, Rows
  <1>2. CASE SnapshotStep
    BY <1>2 DEF SnapshotStep, ClaimSnapshot, RunningTasks, Rows
  <1>3. ~DispatchStep
    <2> SUFFICES ASSUME NEW s \in Session, NEW t \in Rows, ClaimLock(s, t) PROVE FALSE
      BY DEF DispatchStep
    <2>1. scan[s].on /\ scan' = [scan EXCEPT ![s] = NoScan]
      BY DEF ClaimLock
    <2>2. scan' # scan
      BY <2>1 DEF NoScan, TableTypeOK
    <2>3. task[t].status = "queued"
      BY DEF ClaimLock, StillQueued
    <2>4. "dispatched" \in Status /\ FALSE \in BOOLEAN
          /\ task' = [task EXCEPT ![t].status = "dispatched", ![t].overdue = FALSE]
      BY DEF ClaimLock, Status
    <2>5. task'[t].status = "dispatched"
      BY <2>4, ExceptRow
    <2> QED BY <2>2, <2>3, <2>5
  <1>4. CASE QuietTyped
    BY <1>4 DEF QuietTyped, QuietStep, RowStep, RunningTasks, Rows, Active, Open, Pending
  <1> QED BY <1>1, <1>2, <1>3, <1>4, ServiceIsTableStep, StepKinds

LEMMA OtherKeepsBound ==
  ASSUME LimitInv, IsFiniteSet(Session), [ServiceNext]_serviceVars, OtherStep
  PROVE  ScansOwnAgent' /\ ChargedBound'
  <1> ServiceInv /\ Rows \subseteq Rows' /\ ServiceInv'
    BY RowsStay, ServiceInductive DEF LimitInv
  <1>1. ScansOwnAgent'
    <2> SUFFICES ASSUME NEW s \in Session, req'[s].pc = "claim_lock", NEW t \in scan'[s].rows
                 PROVE  task'[t].agent = req'[s].agent
      BY DEF ScansOwnAgent
    <2>1. /\ req[s].pc = "claim_lock" /\ req'[s].agent = req[s].agent
          /\ scan'[s] = scan[s]
      BY DEF OtherStep, NoNewClaim, Counted
    <2>2. t \in Rows /\ task[t].agent = req[s].agent
      BY <2>1 DEF LimitInv, ScansOwnAgent, ServiceInv, TableInv
    <2>3. StepForward
      BY ServiceIsTableStep, StepIsForward DEF ServiceInv
    <2>4. task'[t]["agent"] = task[t]["agent"]
      BY <2>2, <2>3 DEF StepForward
    <2> QED BY <2>1, <2>2, <2>4
  <1>2. ASSUME NEW a \in Agent
        PROVE  CountRunningTasks(a)' + Cardinality(Claiming(a)')
                 < maxTasks'[a] + Cardinality(Handlers)
    <2>1. RunningTasks(a)' \in SUBSET RunningTasks(a)
      BY RunningShrinks DEF OtherStep
    <2>2. Claiming(a)' \in SUBSET Claiming(a)
      BY DEF Claiming, OtherStep, NoNewClaim
    <2>3. CountRunningTasks(a)' \in Nat /\ CountRunningTasks(a)' <= CountRunningTasks(a)
      BY <2>1, CountsFinite, SmallerCount DEF CountRunningTasks
    <2>4. Cardinality(Claiming(a)') \in Nat
          /\ Cardinality(Claiming(a)') <= Cardinality(Claiming(a))
      BY <2>2, CountsFinite, SmallerCount
    <2>5. CountRunningTasks(a) + Cardinality(Claiming(a)) < maxTasks[a] + Cardinality(Handlers)
      BY DEF LimitInv, ChargedBound
    <2>6. maxTasks'[a] = maxTasks[a]
      BY DEF OtherStep
    <2> QED BY <2>3, <2>4, <2>5, <2>6, CountsFinite
  <1>3. ChargedBound'
    BY <1>2 DEF ChargedBound, Handlers
  <1> QED BY <1>1, <1>3

\* A claim that has counted is not the sweeper's.
LEMMA ClaimsAreHandlers ==
  ASSUME LimitInv, NEW a
  PROVE  Claiming(a) \in SUBSET Handlers
  BY DEF LimitInv, Claiming, Handlers, SweeperAt, Counted

LEMMA CheckKeepsBound ==
  ASSUME LimitInv, IsFiniteSet(Session), [ServiceNext]_serviceVars,
         NEW s \in Session, NEW t \in Rows, ClaimCheck(s, t)
  PROVE  req'[Sweeper].pc \in SweeperAt /\ ScansOwnAgent' /\ ChargedBound'
  <1> DEFINE c == task[t].agent
             yes == [req[s] EXCEPT !.todo = @ \ {t}, !.pc = "claim_row", !.agent = c]
             no  == [req[s] EXCEPT !.todo = @ \ {t}, !.pc = "claim"]
  <1> ServiceInv /\ req[Sweeper].pc \in SweeperAt
    BY DEF LimitInv
  <1>q. req[s] \in Request /\ req \in [Session -> Request]
    BY DEF ServiceInv, GoodRequests
  <1>0. req[s].pc = "claim" /\ UNCHANGED <<task, scan, maxTasks>> /\ s # Sweeper
    BY DEF ClaimCheck, At, tableVars, agentVars, SweeperAt
  <1>a. c \in Agent
    BY RowFacts DEF ServiceInv
  <1>1. CASE ~HasCapacity(c)
    <2>1. no.pc = "claim"
      BY <1>q DEF Request
    <2>2. Become(s, no)
      <3>1. Become(s, [req[s] EXCEPT !.todo = @ \ {t}, !.pc = "claim", !.agent = @])
        BY <1>1 DEF ClaimCheck
      <3>2. [req[s] EXCEPT !.todo = @ \ {t}, !.pc = "claim", !.agent = @] = no
        BY <1>q DEF Request
      <3> QED BY <3>1, <3>2
    <2> HIDE DEF no
    <2>3. OtherStep
      BY <1>0, <2>1, <2>2, RequestMoves DEF Counted
    <2> QED BY <2>3, OtherKeepsBound DEF OtherStep
  <1>2. CASE HasCapacity(c)
    <2>1. Become(s, yes)
      BY <1>2 DEF ClaimCheck
    <2>2. yes.pc = "claim_row" /\ yes.agent = c
      BY <1>q DEF Request
    <2>3. \A x \in Session : req'[x] = IF x = s THEN yes ELSE req[x]
      BY <1>q, <2>1 DEF Become
    <2> HIDE DEF yes
    <2>4. req'[Sweeper].pc \in SweeperAt
      BY <1>0, <2>3, SweeperIsSession
    <2>5. ScansOwnAgent'
      BY <1>0, <2>2, <2>3 DEF ScansOwnAgent, LimitInv
    <2>6. ASSUME NEW a \in Agent
          PROVE  CountRunningTasks(a)' + Cardinality(Claiming(a)')
                   < maxTasks'[a] + Cardinality(Handlers)
      <3>1. CountRunningTasks(a)' = CountRunningTasks(a) /\ maxTasks'[a] = maxTasks[a]
        BY <1>0 DEF CountRunningTasks, RunningTasks, Rows
      <3>2. CountRunningTasks(a) + Cardinality(Claiming(a)) < maxTasks[a] + Cardinality(Handlers)
        BY DEF LimitInv, ChargedBound
      <3>3. CASE a # c
        <4>1. Claiming(a)' = Claiming(a)
          BY <1>0, <2>2, <2>3, <3>3 DEF Claiming, Counted
        <4> QED BY <3>1, <3>2, <4>1
      <3>4. CASE a = c
        <4>1. Claiming(a)' = Claiming(a) \union {s} /\ s \notin Claiming(a)
          BY <1>0, <2>2, <2>3, <3>4 DEF Claiming, Counted
        <4>2. Cardinality(Claiming(a)') = Cardinality(Claiming(a)) + 1
          BY <4>1, CountsFinite, FS_AddElement
        <4>3. Claiming(a) \union {s} \in SUBSET Handlers
          BY <1>0, ClaimsAreHandlers DEF Handlers
        <4>4. Cardinality(Claiming(a)') <= Cardinality(Handlers)
          BY <4>1, <4>3, CountsFinite, SmallerCount
        <4>5. CountRunningTasks(a) < maxTasks[a]
          BY <1>2, <3>4 DEF HasCapacity
        <4> QED BY <3>1, <4>2, <4>4, <4>5, CountsFinite
      <3> QED BY <3>3, <3>4
    <2>7. ChargedBound'
      BY <2>6 DEF ChargedBound, Handlers
    <2> QED BY <2>4, <2>5, <2>7
  <1> QED BY <1>1, <1>2

LEMMA SelectKeepsBound ==
  ASSUME LimitInv, NEW s \in Session, ClaimSelect(s)
  PROVE  req'[Sweeper].pc \in SweeperAt /\ ScansOwnAgent' /\ ChargedBound'
  <1> DEFINE q == [req[s] EXCEPT !.pc = "claim_lock"]
  <1> ServiceInv /\ req[Sweeper].pc \in SweeperAt
    BY DEF LimitInv
  <1>q. req[s] \in Request /\ req \in [Session -> Request]
    BY DEF ServiceInv, GoodRequests
  <1>0. req[s].pc = "claim_row" /\ UNCHANGED <<task, maxTasks>> /\ s # Sweeper
    BY DEF ClaimSelect, ClaimSnapshot, At, agentVars, SweeperAt
  <1>1. q.pc = "claim_lock" /\ q.agent = req[s].agent
    BY <1>q DEF Request
  <1>2. \A x \in Session : req'[x] = IF x = s THEN q ELSE req[x]
    BY <1>q DEF ClaimSelect, Goto, Become
  <1> HIDE DEF q
  <1>3. \A x \in Session : scan'[x].rows = IF x = s THEN Claimable(req[s].agent) ELSE scan[x].rows
    BY DEF ClaimSelect, ClaimSnapshot, ServiceInv, TableInv, TableTypeOK
  <1>4. req'[Sweeper].pc \in SweeperAt
    BY <1>0, <1>2, SweeperIsSession
  <1>5. ScansOwnAgent'
    <2> SUFFICES ASSUME NEW x \in Session, req'[x].pc = "claim_lock", NEW u \in scan'[x].rows
                 PROVE  task'[u].agent = req'[x].agent
      BY DEF ScansOwnAgent
    <2>1. CASE x = s
      BY <1>0, <1>1, <1>2, <1>3, <2>1 DEF Claimable
    <2>2. CASE x # s
      BY <1>0, <1>2, <1>3, <2>2 DEF ScansOwnAgent, LimitInv
    <2> QED BY <2>1, <2>2
  <1>6. \A a \in Agent : /\ Claiming(a)' = Claiming(a)
                         /\ CountRunningTasks(a)' = CountRunningTasks(a)
    <2>1. \A a \in Agent : Claiming(a)' = Claiming(a)
      BY <1>0, <1>1, <1>2 DEF Claiming, Counted
    <2>2. \A a \in Agent : CountRunningTasks(a)' = CountRunningTasks(a)
      BY <1>0 DEF CountRunningTasks, RunningTasks, Rows
    <2> QED BY <2>1, <2>2
  <1>7. ChargedBound'
    BY <1>0, <1>6 DEF ChargedBound, LimitInv, Handlers
  <1> QED BY <1>4, <1>5, <1>7

LEMMA DispatchKeepsBound ==
  ASSUME LimitInv, IsFiniteSet(Session), NEW s \in Session, NEW t \in Rows, ClaimDispatch(s, t)
  PROVE  req'[Sweeper].pc \in SweeperAt /\ ScansOwnAgent' /\ ChargedBound'
  <1> DEFINE q == [req[s] EXCEPT !.pc = "claim_status", !.task = t]
             c == req[s].agent
  <1> ServiceInv /\ req[Sweeper].pc \in SweeperAt /\ TableTypeOK
    BY DEF LimitInv, ServiceInv, TableInv
  <1>q. req[s] \in Request /\ req \in [Session -> Request]
    BY DEF ServiceInv, GoodRequests
  <1>0. req[s].pc = "claim_lock" /\ UNCHANGED maxTasks /\ s # Sweeper
    BY DEF ClaimDispatch, At, agentVars, SweeperAt
  <1>1. q.pc = "claim_status"
    BY <1>q DEF Request
  <1>2. \A x \in Session : req'[x] = IF x = s THEN q ELSE req[x]
    BY <1>q DEF ClaimDispatch, Become
  <1> HIDE DEF q
  <1>3. \A x \in Session : x # s => scan'[x] = scan[x]
    BY DEF ClaimDispatch, ClaimLock, TableTypeOK
  <1>4. t \in scan[s].rows /\ task[t].status = "queued"
    BY DEF ClaimDispatch, ClaimLock, StillQueued
  <1>5. task[t].agent = c
    BY <1>0, <1>4 DEF LimitInv, ScansOwnAgent
  <1>6. /\ DOMAIN task' = DOMAIN task
        /\ \A u \in Rows : /\ task'[u].agent = task[u].agent
                           /\ task'[u].status = IF u = t THEN "dispatched" ELSE task[u].status
    <2>1. PICK row : row = [task[t] EXCEPT !.status = "dispatched", !.overdue = FALSE]
      OBVIOUS
    <2>2. task[t] \in Row
      BY DEF TableTypeOK, Rows
    <2>3. row.agent = task[t].agent /\ row.status = "dispatched"
      BY <2>1, <2>2 DEF Row
    <2>4. DOMAIN task' = DOMAIN task /\ \A u \in DOMAIN task : task'[u] = IF u = t THEN row ELSE task[u]
      BY <2>1 DEF ClaimDispatch, ClaimLock, TableTypeOK
    <2> QED BY <2>3, <2>4 DEF Rows
  <1>7. req'[Sweeper].pc \in SweeperAt
    BY <1>0, <1>2, SweeperIsSession
  <1>8. ScansOwnAgent'
    <2> SUFFICES ASSUME NEW x \in Session, req'[x].pc = "claim_lock", NEW u \in scan'[x].rows
                 PROVE  task'[u].agent = req'[x].agent
      BY DEF ScansOwnAgent
    <2>1. x # s /\ req'[x] = req[x] /\ scan'[x] = scan[x]
      BY <1>1, <1>2, <1>3
    <2>2. u \in Rows /\ task[u].agent = req[x].agent
      BY <2>1 DEF LimitInv, ScansOwnAgent, ServiceInv, TableInv
    <2> QED BY <1>6, <2>1, <2>2
  <1>9. ASSUME NEW a \in Agent
        PROVE  CountRunningTasks(a)' + Cardinality(Claiming(a)')
                 < maxTasks'[a] + Cardinality(Handlers)
    <2>1. CountRunningTasks(a) + Cardinality(Claiming(a)) < maxTasks[a] + Cardinality(Handlers)
      BY DEF LimitInv, ChargedBound
    <2>2. maxTasks'[a] = maxTasks[a]
      BY <1>0
    <2>3. CASE a # c
      <3>1. Claiming(a)' = Claiming(a)
        BY <1>0, <1>1, <1>2, <2>3 DEF Claiming, Counted
      <3>2. RunningTasks(a)' = RunningTasks(a)
        BY <1>5, <1>6, <2>3 DEF RunningTasks, Rows
      <3>3. CountRunningTasks(a)' = CountRunningTasks(a)
        BY <3>2 DEF CountRunningTasks
      <3> QED BY <2>1, <2>2, <3>1, <3>3
    <2>4. CASE a = c
      <3>1. Claiming(a)' = Claiming(a) \ {s} /\ s \in Claiming(a)
        BY <1>0, <1>1, <1>2, <2>4 DEF Claiming, Counted
      <3>2. Cardinality(Claiming(a)') = Cardinality(Claiming(a)) - 1
        BY <3>1, CountsFinite, FS_RemoveElement
      <3>3. RunningTasks(a)' = RunningTasks(a) \union {t} /\ t \notin RunningTasks(a)
        BY <1>4, <1>5, <1>6, <2>4 DEF RunningTasks, Rows, Active
      <3>4. CountRunningTasks(a)' = CountRunningTasks(a) + 1
        BY <3>3, CountsFinite, FS_AddElement DEF CountRunningTasks
      <3> QED BY <2>1, <2>2, <3>2, <3>4, CountsFinite
    <2> QED BY <2>3, <2>4
  <1>10. ChargedBound'
    BY <1>9 DEF ChargedBound, Handlers
  <1> QED BY <1>7, <1>8, <1>10

-----------------------------------------------------------------------------
(* The inductive invariant, and what follows from it *)

LEMMA LimitInductive ==
  ASSUME LimitInv, IsFiniteSet(Session), "configure" \notin Kinds, [ServiceNext]_serviceVars
  PROVE  LimitInv'
  <1>1. ServiceInv' /\ (ClaimAdvance \/ OtherStep)
    BY ServiceInductive, StepIsClaimOrOther DEF LimitInv
  <1>2. CASE OtherStep
    BY <1>1, <1>2, OtherKeepsBound DEF LimitInv, OtherStep
  <1>3. CASE ClaimAdvance
    BY <1>1, <1>3, CheckKeepsBound, SelectKeepsBound, DispatchKeepsBound
    DEF LimitInv, ClaimAdvance
  <1> QED BY <1>1, <1>2, <1>3

LEMMA LimitInitially == ASSUME IsFiniteSet(Session), ServiceInit PROVE LimitInv
  <1>1. ServiceInv
    BY ServiceInitially
  <1>2. \A s \in Session : req[s] = Idle
    BY DEF ServiceInit
  <1>3. Idle.pc = "idle"
    BY DEF Idle
  <1>4. req[Sweeper].pc \in SweeperAt /\ ScansOwnAgent
    BY <1>2, <1>3, SweeperIsSession DEF SweeperAt, ScansOwnAgent
  <1>5. ASSUME NEW a \in Agent
        PROVE  CountRunningTasks(a) + Cardinality(Claiming(a)) < maxTasks[a] + Cardinality(Handlers)
    <2>1. RunningTasks(a) = {} /\ Claiming(a) = {}
      BY <1>2, <1>3 DEF ServiceInit, TableInit, RunningTasks, Rows, Claiming, Counted
    <2>2. CountRunningTasks(a) = 0 /\ Cardinality(Claiming(a)) = 0
      BY <2>1, FS_EmptySet DEF CountRunningTasks
    <2> QED BY <1>1, <2>2, CountsFinite
  <1> QED BY <1>1, <1>4, <1>5 DEF LimitInv, ChargedBound

\* While nobody edits an agent's limit, the claims in flight are charged against
\* it in advance, for every number of sessions, agents and rows.
THEOREM LimitInvariant ==
  ASSUME IsFiniteSet(Session), "configure" \notin Kinds
  PROVE  ServiceSpec => []LimitInv
  <1>1. ServiceInit => LimitInv
    BY LimitInitially
  <1>2. LimitInv /\ [ServiceNext]_serviceVars => LimitInv'
    BY LimitInductive
  <1> QED BY <1>1, <1>2, PTL DEF ServiceSpec

\* So the count in one statement and the dispatch in another overshoot an
\* agent's limit by less than the number of requests served at once.
THEOREM ServiceOvershootBounded ==
  ASSUME IsFiniteSet(Session), "configure" \notin Kinds
  PROVE  ServiceSpec => []OvershootBounded
  <1>1. LimitInv => OvershootBounded
    <2> SUFFICES ASSUME LimitInv, NEW a \in Agent
                 PROVE  CountRunningTasks(a) < maxTasks[a] + Cardinality(Handlers)
      BY DEF OvershootBounded
    <2>1. CountRunningTasks(a) + Cardinality(Claiming(a)) < maxTasks[a] + Cardinality(Handlers)
      BY DEF LimitInv, ChargedBound
    <2> QED BY <2>1, CountsFinite DEF LimitInv
  <1> QED BY <1>1, LimitInvariant, PTL

-----------------------------------------------------------------------------
(***************************************************************************)
(* Whose tasks an issue has.  A request reads the assignee in one statement *)
(* and writes it, cancels and enqueues in later ones, so it is right only  *)
(* while nobody else writes the same issue: then what it remembers is the  *)
(* assignee still.  Requests about other issues, claims, reports, sweeps   *)
(* and archivings come in between as they like.                            *)
(***************************************************************************)

\* What request q remembers agrees with the assignees A.  An update that does
\* not name the assignee writes back the one it has read.
KnowsAssignee(q, A) ==
    /\ q.pc = "update" => /\ q.old = A[q.issue]
                          /\ q.flag \/ q.agent = q.old
                          /\ q.agent # "absent"
    /\ q.pc \in {"cancel_issue", "comment_check", "enqueue", "insert"} =>
           q.agent = A[q.issue]
    /\ q.pc \in Writing => A[q.issue] # "absent"

\* The assignee is written and the tasks of the one before not yet cancelled.
Reassigned(i) == \E s \in Session : req[s].pc = "cancel_issue" /\ req[s].issue = i

NoneOpen(i, T) == \A t \in DOMAIN T : T[t].issue = i => T[t].status \notin Open

OpenAreOf(i) == \A t \in OpenOf(i) : task[t].agent = assignee[i]

QueueInv == /\ ServiceInv
            /\ \A s \in Session : KnowsAssignee(req[s], assignee)
            /\ \A i \in Issue : Reassigned(i) \/ OpenAreOf(i)

\* No request takes away an assignee by an explicit null; the names of what is
\* no agent are no agent's.
NoNullAssignee == "unassign" \notin Kinds /\ Agent \intersect NotAgent = {}

\* A request that has written another assignee gets to cancel the tasks of the
\* one before; at any other statement it may be cut off.
ReassignmentCancels == \A s \in Session :
    req[s].pc = "cancel_issue" /\ req'[s].pc = "idle" => NoneOpen(req[s].issue, task')

-----------------------------------------------------------------------------
(* Steps that leave the assignees and the set of rows alone *)

\* A row changes neither hands nor issue, and none is opened again.
LEMMA OpenRowsStay ==
  ASSUME ServiceInv, [ServiceNext]_serviceVars, NEW t \in Rows
  PROVE  /\ task'[t].agent = task[t].agent
         /\ task'[t].issue = task[t].issue
         /\ task'[t].status \in Open => task[t].status \in Open
  <1>1. StepForward
    BY ServiceIsTableStep, StepIsForward DEF ServiceInv
  <1>2. task'[t]["agent"] = task[t]["agent"] /\ task'[t]["issue"] = task[t]["issue"]
    BY <1>1 DEF StepForward
  <1>3. task'[t].status \in After(task[t].status) /\ task[t].status \in Status
    BY <1>1, RowFacts DEF StepForward, ServiceInv
  <1>4. task'[t].status \in Open => task[t].status \in Open
    BY <1>3 DEF After, Open, Pending, Active, Status
  <1> QED BY <1>2, <1>4

LEMMA OpenKeepAssignee ==
  ASSUME ServiceInv, [ServiceNext]_serviceVars, Rows' = Rows, NEW i \in Issue,
         assignee'[i] = assignee[i], OpenAreOf(i)
  PROVE  OpenAreOf(i)'
  BY OpenRowsStay DEF OpenAreOf, OpenOf, Rows

\* Request s moves on to q, which knows the assignee; cancelling has cancelled.
LEMMA WriterMoves ==
  ASSUME QueueInv, [ServiceNext]_serviceVars, Rows' = Rows, UNCHANGED assignee,
         NEW s \in Session, NEW q, Become(s, q), KnowsAssignee(q, assignee),
         req[s].pc = "cancel_issue" => NoneOpen(req[s].issue, task')
  PROVE  QueueInv'
  <1> ServiceInv
    BY DEF QueueInv
  <1>1. ServiceInv'
    BY ServiceInductive
  <1>2. \A x \in Session : req'[x] = IF x = s THEN q ELSE req[x]
    BY DEF Become, ServiceInv, GoodRequests
  <1>3. \A x \in Session : KnowsAssignee(req'[x], assignee')
    BY <1>2 DEF QueueInv
  <1>4. ASSUME NEW i \in Issue, ~Reassigned(i)' PROVE OpenAreOf(i)'
    <2>1. CASE OpenAreOf(i)
      BY <2>1, OpenKeepAssignee
    <2>2. CASE Reassigned(i)
      <3>1. PICK x \in Session : req[x].pc = "cancel_issue" /\ req[x].issue = i
        BY <2>2 DEF Reassigned
      <3>2. x = s
        BY <1>2, <1>4, <3>1 DEF Reassigned
      <3>3. NoneOpen(i, task')
        BY <3>1, <3>2
      <3> QED BY <3>3 DEF OpenAreOf, OpenOf, NoneOpen, Rows
    <2> QED BY <2>1, <2>2 DEF QueueInv
  <1> QED BY <1>1, <1>3, <1>4 DEF QueueInv

\* The same when q writes nothing and s did not either.
LEMMA OthersMove ==
  ASSUME QueueInv, [ServiceNext]_serviceVars, Rows' = Rows, UNCHANGED assignee,
         NEW s \in Session, req[s].pc # "cancel_issue",
         NEW q, Become(s, q), q.pc \notin Writing
  PROVE  QueueInv'
  <1>1. KnowsAssignee(q, assignee)
    BY DEF KnowsAssignee, Writing
  <1> QED BY <1>1, WriterMoves

LEMMA OthersEnd ==
  ASSUME QueueInv, [ServiceNext]_serviceVars, Rows' = Rows, UNCHANGED assignee,
         NEW s \in Session, req[s].pc # "cancel_issue", Done(s)
  PROVE  QueueInv'
  <1>1. Idle.pc = "idle"
    BY DEF Idle
  <1> QED BY <1>1, OthersMove DEF Done, Writing

LEMMA OthersReconcile ==
  ASSUME QueueInv, [ServiceNext]_serviceVars, Rows' = Rows, UNCHANGED assignee,
         NEW s \in Session, req[s].pc # "cancel_issue",
         NEW A, NEW nxt \in {"idle", "sweep_tasks"}, Become(s, Reconciling(A, nxt))
  PROVE  QueueInv'
  <1>1. Reconciling(A, nxt).pc \in {"reconcile", nxt}
    BY DEF Reconciling, Idle
  <1> QED BY <1>1, OthersMove DEF Writing

LEMMA NobodyMoves ==
  ASSUME QueueInv, [ServiceNext]_serviceVars, Rows' = Rows, UNCHANGED <<assignee, req>>
  PROVE  QueueInv'
  <1>1. ServiceInv'
    BY ServiceInductive DEF QueueInv
  <1>2. \A i \in Issue : OpenAreOf(i) => OpenAreOf(i)'
    BY OpenKeepAssignee DEF QueueInv
  <1>3. \A i \in Issue : Reassigned(i) => Reassigned(i)'
    BY DEF Reassigned
  <1>4. \A x \in Session : KnowsAssignee(req'[x], assignee')
    BY DEF QueueInv
  <1> QED BY <1>1, <1>2, <1>3, <1>4 DEF QueueInv

LEMMA StatusKeepsRows == ASSUME NEW S, NEW st, SetStatus(S, st) PROVE Rows' = Rows
  BY DEF SetStatus, Rows

LEMMA PollKeepsQueue ==
  ASSUME QueueInv, [ServiceNext]_serviceVars, NEW s \in Session,
         NEW r \in Runtime, BeginClaim(s, r)
  PROVE  QueueInv'
  <1> DEFINE q == [Idle EXCEPT !.pc = "claim", !.runtime = r, !.todo = FirstOfEachAgent(r)]
  <1>1. /\ Become(s, q)
        /\ req[s].pc # "cancel_issue"
        /\ UNCHANGED <<task, assignee>>
    BY DEF BeginClaim, Free, At, tableVars
  <1>2. q.pc = "claim"
    BY DEF Idle
  <1> HIDE DEF q
  <1> QED BY <1>1, <1>2, OthersMove DEF Rows, Writing

LEMMA ClaimKeepsQueue ==
  ASSUME QueueInv, [ServiceNext]_serviceVars, NEW s \in Session, ClaimStep(s)
  PROVE  QueueInv'
  <1>q. req[s] \in Request
    BY DEF QueueInv, ServiceInv, GoodRequests
  <1>0. Rows' = Rows /\ UNCHANGED assignee /\ req[s].pc # "cancel_issue"
    <2>1. CASE \E t \in Rows : ClaimCheck(s, t)
      BY <2>1 DEF ClaimCheck, At, Rows, tableVars
    <2>2. CASE ClaimSelect(s) \/ ClaimNothing(s)
      BY <2>2 DEF ClaimSelect, ClaimSnapshot, ClaimNothing, ClaimNoRows, At, Rows
    <2>3. CASE \E t \in Rows : ClaimDispatch(s, t)
      BY <2>3 DEF ClaimDispatch, ClaimLock, At, Rows
    <2>4. CASE ClaimAnswer(s) \/ ClaimGiveUp(s)
      BY <2>4 DEF ClaimAnswer, ClaimGiveUp, At, Rows, tableVars
    <2> QED BY <2>1, <2>2, <2>3, <2>4 DEF ClaimStep
  <1>m. ASSUME NEW q, Become(s, q),
               q.pc \in {"claim", "claim_row", "claim_lock", "claim_status"}
        PROVE  QueueInv'
    BY <1>0, <1>m, OthersMove DEF Writing
  <1>1. ASSUME NEW t \in Rows, ClaimCheck(s, t) PROVE QueueInv'
    <2> DEFINE fits == HasCapacity(task[t].agent)
               q == [req[s] EXCEPT !.todo = @ \ {t},
                                   !.pc = IF fits THEN "claim_row" ELSE "claim",
                                   !.agent = IF fits THEN task[t].agent ELSE @]
    <2>1. q.pc \in {"claim", "claim_row"}
      BY <1>q DEF Request
    <2>2. Become(s, q)
      BY <1>1 DEF ClaimCheck
    <2> HIDE DEF q
    <2> QED BY <1>m, <2>1, <2>2
  <1>2. CASE ClaimSelect(s)
    <2> DEFINE q == [req[s] EXCEPT !.pc = "claim_lock"]
    <2>1. q.pc = "claim_lock" /\ Become(s, q)
      BY <1>2, <1>q DEF ClaimSelect, Goto, Request
    <2> HIDE DEF q
    <2> QED BY <1>m, <2>1
  <1>3. ASSUME NEW t \in Rows, ClaimDispatch(s, t) PROVE QueueInv'
    <2> DEFINE q == [req[s] EXCEPT !.pc = "claim_status", !.task = t]
    <2>1. q.pc = "claim_status" /\ Become(s, q)
      BY <1>3, <1>q DEF ClaimDispatch, Request
    <2> HIDE DEF q
    <2> QED BY <1>m, <2>1
  <1>4. CASE ClaimNothing(s)
    <2> DEFINE q == [req[s] EXCEPT !.pc = "claim", !.agent = "nobody"]
    <2>1. q.pc = "claim" /\ Become(s, q)
      BY <1>4, <1>q DEF ClaimNothing, Request
    <2> HIDE DEF q
    <2> QED BY <1>m, <2>1
  <1>5. CASE ClaimAnswer(s)
    <2> DEFINE q == [req[s] EXCEPT !.pc = "claim", !.agent = "nobody", !.task = 0]
    <2>1. q.pc = "claim" /\ (Become(s, q) \/ Done(s))
      BY <1>5, <1>q DEF ClaimAnswer, Request
    <2> HIDE DEF q
    <2> QED BY <1>0, <1>m, <2>1, OthersEnd
  <1>6. CASE ClaimGiveUp(s)
    BY <1>0, <1>6, OthersEnd DEF ClaimGiveUp
  <1> QED BY <1>1, <1>2, <1>3, <1>4, <1>5, <1>6 DEF ClaimStep

LEMMA ReconcileKeepsQueue ==
  ASSUME QueueInv, [ServiceNext]_serviceVars, NEW s \in Session, ReconcileStep(s)
  PROVE  QueueInv'
  <1>q. req[s] \in Request
    BY DEF QueueInv, ServiceInv, GoodRequests
  <1>0. Rows' = Rows /\ UNCHANGED assignee /\ req[s].pc # "cancel_issue"
    <2>1. CASE ReconcileWrite(s)
      BY <2>1 DEF ReconcileWrite, At, Rows, tableVars
    <2>2. CASE \E a \in Agent : ReconcileCount(s, a)
      BY <2>2 DEF ReconcileCount, At, Rows, tableVars
    <2> QED BY <2>1, <2>2 DEF ReconcileStep
  <1>1. CASE ReconcileWrite(s)
    <2>1. /\ Become(s, Reconciling(req[s].agents \ {req[s].agent}, req[s].next))
          /\ req[s].next \in {"idle", "sweep_tasks"}
      BY <1>1, <1>q DEF ReconcileWrite, Request
    <2> QED BY <1>0, <2>1, OthersReconcile
  <1>2. ASSUME NEW a \in Agent, ReconcileCount(s, a) PROVE QueueInv'
    <2> DEFINE q == [req[s] EXCEPT !.pc = "reconcile_write", !.agent = a,
                                   !.flag = CountRunningTasks(a) > 0]
    <2>1. q.pc = "reconcile_write" /\ Become(s, q)
      BY <1>2, <1>q DEF ReconcileCount, Request
    <2> HIDE DEF q
    <2> QED BY <1>0, <2>1, OthersMove DEF Writing
  <1> QED BY <1>1, <1>2 DEF ReconcileStep

LEMMA SweepKeepsQueue ==
  ASSUME QueueInv, [ServiceNext]_serviceVars, Sweep
  PROVE  QueueInv'
  <1> Sweeper \in Session
    BY SweeperIsSession
  <1>0. Rows' = Rows /\ UNCHANGED assignee /\ req[Sweeper].pc # "cancel_issue"
    <2>1. UNCHANGED assignee /\ req[Sweeper].pc # "cancel_issue"
      BY DEF Sweep, SweepRuntimes, SweepOffline, SweepTasks, At
    <2>2. CASE SweepRuntimes
      BY <2>1, <2>2 DEF SweepRuntimes, Rows, tableVars
    <2>3. CASE SweepOffline \/ SweepTasks
      BY <2>1, <2>3, StatusKeepsRows
      DEF SweepOffline, SweepTasks, FailTasksForOfflineRuntimes, FailStaleTasks
    <2> QED BY <2>1, <2>2, <2>3 DEF Sweep
  <1>1. CASE SweepRuntimes
    <2> DEFINE on == [req[Sweeper] EXCEPT !.pc = "sweep_tasks"]
               off == [req[Sweeper] EXCEPT !.pc = "sweep_offline"]
    <2>1. on.pc = "sweep_tasks" /\ off.pc = "sweep_offline"
      BY DEF QueueInv, ServiceInv, GoodRequests, Request
    <2>2. Become(Sweeper, on) \/ Become(Sweeper, off)
      BY <1>1 DEF SweepRuntimes, Goto
    <2> HIDE DEF on, off
    <2> QED BY <1>0, <2>1, <2>2, OthersMove DEF Writing
  <1>2. ASSUME SweepOffline \/ SweepTasks PROVE QueueInv'
    <2>1. \E A : \E nxt \in {"idle", "sweep_tasks"} : Become(Sweeper, Reconciling(A, nxt))
      BY <1>2 DEF SweepOffline, SweepTasks
    <2> QED BY <1>0, <2>1, OthersReconcile
  <1> QED BY <1>1, <1>2 DEF Sweep

LEMMA ReportKeepsQueue ==
  ASSUME QueueInv, [ServiceNext]_serviceVars, NEW s \in Session, NEW t \in Rows,
         CompleteTask(s, t) \/ FailTask(s, t) \/ CancelTask(s, t)
  PROVE  QueueInv'
  <1>1. /\ Become(s, Reconciling({task[t].agent}, "idle"))
        /\ UNCHANGED assignee
        /\ req[s].pc # "cancel_issue"
    BY DEF CompleteTask, FailTask, CancelTask, Free, At
  <1>2. Rows' = Rows
    BY StatusKeepsRows DEF CompleteTask, FailTask, CancelTask, CompleteAgentTask,
       FailAgentTask, CancelAgentTask
  <1> QED BY <1>1, <1>2, OthersReconcile

LEMMA RowsKeepQueue ==
  ASSUME QueueInv, [ServiceNext]_serviceVars, NEW t \in Rows,
         StartTask(t) \/ DaemonDrops(t) \/ GetsLate(t)
  PROVE  QueueInv'
  <1> SUFFICES UNCHANGED <<assignee, req>> /\ Rows' = Rows
    BY NobodyMoves
  <1> QED BY DEF StartTask, DaemonDrops, GetsLate, StartAgentTask, DeadlinePasses, Rows,
                 tableVars

LEMMA AgentsKeepQueue ==
  ASSUME QueueInv, [ServiceNext]_serviceVars,
         \/ \E a \in Agent : \/ RestoreAgent(a)
                             \/ \E r \in Runtime, n \in MaxAgentTasks : UpdateAgent(a, r, n)
         \/ \E r \in Runtime : DaemonHeartbeat(r) \/ DaemonDeregister(r) \/ GoesStale(r)
         \/ UNCHANGED serviceVars
  PROVE  QueueInv'
  <1> SUFFICES UNCHANGED <<assignee, req>> /\ Rows' = Rows
    BY NobodyMoves
  <1>1. CASE \E a \in Agent :
                \/ RestoreAgent(a)
                \/ \E r \in Runtime, n \in MaxAgentTasks : UpdateAgent(a, r, n)
    BY <1>1 DEF RestoreAgent, UpdateAgent, Rows, tableVars
  <1>2. CASE \E r \in Runtime : DaemonHeartbeat(r) \/ DaemonDeregister(r) \/ GoesStale(r)
    BY <1>2 DEF DaemonHeartbeat, DaemonDeregister, GoesStale, Rows, tableVars
  <1>3. CASE UNCHANGED serviceVars
    BY <1>3 DEF serviceVars, Rows
  <1> QED BY <1>1, <1>2, <1>3

-----------------------------------------------------------------------------
(* Steps of a request that writes an issue *)

LEMMA ClosedNoneOpen ==
  ASSUME ServiceInv, NEW S, NEW st \in Status \ Open, SetStatus(S, st),
         NEW i, OpenOf(i) \subseteq S
  PROVE  Rows' = Rows /\ NoneOpen(i, task')
  <1> TableTypeOK
    BY DEF ServiceInv, TableInv
  <1>1. DOMAIN task' = Rows
    BY DEF SetStatus, Rows
  <1>2. ASSUME NEW t \in Rows, task'[t].issue = i, task'[t].status \in Open PROVE FALSE
    <2> DEFINE r == [task[t] EXCEPT !.status = st]
    <2>1. task[t] \in Row
      BY RowsRange
    <2>2. r.issue = task[t].issue /\ r.status = st
      BY <2>1 DEF Row
    <2>3. task'[t] = IF t \in S THEN r ELSE task[t]
      BY DEF SetStatus
    <2> HIDE DEF r
    <2> QED BY <1>2, <2>2, <2>3 DEF OpenOf
  <1> QED BY <1>1, <1>2 DEF NoneOpen, Rows

\* Of the requests that write an issue s is the only one, so a reassignment
\* that is not finished is its own.
LEMMA AloneOnIssue ==
  ASSUME QueueInv, OneByOne, NEW s \in Session, req[s].pc \in Writing,
         req[s].pc # "cancel_issue"
  PROVE  /\ req[s].issue \in Issue
         /\ \A x \in Session : req[x].pc \in Writing /\ req[x].issue = req[s].issue => x = s
         /\ ~Reassigned(req[s].issue)
         /\ OpenAreOf(req[s].issue)
  <1>1. req[s].issue \in Issue
    BY DEF QueueInv, ServiceInv, GoodRequests, GoodRequest, Writing
  <1>2. \A x \in Session : req[x].pc \in Writing /\ req[x].issue = req[s].issue => x = s
    BY DEF OneByOne, OneWriterPerIssue
  <1>3. ~Reassigned(req[s].issue)
    BY <1>2 DEF Reassigned, Writing
  <1> QED BY <1>1, <1>2, <1>3 DEF QueueInv

\* The assignee of i is written by s while no other request writes i.
LEMMA AssigneeChanges ==
  ASSUME QueueInv, [ServiceNext]_serviceVars, Rows' = Rows,
         NEW s \in Session, NEW i \in Issue, NEW b,
         assignee' = [assignee EXCEPT ![i] = b],
         \A x \in Session : req[x].pc \in Writing /\ req[x].issue = i => x = s,
         req[s].pc # "cancel_issue",
         NEW q, Become(s, q), KnowsAssignee(q, assignee'),
         OpenAreOf(i)' \/ (q.pc = "cancel_issue" /\ q.issue = i)
  PROVE  QueueInv'
  <1> ServiceInv
    BY DEF QueueInv
  <1>1. ServiceInv'
    BY ServiceInductive
  <1>2. \A x \in Session : req'[x] = IF x = s THEN q ELSE req[x]
    BY DEF Become, ServiceInv, GoodRequests
  <1>3. \A j \in Issue : j # i => assignee'[j] = assignee[j]
    BY DEF ServiceInv, ServiceTypeOK
  <1>4. ASSUME NEW x \in Session PROVE KnowsAssignee(req'[x], assignee')
    <2>1. CASE x = s
      BY <1>2, <2>1
    <2>2. CASE x # s /\ req[x].pc \in Writing
      <3>1. req[x].issue \in Issue /\ req[x].issue # i
        BY <2>2 DEF ServiceInv, GoodRequests, GoodRequest, Writing
      <3>2. assignee'[req[x].issue] = assignee[req[x].issue]
        BY <1>3, <3>1
      <3>3. KnowsAssignee(req[x], assignee)
        BY DEF QueueInv
      <3> QED BY <1>2, <2>2, <3>2, <3>3 DEF KnowsAssignee
    <2>3. CASE x # s /\ req[x].pc \notin Writing
      BY <1>2, <2>3 DEF KnowsAssignee, Writing
    <2> QED BY <2>1, <2>2, <2>3
  <1>5. ASSUME NEW j \in Issue, j # i PROVE Reassigned(j)' \/ OpenAreOf(j)'
    <2>1. CASE OpenAreOf(j)
      BY <1>3, <1>5, <2>1, OpenKeepAssignee
    <2>2. CASE Reassigned(j)
      BY <1>2, <2>2 DEF Reassigned
    <2> QED BY <2>1, <2>2 DEF QueueInv
  <1>6. Reassigned(i)' \/ OpenAreOf(i)'
    BY <1>2 DEF Reassigned
  <1> QED BY <1>1, <1>4, <1>5, <1>6 DEF QueueInv

LEMMA CreateKeepsQueue ==
  ASSUME QueueInv, [ServiceNext]_serviceVars, NoNullAssignee, NEW s \in Session,
         NEW i \in Issue, NEW b \in Agent \union {"nobody"}, CreateIssue(s, i, b)
  PROVE  QueueInv'
  <1> DEFINE q == [Idle EXCEPT !.pc = "enqueue", !.issue = i, !.agent = b]
  <1>1. /\ req[s].pc = "idle" /\ assignee[i] = "absent"
        /\ assignee' = [assignee EXCEPT ![i] = b]
        /\ UNCHANGED task
        /\ Become(s, q) \/ UNCHANGED req
    BY DEF CreateIssue, Free, At, tableVars
  <1>2. q.pc = "enqueue" /\ q.issue = i /\ q.agent = b
    BY DEF Idle
  <1> HIDE DEF q
  <1>3. assignee'[i] = b /\ b # "absent"
    BY <1>1 DEF QueueInv, ServiceInv, ServiceTypeOK, NoNullAssignee, NotAgent
  <1>4. \A x \in Session : req[x].pc \in Writing => req[x].issue # i
    BY <1>1 DEF QueueInv, KnowsAssignee
  <1>5. OpenOf(i) = {}
    <2>1. ~Reassigned(i)
      BY <1>4 DEF Reassigned, Writing
    <2>2. OpenAreOf(i)
      BY <2>1 DEF QueueInv
    <2>3. \A t \in OpenOf(i) : task[t].agent \in Agent
      BY RowFacts DEF OpenOf, QueueInv, ServiceInv
    <2> QED BY <1>1, <2>2, <2>3 DEF OpenAreOf, NoNullAssignee, NotAgent
  <1>6. OpenAreOf(i)'
    BY <1>1, <1>5 DEF OpenAreOf, OpenOf, Rows
  <1>7. KnowsAssignee(q, assignee')
    BY <1>2, <1>3 DEF KnowsAssignee, Writing
  <1>8. KnowsAssignee(req[s], assignee')
    BY <1>1 DEF KnowsAssignee, Writing
  <1>9. UNCHANGED req => Become(s, req[s])
    BY DEF Become, QueueInv, ServiceInv, GoodRequests
  <1> QED BY <1>1, <1>4, <1>6, <1>7, <1>8, <1>9, AssigneeChanges DEF Rows

LEMMA UpdateKeepsQueue ==
  ASSUME QueueInv, [ServiceNext]_serviceVars, OneByOne, NEW s \in Session, UpdateIssue(s)
  PROVE  QueueInv'
  <1> DEFINE i == req[s].issue
             b == req[s].agent
             q == [Idle EXCEPT !.pc = "cancel_issue", !.issue = i, !.agent = b,
                               !.next = "idle"]
  <1>1. req[s].pc = "update" /\ UNCHANGED task
    BY DEF UpdateIssue, At, tableVars
  <1>2. /\ i \in Issue /\ OpenAreOf(i)
        /\ \A x \in Session : req[x].pc \in Writing /\ req[x].issue = i => x = s
    BY <1>1, AloneOnIssue DEF Writing
  <1>3. /\ req[s].old = assignee[i]
        /\ req[s].flag \/ b = req[s].old
        /\ b # "absent" /\ assignee[i] # "absent"
    BY <1>1 DEF QueueInv, KnowsAssignee, Writing
  <1>4. q.pc = "cancel_issue" /\ q.issue = i /\ q.agent = b /\ Idle.pc = "idle"
    BY DEF Idle
  <1>5. assignee \in [Issue -> Agent \union NotAgent]
    BY DEF QueueInv, ServiceInv, ServiceTypeOK
  <1>6. \/ Done(s) /\ UNCHANGED assignee
        \/ /\ assignee' = [assignee EXCEPT ![i] = b]
           /\ Become(s, q)
        \/ /\ assignee' = [assignee EXCEPT ![i] = b]
           /\ Done(s) /\ ~AssigneeChanged(s)
    BY DEF UpdateIssue
  <1> HIDE DEF q
  <1>7. CASE Done(s) /\ UNCHANGED assignee
    BY <1>1, <1>7, OthersEnd DEF Rows
  <1>8. CASE assignee' = [assignee EXCEPT ![i] = b] /\ Become(s, q)
    <2>1. assignee'[i] = b
      BY <1>2, <1>5, <1>8
    <2>2. KnowsAssignee(q, assignee')
      BY <1>3, <1>4, <2>1 DEF KnowsAssignee
    <2> QED BY <1>1, <1>2, <1>4, <1>8, <2>2, AssigneeChanges DEF Rows
  <1>9. CASE assignee' = [assignee EXCEPT ![i] = b] /\ Done(s) /\ ~AssigneeChanged(s)
    <2>1. b = assignee[i]
      BY <1>3, <1>9 DEF AssigneeChanged
    <2>2. UNCHANGED assignee
      BY <1>2, <1>5, <1>9, <2>1
    <2> QED BY <1>1, <1>9, <2>2, OthersEnd DEF Rows
  <1> QED BY <1>6, <1>7, <1>8, <1>9

LEMMA DeleteKeepsQueue ==
  ASSUME QueueInv, [ServiceNext]_serviceVars, OneByOne, NEW s \in Session, DeleteIssue(s)
  PROVE  QueueInv'
  <1> DEFINE i == req[s].issue
  <1>1. /\ req[s].pc = "delete_issue" /\ Become(s, Idle)
        /\ assignee' = [assignee EXCEPT ![i] = "deleted"]
        /\ SetStatus({t \in Rows : task[t].issue = i}, "deleted")
    BY DEF DeleteIssue, DeleteIssueRows, At, Done
  <1>2. /\ i \in Issue
        /\ \A x \in Session : req[x].pc \in Writing /\ req[x].issue = i => x = s
    BY <1>1, AloneOnIssue DEF Writing
  <1>3. Rows' = Rows /\ NoneOpen(i, task')
    <2>1. "deleted" \in Status \ Open
      BY DEF Status, Open, Pending, Active
    <2>2. OpenOf(i) \subseteq {t \in Rows : task[t].issue = i}
      BY DEF OpenOf
    <2> QED BY <1>1, <2>1, <2>2, ClosedNoneOpen DEF QueueInv
  <1>4. PICK j \in Issue : j = i
    BY <1>2
  <1>5. KnowsAssignee(Idle, assignee')
    BY DEF Idle, KnowsAssignee, Writing
  <1>6. OpenAreOf(j)'
    BY <1>3, <1>4 DEF OpenAreOf, OpenOf, NoneOpen, Rows
  <1> QED BY <1>1, <1>2, <1>3, <1>4, <1>5, <1>6, AssigneeChanges

LEMMA EnqueueEnds ==
  ASSUME OneByOne, NEW s \in Session, req[s].pc \in Writing, AfterEnqueue(s)
  PROVE  Done(s)
  BY DEF AfterEnqueue, OneByOne, NoMentions

LEMMA InsertKeepsQueue ==
  ASSUME QueueInv, [ServiceNext]_serviceVars, OneByOne, NEW s \in Session,
         NEW p \in Priority, Insert(s, p)
  PROVE  QueueInv'
  <1> DEFINE a == req[s].agent
             i == req[s].issue
             row == [status |-> "queued", agent |-> a, runtime |-> req[s].runtime,
                     issue |-> i, prio |-> p, overdue |-> FALSE]
  <1> ServiceInv
    BY DEF QueueInv
  <1>1. req[s].pc = "insert" /\ Done(s) /\ UNCHANGED assignee
    BY EnqueueEnds DEF Insert, At, Writing
  <1>2. CASE Refused(s)
    BY <1>1, <1>2, OthersEnd DEF Insert, tableVars, Rows
  <1>3. CASE ~Refused(s)
    <2>1. task' = Append(task, row) /\ task \in Seq(Row)
      BY <1>3 DEF Insert, CreateAgentTask, ServiceInv, TableInv, TableTypeOK
    <2>2. row.agent = a /\ row.issue = i
      OBVIOUS
    <2> HIDE DEF row
    <2>3. \A t \in Rows' : t \in Rows \/ task'[t] = row
      BY <2>1 DEF Rows
    <2>4. i \in Issue /\ ~Reassigned(i)
      BY <1>1, AloneOnIssue DEF Writing
    <2>5. a = assignee[i]
      BY <1>1 DEF QueueInv, KnowsAssignee
    <2>6. \A x \in Session : req'[x] = IF x = s THEN Idle ELSE req[x]
      BY <1>1 DEF Done, Become, ServiceInv, GoodRequests
    <2>7. \A x \in Session : KnowsAssignee(req'[x], assignee')
      BY <1>1, <2>6 DEF QueueInv, KnowsAssignee, Idle, Writing
    <2>8. ASSUME NEW j \in Issue, OpenAreOf(j) PROVE OpenAreOf(j)'
      <3> SUFFICES ASSUME NEW t \in Rows', task'[t].issue = j, task'[t].status \in Open
                   PROVE  task'[t].agent = assignee[j]
        BY <1>1 DEF OpenAreOf, OpenOf
      <3>1. CASE t \in Rows
        BY <2>8, <3>1, OpenRowsStay DEF OpenAreOf, OpenOf
      <3>2. CASE task'[t] = row
        BY <2>2, <2>5, <3>2
      <3> QED BY <2>3, <3>1, <3>2
    <2>9. \A j \in Issue : Reassigned(j) => Reassigned(j)'
      BY <1>1, <2>6 DEF Reassigned
    <2>10. ServiceInv'
      BY ServiceInductive
    <2> QED BY <2>7, <2>8, <2>9, <2>10 DEF QueueInv
  <1> QED BY <1>2, <1>3

LEMMA IssueKeepsQueue ==
  ASSUME QueueInv, [ServiceNext]_serviceVars, OneByOne, NEW s \in Session,
         IssueStep(s) \/ CancelTasksOfAgent(s)
  PROVE  QueueInv'
  <1> ServiceInv
    BY DEF QueueInv
  <1>q. req[s] \in Request
    BY DEF ServiceInv, GoodRequests
  <1>k. KnowsAssignee(req[s], assignee)
    BY DEF QueueInv
  <1>e. ASSUME Goto(s, "enqueue"), UNCHANGED assignee, Rows' = Rows,
               req[s].pc \in {"cancel_issue", "comment_check"},
               req[s].pc = "cancel_issue" => NoneOpen(req[s].issue, task')
        PROVE  QueueInv'
    <2> DEFINE q == [req[s] EXCEPT !.pc = "enqueue"]
    <2>1. /\ q.pc = "enqueue" /\ q.agent = req[s].agent /\ q.issue = req[s].issue
          /\ Become(s, q)
      BY <1>e, <1>q DEF Request, Goto
    <2> HIDE DEF q
    <2>2. KnowsAssignee(q, assignee)
      BY <1>e, <1>k, <2>1 DEF KnowsAssignee, Writing
    <2> QED BY <1>e, <2>1, <2>2, WriterMoves
  <1>1. CASE CancelTasksForIssue(s)
    <2>1. /\ req[s].pc = "cancel_issue" /\ UNCHANGED assignee
          /\ Goto(s, "enqueue") \/ Done(s)
          /\ SetStatus(OpenOf(req[s].issue), "cancelled")
      BY <1>1 DEF CancelTasksForIssue, CancelAgentTasksByIssue, At
    <2>2. Rows' = Rows /\ NoneOpen(req[s].issue, task')
      <3>1. "cancelled" \in Status \ Open
        BY DEF Status, Open, Pending, Active
      <3> QED BY <2>1, <3>1, ClosedNoneOpen
    <2>3. CASE Done(s)
      <3>1. KnowsAssignee(Idle, assignee)
        BY DEF Idle, KnowsAssignee, Writing
      <3> QED BY <2>1, <2>2, <2>3, <3>1, WriterMoves DEF Done
    <2> QED BY <1>e, <2>1, <2>2, <2>3
  <1>2. CASE CommentCheck(s)
    <2>1. /\ req[s].pc = "comment_check" /\ UNCHANGED <<task, assignee>>
          /\ Goto(s, "enqueue") \/ AfterEnqueue(s)
      BY <1>2 DEF CommentCheck, At, tableVars
    <2>2. Goto(s, "enqueue") \/ Done(s)
      BY <2>1, EnqueueEnds DEF Writing
    <2> QED BY <1>e, <2>1, <2>2, OthersEnd DEF Rows
  <1>3. CASE Enqueue(s)
    <2> DEFINE q == [req[s] EXCEPT !.pc = "insert", !.runtime = agentRuntime[req[s].agent]]
    <2>1. /\ req[s].pc = "enqueue" /\ UNCHANGED <<task, assignee>>
          /\ Become(s, q) \/ AfterEnqueue(s)
      BY <1>3 DEF Enqueue, At, tableVars
    <2>2. q.pc = "insert" /\ q.agent = req[s].agent /\ q.issue = req[s].issue
      BY <1>q DEF Request
    <2> HIDE DEF q
    <2>3. KnowsAssignee(q, assignee)
      BY <1>k, <2>1, <2>2 DEF KnowsAssignee, Writing
    <2>4. Become(s, q) \/ Done(s)
      BY <2>1, EnqueueEnds DEF Writing
    <2> QED BY <2>1, <2>3, <2>4, WriterMoves, OthersEnd DEF Rows
  <1>4. ASSUME NEW m \in Agent, Mention(s, m) PROVE FALSE
    BY <1>4 DEF Mention, At, OneByOne, NoMentions, Writing
  <1>5. CASE CancelTasksOfAgent(s)
    BY <1>5, StatusKeepsRows, OthersEnd
    DEF CancelTasksOfAgent, CancelAgentTasksByAgent, At
  <1> QED BY <1>1, <1>2, <1>3, <1>4, <1>5, UpdateKeepsQueue, DeleteKeepsQueue,
             InsertKeepsQueue DEF IssueStep

LEMMA BeginUpdateKeepsQueue ==
  ASSUME QueueInv, [ServiceNext]_serviceVars, NoNullAssignee, NEW s \in Session,
         NEW i \in Issue, NEW k \in {"assign", "member", "unassign", "edit"},
         BeginUpdateIssue(s, i, k)
  PROVE  QueueInv'
  <1>1. /\ req[s].pc = "idle" /\ UNCHANGED <<task, assignee>>
        /\ k \in {"assign", "member", "edit"} /\ assignee[i] # "absent"
    BY DEF BeginUpdateIssue, Free, At, Exists, tableVars, NoNullAssignee
  <1>2. PICK b \in NewAssignee(k, i) :
          Become(s, [Idle EXCEPT !.pc = "update", !.issue = i, !.old = assignee[i],
                                 !.agent = b, !.flag = NamesAssignee(k)])
    BY Zenon DEF BeginUpdateIssue
  <1> DEFINE q == [Idle EXCEPT !.pc = "update", !.issue = i, !.old = assignee[i],
                               !.agent = b, !.flag = NamesAssignee(k)]
  <1>3. q.pc = "update" /\ q.issue = i /\ q.old = assignee[i] /\ q.agent = b
        /\ q.flag = NamesAssignee(k)
    BY DEF Idle
  <1>4. Become(s, q)
    BY <1>2
  <1> HIDE DEF q
  <1>5. b # "absent" /\ (NamesAssignee(k) \/ b = assignee[i])
    BY <1>1 DEF NewAssignee, NamesAssignee, Assignable, NoNullAssignee, NotAgent
  <1>6. KnowsAssignee(q, assignee)
    BY <1>1, <1>3, <1>5 DEF KnowsAssignee, Writing
  <1> QED BY <1>1, <1>4, <1>6, WriterMoves DEF Rows

LEMMA CommentKeepsQueue ==
  ASSUME QueueInv, [ServiceNext]_serviceVars, NEW s \in Session, NEW i \in Issue,
         NEW m \in SUBSET Agent, NEW d \in BOOLEAN, CreateComment(s, i, m, d)
  PROVE  QueueInv'
  <1> DEFINE pc == IF d THEN "comment_check" ELSE "mention"
             q  == [Idle EXCEPT !.pc = pc, !.issue = i, !.old = assignee[i],
                                !.agent = assignee[i], !.agents = m \ {assignee[i]}]
  <1>1. /\ req[s].pc = "idle" /\ UNCHANGED <<task, assignee>>
        /\ assignee[i] # "absent" /\ Become(s, q)
    BY DEF CreateComment, Free, At, Exists, tableVars
  <1>2. pc \in {"comment_check", "mention"}
    OBVIOUS
  <1> HIDE DEF pc
  <1>3. q.pc = pc /\ q.issue = i /\ q.agent = assignee[i]
    BY DEF Idle
  <1> HIDE DEF q
  <1>4. KnowsAssignee(q, assignee)
    BY <1>1, <1>2, <1>3 DEF KnowsAssignee, Writing
  <1> QED BY <1>1, <1>4, WriterMoves DEF Rows

LEMMA BeginDeleteKeepsQueue ==
  ASSUME QueueInv, [ServiceNext]_serviceVars, NEW s \in Session, NEW i \in Issue,
         BeginDeleteIssue(s, i)
  PROVE  QueueInv'
  <1> DEFINE q == [Idle EXCEPT !.pc = "delete_issue", !.issue = i]
  <1>1. /\ req[s].pc = "idle" /\ UNCHANGED assignee
        /\ assignee[i] # "absent" /\ Become(s, q)
        /\ SetStatus(OpenOf(i), "cancelled")
    BY DEF BeginDeleteIssue, CancelAgentTasksByIssue, Free, At, Exists
  <1>2. q.pc = "delete_issue" /\ q.issue = i
    BY DEF Idle
  <1> HIDE DEF q
  <1>3. KnowsAssignee(q, assignee)
    BY <1>1, <1>2 DEF KnowsAssignee
  <1> QED BY <1>1, <1>3, StatusKeepsRows, WriterMoves

LEMMA BeginKeepsQueue ==
  ASSUME QueueInv, [ServiceNext]_serviceVars, NoNullAssignee, NEW s \in Session, Begin(s)
  PROVE  QueueInv'
  <1>1. ASSUME NEW a \in Agent, ArchiveAgent(s, a) PROVE QueueInv'
    <2> DEFINE q == [Idle EXCEPT !.pc = "cancel_agent", !.agent = a]
    <2>1. /\ req[s].pc = "idle" /\ UNCHANGED <<task, assignee>> /\ Become(s, q)
      BY <1>1 DEF ArchiveAgent, Free, At, tableVars
    <2>2. q.pc = "cancel_agent"
      BY DEF Idle
    <2> HIDE DEF q
    <2> QED BY <2>1, <2>2, OthersMove DEF Rows, Writing
  <1> QED BY <1>1, PollKeepsQueue, ReportKeepsQueue, CreateKeepsQueue, CommentKeepsQueue,
             BeginUpdateKeepsQueue, BeginDeleteKeepsQueue DEF Begin

-----------------------------------------------------------------------------
(* The inductive invariant, and what follows from it *)

LEMMA AbortKeepsQueue ==
  ASSUME QueueInv, [ServiceNext]_serviceVars, ReassignmentCancels, NEW s \in Session,
         Abort(s)
  PROVE  QueueInv'
  <1>1. Done(s) /\ UNCHANGED <<task, assignee>>
    BY DEF Abort, Disconnect
  <1>2. req'[s].pc = "idle"
    BY <1>1 DEF Done, Become, Idle, QueueInv, ServiceInv, GoodRequests
  <1>3. req[s].pc = "cancel_issue" => NoneOpen(req[s].issue, task')
    BY <1>2 DEF ReassignmentCancels
  <1>4. KnowsAssignee(Idle, assignee)
    BY DEF Idle, KnowsAssignee, Writing
  <1> QED BY <1>1, <1>3, <1>4, WriterMoves DEF Done, Rows

LEMMA QueueInductive ==
  ASSUME NoNullAssignee, QueueInv, OneByOne, [ReassignmentCancels]_serviceVars,
         [ServiceNext]_serviceVars
  PROVE  QueueInv'
  <1>1. ASSUME NEW s \in Session, Proceed(s) \/ Begin(s) \/ Abort(s) PROVE QueueInv'
    <2>1. CASE Abort(s) /\ ReassignmentCancels
      BY <2>1, AbortKeepsQueue
    <2>2. CASE Abort(s) /\ UNCHANGED serviceVars
      BY <2>2, AgentsKeepQueue
    <2> QED BY <1>1, <2>1, <2>2, ClaimKeepsQueue, ReconcileKeepsQueue, IssueKeepsQueue,
               BeginKeepsQueue DEF Proceed
  <1>2. ASSUME NEW t \in Rows, StartTask(t) \/ DaemonDrops(t) \/ GetsLate(t)
        PROVE  QueueInv'
    BY <1>2, RowsKeepQueue
  <1>3. CASE \/ \E a \in Agent :
                   \/ RestoreAgent(a)
                   \/ \E r \in Runtime, n \in MaxAgentTasks : UpdateAgent(a, r, n)
             \/ \E r \in Runtime : DaemonHeartbeat(r) \/ DaemonDeregister(r) \/ GoesStale(r)
             \/ UNCHANGED serviceVars
    BY <1>3, AgentsKeepQueue
  <1>4. CASE Sweep
    BY <1>4, SweepKeepsQueue
  <1> QED BY <1>1, <1>2, <1>3, <1>4 DEF ServiceNext

LEMMA QueueInitially == ServiceInit => QueueInv
  <1> SUFFICES ASSUME ServiceInit PROVE QueueInv
    OBVIOUS
  <1>1. \A s \in Session : req[s].pc = "idle"
    BY DEF ServiceInit, Idle
  <1>2. \A s \in Session : KnowsAssignee(req[s], assignee)
    BY <1>1 DEF KnowsAssignee, Writing
  <1>3. \A i \in Issue : OpenAreOf(i)
    BY DEF ServiceInit, TableInit, OpenAreOf, OpenOf, Rows
  <1> QED BY <1>2, <1>3, ServiceInitially DEF QueueInv

\* While requests that write the same issue come one after the other, no comment
\* names another agent and every reassignment gets to its cancellation, what each
\* request remembers of the assignee holds, and only a reassignment under way
\* leaves an issue a task that is not its assignee's.
THEOREM QueueInvariant ==
  ASSUME NoNullAssignee
  PROVE  ServiceSpec /\ []OneByOne /\ [][ReassignmentCancels]_serviceVars => []QueueInv
  <1>1. ServiceInit => QueueInv
    BY QueueInitially
  <1>2. QueueInv /\ OneByOne /\ [ReassignmentCancels]_serviceVars /\ [ServiceNext]_serviceVars
          => QueueInv'
    BY QueueInductive
  <1> QED BY <1>1, <1>2, PTL DEF ServiceSpec

\* So at rest an issue's open tasks are its assignee's: whatever claims, reports,
\* sweeps, archivings and requests about other issues came in between the
\* statements that wrote the assignee, cancelled and enqueued, and wherever else
\* a request was cut off.
THEOREM ServiceQueueFollowsAssignee ==
  ASSUME NoNullAssignee
  PROVE  ServiceSpec /\ []OneByOne /\ [][ReassignmentCancels]_serviceVars
           => []QueueFollowsAssignee
  <1>1. QueueInv => QueueFollowsAssignee
    BY DEF QueueInv, QueueFollowsAssignee, Quiet, At, Reassigned, OpenAreOf
  <1> QED BY <1>1, QueueInvariant, PTL
=============================================================================

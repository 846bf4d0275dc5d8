---------------------------- MODULE MachineProofs ----------------------------
(* Proofs about a machine's daemon. Whatever it does with its tasks, the     *)
(* table makes a step of its own; slots are accounted for; and what the      *)
(* server is told of a task is true. A ping or update is handed out once,    *)
(* and updates are made and installed one at a time, for any number of them. *)
EXTENDS MCDaemon, TaskTableProofs, FiniteSetTheorems

\* What holds of one task: where its handler is says what the server has
\* recorded, what the agent did, and what may still be on its way.
Good(t) ==
    /\ hand[t] # "none" => t \in Rows /\ task[t].status # "queued"
    /\ t \in proc => hand[t] # "none" /\ task[t].status \notin Pending
    /\ hand[t] \in {"launch", "run", "judge", "check", "complete"} => task[t].status \notin Pending
    /\ watch[t] \in {"told", "closed"} => hand[t] # "none" /\ task[t].status \notin Open
    /\ hand[t] = "judge" => result[t] \in Outcome
    /\ hand[t] = "check" => result[t] \in {"completed", "blocked"}
    /\ hand[t] = "complete" => result[t] = "completed"
    /\ (t \in Rows /\ task[t].status = "completed") \/ <<"complete", t>> \in net
          => result[t] = "completed" /\ hand[t] \in {"fail", "end", "done"}
    /\ hand[t] \in {"end", "done"} /\ t \notin lost => task[t].status \notin Open

DaemonInv == DaemonTypeOK /\ TableInv /\ SlotsAccounted /\ \A t \in Ids : Good(t)

-----------------------------------------------------------------------------
(* What a step does to the table *)

LEMMA ReportIsTable ==
  ASSUME NEW k \in ReportKind, NEW t \in Rows, Report(k, t)
  PROVE  TableNext
  BY DEF Report, ReportKind, TableNext

LEMMA CallIsTable ==
  ASSUME NEW k \in ReportKind, NEW t \in Rows, NEW yes, NEW no, Call(k, t, yes, no)
  PROVE  [TableNext]_tableVars
  BY ReportIsTable DEF Call

LEMMA PollIsTable == Poll => [TableNext]_tableVars
  <1> USE DaemonConstants DEF TableNext, tableVars
  <1>1. AcquireSlot => [TableNext]_tableVars
    BY DEF AcquireSlot
  <1>2. \A a \in Agent : AskForTask(a) => [TableNext]_tableVars
    BY DEF AskForTask
  <1>3. \A t \in Rows : TaskReceived(t) \/ AnswerLost(t) => [TableNext]_tableVars
    BY DEF TaskReceived, AnswerLost
  <1>4. NoTask \/ ClaimFails => [TableNext]_tableVars
    BY DEF NoTask, ClaimFails
  <1> QED BY <1>1, <1>2, <1>3, <1>4 DEF Poll

LEMMA HandlerIsTable ==
  ASSUME NEW t \in Rows, Handler(t) PROVE [TableNext]_tableVars
  <1>1. {"start", "complete", "fail"} \subseteq ReportKind
    BY DEF ReportKind
  <1>2. StartTask(t) \/ CompleteTask(t) \/ FailTask(t) => [TableNext]_tableVars
    BY <1>1, CallIsTable DEF StartTask, CompleteTask, FailTask
  <1>3. Launch(t) \/ Judge(t) \/ CheckStatus(t) \/ Release(t) => UNCHANGED tableVars
    BY DEF Launch, Judge, CheckStatus, Release
  <1> QED BY <1>2, <1>3 DEF Handler

LEMMA GoneIsTable == Gone => TableNext
  BY DaemonConstants DEF Gone, TableNext

LEMMA ServerIsTable == ServerStep => TableNext
  BY DEF ServerStep, TableNext

LEMMA DaemonStepIsTable == [DaemonNext]_daemonVars => [TableNext]_tableVars
  <1>1. ASSUME NEW t \in Rows, AgentEnds(t) \/ WatchTick(t) \/ WatchClose(t) \/ OrphanEnds(t)
        PROVE  [TableNext]_tableVars
    BY <1>1 DEF AgentEnds, WatchTick, WatchClose, OrphanEnds
  <1>2. ASSUME NEW t \in Rows, NEW k \in ReportKind, ArrivesLate(k, t)
        PROVE  [TableNext]_tableVars
    BY <1>2, ReportIsTable DEF ArrivesLate
  <1>3. Stop \/ Restart => [TableNext]_tableVars
    BY DEF Stop, Restart
  <1>4. Exit \/ Crash => [TableNext]_tableVars
    BY GoneIsTable DEF Exit, Crash
  <1>5. UNCHANGED daemonVars => UNCHANGED tableVars
    BY DEF daemonVars, tableVars
  <1> QED BY <1>1, <1>2, <1>3, <1>4, <1>5, PollIsTable, HandlerIsTable, ServerIsTable DEF DaemonNext

\* The order of a task's life, as the invariant needs it.
LEMMA Forward ==
  ASSUME TableInv, [TableNext]_tableVars, NEW t \in Rows
  PROVE  /\ t \in Rows'
         /\ task[t].status # "queued" => task'[t].status # "queued"
         /\ task[t].status \notin Pending => task'[t].status \notin Pending
         /\ task[t].status \notin Open => task'[t].status \notin Open
  <1>1. t \in DOMAIN task' /\ task'[t].status \in After(task[t].status)
    BY StepIsForward DEF StepForward
  <1>2. task[t].status \in Status
    BY RowsRange DEF TableInv, Row
  <1> QED BY <1>1, <1>2 DEF After, Rows, Status, Pending, Active, Open

\* A step that concerns other tasks' handlers, and does not complete t.
LEMMA GoodFrame ==
  ASSUME TableInv, [TableNext]_tableVars, NEW t \in Ids, Good(t),
         hand'[t] = hand[t], result'[t] = result[t],
         watch'[t] = watch[t] \/ watch'[t] \notin {"told", "closed"},
         t \in proc' => t \in proc, t \in lost => t \in lost',
         <<"complete", t>> \in net' => <<"complete", t>> \in net,
         t \in Rows' /\ task'[t].status = "completed" => t \in Rows /\ task[t].status = "completed"
  PROVE  Good(t)'
  <1>1. hand[t] # "none" => t \in Rows
    BY DEF Good
  <1>2. watch'[t] \in {"told", "closed"} => t \in Rows
    BY DEF Good
  <1>3. t \in proc => t \in Rows
    BY DEF Good
  <1> QED BY <1>1, <1>2, <1>3, Forward DEF Good

\* Which rows a step completes.
Uncompleted(S) == \A t \in Rows' \ S :
    task'[t].status = "completed" => t \in Rows /\ task[t].status = "completed"

LEMMA WriteCompletes ==
  ASSUME TableTypeOK, NEW S, NEW st \in Status, SetStatus(S, st)
  PROVE  Uncompleted(S) /\ (st # "completed" => Uncompleted({}))
  BY SetStatusType DEF Uncompleted, Rows

LEMMA ReportCompletes ==
  ASSUME TableTypeOK, NEW k \in ReportKind, NEW t \in Rows, Report(k, t)
  PROVE  /\ Uncompleted({t}) /\ (k # "complete" => Uncompleted({}))
         /\ task'[t].status = CASE k = "start" -> "running" [] k = "complete" -> "completed"
                                [] k = "fail" -> "failed"
  <1>1. {"running", "completed", "failed"} \subseteq Status
    BY DEF Status
  <1>2. CASE k = "start"
    <2>1. /\ DOMAIN task' = DOMAIN task
          /\ \A u \in Rows : task'[u].status = IF u = t THEN "running" ELSE task[u].status
      BY <1>1, <1>2, ExceptRow DEF Report, StartAgentTask
    <2> QED BY <1>2, <2>1 DEF Uncompleted, Rows
  <1>3. CASE k = "complete"
    <2>1. SetStatus({t}, "completed")
      BY <1>3 DEF Report, CompleteAgentTask
    <2> QED BY <1>1, <1>3, <2>1, WriteCompletes, SetStatusType
  <1>4. CASE k = "fail"
    <2>1. SetStatus({t}, "failed")
      BY <1>4 DEF Report, FailAgentTask
    <2> QED BY <1>1, <1>4, <2>1, WriteCompletes, SetStatusType
  <1> QED BY <1>2, <1>3, <1>4 DEF ReportKind

LEMMA KeptCompletes == UNCHANGED task => Uncompleted({})
  BY DEF Uncompleted, Rows

LEMMA ClaimCompletes ==
  ASSUME TableInv, NEW t \in Rows, ClaimLock(Poller, t)
  PROVE  Uncompleted({}) /\ task[t].status = "queued" /\ task'[t].status = "dispatched"
  <1>1. "dispatched" \in Status
    BY DEF Status
  <1>2. /\ DOMAIN task' = DOMAIN task
        /\ \A u \in Rows : task'[u].status = IF u = t THEN "dispatched" ELSE task[u].status
    BY <1>1, ExceptRow DEF ClaimLock, TableInv
  <1>3. Uncompleted({})
    BY <1>2 DEF Uncompleted, Rows
  <1>4. task[t].status = "queued"
    BY DEF ClaimLock, StillQueued
  <1> QED BY <1>2, <1>3, <1>4

LEMMA ServerCompletes ==
  ASSUME TableTypeOK, ServerStep PROVE Uncompleted({})
  <1>1. {"cancelled", "failed"} \subseteq Status
    BY DEF Status
  <1>2. ASSUME NEW a \in Agent, NEW r \in Runtime, NEW i \in Issue, NEW p \in Priority,
               CreateAgentTask(a, r, i, p)
        PROVE  Uncompleted({})
    <2> DEFINE new == [status |-> "queued", agent |-> a, runtime |-> r,
                       issue |-> i, prio |-> p, overdue |-> FALSE]
    <2>1. task' = Append(task, new)
      BY <1>2 DEF CreateAgentTask
    <2>2. task \in Seq(Row) /\ new.status = "queued"
      BY DEF TableTypeOK
    <2> HIDE DEF new
    <2>3. /\ Rows' = Rows \union {Len(task) + 1} /\ task'[Len(task) + 1] = new
          /\ \A t \in Rows : task'[t] = task[t]
      BY <2>1, <2>2 DEF Rows
    <2> QED BY <2>2, <2>3 DEF Uncompleted
  <1>3. ASSUME NEW S, NEW st \in {"cancelled", "failed"}, SetStatus(S, st)
        PROVE  Uncompleted({})
    BY <1>1, <1>3, WriteCompletes
  <1> QED BY <1>2, <1>3 DEF ServerStep, CancelAgentTasksByIssue, CancelAgentTask,
                            FailTasksForOfflineRuntimes

-----------------------------------------------------------------------------
(* Slots *)

LEMMA LiveFinite == IsFiniteSet(Live) /\ Cardinality(Live) \in Nat
  <1>1. IsFiniteSet(Ids)
    BY TableConstants, FS_Interval DEF Ids
  <1>2. Live \in SUBSET Ids
    BY DEF Live
  <1> QED BY <1>1, <1>2, FS_Subset, FS_CardinalityType

Idle(h) == h \in {"none", "done"}

LEMMA LiveSame ==
  ASSUME \A u \in Ids : Idle(hand'[u]) <=> Idle(hand[u])
  PROVE  Live' = Live
  BY DEF Live, Idle, Ids

LEMMA LiveJoins ==
  ASSUME NEW t \in Ids, Idle(hand[t]), ~Idle(hand'[t]),
         \A u \in Ids \ {t} : Idle(hand'[u]) <=> Idle(hand[u])
  PROVE  Cardinality(Live') = Cardinality(Live) + 1
  <1>1. Live' = Live \union {t} /\ t \notin Live
    BY DEF Live, Idle, Ids
  <1> QED BY <1>1, LiveFinite, FS_AddElement

LEMMA LiveLeaves ==
  ASSUME NEW t \in Ids, ~Idle(hand[t]), Idle(hand'[t]),
         \A u \in Ids \ {t} : Idle(hand'[u]) <=> Idle(hand[u])
  PROVE  Cardinality(Live') = Cardinality(Live) - 1 /\ Cardinality(Live) > 0
  <1>1. Live' = Live \ {t} /\ t \in Live
    BY DEF Live, Idle, Ids
  <1>2. Cardinality(Live') = Cardinality(Live) - 1
    BY <1>1, LiveFinite, FS_RemoveElement
  <1>3. Cardinality(Live) # 0
    BY <1>1, LiveFinite, FS_EmptySet
  <1> QED BY <1>2, <1>3, LiveFinite

\* While the loop is between claims it holds no slot.
LEMMA SlotsHeld ==
  ASSUME DaemonInv
  PROVE  /\ sem \in Nat /\ poll # "idle" => sem > 0
         /\ poll = "idle" => sem = Cardinality(Live)
         /\ poll # "idle" => sem = Cardinality(Live) + 1
  BY LiveFinite DEF DaemonInv, DaemonTypeOK, SlotsAccounted

-----------------------------------------------------------------------------
(* The tasks that a step is not about *)

LEMMA OthersGood ==
  ASSUME DaemonInv, [TableNext]_tableVars, NEW t,
         \A u \in Ids \ {t} : hand'[u] = hand[u] /\ result'[u] = result[u] /\ watch'[u] = watch[u],
         proc' \subseteq proc \union {t}, lost \subseteq lost',
         net' \subseteq net \union (ReportKind \X {t}), Uncompleted({t})
  PROVE  \A u \in Ids \ {t} : Good(u)'
  <1> SUFFICES ASSUME NEW u \in Ids \ {t} PROVE Good(u)'
    OBVIOUS
  <1>1. <<"complete", u>> \in net' => <<"complete", u>> \in net
    OBVIOUS
  <1>2. u \in Rows' /\ task'[u].status = "completed" => u \in Rows /\ task[u].status = "completed"
    BY DEF Uncompleted
  <1> QED BY <1>1, <1>2, GoodFrame DEF DaemonInv

LEMMA AllGood ==
  ASSUME DaemonInv, [TableNext]_tableVars, UNCHANGED handlerVars,
         lost \subseteq lost', net' \subseteq net, Uncompleted({})
  PROVE  \A u \in Ids : Good(u)'
  <1> SUFFICES ASSUME NEW u \in Ids PROVE Good(u)'
    OBVIOUS
  <1>1. u \in Rows' /\ task'[u].status = "completed" => u \in Rows /\ task[u].status = "completed"
    BY DEF Uncompleted
  <1> QED BY <1>1, GoodFrame DEF DaemonInv, handlerVars

LEMMA IdsOfRows == ASSUME TableTypeOK PROVE Rows \subseteq Ids
  BY RowsInBound DEF Ids

-----------------------------------------------------------------------------
(* The poll loop *)

LEMMA PollStep == ASSUME DaemonInv, TableInv', Poll PROVE DaemonInv'
  <1> USE DEF DaemonInv
  <1>0. [TableNext]_tableVars /\ TableTypeOK /\ TableTypeOK'
    BY PollIsTable DEF TableInv
  <1>1. CASE AcquireSlot \/ NoTask \/ ClaimFails \/ \E a \in Agent : AskForTask(a)
    <2>1. UNCHANGED <<task, up, handlerVars, net, lost>>
      BY <1>1 DEF AcquireSlot, NoTask, ClaimFails, AskForTask, tableVars, ClaimNoRows, Disconnect,
                  ClaimSnapshot
    <2>2. \A u \in Ids : Good(u)'
      BY <1>0, <2>1, KeptCompletes, AllGood
    <2>3. Live' = Live
      BY <2>1, LiveSame DEF handlerVars
    <2>4. SlotsAccounted' /\ sem' \in 0..MaxSlots /\ poll' \in {"idle", "slot", "claiming"}
      BY <1>1, <2>3, SlotsHeld, LiveFinite, DaemonConstants
         DEF AcquireSlot, NoTask, ClaimFails, AskForTask, SlotsAccounted, DaemonTypeOK
    <2>5. DaemonTypeOK'
      BY <1>0, <2>1, <2>4 DEF DaemonTypeOK, handlerVars
    <2> QED BY <2>2, <2>4, <2>5
  <1>2. ASSUME NEW t \in Rows, AnswerLost(t) PROVE DaemonInv'
    <2>1. /\ UNCHANGED <<up, handlerVars, net>> /\ lost' = lost \union {t} /\ poll = "claiming"
          /\ ClaimLock(Poller, t) /\ poll' = "idle" /\ sem' = sem - 1
      BY <1>2 DEF AnswerLost
    <2>2. t \in Ids
      BY <1>0, IdsOfRows
    <2>3. \A u \in Ids : Good(u)'
      BY <1>0, <2>1, ClaimCompletes, AllGood
    <2>4. Live' = Live
      BY <2>1, LiveSame DEF handlerVars
    <2>5. SlotsAccounted' /\ sem' \in 0..MaxSlots
      BY <2>1, <2>4, SlotsHeld, LiveFinite, DaemonConstants DEF SlotsAccounted, DaemonTypeOK
    <2>6. DaemonTypeOK'
      BY <1>0, <2>1, <2>2, <2>5 DEF DaemonTypeOK, handlerVars
    <2> QED BY <2>3, <2>5, <2>6
  <1>3. ASSUME NEW t \in Rows, TaskReceived(t) PROVE DaemonInv'
    <2>1. /\ UNCHANGED <<up, sem, watch, proc, result, net, lost>> /\ poll = "claiming"
          /\ ClaimLock(Poller, t) /\ poll' = "idle" /\ hand' = [hand EXCEPT ![t] = "start"]
      BY <1>3 DEF TaskReceived
    <2>2. t \in Ids
      BY <1>0, IdsOfRows
    <2>3. Uncompleted({}) /\ task[t].status = "queued" /\ task'[t].status = "dispatched"
      BY <2>1, ClaimCompletes
    <2>4. hand[t] = "none" /\ watch[t] \notin {"told", "closed"} /\ t \notin proc
          /\ <<"complete", t>> \notin net
      BY <2>2, <2>3 DEF Good
    <2>5. hand'[t] = "start" /\ \A u \in Ids \ {t} : hand'[u] = hand[u]
      BY <2>1, <2>2 DEF DaemonTypeOK
    <2>6. Good(t)'
      <3>1. t \in Rows'
        BY <1>0, Forward
      <3> QED BY <2>1, <2>3, <2>4, <2>5, <3>1 DEF Good
    <2>7. \A u \in Ids \ {t} : Good(u)'
      <3>1. Uncompleted({t})
        BY <2>3 DEF Uncompleted
      <3> QED BY <1>0, <2>1, <2>5, <3>1, OthersGood
    <2>8. Cardinality(Live') = Cardinality(Live) + 1
      BY <2>2, <2>4, <2>5, LiveJoins DEF Idle
    <2>9. SlotsAccounted'
      BY <2>1, <2>8, SlotsHeld, LiveFinite DEF SlotsAccounted
    <2>10. DaemonTypeOK'
      <3>1. hand' \in [Ids -> HandlerPC]
        BY <2>1 DEF DaemonTypeOK, HandlerPC
      <3> QED BY <1>0, <2>1, <3>1 DEF DaemonTypeOK
    <2> QED BY <2>6, <2>7, <2>9, <2>10
  <1> QED BY <1>1, <1>2, <1>3 DEF Poll

-----------------------------------------------------------------------------
(* The handlers *)

\* A step of t's handler goroutine, its watcher or its process, or a report
\* about t: all but t stays good, and the types and slots are to be shown.
LEMMA OneTask ==
  ASSUME DaemonInv, TableInv', NEW t \in Rows, [TableNext]_tableVars,
         UNCHANGED <<up, poll>>, Uncompleted({t}),
         \E h \in HandlerPC : hand' = [hand EXCEPT ![t] = h],
         \E r \in Outcome : result' = result \/ result' = [result EXCEPT ![t] = r],
         \E w \in {"on", "told", "closed"} : watch' = watch \/ watch' = [watch EXCEPT ![t] = w],
         proc' \in {proc, proc \union {t}, proc \ {t}}, lost' \in {lost, lost \union {t}},
         net' \subseteq net \union (ReportKind \X {t}),
         sem' \in 0..MaxSlots, SlotsAccounted', Good(t)'
  PROVE  DaemonInv'
  <1> USE DEF DaemonInv
  <1>1. t \in Ids /\ TableTypeOK /\ TableTypeOK'
    BY IdsOfRows DEF TableInv
  <1>2. \A u \in Ids \ {t} : hand'[u] = hand[u] /\ result'[u] = result[u] /\ watch'[u] = watch[u]
    BY DEF DaemonTypeOK
  <1>3. proc' \subseteq proc \union {t} /\ lost \subseteq lost'
    OBVIOUS
  <1>4. \A u \in Ids \ {t} : Good(u)'
    BY <1>2, <1>3, OthersGood
  <1>5. hand' \in [Ids -> HandlerPC] /\ result' \in [Ids -> Outcome \union {"none"}]
        /\ watch' \in [Ids -> {"off", "on", "told", "closed"}]
    <2>1. hand \in [Ids -> HandlerPC] /\ result \in [Ids -> Outcome \union {"none"}]
          /\ watch \in [Ids -> {"off", "on", "told", "closed"}]
      BY DEF DaemonTypeOK
    <2>2. ASSUME NEW S, NEW f \in [Ids -> S], NEW v \in S
          PROVE  [f EXCEPT ![t] = v] \in [Ids -> S]
      OBVIOUS
    <2>3. hand' \in [Ids -> HandlerPC]
      <3>1. PICK h \in HandlerPC : hand' = [hand EXCEPT ![t] = h]
        OBVIOUS
      <3> QED BY <2>1, <2>2, <3>1
    <2>4. result' \in [Ids -> Outcome \union {"none"}]
      <3>1. PICK r \in Outcome \union {"none"} : result' = result \/ result' = [result EXCEPT ![t] = r]
        OBVIOUS
      <3> QED BY <2>1, <2>2, <3>1
    <2>5. watch' \in [Ids -> {"off", "on", "told", "closed"}]
      <3>1. PICK w \in {"off", "on", "told", "closed"} : watch' = watch \/ watch' = [watch EXCEPT ![t] = w]
        OBVIOUS
      <3> QED BY <2>1, <2>2, <3>1
    <2> QED BY <2>3, <2>4, <2>5
  <1>6. proc' \subseteq Ids /\ lost' \subseteq Ids /\ net' \subseteq ReportKind \X Ids
    BY <1>1 DEF DaemonTypeOK
  <1>7. DaemonTypeOK'
    BY <1>1, <1>5, <1>6 DEF DaemonTypeOK
  <1> QED BY <1>4, <1>7

\* While a handler stays live or stays out, the slots add up as before.
LEMMA SlotsKept ==
  ASSUME DaemonInv, NEW t \in Ids, UNCHANGED <<poll, sem>>, Idle(hand'[t]) <=> Idle(hand[t]),
         \A u \in Ids \ {t} : hand'[u] = hand[u]
  PROVE  sem' \in 0..MaxSlots /\ SlotsAccounted'
  <1>1. Live' = Live
    BY LiveSame
  <1> QED BY <1>1 DEF DaemonInv, DaemonTypeOK, SlotsAccounted

LEMMA CallStep ==
  ASSUME DaemonInv, TableInv', NEW t \in Rows, StartTask(t) \/ CompleteTask(t) \/ FailTask(t)
  PROVE  DaemonInv'
  <1> USE DEF DaemonInv
  <1>0. t \in Ids /\ TableTypeOK
    BY IdsOfRows DEF TableInv
  <1>1. PICK k \in ReportKind, yes \in HandlerPC, no \in HandlerPC :
          /\ Call(k, t, yes, no) /\ hand[t] = k
          /\ <<k, yes, no>> \in {<<"start", "launch", "fail">>, <<"complete", "end", "fail">>,
                                 <<"fail", "end", "end">>}
    <2>1. {"start", "complete", "fail"} \subseteq ReportKind
          /\ {"launch", "end", "fail"} \subseteq HandlerPC
      BY DEF ReportKind, HandlerPC
    <2>2. CASE StartTask(t)
      BY <2>1, <2>2 DEF StartTask
    <2>3. CASE CompleteTask(t)
      BY <2>1, <2>3 DEF CompleteTask
    <2>4. CASE FailTask(t)
      BY <2>1, <2>4 DEF FailTask
    <2> QED BY <2>2, <2>3, <2>4
  <1>2. UNCHANGED <<up, poll, sem, watch, proc, result>> /\ [TableNext]_tableVars
    BY <1>1, CallIsTable DEF Call
  <1>3. \E h \in {yes, no} : hand' = [hand EXCEPT ![t] = h]
    BY <1>1 DEF Call
  <1>4. (Idle(hand'[t]) <=> Idle(hand[t])) /\ \A u \in Ids \ {t} : hand'[u] = hand[u]
    BY <1>0, <1>1, <1>3 DEF Idle, DaemonTypeOK
  <1>5. sem' \in 0..MaxSlots /\ SlotsAccounted'
    BY <1>0, <1>2, <1>4, SlotsKept DEF Idle
  <1>6. CASE Report(k, t) /\ hand' = [hand EXCEPT ![t] = yes] /\ UNCHANGED <<net, lost>>
    <2>1. /\ Uncompleted({t}) /\ (k # "complete" => Uncompleted({}))
          /\ task'[t].status = CASE k = "start" -> "running" [] k = "complete" -> "completed"
                                 [] k = "fail" -> "failed"
      BY <1>0, <1>6, ReportCompletes
    <2>2. Good(t)'
      BY <1>0, <1>1, <1>2, <1>6, <2>1, Forward DEF Good, Pending, Active, Open, DaemonTypeOK
    <2> QED BY <1>1, <1>2, <1>5, <1>6, <2>1, <2>2, OneTask DEF Outcome
  <1>7. CASE task[t].status \notin TakenFrom(k) /\ hand' = [hand EXCEPT ![t] = no]
             /\ UNCHANGED <<tableVars, net, lost>>
    <2>1. UNCHANGED task /\ Uncompleted({t})
      BY <1>7, KeptCompletes DEF Uncompleted, tableVars
    <2>2. Good(t)'
      BY <1>0, <1>1, <1>2, <1>7, <2>1 DEF Good, Pending, Active, Open, Rows, TakenFrom, DaemonTypeOK
    <2> QED BY <1>1, <1>2, <1>5, <1>7, <2>1, <2>2, OneTask DEF Outcome
  <1>8. CASE /\ hand' = [hand EXCEPT ![t] = no] /\ lost' = lost \union {t}
             /\ net' \in {net} \union (IF up = "up" THEN {net \union {<<k, t>>}} ELSE {})
             /\ UNCHANGED tableVars
    <2>1. UNCHANGED task /\ Uncompleted({t})
      BY <1>8, KeptCompletes DEF Uncompleted, tableVars
    <2>2. net' \in {net, net \union {<<k, t>>}}
      BY <1>8
    <2>3. Good(t)'
      BY <1>0, <1>1, <1>2, <1>8, <2>1, <2>2 DEF Good, Pending, Active, Open, Rows, DaemonTypeOK
    <2>4. net' \subseteq net \union (ReportKind \X {t})
      BY <2>2
    <2> QED BY <1>1, <1>2, <1>5, <1>8, <2>1, <2>3, <2>4, OneTask DEF Outcome
  <1> QED BY <1>1, <1>6, <1>7, <1>8 DEF Call

LEMMA LocalStep ==
  ASSUME DaemonInv, TableInv', NEW t \in Rows,
         Launch(t) \/ AgentEnds(t) \/ WatchTick(t) \/ WatchClose(t) \/ Judge(t)
         \/ CheckStatus(t) \/ OrphanEnds(t)
  PROVE  DaemonInv'
  <1> USE DEF DaemonInv
  <1>0. t \in Ids /\ TableTypeOK
    BY IdsOfRows DEF TableInv
  <1>1. UNCHANGED <<tableVars, up, poll, sem, net, lost>>
    BY DEF Launch, AgentEnds, WatchTick, WatchClose, Judge, CheckStatus, OrphanEnds
  <1>2. UNCHANGED task /\ Uncompleted({t})
    BY <1>1, KeptCompletes DEF Uncompleted, tableVars
  <1>3. /\ \E h \in HandlerPC : hand' = [hand EXCEPT ![t] = h]
        /\ \A u \in Ids \ {t} : hand'[u] = hand[u]
        /\ Idle(hand'[t]) <=> Idle(hand[t])
    <2>1. {"run", "judge", "end", "fail", "check", "complete"} \subseteq HandlerPC
          /\ hand = [hand EXCEPT ![t] = hand[t]] /\ hand[t] \in HandlerPC
      BY <1>0 DEF HandlerPC, DaemonTypeOK
    <2>2. CASE Launch(t) \/ AgentEnds(t)
      BY <1>0, <2>1, <2>2 DEF Launch, AgentEnds, Idle, DaemonTypeOK
    <2>3. CASE WatchTick(t) \/ WatchClose(t) \/ OrphanEnds(t)
      <3>1. hand' = hand
        BY <2>3 DEF WatchTick, WatchClose, OrphanEnds
      <3> QED BY <2>1, <3>1
    <2>4. CASE Judge(t)
      BY <1>0, <2>1, <2>4 DEF Judge, AfterRun, Idle, DaemonTypeOK
    <2>5. CASE CheckStatus(t)
      BY <1>0, <2>1, <2>5 DEF CheckStatus, Verdict, Idle, DaemonTypeOK
    <2> QED BY <2>2, <2>3, <2>4, <2>5
  <1>4. \E r \in Outcome : result' = result \/ result' = [result EXCEPT ![t] = r]
    BY DEF Launch, AgentEnds, WatchTick, WatchClose, Judge, CheckStatus, OrphanEnds, Outcome
  <1>5. \E w \in {"on", "told", "closed"} : watch' = watch \/ watch' = [watch EXCEPT ![t] = w]
    BY DEF Launch, AgentEnds, WatchTick, WatchClose, Judge, CheckStatus, OrphanEnds
  <1>6. proc' \in {proc, proc \union {t}, proc \ {t}}
    BY DEF Launch, AgentEnds, WatchTick, WatchClose, Judge, CheckStatus, OrphanEnds
  <1>7. sem' \in 0..MaxSlots /\ SlotsAccounted'
    BY <1>0, <1>1, <1>3, SlotsKept
  <1>8. Good(t)'
    <2> USE <1>0, <1>1, <1>2 DEF Good, Rows, DaemonTypeOK
    <2>1. CASE Launch(t)
      BY <2>1 DEF Launch, Outcome
    <2>2. CASE AgentEnds(t)
      BY <2>2 DEF AgentEnds
    <2>3. CASE WatchTick(t)
      BY <2>3 DEF WatchTick, Handled, Open, Pending, Active
    <2>4. CASE WatchClose(t)
      BY <2>4 DEF WatchClose
    <2>5. CASE Judge(t)
      BY <2>5 DEF Judge, AfterRun, Outcome
    <2>6. CASE CheckStatus(t)
      BY <2>6 DEF CheckStatus, Verdict, SeenCancelled, Open, Pending, Active
    <2>7. CASE OrphanEnds(t)
      BY <2>7 DEF OrphanEnds
    <2> QED BY <2>1, <2>2, <2>3, <2>4, <2>5, <2>6, <2>7
  <1> QED BY <1>1, <1>2, <1>3, <1>4, <1>5, <1>6, <1>7, <1>8, OneTask

LEMMA ReleaseStep ==
  ASSUME DaemonInv, TableInv', NEW t \in Rows, Release(t) PROVE DaemonInv'
  <1> USE DEF DaemonInv
  <1>0. t \in Ids /\ TableTypeOK
    BY IdsOfRows DEF TableInv
  <1>1. /\ UNCHANGED <<tableVars, up, poll, watch, proc, result, net, lost>> /\ sem' = sem - 1
        /\ hand[t] = "end" /\ hand' = [hand EXCEPT ![t] = "done"] /\ "done" \in HandlerPC
    BY DEF Release, HandlerPC
  <1>2. UNCHANGED task /\ Uncompleted({t})
    BY <1>1, KeptCompletes DEF Uncompleted, tableVars
  <1>3. hand'[t] = "done" /\ \A u \in Ids \ {t} : hand'[u] = hand[u]
    BY <1>0, <1>1 DEF DaemonTypeOK
  <1>4. Cardinality(Live') = Cardinality(Live) - 1 /\ Cardinality(Live) > 0
    BY <1>0, <1>1, <1>3, LiveLeaves DEF Idle
  <1>5. sem' \in 0..MaxSlots /\ SlotsAccounted'
    BY <1>1, <1>4, SlotsHeld, LiveFinite, DaemonConstants DEF SlotsAccounted, DaemonTypeOK
  <1>6. Good(t)'
    BY <1>0, <1>1, <1>2, <1>3 DEF Good, Rows, DaemonTypeOK
  <1> QED BY <1>1, <1>2, <1>5, <1>6, OneTask DEF Outcome

LEMMA LateStep ==
  ASSUME DaemonInv, TableInv', NEW t \in Rows, NEW k \in ReportKind, ArrivesLate(k, t)
  PROVE  DaemonInv'
  <1> USE DEF DaemonInv
  <1>0. t \in Ids /\ TableTypeOK
    BY IdsOfRows DEF TableInv
  <1>1. /\ UNCHANGED <<up, poll, sem, handlerVars, lost>> /\ <<k, t>> \in net
        /\ net' = net \ {<<k, t>>}
        /\ (task[t].status \in TakenFrom(k) /\ Report(k, t)) \/ UNCHANGED tableVars
    BY DEF ArrivesLate
  <1>2. [TableNext]_tableVars /\ Live' = Live
    BY <1>1, ReportIsTable, LiveSame DEF handlerVars
  <1>3. sem' \in 0..MaxSlots /\ SlotsAccounted'
    BY <1>1, <1>2 DEF SlotsAccounted, DaemonTypeOK
  <1>4. /\ Uncompleted({t})
        /\ task'[t].status = "completed" => task[t].status = "completed" \/ k = "complete"
    <2>1. CASE UNCHANGED tableVars
      BY <2>1, KeptCompletes DEF Uncompleted, tableVars
    <2>2. CASE Report(k, t)
      BY <1>0, <2>2, ReportCompletes DEF ReportKind
    <2> QED BY <1>1, <2>1, <2>2
  <1>5. t \in Rows' /\ (task[t].status # "queued" => task'[t].status # "queued")
        /\ (task[t].status \notin Pending => task'[t].status \notin Pending)
        /\ (task[t].status \notin Open => task'[t].status \notin Open)
    BY <1>2, Forward
  <1>6. Good(t)'
    BY <1>0, <1>1, <1>4, <1>5 DEF Good, handlerVars
  <1>7. /\ hand = [hand EXCEPT ![t] = hand[t]] /\ hand[t] \in HandlerPC /\ "error" \in Outcome
    BY <1>0 DEF DaemonTypeOK, Outcome
  <1> QED BY <1>1, <1>2, <1>3, <1>4, <1>6, <1>7, OneTask DEF handlerVars

-----------------------------------------------------------------------------
(* The daemon stops and dies; the server meanwhile *)

LEMMA GoneStep ==
  ASSUME DaemonInv, TableInv', Gone PROVE DaemonInv'
  <1> USE DEF DaemonInv
  <1>1. /\ up' = "down" /\ poll' = "idle" /\ sem' = 0 /\ UNCHANGED <<task, watch, proc, result, net>>
        /\ hand' = [t \in Ids |-> IF t \in Live THEN "done" ELSE hand[t]]
        /\ lost' = lost \union Live
    BY DEF Gone, Disconnect
  <1>2. \A t \in Ids : hand'[t] = IF t \in Live THEN "done" ELSE hand[t]
    BY <1>1
  <1>3. Live' = {}
    BY <1>2 DEF Live, Ids
  <1>4. SlotsAccounted'
    BY <1>1, <1>3, FS_EmptySet DEF SlotsAccounted
  <1>5. DaemonTypeOK'
    <2>1. hand' \in [Ids -> HandlerPC] /\ lost' \subseteq Ids
      BY <1>1 DEF DaemonTypeOK, Live, HandlerPC
    <2> QED BY <1>1, <2>1, DaemonConstants DEF DaemonTypeOK, TableInv
  <1>6. ASSUME NEW t \in Ids PROVE Good(t)'
    <2>1. CASE t \in Live
      BY <1>1, <1>2, <2>1 DEF Good, Rows, Live
    <2>2. CASE t \notin Live
      BY <1>1, <1>2, <2>2 DEF Good, Rows, Live
    <2> QED BY <2>1, <2>2
  <1> QED BY <1>4, <1>5, <1>6

LEMMA ServerSideStep ==
  ASSUME DaemonInv, TableInv', Stop \/ Restart \/ ServerStep \/ UNCHANGED daemonVars
  PROVE  DaemonInv'
  <1> USE DEF DaemonInv
  <1>1. /\ UNCHANGED <<poll, sem, handlerVars, net, lost>> /\ up' \in {"up", "stopping", up}
        /\ [TableNext]_tableVars
    BY ServerIsTable DEF Stop, Restart, ServerStep, daemonVars, tableVars
  <1>2. Uncompleted({})
    <2>1. ServerStep => Uncompleted({})
      BY ServerCompletes DEF TableInv
    <2>2. ~ServerStep => UNCHANGED task
      BY DEF Stop, Restart, daemonVars, tableVars
    <2> QED BY <2>1, <2>2, KeptCompletes
  <1>3. \A t \in Ids : Good(t)'
    BY <1>1, <1>2, AllGood
  <1>4. Live' = Live
    BY <1>1, LiveSame DEF handlerVars
  <1>5. DaemonTypeOK' /\ SlotsAccounted'
    BY <1>1, <1>4 DEF DaemonTypeOK, SlotsAccounted, TableInv, handlerVars
  <1> QED BY <1>3, <1>5

LEMMA DaemonStep == DaemonInv /\ [DaemonNext]_daemonVars => DaemonInv'
  <1> SUFFICES ASSUME DaemonInv, [DaemonNext]_daemonVars PROVE DaemonInv'
    OBVIOUS
  <1>1. TableInv'
    BY DaemonStepIsTable, TableInductive DEF DaemonInv
  <1>2. ASSUME NEW t \in Rows, Handler(t) \/ AgentEnds(t) \/ WatchTick(t) \/ WatchClose(t)
                               \/ OrphanEnds(t)
        PROVE  DaemonInv'
    BY <1>1, <1>2, CallStep, LocalStep, ReleaseStep DEF Handler
  <1>3. ASSUME NEW t \in Rows, NEW k \in ReportKind, ArrivesLate(k, t) PROVE DaemonInv'
    BY <1>1, <1>3, LateStep
  <1>4. CASE Exit \/ Crash
    BY <1>1, <1>4, GoneStep DEF Exit, Crash
  <1> QED BY <1>1, <1>2, <1>3, <1>4, PollStep, ServerSideStep DEF DaemonNext

LEMMA DaemonStart == DaemonInit => DaemonInv
  <1> SUFFICES ASSUME DaemonInit PROVE DaemonInv
    OBVIOUS
  <1> USE DEF DaemonInit
  <1>1. TableInv
    BY TableInitially
  <1>2. Live = {} /\ Rows = {}
    BY DEF Live, TableInit, Rows
  <1>3. SlotsAccounted
    BY <1>2, FS_EmptySet DEF SlotsAccounted
  <1>4. DaemonTypeOK
    BY <1>1, DaemonConstants DEF DaemonTypeOK, TableInv, HandlerPC
  <1>5. \A t \in Ids : Good(t)
    BY <1>2 DEF Good
  <1> QED BY <1>1, <1>3, <1>4, <1>5 DEF DaemonInv

-----------------------------------------------------------------------------
(* Theorems *)

\* With the daemon in front of it, its calls failing before, after or long
\* after the server carried them out, the table still makes the steps of its
\* statements only: all that is proved of TableSpec holds behind a daemon.
THEOREM DaemonImplementsTable == DaemonSpec => TableSpec
  <1>1. DaemonInit => TableInit
    BY DEF DaemonInit
  <1> QED BY <1>1, DaemonStepIsTable, PTL DEF DaemonSpec, TableSpec

\* The invariant of the daemon: types, slots, and for every task what its
\* handler's place says of its row, its agent and the reports on their way.
THEOREM DaemonInvariant == DaemonSpec => []DaemonInv
  BY DaemonStart, DaemonStep, PTL DEF DaemonSpec

\* Every variable keeps its type; in particular the channel of slots never
\* goes below zero nor above its capacity.
THEOREM DaemonTyped == DaemonSpec => []DaemonTypeOK
  <1>1. DaemonInv => DaemonTypeOK
    BY DEF DaemonInv
  <1> QED BY <1>1, DaemonInvariant, PTL

\* The daemon neither loses a slot nor runs more tasks than it has slots, on
\* every path through the poll loop and the handlers.
THEOREM DaemonSlots == DaemonSpec => []SlotsAccounted
  <1>1. DaemonInv => SlotsAccounted
    BY DEF DaemonInv
  <1> QED BY <1>1, DaemonInvariant, PTL

\* An agent runs only after its start was recorded; a task counts as completed
\* only with a result; a handler that returned without a lost call leaves its
\* task over.  Whatever is lost, refused, late or cancelled in between.
THEOREM DaemonReportsTrue == DaemonSpec => []ReportsTrue
  <1>1. DaemonInv => ReportsTrue
    <2> SUFFICES ASSUME DaemonInv PROVE ReportsTrue
      OBVIOUS
    <2>1. Rows \subseteq Ids /\ proc \subseteq Ids
      BY IdsOfRows DEF DaemonInv, TableInv, DaemonTypeOK
    <2>2. RunsAfterStart
      BY <2>1 DEF DaemonInv, Good, RunsAfterStart
    <2>3. CompletedMeansDone
      BY <2>1 DEF DaemonInv, Good, CompletedMeansDone
    <2>4. HandledIsSettled
      BY <2>1 DEF DaemonInv, Good, HandledIsSettled, Open
    <2> QED BY <2>2, <2>3, <2>4 DEF ReportsTrue
  <1> QED BY <1>1, DaemonInvariant, PTL

\* An issue is worked on by one agent at a time also with a daemon that loses
\* its calls: the queue's promise, carried over by the refinement.
THEOREM DaemonSerial == DaemonSpec => []SerialPerIssue
  <1>1. DaemonInv => SerialPerIssue
    BY DEF DaemonInv, TableInv
  <1> QED BY <1>1, DaemonInvariant, PTL

-----------------------------------------------------------------------------
(* Pings and updates *)

\* The ping store, and what the daemon has of it: what was handed out is not
\* pending again, and what is being handled was not answered yet.
PingInv ==
    /\ pings \in Seq(Request) /\ Len(pings) <= MaxPings
    /\ pinging \subseteq PingIds /\ sent.ping \subseteq PingIds
    /\ \A x \in sent.ping : pings[x].status # "pending"
    /\ \A x \in pinging : pings[x].status \in {"running", "gone"}

\* The update store likewise. An update being installed may have timed out.
UpdateInv ==
    /\ updates \in Seq(Request) /\ Len(updates) <= MaxUpdates
    /\ install \subseteq UpdateIds /\ sent.update \subseteq UpdateIds
    /\ \A x \in sent.update : updates[x].status # "pending"
    /\ \A x \in install : updates[x].status \in {"running", "timeout", "gone"}
    /\ OneUpdatePerRuntime

\* updating is the lock of the installations.
InstallInv ==
    /\ updating \in BOOLEAN
    /\ updating <=> install # {}
    /\ \A x, y \in install : x = y

SentInv == sent = [ping |-> sent.ping, update |-> sent.update]

RequestInv == PingInv /\ UpdateInv /\ InstallInv /\ SentInv

-----------------------------------------------------------------------------
(* What the operators on a store's requests return *)

LEMMA SeqOfRequests ==
  ASSUME NEW reqs \in Seq(Request), NEW new,
         new = [x \in DOMAIN reqs |-> new[x]],
         \A x \in DOMAIN reqs : new[x] \in Request
  PROVE  new \in Seq(Request) /\ Len(new) = Len(reqs) /\ DOMAIN new = DOMAIN reqs
  <1>1. Len(reqs) \in Nat /\ DOMAIN reqs = 1..Len(reqs)
    OBVIOUS
  <1>2. new \in [1..Len(reqs) -> Request]
    BY <1>1
  <1>3. \A n \in Nat : \A f \in [1..n -> Request] : f \in Seq(Request) /\ Len(f) = n
    BY Z3
  <1> QED BY <1>1, <1>2, <1>3

\* A row whose status is written keeps the rest.
LEMMA StatusWritten ==
  ASSUME NEW r \in Request, NEW st \in RequestStatus
  PROVE  LET q == [r EXCEPT !.status = st] IN
         q \in Request /\ q.status = st /\ q.runtime = r.runtime /\ q.age = r.age
  BY DEF Request

LEMMA AgeWritten ==
  ASSUME NEW r \in Request, r.age < 2
  PROVE  LET q == [r EXCEPT !.age = @ + 1] IN
         q \in Request /\ q.status = r.status /\ q.runtime = r.runtime
  BY DEF Request

LEMMA RowTyped ==
  ASSUME NEW reqs \in Seq(Request), NEW x \in DOMAIN reqs
  PROVE  reqs[x] \in Request
  OBVIOUS

LEMMA CleanedRows ==
  ASSUME NEW reqs \in Seq(Request)
  PROVE  /\ Cleaned(reqs) \in Seq(Request) /\ Len(Cleaned(reqs)) = Len(reqs)
         /\ DOMAIN Cleaned(reqs) = DOMAIN reqs
         /\ \A x \in DOMAIN reqs :
               /\ Cleaned(reqs)[x].runtime = reqs[x].runtime
               /\ Cleaned(reqs)[x].status = IF reqs[x].age = 2 THEN "gone" ELSE reqs[x].status
  <1>1. "gone" \in RequestStatus
    BY DEF RequestStatus
  <1>2. \A x \in DOMAIN reqs :
           /\ Cleaned(reqs)[x] \in Request
           /\ Cleaned(reqs)[x].runtime = reqs[x].runtime
           /\ Cleaned(reqs)[x].status = IF reqs[x].age = 2 THEN "gone" ELSE reqs[x].status
    BY <1>1, RowTyped, StatusWritten DEF Cleaned
  <1>3. Cleaned(reqs) = [x \in DOMAIN reqs |-> Cleaned(reqs)[x]]
    BY DEF Cleaned
  <1> QED BY <1>2, <1>3, SeqOfRequests

LEMMA PoppedRows ==
  ASSUME NEW reqs \in Seq(Request), NEW X
  PROVE  /\ Popped(reqs, X) \in Seq(Request) /\ Len(Popped(reqs, X)) = Len(reqs)
         /\ DOMAIN Popped(reqs, X) = DOMAIN reqs
         /\ \A x \in DOMAIN reqs :
               /\ Popped(reqs, X)[x].runtime = reqs[x].runtime
               /\ Popped(reqs, X)[x].status = IF x \in X THEN "running" ELSE reqs[x].status
  <1>1. "running" \in RequestStatus
    BY DEF RequestStatus, Waiting
  <1>2. \A x \in DOMAIN reqs :
           /\ Popped(reqs, X)[x] \in Request
           /\ Popped(reqs, X)[x].runtime = reqs[x].runtime
           /\ Popped(reqs, X)[x].status = IF x \in X THEN "running" ELSE reqs[x].status
    BY <1>1, RowTyped, StatusWritten DEF Popped
  <1>3. Popped(reqs, X) = [x \in DOMAIN reqs |-> Popped(reqs, X)[x]]
    BY DEF Popped
  <1> QED BY <1>2, <1>3, SeqOfRequests

\* new is reqs with the status of x written, or x grown older.
StatusSet(reqs, x, st, new) == new = [reqs EXCEPT ![x].status = st]
GrownOlder(reqs, x, new) == new = [reqs EXCEPT ![x].age = @ + 1]

LEMMA WrittenRows ==
  ASSUME NEW reqs \in Seq(Request), NEW x \in DOMAIN reqs, NEW st \in RequestStatus,
         NEW new, StatusSet(reqs, x, st, new)
  PROVE  /\ new \in Seq(Request) /\ Len(new) = Len(reqs) /\ DOMAIN new = DOMAIN reqs
         /\ \A y \in DOMAIN reqs :
               /\ new[y].runtime = reqs[y].runtime
               /\ new[y].status = IF y = x THEN st ELSE reqs[y].status
  <1>1. \A y \in DOMAIN reqs :
           new[y] = IF y = x THEN [reqs[x] EXCEPT !.status = st] ELSE reqs[y]
    BY DEF StatusSet
  <1>2. \A y \in DOMAIN reqs :
           /\ new[y] \in Request /\ new[y].runtime = reqs[y].runtime
           /\ new[y].status = IF y = x THEN st ELSE reqs[y].status
    <2>1. reqs[x] \in Request
      BY RowTyped
    <2>2. PICK q : q = [reqs[x] EXCEPT !.status = st]
      OBVIOUS
    <2>3. q \in Request /\ q.runtime = reqs[x].runtime /\ q.status = st
      BY <2>1, <2>2, StatusWritten
    <2>4. \A y \in DOMAIN reqs : new[y] = IF y = x THEN q ELSE reqs[y]
      BY <1>1, <2>2
    <2> QED BY <2>3, <2>4, RowTyped
  <1>3. new = [y \in DOMAIN reqs |-> new[y]]
    BY DEF StatusSet
  <1> QED BY <1>2, <1>3, SeqOfRequests

LEMMA AgedRows ==
  ASSUME NEW reqs \in Seq(Request), NEW x \in DOMAIN reqs, reqs[x].age < 2,
         NEW new, GrownOlder(reqs, x, new)
  PROVE  /\ new \in Seq(Request) /\ Len(new) = Len(reqs) /\ DOMAIN new = DOMAIN reqs
         /\ \A y \in DOMAIN reqs :
               new[y].runtime = reqs[y].runtime /\ new[y].status = reqs[y].status
  <1>1. \A y \in DOMAIN reqs :
           new[y] = IF y = x THEN [reqs[x] EXCEPT !.age = @ + 1] ELSE reqs[y]
    BY DEF GrownOlder
  <1>2. \A y \in DOMAIN reqs :
           new[y] \in Request /\ new[y].runtime = reqs[y].runtime /\ new[y].status = reqs[y].status
    <2>1. reqs[x] \in Request
      BY RowTyped
    <2>2. PICK q : q = [reqs[x] EXCEPT !.age = @ + 1]
      OBVIOUS
    <2>3. q \in Request /\ q.runtime = reqs[x].runtime /\ q.status = reqs[x].status
      BY <2>1, <2>2, AgeWritten
    <2>4. \A y \in DOMAIN reqs : new[y] = IF y = x THEN q ELSE reqs[y]
      BY <1>1, <2>2
    <2> QED BY <2>3, <2>4, RowTyped
  <1>3. new = [y \in DOMAIN reqs |-> new[y]]
    BY DEF GrownOlder
  <1> QED BY <1>2, <1>3, SeqOfRequests

LEMMA CreatedRows ==
  ASSUME NEW reqs \in Seq(Request), NEW r \in OwnRuntime
  PROVE  LET new == Append(Cleaned(reqs), NewRequest(r)) IN
         /\ new \in Seq(Request) /\ Len(new) = Len(reqs) + 1
         /\ DOMAIN new = DOMAIN reqs \union {Len(reqs) + 1}
         /\ Len(reqs) + 1 \notin DOMAIN reqs
         /\ new[Len(reqs) + 1] = NewRequest(r)
         /\ \A x \in DOMAIN reqs : new[x] = Cleaned(reqs)[x]
  <1>1. NewRequest(r) \in Request
    BY DEF NewRequest, Request, RequestStatus, Waiting
  <1> QED BY <1>1, CleanedRows

-----------------------------------------------------------------------------
(* The invariant: pings *)

\* What a request's end or handling may do to a ping: it keeps its place and
\* its runtime, does not become pending again, and what is being handled is
\* still running or deleted.
PingsMove ==
    /\ pings' \in Seq(Request) /\ Len(pings') = Len(pings) /\ PingIds' = PingIds
    /\ \A x \in PingIds : pings'[x].status = "pending" => pings[x].status = "pending"

LEMMA PingFrame ==
  ASSUME PingInv, PingsMove, pinging' \subseteq pinging, sent' = sent,
         \A x \in pinging' : pings'[x].status \in {pings[x].status, "gone"}
  PROVE  PingInv'
  BY DEF PingInv, PingsMove

LEMMA PingCreated ==
  ASSUME PingInv, NEW r \in OwnRuntime, CreatePing(r)
  PROVE  PingInv' /\ \A x \in PingIds : pings'[x].status \in {pings[x].status, "gone"}
  <1>1. /\ pings' = Append(Cleaned(pings), NewRequest(r)) /\ Len(pings) < MaxPings
        /\ pinging' = pinging /\ sent' = sent /\ pings \in Seq(Request)
    BY DEF CreatePing, PingInv
  <1>2. /\ pings' \in Seq(Request) /\ Len(pings') = Len(pings) + 1 /\ PingIds \subseteq PingIds'
        /\ \A x \in PingIds : pings'[x].status \in {pings[x].status, "gone"}
    <2>1. /\ pings' \in Seq(Request) /\ Len(pings') = Len(pings) + 1
          /\ DOMAIN pings' = DOMAIN pings \union {Len(pings) + 1}
          /\ \A x \in DOMAIN pings : pings'[x] = Cleaned(pings)[x]
      BY <1>1, CreatedRows
    <2>2. \A x \in DOMAIN pings : Cleaned(pings)[x].status \in {pings[x].status, "gone"}
      BY <1>1, CleanedRows
    <2> QED BY <2>1, <2>2 DEF PingIds
  <1>3. Len(pings') <= MaxPings
    BY <1>1, <1>2, RequestConstants
  <1> QED BY <1>1, <1>2, <1>3 DEF PingInv

LEMMA PingTimedOut ==
  ASSUME PingInv, NEW p \in PingIds, GetPing(p)
  PROVE  PingInv' /\ \A x \in PingIds \ {p} : pings'[x].status = pings[x].status
  <1>1. "timeout" \in RequestStatus
    BY DEF RequestStatus, Ending
  <1>2. /\ PingsMove
        /\ \A x \in PingIds : pings'[x].status = IF x = p THEN "timeout" ELSE pings[x].status
    <2>1. pings \in Seq(Request) /\ p \in DOMAIN pings /\ StatusSet(pings, p, "timeout", pings')
      BY DEF PingInv, GetPing, PingIds, StatusSet
    <2>2. /\ pings' \in Seq(Request) /\ Len(pings') = Len(pings) /\ DOMAIN pings' = DOMAIN pings
          /\ \A x \in DOMAIN pings : pings'[x].status = IF x = p THEN "timeout" ELSE pings[x].status
      BY <1>1, <2>1, WrittenRows
    <2> QED BY <2>2 DEF PingsMove, PingIds
  <1>3. pings[p].status = "pending" /\ p \notin pinging
    BY DEF GetPing, PingTimesOut, PingInv
  <1> QED BY <1>2, <1>3, PingFrame DEF GetPing, PingInv

LEMMA PingReported ==
  ASSUME PingInv, NEW p \in PingIds, PingDone(p)
  PROVE  PingInv' /\ \A x \in PingIds \ {p} : pings'[x].status = pings[x].status
  <1>1. CASE UNCHANGED pings
    <2>1. PingsMove
      BY <1>1 DEF PingInv, PingsMove, PingIds
    <2> QED BY <1>1, <2>1, PingFrame DEF PingDone
  <1>2. CASE \E st \in {"completed", "failed"} : ReportPing(p, st)
    <2>1. PICK st \in {"completed", "failed"} : ReportPing(p, st)
      BY <1>2
    <2>2. st \in RequestStatus
      BY DEF RequestStatus, Ending
    <2>3. CASE pings[p].status = "gone"
      BY <1>1, <2>1, <2>3 DEF ReportPing
    <2>4. CASE pings[p].status # "gone"
      <3>1. /\ PingsMove
            /\ \A x \in PingIds : pings'[x].status = IF x = p THEN st ELSE pings[x].status
        <4>1. pings \in Seq(Request) /\ p \in DOMAIN pings /\ StatusSet(pings, p, st, pings')
          BY <2>1, <2>4 DEF PingInv, ReportPing, PingIds, StatusSet
        <4>2. /\ pings' \in Seq(Request) /\ Len(pings') = Len(pings) /\ DOMAIN pings' = DOMAIN pings
              /\ \A x \in DOMAIN pings : pings'[x].status = IF x = p THEN st ELSE pings[x].status
          BY <2>2, <4>1, WrittenRows
        <4> QED BY <4>2 DEF PingsMove, PingIds
      <3> QED BY <3>1, PingFrame DEF PingDone, PingInv
    <2> QED BY <2>3, <2>4
  <1> QED BY <1>1, <1>2 DEF PingDone

LEMMA PingAged ==
  ASSUME PingInv, NEW p \in PingIds, PingAges(p)
  PROVE  PingInv' /\ \A x \in PingIds : pings'[x].status = pings[x].status
  <1>1. /\ PingsMove /\ \A x \in PingIds : pings'[x].status = pings[x].status
    <2>1. /\ pings \in Seq(Request) /\ p \in DOMAIN pings /\ pings[p].age < 2
          /\ GrownOlder(pings, p, pings')
      BY DEF PingInv, PingAges, PingIds, GrownOlder
    <2>2. /\ pings' \in Seq(Request) /\ Len(pings') = Len(pings) /\ DOMAIN pings' = DOMAIN pings
          /\ \A x \in DOMAIN pings : pings'[x].status = pings[x].status
      BY <2>1, AgedRows
    <2> QED BY <2>2 DEF PingsMove, PingIds
  <1> QED BY <1>1, PingFrame DEF PingAges

\* Heartbeat hands out pending pings only.
LEMMA PingsHandedOut ==
  ASSUME PingInv, NEW P \in SUBSET PingIds, \A x \in P : pings[x].status = "pending",
         pings' = Popped(pings, P),
         \/ pinging' = pinging \union P /\ sent'.ping = sent.ping \union P
         \/ pinging' = pinging /\ sent'.ping = sent.ping
  PROVE  /\ PingInv'
         /\ \A x \in PingIds : pings[x].status \in Ending => pings'[x].status = pings[x].status
  <1>1. /\ pings' \in Seq(Request) /\ Len(pings') = Len(pings) /\ PingIds' = PingIds
        /\ \A x \in PingIds : pings'[x].status = IF x \in P THEN "running" ELSE pings[x].status
    BY PoppedRows DEF PingInv, PingIds
  <1>2. \A x \in PingIds : pings[x].status \in Ending => x \notin P
    BY DEF Ending
  <1> QED BY <1>1, <1>2 DEF PingInv

-----------------------------------------------------------------------------
(* The invariant: updates *)

UpdatesMove ==
    /\ updates' \in Seq(Request) /\ Len(updates') = Len(updates) /\ UpdateIds' = UpdateIds
    /\ \A x \in UpdateIds :
          /\ updates'[x].runtime = updates[x].runtime
          /\ updates'[x].status = "pending" => updates[x].status = "pending"
          /\ updates'[x].status \in Waiting => updates[x].status \in Waiting

LEMMA UpdateFrame ==
  ASSUME UpdateInv, UpdatesMove, install' \subseteq install, sent' = sent,
         \A x \in install' : updates'[x].status \in {updates[x].status, "timeout", "gone"}
  PROVE  UpdateInv'
  <1>1. OneUpdatePerRuntime'
    BY DEF UpdateInv, UpdatesMove, OneUpdatePerRuntime
  <1> QED BY <1>1 DEF UpdateInv, UpdatesMove

\* A status that no longer waits is written.
LEMMA UpdateWritten ==
  ASSUME UpdateInv, NEW u \in UpdateIds, NEW st \in RequestStatus \ Waiting,
         updates' = [updates EXCEPT ![u].status = st]
  PROVE  /\ UpdatesMove
         /\ \A x \in UpdateIds : updates'[x].status = IF x = u THEN st ELSE updates[x].status
  <1>1. /\ updates \in Seq(Request) /\ u \in DOMAIN updates /\ st \in RequestStatus
        /\ StatusSet(updates, u, st, updates')
    BY DEF UpdateInv, UpdateIds, StatusSet
  <1>2. /\ updates' \in Seq(Request) /\ Len(updates') = Len(updates) /\ DOMAIN updates' = DOMAIN updates
        /\ \A x \in DOMAIN updates :
              /\ updates'[x].runtime = updates[x].runtime
              /\ updates'[x].status = IF x = u THEN st ELSE updates[x].status
    BY <1>1, WrittenRows
  <1> QED BY <1>2 DEF UpdatesMove, UpdateIds, Waiting

\* UpdateStore.Create: after the clean-up nothing that waits is left of the
\* runtime, or none is made.
LEMMA UpdateCreated ==
  ASSUME UpdateInv, NEW r \in OwnRuntime, CreateUpdate(r)
  PROVE  UpdateInv' /\ \A x \in UpdateIds : updates'[x].status \in {updates[x].status, "gone"}
  <1>1. updates \in Seq(Request) /\ install' = install /\ sent' = sent /\ Len(updates) < MaxUpdates
    BY DEF UpdateInv, CreateUpdate
  <1>2. /\ Cleaned(updates) \in Seq(Request) /\ Len(Cleaned(updates)) = Len(updates)
        /\ DOMAIN Cleaned(updates) = UpdateIds
        /\ \A x \in UpdateIds :
              /\ Cleaned(updates)[x].runtime = updates[x].runtime
              /\ Cleaned(updates)[x].status = IF updates[x].age = 2 THEN "gone" ELSE updates[x].status
    BY <1>1, CleanedRows DEF UpdateIds
  <1>3. CASE UpdateInProgress(r)
    <2>1. updates' = Cleaned(updates)
      BY <1>3 DEF CreateUpdate
    <2>2. UpdatesMove
      BY <1>2, <2>1 DEF UpdatesMove, UpdateIds, Waiting
    <2> QED BY <1>1, <1>2, <2>1, <2>2, UpdateFrame DEF UpdateInv
  <1>4. CASE ~UpdateInProgress(r)
    <2> DEFINE n == Len(updates) + 1
    <2>1. updates' = Append(Cleaned(updates), NewRequest(r))
      BY <1>4 DEF CreateUpdate
    <2>2. /\ updates' \in Seq(Request) /\ Len(updates') = n
          /\ UpdateIds' = UpdateIds \union {n} /\ n \notin UpdateIds
          /\ updates'[n] = NewRequest(r)
          /\ \A x \in UpdateIds : updates'[x] = Cleaned(updates)[x]
      BY <1>1, <2>1, CreatedRows DEF UpdateIds
    <2>3. n <= MaxUpdates
      BY <1>1, RequestConstants
    <2>4. \A x \in UpdateIds : updates[x].runtime = r => updates'[x].status \notin Waiting
      <3> SUFFICES ASSUME NEW x \in UpdateIds, updates[x].runtime = r
                   PROVE  Cleaned(updates)[x].status \notin Waiting
        BY <2>2
      <3>1. updates[x].age \in 0..2
        BY <1>1, RowTyped DEF Request, UpdateIds
      <3>2. updates[x].age = 2 \/ updates[x].status \notin Waiting
        BY <1>4, <3>1 DEF UpdateInProgress
      <3> QED BY <1>2, <3>2 DEF Waiting
    <2>5. OneUpdatePerRuntime'
      <3>1. \A x \in UpdateIds : /\ updates'[x].runtime = updates[x].runtime
                                 /\ updates'[x].status \in Waiting => updates[x].status \in Waiting
        BY <1>2, <2>2 DEF Waiting
      <3>2. updates'[n].runtime = r
        BY <2>2 DEF NewRequest
      <3> QED BY <2>2, <2>4, <3>1, <3>2 DEF UpdateInv, OneUpdatePerRuntime
    <2>6. \A x \in UpdateIds : updates'[x].status \in {updates[x].status, "gone"}
      BY <1>2, <2>2
    <2> QED BY <1>1, <2>2, <2>3, <2>5, <2>6 DEF UpdateInv
  <1> QED BY <1>3, <1>4

LEMMA UpdateTimedOut ==
  ASSUME UpdateInv, NEW u \in UpdateIds, GetUpdate(u)
  PROVE  UpdateInv' /\ \A x \in UpdateIds \ {u} : updates'[x].status = updates[x].status
  <1>1. "timeout" \in RequestStatus \ Waiting
    BY DEF RequestStatus, Ending, Waiting
  <1>2. updates' = [updates EXCEPT ![u].status = "timeout"]
    BY DEF GetUpdate
  <1>3. /\ UpdatesMove
        /\ \A x \in UpdateIds : updates'[x].status = IF x = u THEN "timeout" ELSE updates[x].status
    BY <1>1, <1>2, UpdateWritten
  <1> QED BY <1>3, UpdateFrame DEF GetUpdate, UpdateInv

LEMMA UpdateAged ==
  ASSUME UpdateInv, NEW u \in UpdateIds, UpdateAges(u)
  PROVE  UpdateInv' /\ \A x \in UpdateIds : updates'[x].status = updates[x].status
  <1>1. updates \in Seq(Request) /\ u \in DOMAIN updates /\ updates[u].age < 2
    BY DEF UpdateInv, UpdateAges, UpdateIds
  <1>2. GrownOlder(updates, u, updates')
    BY DEF UpdateAges, GrownOlder
  <1>3. /\ updates' \in Seq(Request) /\ Len(updates') = Len(updates) /\ DOMAIN updates' = DOMAIN updates
        /\ \A x \in DOMAIN updates :
              updates'[x].runtime = updates[x].runtime /\ updates'[x].status = updates[x].status
    BY <1>1, <1>2, AgedRows
  <1>4. UpdatesMove
    BY <1>3 DEF UpdatesMove, UpdateIds
  <1> QED BY <1>3, <1>4, UpdateFrame DEF UpdateAges, UpdateIds

\* The daemon reports u, and is done with it and perhaps with all others.
LEMMA UpdateReported ==
  ASSUME UpdateInv, NEW u \in UpdateIds, NEW st \in {"completed", "failed"},
         ReportUpdate(u, st) \/ updates' = updates,
         install' \subseteq install \ {u}, sent' = sent
  PROVE  UpdateInv' /\ \A x \in UpdateIds \ {u} : updates'[x].status = updates[x].status
  <1>1. CASE updates' = updates
    <2>1. UpdatesMove
      BY <1>1 DEF UpdateInv, UpdatesMove, UpdateIds
    <2> QED BY <1>1, <2>1, UpdateFrame
  <1>2. CASE updates' # updates
    <2>1. updates' = [updates EXCEPT ![u].status = st]
      BY <1>2 DEF ReportUpdate
    <2>2. st \in RequestStatus \ Waiting
      BY DEF RequestStatus, Ending, Waiting
    <2>3. /\ UpdatesMove
          /\ \A x \in UpdateIds : updates'[x].status = IF x = u THEN st ELSE updates[x].status
      BY <2>1, <2>2, UpdateWritten
    <2> QED BY <2>3, UpdateFrame DEF UpdateInv
  <1> QED BY <1>1, <1>2

\* Heartbeat hands out a pending update; handleUpdate takes it or drops it.
LEMMA UpdatesHandedOut ==
  ASSUME UpdateInv, NEW U \in SUBSET UpdateIds, \A x \in U : updates[x].status = "pending",
         updates' = Popped(updates, U),
         \/ install' \subseteq install \union U /\ sent'.update = sent.update \union U
         \/ install' = install /\ sent'.update = sent.update
  PROVE  /\ UpdateInv'
         /\ \A x \in UpdateIds : updates[x].status \in Ending => updates'[x].status = updates[x].status
  <1>1. /\ updates' \in Seq(Request) /\ Len(updates') = Len(updates) /\ UpdateIds' = UpdateIds
        /\ \A x \in UpdateIds :
              /\ updates'[x].runtime = updates[x].runtime
              /\ updates'[x].status = IF x \in U THEN "running" ELSE updates[x].status
    BY PoppedRows DEF UpdateInv, UpdateIds
  <1>2. \A x \in UpdateIds : updates'[x].status \in Waiting => updates[x].status \in Waiting
    BY <1>1 DEF Waiting
  <1>3. OneUpdatePerRuntime'
    BY <1>1, <1>2 DEF UpdateInv, OneUpdatePerRuntime
  <1>4. \A x \in UpdateIds : updates[x].status \in Ending => x \notin U
    BY DEF Ending
  <1>5. \A x \in install' : updates'[x].status \in {"running", "timeout", "gone"}
    BY <1>1 DEF UpdateInv
  <1> QED BY <1>1, <1>3, <1>4, <1>5 DEF UpdateInv

-----------------------------------------------------------------------------
(* Every step *)

PingVerdict == \A x \in PingIds : pings[x].status \in Ending
    => pings'[x].status \in {pings[x].status, "gone"}
UpdateVerdict == \A x \in UpdateIds : updates[x].status \in {"completed", "failed"}
    => updates'[x].status \in {updates[x].status, "gone"}

LEMMA PingsKept ==
  ASSUME PingInv, pings' = pings, pinging' \subseteq pinging, sent'.ping = sent.ping
  PROVE  PingInv' /\ PingVerdict
  BY DEF PingInv, PingVerdict, PingIds

LEMMA UpdatesKept ==
  ASSUME UpdateInv, updates' = updates, install' \subseteq install, sent'.update = sent.update
  PROVE  UpdateInv' /\ UpdateVerdict
  <1>1. OneUpdatePerRuntime'
    BY DEF UpdateInv, OneUpdatePerRuntime, UpdateIds
  <1> QED BY <1>1 DEF UpdateInv, UpdateVerdict, UpdateIds

\* An installation that ends gives the lock back; there was no other.
LEMMA InstallEnds ==
  ASSUME InstallInv, NEW u \in install, updating' = FALSE,
         install' = install \ {u} \/ install' = {}
  PROVE  InstallInv' /\ install' = {}
  BY DEF InstallInv

LEMMA GoneRows ==
  ASSUME NEW reqs \in Seq(Request)
  PROVE  LET new == [x \in DOMAIN reqs |-> [reqs[x] EXCEPT !.status = "gone"]] IN
         /\ new \in Seq(Request) /\ Len(new) = Len(reqs) /\ DOMAIN new = DOMAIN reqs
         /\ \A x \in DOMAIN reqs : new[x].runtime = reqs[x].runtime /\ new[x].status = "gone"
  <1> DEFINE new == [x \in DOMAIN reqs |-> [reqs[x] EXCEPT !.status = "gone"]]
  <1>1. "gone" \in RequestStatus
    BY DEF RequestStatus
  <1>2. \A x \in DOMAIN reqs :
           new[x] \in Request /\ new[x].runtime = reqs[x].runtime /\ new[x].status = "gone"
    BY <1>1, RowTyped, StatusWritten
  <1>3. new = [x \in DOMAIN reqs |-> new[x]]
    OBVIOUS
  <1> HIDE DEF new
  <1>4. new \in Seq(Request) /\ Len(new) = Len(reqs) /\ DOMAIN new = DOMAIN reqs
    BY <1>2, <1>3, SeqOfRequests
  <1> QED BY <1>2, <1>4 DEF new

LEMMA HeartbeatStep ==
  ASSUME RequestInv, NEW r \in OwnRuntime, Heartbeat(r)
  PROVE  RequestInv' /\ PingVerdict /\ UpdateVerdict
  <1> USE DEF RequestInv
  <1>1. PICK P \in {Oldest(PendingPings(r))},
             U \in IF PendingUpdates(r) = {} THEN {{}} ELSE {{x} : x \in PendingUpdates(r)} :
          /\ pings' = Popped(pings, P)
          /\ updates' = Popped(updates, U)
          /\ \/ /\ pinging' = pinging \union P
                /\ install' = Installs(U)
                /\ updating' = (updating \/ U # {})
                /\ sent' = [ping |-> sent.ping \union P, update |-> sent.update \union U]
             \/ UNCHANGED <<pinging, install, updating, sent>>
    BY DEF Heartbeat
  <1>2. P \in SUBSET PingIds /\ \A x \in P : pings[x].status = "pending"
    BY DEF Oldest, PendingPings
  <1>3. U \in SUBSET UpdateIds /\ \A x \in U : updates[x].status = "pending"
    BY DEF PendingUpdates
  <1>4. \A x, y \in U : x = y
    OBVIOUS
  <1>5. PingInv' /\ PingVerdict
    BY <1>1, <1>2, PingsHandedOut DEF PingVerdict
  <1>6. UpdateInv' /\ UpdateVerdict
    <2>1. install' \subseteq install \union U \/ install' = install
      BY <1>1 DEF Installs
    <2>2. {"completed", "failed"} \subseteq Ending
      BY DEF Ending
    <2>3. UpdateInv' /\ \A x \in UpdateIds :
             updates[x].status \in Ending => updates'[x].status = updates[x].status
      BY <1>1, <1>3, <2>1, UpdatesHandedOut
    <2> QED BY <2>2, <2>3 DEF UpdateVerdict
  <1>7. InstallInv'
    <2>1. CASE UNCHANGED <<install, updating>>
      BY <2>1 DEF InstallInv
    <2>2. CASE install' = Installs(U) /\ updating' = (updating \/ U # {})
      <3>1. CASE updating
        BY <2>2, <3>1 DEF InstallInv, Installs
      <3>2. CASE ~updating
        <4>1. install' = U /\ (updating' <=> U # {}) /\ updating' \in BOOLEAN
          BY <2>2, <3>2 DEF InstallInv, Installs
        <4> QED BY <1>4, <4>1 DEF InstallInv
      <3> QED BY <3>1, <3>2
    <2> QED BY <1>1, <2>1, <2>2
  <1>8. SentInv'
    BY <1>1 DEF SentInv
  <1> QED BY <1>5, <1>6, <1>7, <1>8

LEMMA ServerRestartStep ==
  ASSUME RequestInv, ServerRestarts
  PROVE  RequestInv' /\ PingVerdict /\ UpdateVerdict
  <1> USE DEF RequestInv
  <1>1. UNCHANGED <<pinging, install, updating, sent>>
    BY DEF ServerRestarts
  <1>2. /\ pings' \in Seq(Request) /\ Len(pings') = Len(pings) /\ PingIds' = PingIds
        /\ \A x \in PingIds : pings'[x].status = "gone"
    BY GoneRows DEF ServerRestarts, PingInv, PingIds
  <1>3. /\ updates' \in Seq(Request) /\ Len(updates') = Len(updates) /\ UpdateIds' = UpdateIds
        /\ \A x \in UpdateIds : updates'[x].runtime = updates[x].runtime /\ updates'[x].status = "gone"
    BY GoneRows DEF ServerRestarts, UpdateInv, UpdateIds
  <1>4. PingInv' /\ PingVerdict
    BY <1>1, <1>2 DEF PingInv, PingVerdict
  <1>5. UpdateInv' /\ UpdateVerdict
    <2>1. UpdatesMove
      BY <1>3 DEF UpdatesMove, Waiting
    <2> QED BY <1>1, <1>3, <2>1, UpdateFrame DEF UpdateVerdict, UpdateInv
  <1>6. InstallInv' /\ SentInv'
    BY <1>1 DEF InstallInv, SentInv
  <1> QED BY <1>4, <1>5, <1>6

LEMMA RequestStep ==
  ASSUME RequestInv, [RequestNext]_requestVars
  PROVE  RequestInv' /\ PingVerdict /\ UpdateVerdict
  <1> USE DEF RequestInv
  <1>1. ASSUME NEW r \in OwnRuntime, CreatePing(r)
        PROVE  RequestInv' /\ PingVerdict /\ UpdateVerdict
    <2>1. PingInv' /\ PingVerdict
      BY <1>1, PingCreated DEF PingVerdict
    <2>2. UpdateInv' /\ UpdateVerdict
      BY <1>1, UpdatesKept DEF CreatePing, updateVars
    <2>3. InstallInv' /\ SentInv'
      BY <1>1 DEF CreatePing, updateVars, InstallInv, SentInv
    <2> QED BY <2>1, <2>2, <2>3
  <1>2. ASSUME NEW r \in OwnRuntime, CreateUpdate(r)
        PROVE  RequestInv' /\ PingVerdict /\ UpdateVerdict
    <2>1. PingInv' /\ PingVerdict
      BY <1>2, PingsKept DEF CreateUpdate, pingVars
    <2>2. UpdateInv' /\ UpdateVerdict
      BY <1>2, UpdateCreated DEF UpdateVerdict
    <2>3. InstallInv' /\ SentInv'
      BY <1>2 DEF CreateUpdate, InstallInv, SentInv
    <2> QED BY <2>1, <2>2, <2>3
  <1>3. ASSUME NEW x \in PingIds, GetPing(x) \/ PingDone(x) \/ PingAges(x)
        PROVE  RequestInv' /\ PingVerdict /\ UpdateVerdict
    <2>1. PingInv'
      BY <1>3, PingTimedOut, PingReported, PingAged
    <2>2. \A y \in PingIds : y # x \/ PingAges(x) => pings'[y].status = pings[y].status
      BY <1>3, PingTimedOut, PingReported, PingAged
    <2>3. PingVerdict
      <3>1. CASE PingAges(x)
        BY <2>2, <3>1 DEF PingVerdict
      <3>2. CASE GetPing(x)
        <4>1. pings[x].status \notin Ending
          BY <3>2 DEF GetPing, PingTimesOut, Ending
        <4> QED BY <2>2, <4>1 DEF PingVerdict
      <3>3. CASE PingDone(x)
        <4>1. pings[x].status \notin Ending
          BY <3>3 DEF PingDone, PingInv, Ending
        <4> QED BY <2>2, <4>1 DEF PingVerdict
      <3> QED BY <1>3, <3>1, <3>2, <3>3
    <2>4. UpdateInv' /\ UpdateVerdict
      BY <1>3, UpdatesKept DEF GetPing, PingDone, PingAges, updateVars
    <2>5. InstallInv' /\ SentInv'
      BY <1>3 DEF GetPing, PingDone, PingAges, updateVars, InstallInv, SentInv
    <2> QED BY <2>1, <2>3, <2>4, <2>5
  <1>4. ASSUME NEW x \in UpdateIds, GetUpdate(x) \/ UpdateAges(x)
        PROVE  RequestInv' /\ PingVerdict /\ UpdateVerdict
    <2>1. UpdateInv'
      BY <1>4, UpdateTimedOut, UpdateAged
    <2>2. \A y \in UpdateIds : y # x \/ UpdateAges(x) => updates'[y].status = updates[y].status
      BY <1>4, UpdateTimedOut, UpdateAged
    <2>3. UpdateVerdict
      <3>1. GetUpdate(x) => updates[x].status \notin {"completed", "failed"}
        BY DEF GetUpdate, UpdateTimesOut, Waiting
      <3> QED BY <1>4, <2>2, <3>1 DEF UpdateVerdict
    <2>4. PingInv' /\ PingVerdict
      BY <1>4, PingsKept DEF GetUpdate, UpdateAges, pingVars
    <2>5. InstallInv' /\ SentInv'
      BY <1>4 DEF GetUpdate, UpdateAges, InstallInv, SentInv
    <2> QED BY <2>1, <2>3, <2>4, <2>5
  <1>5. ASSUME NEW x \in UpdateIds, UpdateFails(x) \/ UpdateSucceeds(x)
        PROVE  RequestInv' /\ PingVerdict /\ UpdateVerdict
    <2>1. /\ x \in install /\ updating' = FALSE /\ sent' = sent
          /\ install' = install \ {x} \/ install' = {}
          /\ pings' = pings /\ pinging' \subseteq pinging
      BY <1>5 DEF UpdateFails, UpdateSucceeds, pingVars
    <2>2. PICK st \in {"completed", "failed"} : ReportUpdate(x, st) \/ updates' = updates
      BY <1>5 DEF UpdateFails, UpdateSucceeds
    <2>3. UpdateInv' /\ \A y \in UpdateIds \ {x} : updates'[y].status = updates[y].status
      <3>1. install' \subseteq install \ {x}
        BY <2>1
      <3> QED BY <2>1, <2>2, <3>1, UpdateReported
    <2>4. updates[x].status \notin {"completed", "failed"}
      BY <2>1 DEF UpdateInv
    <2>5. UpdateVerdict
      BY <2>3, <2>4 DEF UpdateVerdict
    <2>6. PingInv' /\ PingVerdict
      BY <2>1, PingsKept
    <2>7. InstallInv' /\ SentInv'
      BY <2>1, InstallEnds DEF SentInv
    <2> QED BY <2>3, <2>5, <2>6, <2>7
  <1>6. CASE DaemonRestarts
    <2>1. /\ install' = {} /\ updating' = FALSE /\ pinging' = {}
          /\ UNCHANGED <<pings, updates, sent>>
      BY <1>6 DEF DaemonRestarts
    <2>2. InstallInv' /\ SentInv'
      BY <2>1 DEF InstallInv, SentInv
    <2> QED BY <2>1, <2>2, PingsKept, UpdatesKept
  <1>7. CASE UNCHANGED requestVars
    <2>1. UNCHANGED <<pings, pinging, updates, install, updating, sent>>
      BY <1>7 DEF requestVars, pingVars, updateVars
    <2>2. InstallInv' /\ SentInv'
      BY <2>1 DEF InstallInv, SentInv
    <2> QED BY <2>1, <2>2, PingsKept, UpdatesKept
  <1> QED BY <1>1, <1>2, <1>3, <1>4, <1>5, <1>6, <1>7, HeartbeatStep, ServerRestartStep
          DEF RequestNext

-----------------------------------------------------------------------------
(* Theorems *)

\* The inductive invariant: what was handed out is not pending again, an update
\* is made only when none waits, and updating is held by the one installation.
THEOREM RequestInvariant == RequestSpec => []RequestInv
  <1>1. RequestInit => RequestInv
    <2> SUFFICES ASSUME RequestInit PROVE RequestInv
      OBVIOUS
    <2> USE DEF RequestInit
    <2>1. PingInv
      BY RequestConstants DEF PingInv, PingIds
    <2>2. UpdateInv
      BY RequestConstants DEF UpdateInv, UpdateIds, OneUpdatePerRuntime
    <2>3. InstallInv /\ SentInv
      BY DEF InstallInv, SentInv
    <2> QED BY <2>1, <2>2, <2>3 DEF RequestInv
  <1>2. RequestInv /\ [RequestNext]_requestVars => RequestInv'
    BY RequestStep
  <1> QED BY <1>1, <1>2, PTL DEF RequestSpec

\* The stores and what the daemon has of them are well typed.
THEOREM RequestsTyped == RequestSpec => []RequestTypeOK
  <1>1. RequestInv => RequestTypeOK
    BY DEF RequestInv, PingInv, UpdateInv, InstallInv, SentInv, RequestTypeOK
  <1> QED BY <1>1, RequestInvariant, PTL

\* PopPending: no heartbeat hands out a ping or an update for the second time,
\* whatever was lost, restarted or timed out since.
THEOREM RequestsHandedOutOnce == RequestSpec => []HandedOutOnce
  <1>1. RequestInv => HandedOutOnce
    BY DEF RequestInv, PingInv, UpdateInv, HandedOutOnce
  <1> QED BY <1>1, RequestInvariant, PTL

\* UpdateStore.Create and handleUpdate: one update of a runtime is waited for,
\* and one is installed on the machine.
THEOREM RequestsOneByOne == RequestSpec => []UpdatesOneByOne
  <1>1. RequestInv => UpdatesOneByOne
    <2> SUFFICES ASSUME RequestInv PROVE UpdatesOneByOne
      OBVIOUS
    <2>1. install = {} \/ \E x : install = {x}
      BY DEF RequestInv, InstallInv
    <2>2. Cardinality(install) <= 1
      <3>1. Cardinality({}) = 0 /\ \A x : Cardinality({x}) = 1
        BY FS_EmptySet, FS_Singleton
      <3>2. Cardinality(install) = 0 \/ Cardinality(install) = 1
        BY <2>1, <3>1
      <3> QED BY <3>2
    <2> QED BY <2>2 DEF RequestInv, InstallInv, UpdateInv, UpdatesOneByOne, InstallsOneAtATime
  <1> QED BY <1>1, RequestInvariant, PTL

\* Complete, Fail, Get and ReportUpdate: an end that a client may have seen is
\* never overwritten, though reports come late and twice.
THEOREM RequestsVerdictsStand == RequestSpec => VerdictStands
  <1>1. RequestInv /\ [RequestNext]_requestVars => [PingVerdict /\ UpdateVerdict]_requestVars
    BY RequestStep
  <1>2. [PingVerdict /\ UpdateVerdict]_requestVars
          => [/\ \A x \in PingIds : pings[x].status \in Ending
                    => pings'[x].status \in {pings[x].status, "gone"}
              /\ \A x \in UpdateIds : updates[x].status \in {"completed", "failed"}
                    => updates'[x].status \in {updates[x].status, "gone"}]_requestVars
    BY DEF PingVerdict, UpdateVerdict
  <1> QED BY <1>1, <1>2, RequestInvariant, PTL DEF RequestSpec, VerdictStands

-----------------------------------------------------------------------------
(* The machine: tasks and requests, one of which moves. *)

\* What moves keeps what is proved of it alone, what does not move stays.
LEMMA MachineIsBoth == MachineSpec => DaemonSpec /\ RequestSpec
  <1>1. MachineInit => DaemonInit /\ RequestInit
    BY DEF MachineInit
  <1>2. [MachineNext]_machineVars => [DaemonNext]_daemonVars /\ [RequestNext]_requestVars
    BY DEF MachineNext, MovesTasks, MovesRequests, machineVars
  <1> QED BY <1>1, <1>2, PTL DEF MachineSpec, DaemonSpec, RequestSpec

\* Type correctness of the daemon with its tasks and of the stores of requests.
THEOREM MachineTyped == MachineSpec => []MachineTypeOK
  <1>1. DaemonTypeOK /\ RequestTypeOK => MachineTypeOK
    BY DEF MachineTypeOK
  <1> QED BY <1>1, MachineIsBoth, DaemonTyped, RequestsTyped, PTL
=============================================================================

---------------------------- MODULE DaemonTasks ----------------------------
(***************************************************************************)
(* The daemon's side of a task: the poll loop with its slots, one handler  *)
(* goroutine per task with the watcher that looks for a cancellation, and  *)
(* the agent process it runs.  The server is the table of TaskTable; the   *)
(* calls between them can fail before they arrive, after they were carried *)
(* out, or arrive late.                                                    *)
(*                                                                         *)
(* The loop's rotation over its runtimes is left to chance.                *)
(***************************************************************************)
EXTENDS TaskTable

CONSTANTS Poller,     \* the database session that serves the daemon's claims
          MaxSlots    \* cfg.MaxConcurrentTasks

ASSUME DaemonConstants == Poller \in Session /\ MaxSlots \in Nat \ {0}

VARIABLES
    up,       \* the daemon: running, its context cancelled, or no process
    poll,     \* the poll loop: between claims, holding a slot, in a call
    sem,      \* tokens in the channel sem
    hand,     \* per task: where its handler is
    watch,    \* per task: its watcher; "told" between runCancel and close
    proc,     \* tasks whose agent process is alive
    result,   \* per task: how runTask ended
    net,      \* reports that the daemon gave up on and that still arrive
    lost      \* tasks of which a report or the claim's answer was lost

handlerVars == <<hand, watch, proc, result>>
daemonVars  == <<task, scan, up, poll, sem, handlerVars, net, lost>>

Ids == 1..MaxTasks
ReportKind == {"start", "complete", "fail"}
Outcome == {"completed", "blocked", "error"}
HandlerPC == {"none", "start", "launch", "run", "judge", "check", "complete",
              "fail", "end", "done"}

DaemonTypeOK ==
    /\ TableTypeOK
    /\ up \in {"up", "stopping", "down"}
    /\ poll \in {"idle", "slot", "claiming"}
    /\ sem \in 0..MaxSlots
    /\ hand \in [Ids -> HandlerPC]
    /\ watch \in [Ids -> {"off", "on", "told", "closed"}]
    /\ proc \subseteq Ids
    /\ result \in [Ids -> Outcome \union {"none"}]
    /\ net \subseteq ReportKind \X Ids
    /\ lost \subseteq Ids

DaemonInit ==
    /\ TableInit
    /\ up = "up" /\ poll = "idle" /\ sem = 0
    /\ hand = [t \in Ids |-> "none"]
    /\ watch = [t \in Ids |-> "off"]
    /\ proc = {}
    /\ result = [t \in Ids |-> "none"]
    /\ net = {} /\ lost = {}

-----------------------------------------------------------------------------
(* pollLoop *)

AcquireSlot ==
    /\ up = "up" /\ poll = "idle" /\ sem < MaxSlots
    /\ sem' = sem + 1 /\ poll' = "slot"
    /\ UNCHANGED <<tableVars, up, handlerVars, net, lost>>

\* The call reaches the server, which tries agent a.
AskForTask(a) ==
    /\ up = "up" /\ poll = "slot"
    /\ ClaimSnapshot(Poller, a)
    /\ poll' = "claiming"
    /\ UNCHANGED <<up, sem, handlerVars, net, lost>>

TaskReceived(t) ==
    /\ poll = "claiming"
    /\ ClaimLock(Poller, t)
    /\ poll' = "idle"
    /\ hand' = [hand EXCEPT ![t] = "start"]
    /\ UNCHANGED <<up, sem, watch, proc, result, net, lost>>

AnswerLost(t) ==
    /\ poll = "claiming"
    /\ ClaimLock(Poller, t)
    /\ poll' = "idle" /\ sem' = sem - 1
    /\ lost' = lost \union {t}
    /\ UNCHANGED <<up, handlerVars, net>>

\* Mutant of NoTask: the slot is released on two paths.
NoTaskReleasesTwice ==
    /\ poll = "claiming"
    /\ ClaimNoRows(Poller)
    /\ poll' = "idle" /\ sem' = sem - 2
    /\ UNCHANGED <<up, handlerVars, net, lost>>

NoTask ==
    /\ poll = "claiming"
    /\ ClaimNoRows(Poller)
    /\ poll' = "idle" /\ sem' = sem - 1
    /\ UNCHANGED <<up, handlerVars, net, lost>>

\* Mutant of ClaimFails: the error path keeps the slot.
ClaimFailsKeepsSlot ==
    /\ poll \in {"slot", "claiming"}
    /\ Disconnect(Poller)
    /\ poll' = "idle"
    /\ UNCHANGED <<up, sem, handlerVars, net, lost>>

ClaimFails ==
    /\ poll \in {"slot", "claiming"}
    /\ Disconnect(Poller)
    /\ poll' = "idle" /\ sem' = sem - 1
    /\ UNCHANGED <<up, handlerVars, net, lost>>

-----------------------------------------------------------------------------
(* Calls of a handler *)

\* What the server does with a report, and the statuses it takes it from.
Report(k, t) == CASE k = "start"    -> StartAgentTask(t)
                  [] k = "complete" -> CompleteAgentTask(t)
                  [] k = "fail"     -> FailAgentTask(t)

TakenFrom(k) == CASE k = "start"    -> {"dispatched"}
                  [] k = "complete" -> {"running"}
                  [] k = "fail"     -> Active

\* The call succeeds and the handler goes on at yes; it is refused (400), lost
\* or late, or the context is cancelled, and the handler goes on at no.
Call(k, t, yes, no) ==
    /\ \/ /\ up = "up" /\ Report(k, t)
          /\ hand' = [hand EXCEPT ![t] = yes]
          /\ UNCHANGED <<net, lost>>
       \/ /\ up = "up" /\ task[t].status \notin TakenFrom(k)
          /\ hand' = [hand EXCEPT ![t] = no]
          /\ UNCHANGED <<tableVars, net, lost>>
       \/ /\ hand' = [hand EXCEPT ![t] = no]
          /\ lost' = lost \union {t}
          /\ net' \in {net} \union (IF up = "up" THEN {net \union {<<k, t>>}} ELSE {})
          /\ UNCHANGED tableVars
    /\ UNCHANGED <<up, poll, sem, watch, proc, result>>

ArrivesLate(k, t) ==
    /\ <<k, t>> \in net
    /\ net' = net \ {<<k, t>>}
    /\ IF task[t].status \in TakenFrom(k) THEN Report(k, t) ELSE UNCHANGED tableVars
    /\ UNCHANGED <<up, poll, sem, handlerVars, lost>>

-----------------------------------------------------------------------------
(* handleTask and runTask *)

\* Mutant of StartTask: a start that failed is only logged.
StartRegardless(t) == hand[t] = "start" /\ Call("start", t, "launch", "launch")

StartTask(t) == hand[t] = "start" /\ Call("start", t, "launch", "fail")

\* The watcher is started, then the agent, which can fail to start.
Launch(t) ==
    /\ hand[t] = "launch"
    /\ watch' = [watch EXCEPT ![t] = "on"]
    /\ \/ /\ proc' = proc \union {t}
          /\ hand' = [hand EXCEPT ![t] = "run"]
          /\ UNCHANGED result
       \/ /\ result' = [result EXCEPT ![t] = "error"]
          /\ hand' = [hand EXCEPT ![t] = "judge"]
          /\ UNCHANGED proc
    /\ UNCHANGED <<tableVars, up, poll, sem, net, lost>>

\* The process ends by itself, on its timeout, or because runCtx was cancelled.
AgentEnds(t) ==
    /\ hand[t] = "run"
    /\ proc' = proc \ {t}
    /\ hand' = [hand EXCEPT ![t] = "judge"]
    /\ \E r \in Outcome : result' = [result EXCEPT ![t] = r]
    /\ UNCHANGED <<tableVars, up, poll, sem, watch, net, lost>>

Interrupted(t) == up # "up" \/ watch[t] \in {"told", "closed"}

Handled(t) == hand[t] \notin {"none", "end", "done"}

\* Mutant of WatchTick: it looks for the other way a task can end early.
WatchForFailed(t) ==
    /\ up = "up" /\ watch[t] = "on" /\ Handled(t)
    /\ task[t].status = "failed"
    /\ watch' = [watch EXCEPT ![t] = "told"]
    /\ UNCHANGED <<tableVars, up, poll, sem, hand, proc, result, net, lost>>

\* A status call that fails, or any other status, changes nothing.
WatchTick(t) ==
    /\ up = "up" /\ watch[t] = "on" /\ Handled(t)
    /\ task[t].status = "cancelled"
    /\ watch' = [watch EXCEPT ![t] = "told"]
    /\ UNCHANGED <<tableVars, up, poll, sem, hand, proc, result, net, lost>>

WatchClose(t) ==
    /\ watch[t] = "told"
    /\ watch' = [watch EXCEPT ![t] = "closed"]
    /\ UNCHANGED <<tableVars, up, poll, sem, hand, proc, result, net, lost>>


AfterRun(t) == CASE watch[t] = "closed"   -> "end"
                 [] watch[t] # "closed" /\ result[t] = "error" -> "fail"
                 [] OTHER                 -> "check"

Judge(t) ==
    /\ hand[t] = "judge"
    /\ hand' = [hand EXCEPT ![t] = AfterRun(t)]
    /\ UNCHANGED <<tableVars, up, poll, sem, watch, proc, result, net, lost>>

\* A status call that fails is taken for "not cancelled".
SeenCancelled(t) == up = "up" /\ task[t].status = "cancelled"

Verdict(t) == IF result[t] = "blocked" THEN "fail" ELSE "complete"

CheckStatus(t) ==
    /\ hand[t] = "check"
    /\ \/ hand' = [hand EXCEPT ![t] = Verdict(t)]
       \/ SeenCancelled(t) /\ hand' = [hand EXCEPT ![t] = "end"]
    /\ UNCHANGED <<tableVars, up, poll, sem, watch, proc, result, net, lost>>

CompleteTask(t) == hand[t] = "complete" /\ Call("complete", t, "end", "fail")
FailTask(t)     == hand[t] = "fail" /\ Call("fail", t, "end", "end")

\* The deferred calls: the watcher's context ends, the slot is given back.
Release(t) ==
    /\ hand[t] = "end"
    /\ hand' = [hand EXCEPT ![t] = "done"]
    /\ sem' = sem - 1
    /\ UNCHANGED <<tableVars, up, poll, watch, proc, result, net, lost>>

-----------------------------------------------------------------------------
(* The daemon stops, dies and comes back *)

Live == {t \in Ids : hand[t] \notin {"none", "done"}}

\* A signal, or triggerRestart after an update.
Stop == /\ up = "up"
        /\ up' = "stopping"
        /\ UNCHANGED <<tableVars, poll, sem, handlerVars, net, lost>>

\* All goroutines are gone; a process that nobody killed lives on.
Gone == /\ up' = "down" /\ poll' = "idle" /\ sem' = 0
        /\ Disconnect(Poller)
        /\ hand' = [t \in Ids |-> IF t \in Live THEN "done" ELSE hand[t]]
        /\ lost' = lost \union Live
        /\ UNCHANGED <<watch, proc, result, net>>

\* The handlers are done, or 30 s have passed.
Exit  == up = "stopping" /\ poll = "idle" /\ Gone
Crash == up # "down" /\ Gone

Restart == /\ up = "down"
           /\ up' = "up"
           /\ UNCHANGED <<tableVars, poll, sem, handlerVars, net, lost>>

OrphanEnds(t) ==
    /\ t \in proc /\ hand[t] = "done"
    /\ proc' = proc \ {t}
    /\ UNCHANGED <<tableVars, up, poll, sem, hand, watch, result, net, lost>>

-----------------------------------------------------------------------------
(* What happens on the server meanwhile *)

\* The sweeper fails tasks: an overdue one as it does one of an offline runtime,
\* so that deadlines are left to TaskService.
ServerStep ==
    /\ \/ \E a \in Agent, r \in Runtime, i \in Issue, p \in Priority :
              CreateAgentTask(a, r, i, p)
       \/ \E i \in Issue : CancelAgentTasksByIssue(i)
       \/ \E t \in Rows : CancelAgentTask(t)
       \/ \E off \in SUBSET Runtime : FailTasksForOfflineRuntimes(off)
    /\ UNCHANGED <<up, poll, sem, handlerVars, net, lost>>

Handler(t) ==
    \/ StartTask(t) \/ Launch(t) \/ Judge(t) \/ CheckStatus(t)
    \/ CompleteTask(t) \/ FailTask(t) \/ Release(t)

Poll ==
    \/ AcquireSlot \/ NoTask \/ ClaimFails
    \/ \E a \in Agent : AskForTask(a)
    \/ \E t \in Rows : TaskReceived(t) \/ AnswerLost(t)

DaemonNext ==
    \/ Poll
    \/ \E t \in Rows :
          \/ Handler(t) \/ AgentEnds(t) \/ WatchTick(t) \/ WatchClose(t) \/ OrphanEnds(t)
          \/ \E k \in ReportKind : ArrivesLate(k, t)
    \/ Stop \/ Exit \/ Crash \/ Restart
    \/ ServerStep

DaemonSpec == DaemonInit /\ [][DaemonNext]_daemonVars

\* Goroutines run, the watcher ticks, an interrupted process dies.  Nothing
\* makes an agent end by itself.
DaemonFairness ==
    /\ \A t \in Ids :
          /\ WF_daemonVars(t \in Rows /\ Handler(t))
          /\ WF_daemonVars(t \in Rows /\ WatchTick(t))
          /\ WF_daemonVars(t \in Rows /\ WatchClose(t))
          /\ WF_daemonVars(t \in Rows /\ Interrupted(t) /\ AgentEnds(t))

FairDaemon == DaemonSpec /\ DaemonFairness

-----------------------------------------------------------------------------
(* Properties *)

\* Slots: the channel holds one token for the poll loop while it claims and one
\* for every handler that has not returned, on every path, so that the daemon
\* neither runs more than MaxSlots tasks nor loses a slot for good.
SlotsAccounted ==
    sem = Cardinality(Live) + (IF poll = "idle" THEN 0 ELSE 1)

\* An agent is running only for a task whose start the server has recorded,
\* whichever calls were lost or late.
RunsAfterStart == \A t \in proc : task[t].status \notin Pending

\* A task counts as completed only if its agent did finish with a result.
CompletedMeansDone == \A t \in Rows :
    task[t].status = "completed" => result[t] = "completed"

\* A handler lets no task drop: when it has returned and none of its calls was
\* lost, the server knows that the task is over.
HandledIsSettled == \A t \in Rows :
    hand[t] = "done" /\ t \notin lost => task[t].status \notin Active

\* What the server is told of a task comes in time, is true and, if no call is
\* lost, complete.
ReportsTrue == RunsAfterStart /\ CompletedMeansDone /\ HandledIsSettled

\* Cancelling a task stops its agent, even one that would run for ever, and
\* its slot is free again.
CancelStopsAgent == \A t \in Ids :
    (hand[t] = "run" /\ task[t].status = "cancelled") ~> (hand[t] = "done")
=============================================================================

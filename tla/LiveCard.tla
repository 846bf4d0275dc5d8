------------------------------ MODULE LiveCard -------------------------------
(***************************************************************************)
(* AgentLiveCard: the running task of the issue on screen and what its      *)
(* agent writes, as the page hears of it.  The tasks of an issue run one    *)
(* after another; the messages of a task are numbered by the daemon and may *)
(* arrive out of order.  The card does not listen for reconnections.        *)
(***************************************************************************)
EXTENDS SeqFilter

CONSTANTS MaxTasks,         \* bound on the tasks the issue gets
          MaxSeq,           \* bound on the messages of a task
          MaxCardEvents,    \* bound on events on their way
          MaxCardCalls      \* bound on requests in flight

ASSUME CardAssumption ==
  /\ MaxTasks \in Nat \ {0} /\ MaxSeq \in Nat \ {0}
  /\ MaxCardEvents \in Nat /\ MaxCardCalls \in Nat

VARIABLES task, running,    \* the issue's latest task and whether it runs
          written,          \* the messages stored: pairs <<task, seq>>
          cardWire, cardHears,
          activeTask,       \* the task the card shows, 0 for none
          cardRows,             \* the card's items
          seenSeqs,         \* the keys of the messages taken in
          cancelling,       \* Stop was pressed
          history,          \* the ended tasks TaskRunHistory lists
          cardCalls,        \* requests in flight
          cardStrayed       \* history: a message or an end was missed

cardServerVars == <<task, running, written>>
cardVars == <<cardServerVars, cardWire, cardHears, activeTask, cardRows, seenSeqs,
              cancelling, history, cardCalls, cardStrayed>>

Msg == (1..MaxTasks) \X (1..MaxSeq)
OfTask(S, t) == {m \in S : m[1] = t}

(* buildTimeline, and the sort after each message: by seq alone.            *)
Earlier(a, b) == a[2] < b[2] \/ (a[2] = b[2] /\ a[1] < b[1])
BySeq(S) == CHOOSE s \in [1..Cardinality(S) -> S] :
              \A j, k \in DOMAIN s : j < k => Earlier(s[j], s[k])
Unsorted(row, m) == Append(row, m)  \* mutant of Inserted
Inserted(row, m) ==
  LET before == Only(row, {x \in Msg : x[2] <= m[2]})
      after  == Only(row, {x \in Msg : x[2] > m[2]})
  IN before \o <<m>> \o after

CardCall(op, t) == [op |-> op, task |-> t, st |-> "sent", got |-> 0, list |-> {}]
CardAsks(op, t) == /\ Cardinality(cardCalls) < MaxCardCalls
               /\ cardCalls' = cardCalls \cup {CardCall(op, t)}
CardSends(ev)   == /\ Len(cardWire) < MaxCardEvents
               /\ cardWire' = IF cardHears THEN Append(cardWire, ev) ELSE cardWire

CardInit ==
  /\ task \in 0..1 /\ running = (task = 1)
  /\ written \in {{}, OfTask({<<1, 1>>}, task)} /\ cardWire = <<>> /\ cardHears = TRUE
  /\ activeTask = 0 /\ cardRows = <<>> /\ seenSeqs = {} /\ cancelling = FALSE
  /\ history = 0
  /\ cardCalls = {CardCall("mount", 0), CardCall("history", 0)} /\ cardStrayed = FALSE

----------------------------------------------------------------------------
(* The server: a task is dispatched, its messages are stored and sent, it   *)
(* ends (task:completed, task:failed or task:cancelled).  An agent that has *)
(* not noticed the end of its task goes on writing.                         *)
Dispatch ==
  /\ ~running /\ task < MaxTasks
  /\ task' = task + 1 /\ running' = TRUE
  /\ CardSends([kind |-> "dispatch", task |-> task + 1, seq |-> 0])
  /\ UNCHANGED <<written, cardHears, activeTask, cardRows, seenSeqs, cancelling, history, cardCalls, cardStrayed>>

Write ==
  /\ \E t \in 1..task, n \in 1..MaxSeq :
       /\ <<t, n>> \notin written
       /\ written' = written \cup {<<t, n>>}
       /\ CardSends([kind |-> "message", task |-> t, seq |-> n])
  /\ UNCHANGED <<task, running, cardHears, activeTask, cardRows, seenSeqs, cancelling, history, cardCalls, cardStrayed>>

TaskEnds == running' = FALSE /\ CardSends([kind |-> "ended", task |-> task, seq |-> 0])
End ==
  /\ running /\ TaskEnds
  /\ UNCHANGED <<task, written, cardHears, activeTask, cardRows, seenSeqs, cancelling, history, cardCalls, cardStrayed>>

----------------------------------------------------------------------------
(* The handlers of the card's events.  A message of an earlier task is      *)
(* mixed in with those of the task shown: only the issue is compared.       *)
OnMessage(ev) ==
  LET m == <<ev.task, ev.seq>> IN
  /\ IF m \in seenSeqs THEN UNCHANGED <<cardRows, seenSeqs>>
     ELSE cardRows' = Inserted(cardRows, m) /\ seenSeqs' = seenSeqs \cup {m}
  /\ cardStrayed' = (cardStrayed \/ activeTask \notin {0, ev.task})
  /\ UNCHANGED <<activeTask, cancelling, cardCalls>>

(* An end clears the card, and TaskRunHistory asks for the list again: a    *)
(* clean start if nothing asked before can still land.                      *)
Recovered == /\ cardCalls = {}
             /\ running => \E k \in DOMAIN cardWire :
                             cardWire[k].kind = "dispatch" /\ cardWire[k].task = task
OnEnded ==
  /\ activeTask' = 0 /\ cardRows' = <<>> /\ seenSeqs' = {} /\ cancelling' = FALSE
  /\ cardStrayed' = (cardStrayed /\ ~Recovered)
  /\ CardAsks("history", 0)

OnDispatch ==
  /\ IF activeTask # 0 THEN UNCHANGED cardCalls ELSE CardAsks("dispatch", 0)
  /\ UNCHANGED <<activeTask, cardRows, seenSeqs, cancelling, cardStrayed>>

HearCard ==
  /\ cardWire # <<>> /\ cardWire' = Tail(cardWire)
  /\ LET ev == Head(cardWire) IN
     CASE ev.kind = "message"  -> OnMessage(ev)
       [] ev.kind = "ended"    -> OnEnded
       [] ev.kind = "dispatch" -> OnDispatch
  /\ UNCHANGED <<cardServerVars, cardHears, history>>

CardLinkDrops ==
  /\ cardHears /\ cardHears' = FALSE /\ cardWire' = <<>> /\ cardStrayed' = TRUE
  /\ UNCHANGED <<cardServerVars, activeTask, cardRows, seenSeqs, cancelling, history, cardCalls>>
CardReconnects ==
  /\ ~cardHears /\ cardHears' = TRUE
  /\ UNCHANGED <<cardServerVars, cardWire, activeTask, cardRows, seenSeqs, cancelling, history, cardCalls, cardStrayed>>

----------------------------------------------------------------------------
(* handleCancel.                                                            *)
PressStop ==
  /\ activeTask # 0 /\ ~cancelling /\ cancelling' = TRUE
  /\ CardAsks("cancel", activeTask)
  /\ UNCHANGED <<cardServerVars, cardWire, cardHears, activeTask, cardRows, seenSeqs, history, cardStrayed>>

EndedTasks == IF running THEN task - 1 ELSE task
ServeCard ==
  \E c \in cardCalls, st \in {"done", "failed"} :
    /\ c.st = "sent"
    /\ \/ /\ c.op \in {"mount", "dispatch", "list", "history"}
          /\ cardCalls' = (cardCalls \ {c}) \cup
               {[c EXCEPT !.st = st,
                          !.got = CASE st = "failed" \/ c.op = "list" -> 0
                                    [] c.op = "history" -> EndedTasks
                                    [] OTHER -> IF running THEN task ELSE 0,
                          !.list = IF c.op = "list" /\ st = "done" THEN OfTask(written, c.task) ELSE {}]}
          /\ UNCHANGED <<cardServerVars, cardWire>>
       \/ /\ c.op = "cancel" /\ running /\ c.task = task
          /\ TaskEnds /\ UNCHANGED <<task, written>>
          /\ cardCalls' = (cardCalls \ {c}) \cup {[c EXCEPT !.st = st]}
       \/ /\ c.op = "cancel"
          /\ cardCalls' = (cardCalls \ {c}) \cup {[c EXCEPT !.st = "failed"]}
          /\ UNCHANGED <<cardServerVars, cardWire>>
    /\ UNCHANGED <<cardHears, activeTask, cardRows, seenSeqs, cancelling, history, cardStrayed>>

(* Whether an end of t that the card has not heard is still to come.        *)
EndComes(t) == \/ running /\ t = task
               \/ \E k \in DOMAIN cardWire : cardWire[k].kind = "ended" /\ cardWire[k].task = t
StartComes  == ~running \/ \E k \in DOMAIN cardWire :
                             cardWire[k].kind = "dispatch" /\ cardWire[k].task = task

(* The mount effect shows what it gets, a task or none, and asks for its    *)
(* messages; a dispatch starts the card anew and asks for no messages.      *)
MountLands(c) ==
  /\ activeTask' = c.got
  /\ cardCalls' = (cardCalls \ {c}) \cup (IF c.got = 0 THEN {} ELSE {CardCall("list", c.got)})
  /\ cardStrayed' = (\/ cardStrayed
                     \/ c.got # 0 /\ ~EndComes(c.got)
                     \/ c.got = 0 /\ ~(StartComes \/ \E d \in cardCalls : d.op = "dispatch")
                     \/ c.got # task /\ running)
  /\ UNCHANGED <<cardRows, seenSeqs, history>>
DispatchLands(c) ==
  /\ IF c.got = 0 THEN UNCHANGED <<activeTask, cardRows, seenSeqs>>
     ELSE activeTask' = c.got /\ cardRows' = <<>> /\ seenSeqs' = {}
  /\ cardCalls' = cardCalls \ {c}
  /\ cardStrayed' = (\/ cardStrayed
                     \/ c.got # 0 /\ (~EndComes(c.got) \/ c.got # task)
                     \/ \E m \in OfTask(written, c.got) :
                          ~\E k \in DOMAIN cardWire : <<cardWire[k].task, cardWire[k].seq>> = m)
  /\ UNCHANGED history
CardListLands(c) ==
  /\ cardRows' = BySeq(c.list)
  /\ seenSeqs' = seenSeqs \cup c.list
  /\ cardCalls' = cardCalls \ {c}
  /\ cardStrayed' = (cardStrayed \/ c.task # activeTask \/ ~(seenSeqs \subseteq c.list))
  /\ UNCHANGED <<activeTask, history>>
HistoryLands(c) ==
  /\ history' = c.got
  /\ cardCalls' = cardCalls \ {c}
  /\ cardStrayed' = (\/ cardStrayed
                     \/ /\ c.got # EndedTasks
                        /\ ~\E d \in cardCalls : d.op = "history" /\ (d.st = "sent" \/ d.got = EndedTasks)
                        /\ ~\E k \in DOMAIN cardWire : cardWire[k].kind = "ended")
  /\ UNCHANGED <<activeTask, cardRows, seenSeqs>>

CardAnswers ==
  \E c \in cardCalls :
    /\ c.st = "done"
    /\ \/ c.op = "mount" /\ MountLands(c)
       \/ c.op = "dispatch" /\ DispatchLands(c)
       \/ c.op = "list" /\ CardListLands(c)
       \/ c.op = "history" /\ HistoryLands(c)
       \/ /\ c.op = "cancel" /\ cardCalls' = cardCalls \ {c}
          /\ UNCHANGED <<activeTask, cardRows, seenSeqs, history, cardStrayed>>
    /\ UNCHANGED <<cardServerVars, cardWire, cardHears, cancelling>>

(* Failures are logged; a failed Stop may be pressed again.                 *)
CardFails ==
  \E c \in cardCalls :
    /\ c.st = "failed"
    /\ cardCalls' = cardCalls \ {c}
    /\ cancelling' = (cancelling /\ c.op # "cancel")
    /\ cardStrayed' = (cardStrayed \/ c.op # "cancel")
    /\ UNCHANGED <<cardServerVars, cardWire, cardHears, activeTask, cardRows, seenSeqs, history>>

CardNext ==
  \/ Dispatch \/ Write \/ End \/ HearCard \/ CardLinkDrops \/ CardReconnects
  \/ PressStop \/ ServeCard \/ CardAnswers \/ CardFails

CardSpec == CardInit /\ [][CardNext]_cardVars

----------------------------------------------------------------------------
(* Type correctness of the card.                                            *)
CardTypeOK ==
  /\ task \in 0..MaxTasks /\ running \in BOOLEAN /\ written \subseteq Msg
  /\ activeTask \in 0..MaxTasks /\ seenSeqs \subseteq Msg
  /\ \A k \in DOMAIN cardRows : cardRows[k] \in Msg
  /\ history \in 0..MaxTasks /\ cancelling \in BOOLEAN /\ cardHears \in BOOLEAN /\ cardStrayed \in BOOLEAN

(* However lists and events cross, a message is on the card once and in its *)
(* place; and once all is answered and heard, the card shows the running    *)
(* task with every message it wrote, or nothing when none runs, and the     *)
(* history lists those that ended, unless an event or an answer was missed  *)
(* as cardStrayed records.                                                  *)
CardFollows ==
  /\ \A j, k \in DOMAIN cardRows : j < k => cardRows[j] # cardRows[k] /\ cardRows[j][2] <= cardRows[k][2]
  /\ cardHears /\ cardWire = <<>> /\ cardCalls = {} /\ ~cardStrayed =>
       /\ activeTask = IF running THEN task ELSE 0
       /\ history = EndedTasks
       /\ activeTask # 0 => {cardRows[k] : k \in DOMAIN cardRows} = OfTask(written, activeTask)
=============================================================================

----------------------------- MODULE IssueMarks ------------------------------
(***************************************************************************)
(* A row of marks on an issue as one tab shows it: the reactions of one     *)
(* emoji to the issue or to a comment, or its subscribers.  The hooks       *)
(* toggle a mark before the server has answered (useIssueReactions,         *)
(* useIssueSubscribers, toggleReaction of useIssueTimeline).  An event      *)
(* about one's own reaction is skipped; one about a subscriber never is.    *)
(***************************************************************************)
EXTENDS SeqFilter

CONSTANTS MaxMinted,        \* bound on the rows the server ever inserts
          MaxMarkEvents,    \* bound on events on their way
          MaxMarkCalls      \* bound on requests in flight

ASSUME MarkAssumption == MaxMinted \in Nat /\ MaxMarkEvents \in Nat /\ MaxMarkCalls \in Nat

VARIABLES markKind,         \* "reaction" or "subscriber"
          marks, markMinted,    \* the server's rows, and how many it inserted
          markRow,          \* the list the tab shows
          markWire,         \* events on their way
          markHears,        \* the tab hears events
          markCalls,        \* requests in flight
          markStrayed       \* history: an overtaken, lost or undone request

markVars == <<markKind, marks, markMinted, markRow, markWire, markHears, markCalls, markStrayed>>

Actors  == {"me", "other"}
Temp    == 0                \* the id of an optimistic reaction; reason manual
Mark    == [by : Actors, id : 0..MaxMinted]
MarkShown(row)  == {row[k] : k \in DOMAIN row}
Matches(row, S) == MarkShown(row) = S /\ Len(row) = Cardinality(S)
HasMark(S, who) == \E x \in S : x.by = who
MarkOf(S, who)  == CHOOSE x \in S : x.by = who

(* A reaction has an id of its own, a subscriber only a reason.             *)
NewId == IF markKind = "reaction" THEN markMinted + 1 ELSE Temp

MarkInit ==
  /\ markKind \in {"reaction", "subscriber"}
  /\ marks = {} /\ markMinted = 0 /\ markRow = <<>>
  /\ markWire = <<>> /\ markHears = TRUE /\ markStrayed = FALSE
  /\ markCalls = {[op |-> "load", who |-> "me", undo |-> <<>>, st |-> "sent",
                   got |-> <<>>, old |-> FALSE]}

----------------------------------------------------------------------------
(* The server: an upsert or a delete, and the event, whoever asks.          *)
Overtaken(C) == {IF c.st = "done" THEN [c EXCEPT !.old = TRUE] ELSE c : c \in C}
Emit(ev) == /\ Len(markWire) < MaxMarkEvents
            /\ markWire' = IF markHears THEN Append(markWire, ev) ELSE markWire

PutMark(who) ==
  IF HasMark(marks, who)
  THEN /\ UNCHANGED <<marks, markMinted>>
       /\ Emit([kind |-> "added", mark |-> MarkOf(marks, who)])
  ELSE /\ markMinted < MaxMinted /\ markMinted' = markMinted + 1
       /\ marks' = marks \cup {[by |-> who, id |-> NewId]}
       /\ Emit([kind |-> "added", mark |-> [by |-> who, id |-> NewId]])
DropMark(who) ==
  /\ marks' = {x \in marks : x.by # who}
  /\ UNCHANGED markMinted
  /\ Emit([kind |-> "removed", mark |-> [by |-> who, id |-> Temp]])

(* Another user: only their own reaction, but anybody's subscription.       *)
Whose(actor) == IF markKind = "reaction" THEN {actor} ELSE Actors
OthersToggle ==
  /\ \E who \in Whose("other") :
       IF HasMark(marks, who) THEN DropMark(who) ELSE PutMark(who)
  /\ markCalls' = Overtaken(markCalls)
  /\ UNCHANGED <<markKind, markRow, markHears, markStrayed>>

----------------------------------------------------------------------------
(* The tab hears an event.                                                  *)
Skips(ev) == markKind = "reaction" /\ ev.mark.by = "me"
PresentNever(row, m) == FALSE  \* mutant of Present: no guard against a second copy
Present(row, m) ==
  IF markKind = "reaction" THEN \E x \in MarkShown(row) : x.id = m.id
                           ELSE HasMark(MarkShown(row), m.by)
WithMark(row, m)   == IF Present(row, m) THEN row ELSE Append(row, m)
WithoutActor(row, who) == Only(row, {x \in MarkShown(row) : x.by # who})

HearMark ==
  /\ markWire # <<>>
  /\ LET ev == Head(markWire) IN
     markRow' = IF Skips(ev) THEN markRow
                ELSE IF ev.kind = "added" THEN WithMark(markRow, ev.mark)
                ELSE WithoutActor(markRow, ev.mark.by)
  /\ markWire' = Tail(markWire)
  /\ UNCHANGED <<markKind, marks, markMinted, markHears, markCalls, markStrayed>>

MarkLinkDrops ==
  /\ markHears /\ markHears' = FALSE /\ markWire' = <<>>
  /\ UNCHANGED <<markKind, marks, markMinted, markRow, markCalls, markStrayed>>

----------------------------------------------------------------------------
(* Requests: what to undo if it fails, the answer, and whether the server   *)
(* changed after it answered.                                               *)
AskMark(op, who, undo) ==
  /\ Cardinality(markCalls) < MaxMarkCalls
  /\ markCalls' = markCalls \cup
       {[op |-> op, who |-> who, undo |-> undo, st |-> "sent", got |-> <<>>, old |-> FALSE]}

(* After a reconnection the row is loaded again.                            *)
MarkReconnects ==
  /\ ~markHears /\ markHears' = TRUE
  /\ AskMark("load", "me", <<>>)
  /\ UNCHANGED <<markKind, marks, markMinted, markRow, markWire, markStrayed>>

(* toggleReaction and toggleSubscriber.  The row the click saw decides.  Two *)
(* requests about one mark may reach the server in either order.            *)
Toggle ==
  \E who \in Whose("me") :
    /\ ~markStrayed
    /\ IF HasMark(MarkShown(markRow), who)
       THEN /\ AskMark("remove", who, <<MarkOf(MarkShown(markRow), who)>>)
            /\ markRow' = WithoutActor(markRow, who)
       ELSE /\ AskMark("add", who, <<>>)
            /\ markRow' = Append(markRow, [by |-> who, id |-> Temp])
    /\ markStrayed' = (\E c \in markCalls : c.op # "load" /\ c.who = who)
    /\ UNCHANGED <<markKind, marks, markMinted, markWire, markHears>>

(* The order in which the server lists the marks does not matter here.      *)
RowOf(S) == CHOOSE row \in [1..Cardinality(S) -> S] : MarkShown(row) = S

ServeMark ==
  \E c \in markCalls, st \in {"done", "failed"} :
    /\ c.st = "sent"
    /\ \/ /\ c.op = "load"
          /\ markCalls' = (markCalls \ {c}) \cup {[c EXCEPT !.st = st, !.got = RowOf(marks)]}
          /\ UNCHANGED <<marks, markMinted, markWire>>
       \/ /\ c.op = "add" /\ PutMark(c.who)
          /\ markCalls' = Overtaken(markCalls \ {c}) \cup
               {[c EXCEPT !.st = st, !.got = <<MarkOf(marks', c.who)>>]}
       \/ /\ c.op = "remove" /\ DropMark(c.who)
          /\ markCalls' = Overtaken(markCalls \ {c}) \cup {[c EXCEPT !.st = st]}
       \/ /\ c.op # "load"
          /\ markCalls' = (markCalls \ {c}) \cup {[c EXCEPT !.st = "failed"]}
          /\ UNCHANGED <<marks, markMinted, markWire>>
    /\ UNCHANGED <<markKind, markRow, markHears, markStrayed>>

(* The temporary reaction becomes the real one; nothing else is corrected.  *)
MarkSettled(c) ==
  CASE c.op = "load" -> c.got
    [] c.op = "add" /\ markKind = "reaction" ->
         [k \in DOMAIN markRow |->
            IF markRow[k] = [by |-> c.who, id |-> Temp] THEN c.got[1] ELSE markRow[k]]
    [] OTHER -> markRow

(* A load that lands while a toggle is on its way may repeat or lose it.    *)
Clashes(c) == c.op = "load" /\ \E d \in markCalls : d.op # "load"
MarkSettles ==
  \E c \in markCalls :
    /\ c.st = "done"
    /\ markRow' = MarkSettled(c)
    /\ markCalls' = markCalls \ {c}
    /\ markStrayed' = IF c.op = "load" THEN c.old \/ Clashes(c) ELSE markStrayed
    /\ UNCHANGED <<markKind, marks, markMinted, markWire, markHears>>

Undo(c) ==
  CASE c.op = "remove" -> markRow \o c.undo
    [] c.op = "add" -> Only(markRow, {x \in MarkShown(markRow) : ~(x.by = c.who /\ x.id = Temp)})
    [] OTHER -> markRow
MarkFails ==
  \E c \in markCalls :
    /\ c.st = "failed"
    /\ markRow' = Undo(c)
    /\ markCalls' = markCalls \ {c}
    /\ markStrayed' = (markStrayed \/ c.op = "load" \/ markWire # <<>> \/ markCalls' # {}
                       \/ ~Matches(markRow', marks))
    /\ UNCHANGED <<markKind, marks, markMinted, markWire, markHears>>

MarkNext ==
  \/ OthersToggle \/ HearMark \/ MarkLinkDrops \/ MarkReconnects
  \/ Toggle \/ ServeMark \/ MarkSettles \/ MarkFails

MarkSpec == MarkInit /\ [][MarkNext]_markVars

----------------------------------------------------------------------------
(* Type correctness of the row and the server's marks.                      *)
MarkTypeOK ==
  /\ marks \subseteq Mark /\ markMinted \in 0..MaxMinted /\ MarkShown(markRow) \subseteq Mark
  /\ markHears \in BOOLEAN /\ markStrayed \in BOOLEAN
  /\ \A c \in markCalls : c.op \in {"load", "add", "remove"} /\ c.st \in {"sent", "done", "failed"}

(* When all has been answered and heard, the row holds every mark of the    *)
(* server once: the optimistic one became the real one though its event was *)
(* skipped, and an event about a mark that a load already brought adds no   *)
(* second one.  What leaves the row wrong is what markStrayed records.        *)
MarksConverge ==
  markHears /\ markWire = <<>> /\ markCalls = {} /\ ~markStrayed =>
    Matches(markRow, marks)
=============================================================================

--------------------------- MODULE IssueTimeline ----------------------------
(***************************************************************************)
(* The comments of one open issue: useIssueTimeline, the boxes in which     *)
(* comments, replies and edits are written, the cards that show threads,    *)
(* and the server's comments.  Entries are shown in the order of timeline.  *)
(***************************************************************************)
EXTENDS SeqFilter

CONSTANTS MaxComments,      \* bound on the comments ever made
          MaxCommentEvents, MaxCommentCalls

ASSUME TimelineAssumption == MaxComments \in Nat /\ MaxCommentEvents \in Nat /\ MaxCommentCalls \in Nat

VARIABLES commentServer,    \* comments by number; deleted ones are gone
          commentsMade,     \* every comment as it was first written (history)
          timeline,         \* the tab's entries, a sequence
          commentChannel, hears, \* events on their way; the page is subscribed
          calls,            \* requests in flight
          commentStrayed    \* history: left wrong until the next fetch; the run
                            \* starts nothing more then (a bound)

timelineVars == <<commentServer, commentsMade, timeline, commentChannel, hears, calls,
                  commentStrayed>>

CommentIds == 1..MaxComments
Texts   == {"first", "edited"}
Entry   == [id : CommentIds, parent : 0..MaxComments, text : Texts, mine : BOOLEAN]
Entries(tl) == {tl[k] : k \in DOMAIN tl}
IdsOf(S)    == {e.id : e \in S}

AddedAgain(tl, e) == Append(tl, e)  \* mutant of Added
(* commentToTimelineEntry and the handlers' guard against a second copy.    *)
Added(tl, e)   == IF e.id \in IdsOf(Entries(tl)) THEN tl ELSE Append(tl, e)
CommentReplaced(tl, e) == [k \in DOMAIN tl |-> IF tl[k].id = e.id THEN e ELSE tl[k]]

(* The loop that collects a comment and the replies below it: it ends with  *)
(* the least set that holds the comment and every reply to what it holds.   *)
Thread(S, id) ==
  LET within == {id} \cup IdsOf(S)
      whole  == {T \in SUBSET within : id \in T /\ \A e \in S : e.parent \in T => e.id \in T}
  IN {x \in within : \A T \in whole : x \in T}
Without(tl, ids) == Only(tl, {e \in Entries(tl) : e.id \notin ids})

(* What the page shows: comments without a parent, each with everything     *)
(* below it (collectReplies).                                                *)
TopLevel(tl) == {e \in Entries(tl) : e.parent = 0}
ShownIds(tl) == UNION {Thread(Entries(tl), e.id) : e \in TopLevel(tl)}

(* ListTimeline: the comments in the order in which they were made.         *)
ServerOrder == CHOOSE s \in [1..Cardinality(commentServer) -> commentServer] :
                 \A j, k \in DOMAIN s : j < k => s[j].id < s[k].id

(* A request: the entries it will put back if it fails (kept), the answer   *)
(* (list), and whether it was overtaken, or carried out without an answer.  *)
CommentCall(op, id) == [op |-> op, id |-> id, kept |-> <<>>, st |-> "sent", list |-> <<>>, old |-> FALSE]
CommentAnswered(c, st, list) ==
  IF st = "done" THEN [c EXCEPT !.st = st, !.list = list, !.kept = <<>>]
  ELSE [c EXCEPT !.st = st, !.old = TRUE]
StartComment(c)   == ~commentStrayed /\ Cardinality(calls) < MaxCommentCalls /\ calls' = calls \cup {c}
CommentStrays(cond) == commentStrayed' = (commentStrayed \/ cond)

TimelineInit ==
  /\ commentServer = {} /\ commentsMade = <<>> /\ timeline = <<>> /\ commentChannel = <<>>
  /\ hears = TRUE /\ commentStrayed = FALSE
  /\ calls = {CommentCall("fetch", 0)}

----------------------------------------------------------------------------
(* The server's side of a change: the rows, the event, outdated answers.    *)
CommentOutdated(C) == {IF c.st = "done" THEN [c EXCEPT !.old = TRUE] ELSE c : c \in C}
Change(S, ev) ==
  /\ Len(commentChannel) < MaxCommentEvents
  /\ commentServer' = S
  /\ commentChannel' = IF hears THEN Append(commentChannel, ev) ELSE commentChannel
NewComment(p, m) == [id |-> Len(commentsMade) + 1, parent |-> p, text |-> "first", mine |-> m]
Makes(e)   == /\ Len(commentsMade) < MaxComments /\ commentsMade' = Append(commentsMade, e)
              /\ Change(commentServer \cup {e}, [kind |-> "created", e |-> e])
Edits(e)   == /\ Change((commentServer \ {e}) \cup {[e EXCEPT !.text = "edited"]},
                        [kind |-> "updated", e |-> [e EXCEPT !.text = "edited"]])
              /\ UNCHANGED commentsMade
Deletes(e) == /\ Change({x \in commentServer : x.id \notin Thread(commentServer, e.id)},
                        [kind |-> "deleted", e |-> e])
              /\ UNCHANGED commentsMade

OthersChange ==
  /\ ~commentStrayed
  /\ \/ \E p \in {0} \cup IdsOf(commentServer) : Makes(NewComment(p, FALSE))
     \/ \E e \in commentServer : e.text = "first" /\ Edits(e)
     \/ \E e \in commentServer : Deletes(e)
  /\ calls' = CommentOutdated(calls)
  /\ UNCHANGED <<timeline, hears, commentStrayed>>

(* comment:created skips one's own; comment:updated and :deleted do not.    *)
HandleCommentEvent ==
  /\ commentChannel # <<>>
  /\ LET ev == Head(commentChannel) IN
     timeline' = CASE ev.kind = "created" -> IF ev.e.mine THEN timeline ELSE Added(timeline, ev.e)
                   [] ev.kind = "updated" -> CommentReplaced(timeline, ev.e)
                   [] ev.kind = "deleted" -> Without(timeline, Thread(Entries(timeline), ev.e.id))
  /\ commentChannel' = Tail(commentChannel)
  /\ UNCHANGED <<commentServer, commentsMade, hears, calls, commentStrayed>>

CommentLinkDrops ==
  /\ hears /\ hears' = FALSE /\ commentChannel' = <<>>
  /\ UNCHANGED <<commentServer, commentsMade, timeline, calls, commentStrayed>>

(* The hook's reconnect callback fetches the timeline again.                *)
CommentReconnects ==
  /\ ~hears /\ hears' = TRUE
  /\ Cardinality(calls) < MaxCommentCalls /\ calls' = calls \cup {CommentCall("fetch", 0)}
  /\ UNCHANGED <<commentServer, commentsMade, timeline, commentChannel, commentStrayed>>

----------------------------------------------------------------------------
(* What the user does.  A box is busy while its request is in flight.       *)
CommentBusy(op, id) == \E c \in calls : c.op = op /\ c.id = id

(* CommentInput and ReplyInput: submitComment and submitReply.              *)
Submit ==
  \E p \in {0} \cup {e.id : e \in {x \in Entries(timeline) : x.id \in ShownIds(timeline)}} :
    /\ ~CommentBusy("create", p)
    /\ StartComment(CommentCall("create", p))
    /\ UNCHANGED <<commentServer, commentsMade, timeline, commentChannel, hears, commentStrayed>>

(* editComment writes the entry first and remembers its text.               *)
(* The row's menu is for one's own comments; a text saved unchanged is not    *)
(* sent.                                                                    *)
Editable(e) == e.mine /\ e.text = "first"
EditComment ==
  \E e \in Entries(timeline) :
    /\ Editable(e)
    /\ StartComment([CommentCall("edit", e.id) EXCEPT !.kept = <<e>>])
    /\ timeline' = CommentReplaced(timeline, [e EXCEPT !.text = "edited"])
    /\ UNCHANGED <<commentServer, commentsMade, commentChannel, hears, commentStrayed>>

(* deleteComment takes the thread away first and remembers its entries.     *)
DeleteComment ==
  \E e \in Entries(timeline) :
    /\ e.mine
    /\ LET ids == Thread(Entries(timeline), e.id) IN
       /\ StartComment([CommentCall("delete", e.id) EXCEPT
                   !.kept = Only(timeline, {x \in Entries(timeline) : x.id \in ids})])
       /\ timeline' = Without(timeline, ids)
    /\ UNCHANGED <<commentServer, commentsMade, commentChannel, hears, commentStrayed>>

----------------------------------------------------------------------------
(* The server handles a call.  It may carry it out and fail to answer.      *)
ServeComment ==
  \E c \in calls, st \in {"done", "failed"} :
    /\ c.st = "sent"
    /\ \/ /\ c.op = "fetch"
          /\ calls' = (calls \ {c}) \cup {CommentAnswered(c, st, ServerOrder)}
          /\ UNCHANGED <<commentServer, commentsMade, commentChannel>>
       \/ /\ c.op = "create" /\ c.id \in {0} \cup IdsOf(commentServer)
          /\ Makes(NewComment(c.id, TRUE))
          /\ calls' = CommentOutdated(calls \ {c}) \cup
                        {CommentAnswered(c, st, <<NewComment(c.id, TRUE)>>)}
       \/ \E e \in commentServer :
            /\ e.id = c.id
            /\ \/ /\ c.op = "edit" /\ Edits(e)
                  /\ calls' = CommentOutdated(calls \ {c}) \cup
                                {CommentAnswered(c, st, <<[e EXCEPT !.text = "edited"]>>)}
               \/ /\ c.op = "delete" /\ Deletes(e)
                  /\ calls' = CommentOutdated(calls \ {c}) \cup {CommentAnswered(c, st, <<>>)}
       \/ /\ c.op # "fetch"
          /\ calls' = (calls \ {c}) \cup {[c EXCEPT !.st = "failed"]}
          /\ UNCHANGED <<commentServer, commentsMade, commentChannel>>
    /\ UNCHANGED <<timeline, hears, commentStrayed>>

Lands(c) ==
  CASE c.op = "fetch"  -> c.list
    [] c.op = "create" -> Added(timeline, c.list[1])
    [] c.op = "edit"   -> CommentReplaced(timeline, c.list[1])
    [] c.op = "delete" -> timeline

CallSucceeds ==
  \E c \in calls :
    /\ c.st = "done"
    /\ timeline' = Lands(c)
    /\ calls' = calls \ {c}
    /\ commentStrayed' = IF c.op = "fetch" THEN c.old ELSE commentStrayed \/ (c.old /\ c.op # "delete")
    /\ UNCHANGED <<commentServer, commentsMade, commentChannel, hears>>

(* The undoing: the old text, or the removed entries at the end.  A comment *)
(* that failed to send is gone with its text; a fetch is not tried again.   *)
Undone(c) ==
  CASE c.op = "edit" /\ c.kept # <<>> ->
         [k \in DOMAIN timeline |-> IF timeline[k].id = c.id
                                    THEN [timeline[k] EXCEPT !.text = c.kept[1].text] ELSE timeline[k]]
    [] c.op = "delete" -> timeline \o c.kept
    [] OTHER -> timeline

CommentFails ==
  \E c \in calls :
    /\ c.st = "failed"
    /\ timeline' = Undone(c)
    /\ calls' = calls \ {c}
    /\ CommentStrays(\/ c.op = "fetch" \/ c.old
              \/ Entries(timeline') # commentServer \/ Len(timeline') # Cardinality(commentServer))
    /\ UNCHANGED <<commentServer, commentsMade, commentChannel, hears>>

TimelineNext ==
  \/ OthersChange \/ HandleCommentEvent \/ CommentLinkDrops \/ CommentReconnects
  \/ Submit \/ EditComment \/ DeleteComment \/ ServeComment \/ CallSucceeds \/ CommentFails

TimelineSpec == TimelineInit /\ [][TimelineNext]_timelineVars

----------------------------------------------------------------------------
(* Type correctness of the page and the server's comments.                  *)
TimelineTypeOK ==
  /\ commentServer \subseteq Entry /\ commentsMade \in Seq(Entry) /\ Len(commentsMade) <= MaxComments
  /\ Entries(timeline) \subseteq Entry
  /\ hears \in BOOLEAN /\ commentStrayed \in BOOLEAN
  /\ \A c \in calls : c.op \in {"fetch", "create", "edit", "delete"}

(* When all has been answered and heard, the page shows the comments of the *)
(* server, each in its thread and once: replies go and come with the        *)
(* comment above them, one's own comment, which events skip, is not doubled *)
(* by a refetch, and only an answer that was overtaken, lost or undone at   *)
(* the wrong moment leaves it wrong.  A reply to a comment that never came  *)
(* may stay in the list for ever, but then no thread leads to it.           *)
ThreadsConverge ==
  hears /\ commentChannel = <<>> /\ calls = {} /\ ~commentStrayed =>
    /\ {e \in Entries(timeline) : e.id \in ShownIds(timeline)} = commentServer
    /\ \A j, k \in DOMAIN timeline : timeline[j].id = timeline[k].id => j = k
=============================================================================

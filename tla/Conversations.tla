--------------------------- MODULE Conversations ----------------------------
(***************************************************************************)
(* The pages that show a conversation and poll it every three seconds: the  *)
(* chat page, whose messages are in the messaging store and whose selection *)
(* changes while it is mounted, the channel page, which keeps them itself,  *)
(* and the session page, whose messages are in the session store.  A page   *)
(* of another channel or session is a new component.  (The server's list of *)
(* conversations is a stub that is empty; the chat page is modelled for the *)
(* list it asks for.)                                                       *)
(***************************************************************************)
EXTENDS Naturals, Sequences, FiniteSets

CONSTANTS Convs, NoConv,    \* conversations; null
          MaxMsgs,          \* bound on the messages of one
          PageLimit,        \* messages a fetch is answered with
          MaxAsked,         \* bound on the requests in flight
          MaxVisits,        \* bound on the navigations
          MaxFails          \* bound on the requests that fail

ASSUME ConvAssumption == /\ NoConv \notin Convs
                         /\ {MaxMsgs, PageLimit, MaxAsked, MaxVisits, MaxFails} \subseteq Nat

VARIABLES convKind,         \* which of the pages this is
          open,             \* the conversation shown
          interval,         \* the one the interval fetches
          view,             \* the messages shown
          msgs,             \* server: how many messages each has
          asked,            \* requests in flight
          visits, fails

convVars == <<convKind, open, interval, view, msgs, asked, visits, fails>>

Kinds == {"chat", "channel", "session"}

(* ORDER BY created_at ASC LIMIT: the first messages, not the latest.       *)
Listed(c) == [n \in 1..(IF msgs[c] < PageLimit THEN msgs[c] ELSE PageLimit) |-> <<c, n>>]

(* A request: its answer, and whether its component is still mounted.       *)
Fetch(c) == [op |-> "fetch", conv |-> c, st |-> "sent", page |-> <<>>, live |-> TRUE]
SendTo(c) == [Fetch(c) EXCEPT !.op = "send"]
Orphaned == {[r EXCEPT !.live = FALSE] : r \in asked}

ConvInit ==
  /\ convKind \in Kinds
  /\ open = NoConv /\ interval = NoConv /\ view = <<>>
  /\ msgs = [c \in Convs |-> 0] /\ asked = {} /\ visits = 0 /\ fails = 0

----------------------------------------------------------------------------
(* The effects of another selection: the old interval is cleared, a fetch,  *)
(* a new interval.  Only the channel page starts from an empty list.        *)
IntervalKept(old, c) == IF old = NoConv THEN c ELSE old  \* mutant of Ticking: no cleanup
Ticking(old, c) == c

Select ==
  \E c \in Convs \ {open} :
    /\ visits < MaxVisits /\ visits' = visits + 1
    /\ Cardinality(asked) < MaxAsked
    /\ open' = c /\ interval' = Ticking(interval, c)
    /\ asked' = (IF convKind = "chat" THEN asked ELSE Orphaned) \cup {Fetch(c)}
    /\ view' = IF convKind = "channel" THEN <<>> ELSE view
    /\ UNCHANGED <<convKind, msgs, fails>>

Leave ==
  /\ open # NoConv
  /\ visits < MaxVisits /\ visits' = visits + 1
  /\ open' = NoConv /\ interval' = NoConv
  /\ asked' = Orphaned
  /\ UNCHANGED <<convKind, view, msgs, fails>>

IntervalFires ==
  /\ interval # NoConv
  /\ Cardinality(asked) < MaxAsked
  /\ asked' = asked \cup {Fetch(interval)}
  /\ UNCHANGED <<convKind, open, interval, view, msgs, visits, fails>>

(* MessageInput: one message at a time; a finished session takes none.      *)
(* HasRoom keeps all messages, those on their way too, within the bound.    *)
Sending == \E r \in asked : r.op = "send" /\ r.live
HasRoom(c) == msgs[c] + Cardinality({r \in asked : r.op = "send" /\ r.st = "sent" /\ r.conv = c}) < MaxMsgs
SendText ==
  /\ open # NoConv /\ ~Sending /\ HasRoom(open)
  /\ Cardinality(asked) < MaxAsked
  /\ asked' = asked \cup {SendTo(open)}
  /\ UNCHANGED <<convKind, open, interval, view, msgs, visits, fails>>

----------------------------------------------------------------------------
(* The server.                                                              *)
PeerWrites ==
  \E c \in Convs :
    /\ HasRoom(c) /\ msgs' = [msgs EXCEPT ![c] = @ + 1]
    /\ UNCHANGED <<convKind, open, interval, view, asked, visits, fails>>

FetchAnswered ==
  \E r \in asked :
    /\ r.op = "fetch" /\ r.st = "sent"
    /\ asked' = (asked \ {r}) \cup {[r EXCEPT !.st = "done", !.page = Listed(r.conv)]}
    /\ UNCHANGED <<convKind, open, interval, view, msgs, visits, fails>>

SendAnswered ==
  \E r \in asked :
    /\ r.op = "send" /\ r.st = "sent"
    /\ msgs' = [msgs EXCEPT ![r.conv] = @ + 1]
    /\ asked' = (asked \ {r}) \cup
                  {[r EXCEPT !.st = "done", !.page = <<<<r.conv, msgs[r.conv] + 1>>>>]}
    /\ UNCHANGED <<convKind, open, interval, view, visits, fails>>

(* An error, before or after the server wrote the message: a toast at most. *)
Fails ==
  \E r \in asked :
    /\ fails < MaxFails /\ fails' = fails + 1
    /\ asked' = asked \ {r}
    /\ UNCHANGED <<convKind, open, interval, view, msgs, visits>>

----------------------------------------------------------------------------
(* An answer replaces the messages, whatever is shown by now, except those  *)
(* of a channel page that is gone.                                          *)
Kept(r) == r.live \/ convKind # "channel"
FetchLands ==
  \E r \in asked :
    /\ r.op = "fetch" /\ r.st = "done"
    /\ asked' = asked \ {r}
    /\ view' = IF Kept(r) THEN r.page ELSE view
    /\ UNCHANGED <<convKind, open, interval, msgs, visits, fails>>

(* The chat and the channel append the message, the session fetches.        *)
SendLands ==
  \E r \in asked :
    /\ r.op = "send" /\ r.st = "done"
    /\ IF convKind = "session"
       THEN /\ asked' = (asked \ {r}) \cup {[Fetch(r.conv) EXCEPT !.live = r.live]}
            /\ UNCHANGED view
       ELSE /\ asked' = asked \ {r}
            /\ view' = IF Kept(r) THEN view \o r.page ELSE view
    /\ UNCHANGED <<convKind, open, interval, msgs, visits, fails>>

ConvNext ==
  \/ Select \/ Leave \/ IntervalFires \/ SendText
  \/ PeerWrites \/ FetchAnswered \/ SendAnswered \/ Fails \/ FetchLands \/ SendLands

(* Intervals fire, the server answers and answers land.                     *)
ConvFairness ==
  /\ WF_convVars(IntervalFires) /\ WF_convVars(FetchAnswered) /\ WF_convVars(SendAnswered)
  /\ WF_convVars(FetchLands) /\ WF_convVars(SendLands)

ConvSpec == ConvInit /\ [][ConvNext]_convVars /\ ConvFairness

----------------------------------------------------------------------------
(* Type correctness of the page.                                            *)
ConvTypeOK ==
  /\ convKind \in Kinds /\ open \in Convs \cup {NoConv} /\ interval \in Convs \cup {NoConv}
  /\ \A k \in DOMAIN view : view[k] \in Convs \X (1..MaxMsgs)
  /\ msgs \in [Convs -> 0..MaxMsgs] /\ Cardinality(asked) <= MaxAsked + 1
  /\ visits \in 0..MaxVisits /\ fails \in 0..MaxFails

(* A late answer of the conversation shown before, a fetch answered before  *)
(* a message was sent and landing after it, a message appended to another   *)
(* conversation's: whatever the page shows for a moment, the polls put it   *)
(* right, and it ends up with what the server lists of the conversation it  *)
(* shows: a message that was sent appears once, unless the conversation has *)
(* grown longer than a page of the list, when the polls take it away again. *)
ViewSettles == <>[](open # NoConv => view = Listed(open))
=============================================================================

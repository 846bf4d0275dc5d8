-------------------------------- MODULE Hub --------------------------------
(***************************************************************************)
(* The websocket hub: rooms of clients, the loop Run, the two goroutines   *)
(* of every client, and the publishers that call the hub's methods from    *)
(* the goroutines of requests.                                             *)
(*                                                                         *)
(* What a method does under the read lock is one step, since rooms change  *)
(* and channels are closed under the write lock only.  SendToUser sends    *)
(* after it has released the lock: each of its sends is a step.            *)
(***************************************************************************)
EXTENDS Integers, FiniteSets

CONSTANTS Client,      \* websocket connections, each made once
          User, Room,  \* users and workspaces
          Publisher,   \* goroutines that publish
          BufSize      \* capacity of a client's channel send

ASSUME HubConstants == BufSize \in Nat \ {0}

VARIABLES
    userOf, roomOf,    \* whose connection a client is, and to which workspace
    member,            \* the clients in rooms
    chan,              \* per client: its channel send
    buf,               \* per client: messages in that channel
    conn,              \* per client: its connection
    reader, writer,    \* per client: readPump and writePump
    runSlow,           \* slow clients that Run is about to remove
    pub,               \* per publisher: targets and slow clients of its call
    missed             \* clients that a call left out although it could reach them

clientVars == <<userOf, roomOf, conn, reader, writer>>
hubVars == <<clientVars, member, chan, buf, runSlow, pub, missed>>

NoCall == [pc |-> "idle", targets |-> {}, slow |-> {}]

HubTypeOK ==
    /\ userOf \in [Client -> User] /\ roomOf \in [Client -> Room]
    /\ member \subseteq Client
    /\ chan \in [Client -> {"open", "closed", "closed twice"}]
    /\ buf \in [Client -> 0..BufSize]
    /\ conn \in [Client -> {"none", "new", "open", "broken"}]
    /\ reader \in [Client -> {"none", "on", "leaving", "off"}]
    /\ writer \in [Client -> {"none", "on", "off"}]
    /\ runSlow \subseteq Client
    /\ pub \in [Publisher -> [pc: {"idle", "send", "remove"},
                              targets: SUBSET Client, slow: SUBSET Client]]
    /\ missed \subseteq Client

HubInit ==
    /\ userOf \in [Client -> User] /\ roomOf \in [Client -> Room]
    /\ member = {}
    /\ chan = [c \in Client |-> "open"]
    /\ buf = [c \in Client |-> 0]
    /\ conn = [c \in Client |-> "none"]
    /\ reader = [c \in Client |-> "none"]
    /\ writer = [c \in Client |-> "none"]
    /\ runSlow = {}
    /\ pub = [p \in Publisher |-> NoCall]
    /\ missed = {}

-----------------------------------------------------------------------------
(* Rooms and channels *)

Full(c) == buf[c] = BufSize

\* Mutant of Offer: sends as if there always were room.
OfferBlindly(S) == buf' = [c \in Client |-> IF c \in S THEN buf[c] + 1 ELSE buf[c]]

\* A non-blocking send to every client of S.
Offer(S) == buf' = [c \in Client |-> IF c \in S /\ ~Full(c) THEN buf[c] + 1 ELSE buf[c]]
SlowIn(S) == {c \in S : Full(c)}

Closed(c) == IF chan[c] = "open" THEN "closed" ELSE "closed twice"

\* Mutant of Remove: without looking whether the client is still in its room.
RemoveBlindly(S) ==
    /\ member' = member \ S
    /\ chan' = [c \in Client |-> IF c \in S THEN Closed(c) ELSE chan[c]]

\* Mutant of Remove: the client leaves its room and keeps its channel.
RemoveWithoutClose(S) ==
    /\ member' = member \ S
    /\ UNCHANGED chan

\* Under the write lock: those that are still there leave and are closed.
Remove(S) ==
    /\ member' = member \ S
    /\ chan' = [c \in Client |-> IF c \in S \intersect member THEN Closed(c) ELSE chan[c]]

-----------------------------------------------------------------------------
(* Run *)

\* HandleWebSocket waits for Run, then starts the two pumps.
Connect(c) ==
    /\ conn[c] = "none"
    /\ conn' = [conn EXCEPT ![c] = "new"]
    /\ UNCHANGED <<userOf, roomOf, reader, writer, member, chan, buf, runSlow, pub, missed>>

RunFree == runSlow = {}

Register(c) ==
    /\ RunFree /\ conn[c] = "new"
    /\ member' = member \union {c}
    /\ conn' = [conn EXCEPT ![c] = "open"]
    /\ reader' = [reader EXCEPT ![c] = "on"]
    /\ writer' = [writer EXCEPT ![c] = "on"]
    /\ UNCHANGED <<userOf, roomOf, chan, buf, runSlow, pub, missed>>

Unregister(c) ==
    /\ RunFree /\ reader[c] = "leaving"
    /\ Remove({c})
    /\ reader' = [reader EXCEPT ![c] = "off"]
    /\ UNCHANGED <<userOf, roomOf, conn, writer, buf, runSlow, pub, missed>>

\* A message on the channel broadcast, for everybody.
Broadcast ==
    /\ RunFree /\ member # {}
    /\ Offer(member)
    /\ runSlow' = SlowIn(member)
    /\ UNCHANGED <<clientVars, member, chan, pub, missed>>

RunRemoves ==
    /\ runSlow # {}
    /\ Remove(runSlow)
    /\ runSlow' = {}
    /\ UNCHANGED <<clientVars, buf, pub, missed>>

-----------------------------------------------------------------------------
(* The methods that publishers call *)

SetCall(p, c) == pub' = [pub EXCEPT ![p] = c]

RemovingNext(slow) ==
    IF slow = {} THEN NoCall ELSE [pc |-> "remove", targets |-> {}, slow |-> slow]

BroadcastToWorkspace(p, w) ==
    LET room == {c \in member : roomOf[c] = w}
    IN /\ pub[p].pc = "idle" /\ room # {}
       /\ Offer(room)
       /\ SetCall(p, RemovingNext(SlowIn(room)))
       /\ UNCHANGED <<clientVars, member, chan, runSlow, missed>>

PublisherRemoves(p) ==
    /\ pub[p].pc = "remove"
    /\ Remove(pub[p].slow)
    /\ SetCall(p, NoCall)
    /\ UNCHANGED <<clientVars, buf, runSlow, missed>>

\* SendToUser: the targets are collected under the read lock.
Connections(u, without) == {c \in member : userOf[c] = u /\ roomOf[c] # without}

SendToUser(p, u, without) ==
    /\ pub[p].pc = "idle" /\ Connections(u, without) # {}
    /\ SetCall(p, [pc |-> "send", targets |-> Connections(u, without), slow |-> {}])
    /\ UNCHANGED <<clientVars, member, chan, buf, runSlow, missed>>

SendNext(p, c) ==
    LET rest == pub[p].targets \ {c}
        slow == pub[p].slow \union SlowIn({c})
    IN /\ pub[p].pc = "send" /\ c \in pub[p].targets /\ chan[c] = "open"
       /\ Offer({c})
       /\ SetCall(p, IF rest = {} THEN RemovingNext(slow)
                     ELSE [pc |-> "send", targets |-> rest, slow |-> slow])
       /\ UNCHANGED <<clientVars, member, chan, runSlow, missed>>

\* A send on a closed channel panics; the event bus recovers, and the call ends.
SendPanics(p, c) ==
    /\ pub[p].pc = "send" /\ c \in pub[p].targets /\ chan[c] # "open"
    /\ missed' = missed \union {x \in pub[p].targets : x \in member /\ ~Full(x)}
    /\ SetCall(p, NoCall)
    /\ UNCHANGED <<clientVars, member, chan, buf, runSlow>>

\* PushToUser lets slow clients be.
PushToUser(u) ==
    /\ Offer({c \in member : userOf[c] = u})
    /\ UNCHANGED <<clientVars, member, chan, runSlow, pub, missed>>

-----------------------------------------------------------------------------
(* The pumps *)

\* A write to a broken connection may still succeed, or ends the pump.
WriteMessage(c) ==
    /\ writer[c] = "on" /\ buf[c] > 0
    /\ buf' = [buf EXCEPT ![c] = @ - 1]
    /\ \/ UNCHANGED writer
       \/ conn[c] = "broken" /\ writer' = [writer EXCEPT ![c] = "off"]
    /\ UNCHANGED <<userOf, roomOf, conn, reader, member, chan, runSlow, pub, missed>>

\* The range over a closed and empty channel ends; the deferred Close follows.
WriterEnds(c) ==
    /\ writer[c] = "on" /\ buf[c] = 0 /\ chan[c] # "open"
    /\ writer' = [writer EXCEPT ![c] = "off"]
    /\ conn' = [conn EXCEPT ![c] = "broken"]
    /\ UNCHANGED <<userOf, roomOf, reader, member, chan, buf, runSlow, pub, missed>>

\* The browser goes away.
Breaks(c) ==
    /\ conn[c] = "open"
    /\ conn' = [conn EXCEPT ![c] = "broken"]
    /\ UNCHANGED <<userOf, roomOf, reader, writer, member, chan, buf, runSlow, pub, missed>>

ReaderEnds(c) ==
    /\ reader[c] = "on" /\ conn[c] = "broken"
    /\ reader' = [reader EXCEPT ![c] = "leaving"]
    /\ UNCHANGED <<userOf, roomOf, conn, writer, member, chan, buf, runSlow, pub, missed>>

-----------------------------------------------------------------------------
HubNext ==
    \/ \E c \in Client :
          \/ Connect(c) \/ Register(c) \/ Unregister(c)
          \/ WriteMessage(c) \/ WriterEnds(c) \/ Breaks(c) \/ ReaderEnds(c)
    \/ Broadcast \/ RunRemoves
    \/ \E p \in Publisher :
          \/ \E w \in Room : BroadcastToWorkspace(p, w)
          \/ \E u \in User, w \in Room \union {""} : SendToUser(p, u, w)
          \/ \E c \in Client : SendNext(p, c) \/ SendPanics(p, c)
          \/ PublisherRemoves(p)
    \/ \E u \in User : PushToUser(u)

HubSpec == HubInit /\ [][HubNext]_hubVars

\* Goroutines run; Run is not kept from a client that waits for it by messages
\* that keep coming (strong: Go's select is fair between ready channels).
HubFairness ==
    /\ WF_hubVars(RunRemoves)
    /\ \A c \in Client :
          /\ SF_hubVars(Unregister(c))
          /\ WF_hubVars(WriteMessage(c)) /\ WF_hubVars(WriterEnds(c))
          /\ WF_hubVars(ReaderEnds(c))

FairHub == HubSpec /\ HubFairness

-----------------------------------------------------------------------------
(* Properties *)

\* A client in a room has an open channel.
MembersOpen == \A c \in member : chan[c] = "open"

\* No channel was closed twice.
ClosedOnce == \A c \in Client : chan[c] # "closed twice"

\* A client that has left is closed, so that its writePump can end.
LeftIsClosed == \A c \in Client \ member :
    conn[c] \in {"none", "new"} \/ chan[c] = "closed"

\* Although unregistering, Run, and any number of publishers may have found the
\* same client slow or gone, its channel is closed once and when it leaves its
\* room, neither later (its writePump would never end) nor sooner: Run, whose
\* panic nobody recovers, never sends on a closed channel.
RoomsAndChannels == MembersOpen /\ ClosedOnce /\ LeftIsClosed

\* A connection that is gone leaves nothing behind: its room entry and both of
\* its goroutines end.
GoneIsCleaned == \A c \in Client :
    conn[c] = "broken" ~> (c \notin member /\ reader[c] = "off" /\ writer[c] = "off")

\* What the comment on SendToUser promises: the message goes to all connections
\* of the user (those that are there and not slow).
AllConnectionsReached == missed = {}
=============================================================================

------------------------------ MODULE EndsProofs ------------------------------
(* Proofs about the connections and what polls over them: the hub's rooms   *)
(* and channels, the workspaces a daemon watches, and the types of the mesh *)
(* link, the probes and the conversations; for any number of clients,       *)
(* workspaces, conversations and requests in flight.                        *)
EXTENDS MCEnds, FiniteSetTheorems, TLAPS

(* The hub *)

\* A connection that Run has not registered has no room and no pumps, and its
\* channel is open. So no Unregister can come before the Register.
NotYetIn == \A c \in Client : conn[c] \in {"none", "new"} =>
    c \notin member /\ chan[c] = "open" /\ reader[c] = "none" /\ writer[c] = "none"

HubInv == HubTypeOK /\ RoomsAndChannels /\ NotYetIn

-----------------------------------------------------------------------------
(* Type correctness of what the methods do *)

LEMMA OfferTyped ==
  ASSUME HubTypeOK, NEW S, Offer(S)
  PROVE  buf' \in [Client -> 0..BufSize]
  <1>1. \A c \in Client : buf[c] \in 0..BufSize
    BY DEF HubTypeOK
  <1>2. \A c \in Client : (IF c \in S /\ ~Full(c) THEN buf[c] + 1 ELSE buf[c]) \in 0..BufSize
    BY <1>1, HubConstants DEF Full
  <1> QED BY <1>2 DEF Offer

LEMMA RemovingTyped ==
  ASSUME NEW slow \in SUBSET Client
  PROVE  RemovingNext(slow) \in [pc: {"idle", "send", "remove"},
                                 targets: SUBSET Client, slow: SUBSET Client]
  BY DEF RemovingNext, NoCall

\* The steps that change neither rooms nor channels nor connections.
LEMMA Elsewhere ==
  ASSUME HubInv, HubTypeOK', UNCHANGED <<member, chan, conn, reader, writer>>
  PROVE  HubInv'
  BY DEF HubInv, RoomsAndChannels, MembersOpen, ClosedOnce, LeftIsClosed, NotYetIn

\* Removing some clients: those in their room are open, and so closed once;
\* those that have left before are closed already and stay so.
LEMMA Removal ==
  ASSUME HubInv, NEW S \in SUBSET Client, Remove(S), UNCHANGED <<conn, writer>>,
         \A c \in Client : reader'[c] = "none" <=> reader[c] = "none"
  PROVE  /\ member' \subseteq Client /\ chan' \in [Client -> {"open", "closed", "closed twice"}]
         /\ RoomsAndChannels' /\ NotYetIn'
  <1>1. \A c \in Client : chan'[c] = IF c \in S \intersect member THEN Closed(c) ELSE chan[c]
    BY DEF Remove
  <1>3. member' = member \ S
    BY DEF Remove
  <1> USE DEF HubInv, HubTypeOK, RoomsAndChannels, MembersOpen, ClosedOnce, LeftIsClosed
  <1>2. \A c \in S \intersect member : Closed(c) = "closed"
    BY DEF Closed
  <1>4. chan' \in [Client -> {"open", "closed", "closed twice"}]
    BY <1>2 DEF Remove
  <1>5. MembersOpen' /\ ClosedOnce' /\ LeftIsClosed'
    <2>1. \A c \in Client : chan'[c] = IF c \in S \intersect member THEN "closed" ELSE chan[c]
      BY <1>1, <1>2
    <2>2. MembersOpen'
      BY <1>3, <2>1
    <2>3. ClosedOnce'
      BY <2>1
    <2>4. LeftIsClosed'
      BY <1>3, <2>1
    <2> QED BY <2>2, <2>3, <2>4
  <1>6. NotYetIn'
    BY <1>1, <1>3 DEF NotYetIn
  <1> QED BY <1>3, <1>4, <1>5, <1>6

-----------------------------------------------------------------------------
(* Every step *)

LEMMA RunStep ==
  ASSUME HubInv,
         \/ \E c \in Client : Connect(c) \/ Register(c) \/ Unregister(c)
         \/ Broadcast \/ RunRemoves
  PROVE  HubInv'
  <1> USE DEF HubInv
  <1>1. ASSUME NEW c \in Client, Connect(c) PROVE HubInv'
    <2>1. HubTypeOK'
      BY <1>1 DEF Connect, HubTypeOK
    <2>2. \A d \in Client : conn'[d] = conn[d] \/ (conn[d] = "none" /\ conn'[d] = "new")
      BY <1>1 DEF Connect, HubTypeOK
    <2>3. UNCHANGED <<member, chan, reader, writer>>
      BY <1>1 DEF Connect
    <2>4. RoomsAndChannels'
      BY <2>2, <2>3 DEF RoomsAndChannels, MembersOpen, ClosedOnce, LeftIsClosed
    <2>5. NotYetIn'
      BY <2>2, <2>3 DEF NotYetIn
    <2> QED BY <2>1, <2>4, <2>5
  <1>2. ASSUME NEW c \in Client, Register(c) PROVE HubInv'
    <2>1. HubTypeOK'
      <3>1. /\ conn' \in [Client -> {"none", "new", "open", "broken"}]
            /\ reader' \in [Client -> {"none", "on", "leaving", "off"}]
            /\ writer' \in [Client -> {"none", "on", "off"}]
        BY <1>2 DEF Register, HubTypeOK
      <3>2. member' \subseteq Client
        BY <1>2 DEF Register, HubTypeOK
      <3> QED BY <1>2, <3>1, <3>2 DEF Register, HubTypeOK
    <2>2. c \notin member /\ chan[c] = "open" /\ conn'[c] = "open"
      BY <1>2 DEF Register, NotYetIn, HubTypeOK
    <2>3. RoomsAndChannels'
      <3>1. member' = member \union {c} /\ UNCHANGED chan
            /\ \A d \in Client \ {c} : conn'[d] = conn[d]
        BY <1>2 DEF Register, HubTypeOK
      <3> QED BY <2>2, <3>1 DEF RoomsAndChannels, MembersOpen, ClosedOnce, LeftIsClosed
    <2>4. NotYetIn'
      BY <1>2, <2>2 DEF Register, HubTypeOK, NotYetIn
    <2> QED BY <2>1, <2>3, <2>4
  <1>3. ASSUME NEW c \in Client, Unregister(c) PROVE HubInv'
    <2>1. \A d \in Client : reader'[d] = "none" <=> reader[d] = "none"
      BY <1>3 DEF Unregister, HubTypeOK
    <2>2. /\ member' \subseteq Client /\ chan' \in [Client -> {"open", "closed", "closed twice"}]
          /\ RoomsAndChannels' /\ NotYetIn'
      BY <1>3, <2>1, Removal DEF Unregister
    <2>3. HubTypeOK'
      BY <1>3, <2>2 DEF Unregister, HubTypeOK
    <2> QED BY <2>2, <2>3
  <1>4. CASE Broadcast
    <2>1. buf' \in [Client -> 0..BufSize]
      BY <1>4, OfferTyped DEF Broadcast
    <2>2. HubTypeOK'
      BY <1>4, <2>1 DEF Broadcast, HubTypeOK, clientVars, SlowIn
    <2> QED BY <1>4, <2>2, Elsewhere DEF Broadcast, clientVars
  <1>5. CASE RunRemoves
    <2>1. /\ member' \subseteq Client /\ chan' \in [Client -> {"open", "closed", "closed twice"}]
          /\ RoomsAndChannels' /\ NotYetIn'
      BY <1>5, Removal DEF RunRemoves, clientVars, HubTypeOK
    <2>2. HubTypeOK'
      BY <1>5, <2>1 DEF RunRemoves, HubTypeOK, clientVars
    <2> QED BY <2>1, <2>2
  <1> QED BY <1>1, <1>2, <1>3, <1>4, <1>5

LEMMA PublisherStep ==
  ASSUME HubInv, NEW p \in Publisher,
         \/ \E w \in Room : BroadcastToWorkspace(p, w)
         \/ \E u \in User, w \in Room \union {""} : SendToUser(p, u, w)
         \/ \E c \in Client : SendNext(p, c) \/ SendPanics(p, c)
         \/ PublisherRemoves(p)
  PROVE  HubInv'
  <1> USE DEF HubInv
  <1>1. ASSUME NEW w \in Room, BroadcastToWorkspace(p, w) PROVE HubInv'
    <2> DEFINE room == {c \in member : roomOf[c] = w}
    <2>1. buf' \in [Client -> 0..BufSize]
      BY <1>1, OfferTyped DEF BroadcastToWorkspace
    <2>2. SlowIn(room) \in SUBSET Client
      BY DEF SlowIn, HubTypeOK
    <2>3. HubTypeOK'
      BY <1>1, <2>1, <2>2, RemovingTyped DEF BroadcastToWorkspace, SetCall, HubTypeOK, clientVars
    <2> QED BY <1>1, <2>3, Elsewhere DEF BroadcastToWorkspace, clientVars
  <1>2. ASSUME NEW u \in User, NEW w \in Room \union {""}, SendToUser(p, u, w) PROVE HubInv'
    <2>1. Connections(u, w) \in SUBSET Client
      BY DEF Connections, HubTypeOK
    <2>2. HubTypeOK'
      BY <1>2, <2>1 DEF SendToUser, SetCall, HubTypeOK, clientVars
    <2> QED BY <1>2, <2>2, Elsewhere DEF SendToUser, clientVars
  <1>3. ASSUME NEW c \in Client, SendNext(p, c) PROVE HubInv'
    <2> DEFINE rest == pub[p].targets \ {c}
               slow == pub[p].slow \union SlowIn({c})
               next == IF rest = {} THEN RemovingNext(slow)
                       ELSE [pc |-> "send", targets |-> rest, slow |-> slow]
    <2>1. buf' \in [Client -> 0..BufSize]
      BY <1>3, OfferTyped DEF SendNext
    <2>2. rest \in SUBSET Client /\ slow \in SUBSET Client
      BY DEF HubTypeOK, SlowIn
    <2>3. next \in [pc: {"idle", "send", "remove"}, targets: SUBSET Client, slow: SUBSET Client]
      BY <2>2, RemovingTyped
    <2>4. pub' = [pub EXCEPT ![p] = next]
      BY <1>3 DEF SendNext, SetCall
    <2> HIDE DEF next
    <2>5. HubTypeOK'
      BY <1>3, <2>1, <2>3, <2>4 DEF SendNext, HubTypeOK, clientVars
    <2> QED BY <1>3, <2>5, Elsewhere DEF SendNext, clientVars
  <1>4. ASSUME NEW c \in Client, SendPanics(p, c) PROVE HubInv'
    <2>1. HubTypeOK'
      BY <1>4 DEF SendPanics, SetCall, NoCall, HubTypeOK, clientVars
    <2> QED BY <1>4, <2>1, Elsewhere DEF SendPanics, clientVars
  <1>5. CASE PublisherRemoves(p)
    <2>1. pub[p].slow \in SUBSET Client
      BY DEF HubTypeOK
    <2>2. /\ member' \subseteq Client /\ chan' \in [Client -> {"open", "closed", "closed twice"}]
          /\ RoomsAndChannels' /\ NotYetIn'
      BY <1>5, <2>1, Removal DEF PublisherRemoves, clientVars
    <2>3. HubTypeOK'
      BY <1>5, <2>2 DEF PublisherRemoves, SetCall, NoCall, HubTypeOK, clientVars
    <2> QED BY <2>2, <2>3
  <1> QED BY <1>1, <1>2, <1>3, <1>4, <1>5

LEMMA PumpStep ==
  ASSUME HubInv,
         \/ \E c \in Client : WriteMessage(c) \/ WriterEnds(c) \/ Breaks(c) \/ ReaderEnds(c)
         \/ \E u \in User : PushToUser(u)
  PROVE  HubInv'
  <1> USE DEF HubInv
  <1>1. ASSUME NEW u \in User, PushToUser(u) PROVE HubInv'
    <2>1. buf' \in [Client -> 0..BufSize]
      BY <1>1, OfferTyped DEF PushToUser
    <2>2. HubTypeOK'
      BY <1>1, <2>1 DEF PushToUser, HubTypeOK, clientVars
    <2> QED BY <1>1, <2>2, Elsewhere DEF PushToUser, clientVars
  <1>2. ASSUME NEW c \in Client, WriteMessage(c) \/ WriterEnds(c) \/ Breaks(c) \/ ReaderEnds(c)
        PROVE  HubInv'
    <2>1. buf' \in [Client -> 0..BufSize]
      <3>1. buf[c] \in 0..BufSize /\ buf \in [Client -> 0..BufSize] /\ BufSize \in Nat
        BY HubConstants DEF HubTypeOK
      <3> QED BY <1>2, <3>1 DEF WriteMessage, WriterEnds, Breaks, ReaderEnds
    <2>2. HubTypeOK'
      <3>1. CASE WriteMessage(c)
        BY <2>1, <3>1 DEF WriteMessage, HubTypeOK
      <3>2. CASE WriterEnds(c)
        <4>1. writer' \in [Client -> {"none", "on", "off"}]
          BY <3>2 DEF WriterEnds, HubTypeOK
        <4>2. conn' \in [Client -> {"none", "new", "open", "broken"}]
          BY <3>2 DEF WriterEnds, HubTypeOK
        <4> QED BY <2>1, <3>2, <4>1, <4>2 DEF WriterEnds, HubTypeOK
      <3>3. CASE Breaks(c)
        BY <2>1, <3>3 DEF Breaks, HubTypeOK
      <3>4. CASE ReaderEnds(c)
        BY <2>1, <3>4 DEF ReaderEnds, HubTypeOK
      <3> QED BY <1>2, <3>1, <3>2, <3>3, <3>4
    <2>3. \A d \in Client : /\ conn'[d] = conn[d] \/ conn'[d] = "broken"
                            /\ conn'[d] \in {"none", "new"} <=> conn[d] \in {"none", "new"}
      BY <1>2 DEF WriteMessage, WriterEnds, Breaks, ReaderEnds, HubTypeOK, NotYetIn
    <2>4. UNCHANGED <<member, chan>>
      BY <1>2 DEF WriteMessage, WriterEnds, Breaks, ReaderEnds
    <2>5. RoomsAndChannels'
      BY <2>3, <2>4 DEF RoomsAndChannels, MembersOpen, ClosedOnce, LeftIsClosed
    <2>6. \A d \in Client : reader[d] = "none" /\ writer[d] = "none"
                               => reader'[d] = "none" /\ writer'[d] = "none"
      <3>1. CASE WriteMessage(c)
        BY <3>1 DEF WriteMessage, HubTypeOK
      <3>4. CASE Breaks(c)
        BY <3>4 DEF Breaks
      <3>2. CASE WriterEnds(c)
        BY <3>2 DEF WriterEnds, HubTypeOK
      <3>3. CASE ReaderEnds(c)
        BY <3>3 DEF ReaderEnds, HubTypeOK
      <3> QED BY <1>2, <3>1, <3>2, <3>3, <3>4
    <2>7. NotYetIn'
      BY <2>3, <2>4, <2>6 DEF NotYetIn
    <2> QED BY <2>2, <2>5, <2>7
  <1> QED BY <1>1, <1>2

-----------------------------------------------------------------------------
(* Theorems *)

\* The inductive invariant: rooms, channels and pumps agree in every state.
THEOREM HubInvariant == HubSpec => []HubInv
  <1>1. HubInit => HubInv
    BY HubConstants DEF HubInit, HubInv, HubTypeOK, NoCall, RoomsAndChannels, MembersOpen,
                        ClosedOnce, LeftIsClosed, NotYetIn
  <1>2. HubInv /\ [HubNext]_hubVars => HubInv'
    <2> SUFFICES ASSUME HubInv, [HubNext]_hubVars PROVE HubInv'
      OBVIOUS
    <2>1. CASE UNCHANGED hubVars
      <3>1. HubTypeOK'
        BY <2>1 DEF HubInv, HubTypeOK, hubVars, clientVars
      <3> QED BY <2>1, <3>1, Elsewhere DEF hubVars, clientVars
    <2> QED BY <2>1, RunStep, PublisherStep, PumpStep DEF HubNext
  <1> QED BY <1>1, <1>2, PTL DEF HubSpec

\* Every variable of the hub keeps its type.
THEOREM HubTyped == HubSpec => []HubTypeOK
  <1>1. HubInv => HubTypeOK
    BY DEF HubInv
  <1> QED BY <1>1, HubInvariant, PTL

\* Run, unregistering and publishers may all have found the same client slow or
\* gone: it is closed once, and exactly when it leaves its room.
THEOREM HubRoomsAndChannels == HubSpec => []RoomsAndChannels
  <1>1. HubInv => RoomsAndChannels
    BY DEF HubInv
  <1> QED BY <1>1, HubInvariant, PTL

-----------------------------------------------------------------------------
(* The workspaces a daemon watches *)

\* The workspace whose registration is in flight is one the load has yet to
\* register, and only a daemon that loads or serves has a load under way.
LoadUnderWay ==
    /\ ~load.on => load.todo = {}
    /\ registering # NoSpace => registering \in load.todo
    /\ daemon = "loading" => load.on
    /\ daemon \in {"down", "starting"} => ~load.on
    /\ daemon = "down" => following = {}

\* What the file lists is served, or about to be, or given up: from the first
\* load to the first look at the file's time, and during a reload whose list is
\* still the file's.
ListedOrTried(ids) == ids \ skipped \subseteq following \cup load.todo
FirstLoad == daemon \in {"loading", "starting"} =>
    /\ ListedOrTried(config)
    /\ (following \cup load.todo) \ skipped \subseteq config
Reload == daemon = "up" /\ load.on /\ ~changed => load.ids = config /\ ListedOrTried(config)

WatchInv == WatchTypeOK /\ LoadUnderWay /\ FirstLoad /\ Reload /\ FollowsConfig

LEMMA WatchBounds == /\ MaxConfigEdits \in Nat /\ MaxLosses \in Nat /\ MaxStarts \in Nat
                     /\ NoSpace \notin Spaces
  BY WatchAssumption

LEMMA WatchStart == WatchInit => WatchInv
  <1> SUFFICES ASSUME WatchInit PROVE WatchInv
    OBVIOUS
  <1> USE WatchBounds DEF WatchInit, NoLoad, NoEdit
  <1>1. WatchTypeOK
    <2>1. edit \in [Editors -> Edit]
      BY DEF Edit
    <2>2. presence \in [Spaces -> {"none", "online", "silent", "offline"}]
      OBVIOUS
    <2>3. configEdits \in 0..MaxConfigEdits /\ losses \in 0..MaxLosses /\ starts \in 0..MaxStarts
      OBVIOUS
    <2> QED BY <2>1, <2>2, <2>3 DEF WatchTypeOK
  <1>2. LoadUnderWay /\ FirstLoad /\ Reload /\ FollowsConfig
    BY DEF LoadUnderWay, FirstLoad, Reload, FollowsConfig
  <1> QED BY <1>1, <1>2 DEF WatchInv

\* Commands that have not written yet change nothing the daemon follows.
LEMMA WatchFrame ==
  ASSUME WatchInv, WatchTypeOK', UNCHANGED <<config, changed, machineSide>>
  PROVE  WatchInv'
  BY DEF WatchInv, LoadUnderWay, FirstLoad, Reload, ListedOrTried, FollowsConfig, machineSide

LEMMA EditorStep ==
  ASSUME WatchInv,
         \/ SyncWorkspacesFromAPI \/ \E e \in Editors : LoadConfig(e)
         \/ \E w \in Spaces : RunWatch(w) \/ RunUnwatch(w) \/ MembershipChanges(w)
  PROVE  WatchInv'
  <1> USE WatchBounds DEF WatchInv
  <1>1. CASE SyncWorkspacesFromAPI
    <2>1. edit' \in [Editors -> Edit]
      BY <1>1 DEF SyncWorkspacesFromAPI, WatchTypeOK, Edit, NoEdit, Editors
    <2>2. WatchTypeOK'
      BY <1>1, <2>1 DEF SyncWorkspacesFromAPI, WatchTypeOK, machineSide, rowVars, boundVars
    <2> QED BY <1>1, <2>2, WatchFrame DEF SyncWorkspacesFromAPI
  <1>2. ASSUME NEW e \in Editors, LoadConfig(e) PROVE WatchInv'
    <2>1. edit' \in [Editors -> Edit]
      BY <1>2 DEF LoadConfig, WatchTypeOK, Edit
    <2>2. WatchTypeOK'
      BY <1>2, <2>1 DEF LoadConfig, WatchTypeOK, machineSide, rowVars, boundVars
    <2> QED BY <1>2, <2>2, WatchFrame DEF LoadConfig
  <1>3. ASSUME NEW w \in Spaces, RunWatch(w) \/ RunUnwatch(w) PROVE WatchInv'
    <2>1. [NoEdit EXCEPT !.pc = "listed", !.add = {w}] \in Edit
      BY DEF NoEdit, Edit
    <2>2. [NoEdit EXCEPT !.pc = "listed", !.drop = {w}] \in Edit
      BY DEF NoEdit, Edit
    <2>3. edit' \in [Editors -> Edit]
      BY <1>3, <2>1, <2>2 DEF RunWatch, RunUnwatch, WatchTypeOK
    <2>4. configEdits' = configEdits + 1 /\ configEdits < MaxConfigEdits /\ configEdits \in 0..MaxConfigEdits
      BY <1>3 DEF RunWatch, RunUnwatch, WatchTypeOK
    <2>5. configEdits' \in 0..MaxConfigEdits
      BY <2>4
    <2>6. UNCHANGED <<belongs, config, changed, machineSide, rowVars, losses, starts>>
      BY <1>3 DEF RunWatch, RunUnwatch
    <2>7. WatchTypeOK'
      BY <2>3, <2>5, <2>6 DEF WatchTypeOK, machineSide, rowVars
    <2> QED BY <2>6, <2>7, WatchFrame
  <1>4. ASSUME NEW w \in Spaces, MembershipChanges(w) PROVE WatchInv'
    <2>1. configEdits' \in 0..MaxConfigEdits
      BY <1>4 DEF MembershipChanges, WatchTypeOK
    <2>2. WatchTypeOK'
      BY <1>4, <2>1 DEF MembershipChanges, WatchTypeOK, machineSide, rowVars
    <2> QED BY <1>4, <2>2, WatchFrame DEF MembershipChanges
  <1> QED BY <1>1, <1>2, <1>3, <1>4

\* A file written while a daemon starts may go unseen, which skipped says.
LEMMA SaveStep ==
  ASSUME WatchInv, NEW e \in Editors, SaveConfig(e)
  PROVE  WatchInv'
  <1> USE DEF WatchInv
  <1>1. edit[e] \in Edit
    BY DEF WatchTypeOK
  <1>2. Edited(e) \subseteq Spaces
    BY <1>1 DEF Edited, Edit
  <1>3. NoEdit \in Edit
    BY DEF NoEdit, Edit
  <1>4. config' \subseteq Spaces /\ changed' \in BOOLEAN /\ skipped' \subseteq Spaces
    BY <1>2 DEF SaveConfig, WatchTypeOK
  <1>5. edit' \in [Editors -> Edit]
    BY <1>3 DEF SaveConfig, WatchTypeOK
  <1>6. WatchTypeOK'
    BY <1>4, <1>5 DEF SaveConfig, WatchTypeOK, rowVars, boundVars
  <1>7. CASE UNCHANGED <<config, changed, skipped>>
    BY <1>6, <1>7, WatchFrame DEF SaveConfig, machineSide
  <1>8. CASE changed' = TRUE /\ skipped' = IF daemon \in {"loading", "starting"}
                                           THEN skipped \cup Spaces ELSE skipped
    <2>1. LoadUnderWay' /\ Reload' /\ FollowsConfig'
      BY <1>8 DEF SaveConfig, LoadUnderWay, Reload, FollowsConfig
    <2>2. FirstLoad'
      BY <1>6, <1>8 DEF SaveConfig, FirstLoad, ListedOrTried, WatchTypeOK
    <2> QED BY <1>6, <2>1, <2>2
  <1> QED BY <1>7, <1>8 DEF SaveConfig

\* The daemon's load: each call in flight is one of todo, and takes its
\* workspace out of it.
LEMMA CallEnds ==
  ASSUME WatchInv, RegisterLands \/ RegisterFails \/ RegisterRefused
  PROVE  WatchInv'
  <1> USE DEF WatchInv
  <1>1. PICK w \in Spaces : w = registering
    BY DEF RegisterLands, RegisterFails, RegisterRefused, WatchTypeOK
  <1>2. /\ load.on /\ w \in load.todo
        /\ load' = [load EXCEPT !.todo = @ \ {w}] /\ registering' = NoSpace
        /\ \/ following' = following /\ skipped' = skipped \cup {w}
           \/ following' = following \cup {w} /\ skipped' = skipped
        /\ UNCHANGED <<fileVars, daemon, rowVars, configEdits, starts>>
    <2>1. load.on /\ w \in load.todo
      BY <1>1, WatchBounds DEF LoadUnderWay, WatchTypeOK
    <2>2. CASE RegisterLands
      BY <1>1, <2>1, <2>2 DEF RegisterLands, boundVars
    <2>3. CASE RegisterFails
      BY <1>1, <2>1, <2>3 DEF RegisterFails
    <2>4. CASE RegisterRefused
      BY <1>1, <2>1, <2>4 DEF RegisterRefused, boundVars
    <2> QED BY <2>2, <2>3, <2>4
  <1>3. /\ load'.on = load.on /\ load'.ids = load.ids /\ load'.todo = load.todo \ {w}
        /\ load' \in [on : BOOLEAN, ids : SUBSET Spaces, todo : SUBSET Spaces]
    BY <1>2 DEF WatchTypeOK
  <1>4. answered' \in BOOLEAN /\ losses' \in 0..MaxLosses
    <2>1. losses' = losses \/ (losses' = losses + 1 /\ losses < MaxLosses)
      BY DEF RegisterLands, RegisterFails, RegisterRefused, boundVars
    <2>2. losses \in 0..MaxLosses /\ answered \in BOOLEAN
      BY DEF WatchTypeOK
    <2>3. losses' \in 0..MaxLosses
      BY <2>1, <2>2, WatchBounds
    <2>4. answered' \in BOOLEAN
      BY <2>2 DEF RegisterLands, RegisterFails, RegisterRefused
    <2> QED BY <2>3, <2>4
  <1>5. following' \subseteq Spaces /\ skipped' \subseteq Spaces
    BY <1>2 DEF WatchTypeOK
  <1>6. WatchTypeOK'
    BY <1>2, <1>3, <1>4, <1>5 DEF WatchTypeOK, fileVars, rowVars
  <1>7. LoadUnderWay'
    BY <1>2, <1>3, WatchBounds DEF LoadUnderWay
  <1>8. FirstLoad' /\ Reload'
    BY <1>2, <1>3 DEF FirstLoad, Reload, ListedOrTried, fileVars
  <1>9. FollowsConfig'
    BY <1>2, <1>3 DEF FollowsConfig
  <1> QED BY <1>6, <1>7, <1>8, <1>9

LEMMA LoadStep ==
  ASSUME WatchInv,
         \/ Run \/ LoadWatchedWorkspaces \/ FirstStat \/ ReloadWorkspaces \/ ReloadEnds \/ Stop
         \/ \E w \in Spaces : RegisterRuntimes(w)
  PROVE  WatchInv'
  <1> USE WatchBounds DEF WatchInv
  <1>1. CASE Run
    <2>1. /\ load'.on = TRUE /\ load'.ids = config /\ load'.todo = config
          /\ load' \in [on : BOOLEAN, ids : SUBSET Spaces, todo : SUBSET Spaces]
      BY <1>1 DEF Run, LoadOf, WatchTypeOK
    <2>2. starts' \in 0..MaxStarts
      BY <1>1 DEF Run, WatchTypeOK
    <2>3. WatchTypeOK'
      BY <1>1, <2>1, <2>2 DEF Run, WatchTypeOK, fileVars, rowVars
    <2>4. LoadUnderWay'
      BY <1>1, <2>1 DEF Run, LoadUnderWay
    <2>5. FirstLoad' /\ Reload' /\ FollowsConfig'
      BY <1>1, <2>1 DEF Run, LoadUnderWay, FirstLoad, Reload, ListedOrTried, FollowsConfig, fileVars
    <2> QED BY <2>3, <2>4, <2>5
  <1>2. CASE LoadWatchedWorkspaces
    <2>1. load' = NoLoad /\ ~load'.on /\ load'.todo = {} /\ load'.ids = {}
      BY <1>2 DEF LoadWatchedWorkspaces, NoLoad
    <2>2. WatchTypeOK'
      BY <1>2, <2>1 DEF LoadWatchedWorkspaces, WatchTypeOK, NoLoad, fileVars, rowVars, boundVars
    <2>3. LoadUnderWay'
      BY <1>2, <2>1 DEF LoadWatchedWorkspaces, Loaded, LoadUnderWay
    <2>4. FirstLoad' /\ Reload' /\ FollowsConfig'
      BY <1>2, <2>1 DEF LoadWatchedWorkspaces, Loaded, FirstLoad, Reload, ListedOrTried, FollowsConfig, fileVars
    <2> QED BY <2>2, <2>3, <2>4
  <1>3. CASE FirstStat
    <2>1. WatchTypeOK'
      BY <1>3 DEF FirstStat, WatchTypeOK, rowVars, boundVars
    <2>2. LoadUnderWay' /\ Reload' /\ FirstLoad'
      BY <1>3 DEF FirstStat, LoadUnderWay, FirstLoad, Reload
    <2>3. FollowsConfig'
      BY <1>3 DEF FirstStat, LoadUnderWay, FirstLoad, ListedOrTried, FollowsConfig
    <2> QED BY <2>1, <2>2, <2>3
  <1>4. CASE ReloadWorkspaces
    <2>1. /\ load'.on = TRUE /\ load'.ids = config /\ load'.todo = config \ following
          /\ load' \in [on : BOOLEAN, ids : SUBSET Spaces, todo : SUBSET Spaces]
      BY <1>4 DEF ReloadWorkspaces, LoadOf, WatchTypeOK
    <2>2. WatchTypeOK'
      BY <1>4, <2>1 DEF ReloadWorkspaces, WatchTypeOK, rowVars, boundVars
    <2>3. LoadUnderWay'
      BY <1>4, <2>1 DEF ReloadWorkspaces, LoadUnderWay
    <2>4. FirstLoad' /\ Reload' /\ FollowsConfig'
      BY <1>4, <2>1 DEF ReloadWorkspaces, FirstLoad, Reload, ListedOrTried, FollowsConfig
    <2> QED BY <2>2, <2>3, <2>4
  <1>5. CASE ReloadEnds
    <2>1. load' = NoLoad /\ ~load'.on /\ load'.todo = {} /\ load'.ids = {}
      BY <1>5 DEF ReloadEnds, NoLoad
    <2>2. following' = following \cap load.ids /\ changed' = changed /\ load.todo = {} /\ load.on
      BY <1>5 DEF ReloadEnds, StillWatched, StillChanged, Loaded
    <2>3. WatchTypeOK'
      BY <1>5, <2>1, <2>2 DEF ReloadEnds, WatchTypeOK, NoLoad, rowVars, boundVars
    <2>4. LoadUnderWay' /\ FirstLoad' /\ Reload'
      BY <1>5, <2>1 DEF ReloadEnds, Loaded, LoadUnderWay, FirstLoad, Reload
    <2>5. FollowsConfig'
      BY <1>5, <2>2 DEF ReloadEnds, Reload, ListedOrTried, FollowsConfig
    <2> QED BY <2>3, <2>4, <2>5
  <1>6. CASE Stop
    <2>1. load' = NoLoad /\ ~load'.on /\ load'.todo = {} /\ load'.ids = {}
      BY <1>6 DEF Stop, NoLoad
    <2>2. NoEdit \in Edit
      BY DEF Edit, NoEdit
    <2>3. edit' \in [Editors -> Edit]
      BY <1>6, <2>2 DEF Stop, WatchTypeOK
    <2>4. farewell' \subseteq Spaces
      <3>1. PICK f \in {{}, following} : farewell' = farewell \cup f
        BY <1>6 DEF Stop
      <3> QED BY <3>1 DEF WatchTypeOK
    <2>5. WatchTypeOK'
      <3>1. load' \in [on : BOOLEAN, ids : SUBSET Spaces, todo : SUBSET Spaces]
        BY <2>1 DEF NoLoad
      <3>2. /\ daemon' = "down" /\ following' = {} /\ registering' = NoSpace
            /\ answered' = FALSE /\ skipped' = {}
            /\ UNCHANGED <<belongs, config, changed, beats, presence, boundVars>>
        BY <1>6 DEF Stop
      <3> QED BY <2>3, <2>4, <3>1, <3>2 DEF WatchTypeOK, boundVars
    <2>6. LoadUnderWay' /\ FirstLoad' /\ Reload' /\ FollowsConfig'
      BY <1>6, <2>1 DEF Stop, LoadUnderWay, FirstLoad, Reload, FollowsConfig
    <2> QED BY <2>5, <2>6
  <1>7. ASSUME NEW w \in Spaces, RegisterRuntimes(w) PROVE WatchInv'
    <2>1. WatchTypeOK'
      BY <1>7 DEF RegisterRuntimes, WatchTypeOK, fileVars, rowVars, boundVars
    <2>2. LoadUnderWay' /\ FirstLoad' /\ Reload' /\ FollowsConfig'
      BY <1>7 DEF RegisterRuntimes, LoadUnderWay, FirstLoad, Reload, ListedOrTried, FollowsConfig, fileVars
    <2> QED BY <2>1, <2>2
  <1> QED BY <1>1, <1>2, <1>3, <1>4, <1>5, <1>6, <1>7

\* The server, and what is on its way to it, change nothing of this.
LEMMA PresenceStep ==
  ASSUME WatchInv,
         \/ DaemonRegister \/ FarewellArrives \/ FarewellLost
         \/ \E w \in Spaces : \/ SendHeartbeat(w) \/ HeartbeatArrives(w) \/ HeartbeatLost(w)
                              \/ GrowsStale(w) \/ SweepsSilent(w)
  PROVE  WatchInv'
  <1> USE DEF WatchInv
  <1>1. /\ presence' \in [Spaces -> {"none", "online", "silent", "offline"}]
        /\ beats' \subseteq Spaces /\ farewell' \subseteq Spaces
    BY DEF DaemonRegister, FarewellArrives, FarewellLost, SendHeartbeat, HeartbeatArrives,
           HeartbeatLost, GrowsStale, SweepsSilent, WatchTypeOK
  <1>2. /\ UNCHANGED <<fileVars, daemon, following, load, registering, skipped, boundVars>>
        /\ answered' \in BOOLEAN
    BY DEF DaemonRegister, FarewellArrives, FarewellLost, SendHeartbeat, HeartbeatArrives,
           HeartbeatLost, GrowsStale, SweepsSilent, WatchTypeOK, machineSide
  <1>3. WatchTypeOK'
    BY <1>1, <1>2 DEF WatchTypeOK, fileVars, boundVars
  <1>4. LoadUnderWay' /\ FirstLoad' /\ Reload' /\ FollowsConfig'
    BY <1>2 DEF LoadUnderWay, FirstLoad, Reload, ListedOrTried, FollowsConfig, fileVars
  <1> QED BY <1>3, <1>4

LEMMA WatchStep == WatchInv /\ [WatchNext]_watchVars => WatchInv'
  <1> SUFFICES ASSUME WatchInv, [WatchNext]_watchVars PROVE WatchInv'
    OBVIOUS
  <1>1. CASE UNCHANGED watchVars
    <2>1. WatchTypeOK'
      BY <1>1 DEF WatchInv, WatchTypeOK, watchVars
    <2> QED BY <1>1, <2>1, WatchFrame DEF watchVars, machineSide
  <1>2. CASE WatchNext
    BY <1>2, EditorStep, SaveStep, CallEnds, LoadStep, PresenceStep DEF WatchNext
  <1> QED BY <1>1, <1>2

\* The inductive invariant: from the daemon's start on, what the file lists is
\* served, still to be registered, or given up.
THEOREM WatchInvariant == WatchSpec => []WatchInv
  BY WatchStart, WatchStep, PTL DEF WatchSpec

\* configWatchLoop and reloadWorkspaces: when the file's last change was seen
\* and no reload is under way, the daemon serves what the file lists, except
\* what failed to register, for any number of workspaces, commands and losses.
THEOREM WatchFollowsConfig == WatchSpec => [](WatchTypeOK /\ FollowsConfig)
  <1>1. WatchInv => WatchTypeOK /\ FollowsConfig
    BY DEF WatchInv
  <1> QED BY <1>1, WatchInvariant, PTL

-----------------------------------------------------------------------------
(* The mesh link *)

\* Requests in flight are of agents.
LinkCalls == linkCalls \subseteq [op : {"register", "refresh"}, as : Agents]
LinkInv == LinkTypeOK /\ LinkCalls

LEMMA LinkStart == LinkInit => LinkInv
  <1> SUFFICES ASSUME LinkInit PROVE LinkInv
    OBVIOUS
  <1>1. delay \in {1, 2, 4, 6} /\ drops \in 0..MaxDrops
    BY LinkAssumption DEF LinkInit
  <1>2. wsConnected => ws = "open"
    BY DEF LinkInit
  <1>3. agentId = NoAgent <=> registered = {}
    BY DEF LinkInit
  <1>4. linkCalls \subseteq [op : {"register", "refresh"}, as : Agents]
    BY DEF LinkInit
  <1> QED BY <1>1, <1>2, <1>3, <1>4 DEF LinkInit, LinkInv, LinkTypeOK, LinkCalls, MaybeAgent

LEMMA LinkStep == LinkInv /\ [LinkNext]_linkVars => LinkInv'
  <1> SUFFICES ASSUME LinkInv, [LinkNext]_linkVars PROVE LinkInv'
    OBVIOUS
  <1> USE LinkAssumption DEF LinkInv, LinkCalls, LinkTypeOK
  <1>1. CASE AskRegister
    <2>1. PICK a \in Agents \ registered : linkCalls' = linkCalls \cup {[op |-> "register", as |-> a]}
      BY <1>1 DEF AskRegister
    <2> QED BY <1>1, <2>1 DEF AskRegister, linkTokenVars, linkSocketVars
  <1>2. CASE Registered
    <2>1. PICK r \in linkCalls : /\ linkCalls' = linkCalls \ {r} /\ agentId' = r.as /\ token' = r.as
                                 /\ registered' = registered \cup {r.as} /\ ConnectWebSocket(r.as)
      BY <1>2 DEF Registered
    <2>2. r.as \in Agents
      OBVIOUS
    <2>3. ws' \in {"none", "connecting", "open"} /\ wsAs' \in MaybeAgent /\ (wsConnected => ws' = "open")
      BY <2>1, <2>2 DEF ConnectWebSocket, MaybeAgent
    <2>4. expired' = FALSE /\ UNCHANGED <<accepted, wsConnected, timerAs, delay, drops>>
      BY <1>2 DEF Registered
    <2>5. /\ agentId' \in MaybeAgent /\ token' \in MaybeAgent /\ registered' \subseteq Agents
          /\ (agentId' = NoAgent <=> registered' = {}) /\ LinkCalls'
      BY <2>1, <2>2 DEF MaybeAgent
    <2> QED BY <2>3, <2>4, <2>5
  <1>3. CASE RefreshTick
    BY <1>3 DEF RefreshTick, linkTokenVars, linkSocketVars
  <1>4. CASE TokenRefreshed
    <2>1. PICK r \in linkCalls : linkCalls' = linkCalls \ {r} /\ token' = r.as
      BY <1>4 DEF TokenRefreshed
    <2>2. r.as \in Agents
      OBVIOUS
    <2> QED BY <1>4, <2>1, <2>2 DEF TokenRefreshed, linkSocketVars, MaybeAgent
  <1>5. CASE LinkCallFails
    BY <1>5 DEF LinkCallFails, linkSocketVars
  <1>6. CASE LinkSocketOpens
    BY <1>6 DEF LinkSocketOpens, linkTokenVars
  <1>7. CASE Acknowledged
    BY <1>7 DEF Acknowledged, linkTokenVars
  <1>8. CASE LinkSocketCloses
    <2>1. drops' \in 0..MaxDrops
      BY <1>8 DEF LinkSocketCloses
    <2>2. ws' = "none" /\ wsConnected' = FALSE /\ accepted' = FALSE /\ timerAs' \in MaybeAgent
      BY <1>8 DEF LinkSocketCloses, Scheduled, AfterClose
    <2>3. UNCHANGED <<agentId, token, expired, registered, wsAs, delay, linkCalls>>
      BY <1>8 DEF LinkSocketCloses, linkTokenVars
    <2> QED BY <2>1, <2>2, <2>3
  <1>9. CASE ReconnectFires
    <2>1. delay' \in {1, 2, 4, 6}
      BY <1>9 DEF ReconnectFires, Doubled
    <2>2. ws' \in {"none", "connecting", "open"} /\ wsAs' \in MaybeAgent /\ (wsConnected => ws' = "open")
      BY <1>9 DEF ReconnectFires, ConnectWebSocket, MaybeAgent
    <2>3. timerAs' = NoAgent /\ UNCHANGED <<agentId, token, expired, registered, accepted, wsConnected, linkCalls, drops>>
      BY <1>9 DEF ReconnectFires, linkTokenVars
    <2> QED BY <2>1, <2>2, <2>3 DEF MaybeAgent
  <1>10. CASE UNCHANGED linkVars
    BY <1>10 DEF linkVars
  <1> QED BY <1>1, <1>2, <1>3, <1>4, <1>5, <1>6, <1>7, <1>8, <1>9, <1>10 DEF LinkNext

\* Every variable of the link keeps its type: the hub's acknowledgement is of a
\* socket that is open, and there is an agent exactly after a registration.
THEOREM LinkTyped == LinkSpec => []LinkTypeOK
  <1>1. LinkInv => LinkTypeOK
    BY DEF LinkInv
  <1>2. LinkSpec => []LinkInv
    BY LinkStart, LinkStep, PTL DEF LinkSpec
  <1> QED BY <1>1, <1>2, PTL

-----------------------------------------------------------------------------
(* The probes of the runtimes page *)

\* One element of a finite set replaced, or all of them changed, leaves no more.
LEMMA ReplacedIsNoMore ==
  ASSUME NEW S, IsFiniteSet(S), NEW x \in S, NEW y
  PROVE  IsFiniteSet((S \ {x}) \cup {y}) /\ Cardinality((S \ {x}) \cup {y}) <= Cardinality(S)
  <1>1. IsFiniteSet(S \ {x}) /\ Cardinality(S \ {x}) = Cardinality(S) - 1
    BY FS_RemoveElement
  <1>2. IsFiniteSet((S \ {x}) \cup {y})
        /\ Cardinality((S \ {x}) \cup {y}) = IF y \in S \ {x} THEN Cardinality(S \ {x}) ELSE Cardinality(S \ {x}) + 1
    BY <1>1, FS_AddElement
  <1>3. Cardinality(S) \in Nat
    BY FS_CardinalityType
  <1> QED BY <1>1, <1>2, <1>3

LEMMA RemovedIsNoMore ==
  ASSUME NEW S, IsFiniteSet(S), NEW x
  PROVE  IsFiniteSet(S \ {x}) /\ Cardinality(S \ {x}) <= Cardinality(S)
  <1>1. IsFiniteSet(S \ {x})
        /\ Cardinality(S \ {x}) = IF x \in S THEN Cardinality(S) - 1 ELSE Cardinality(S)
    BY FS_RemoveElement
  <1>2. Cardinality(S) \in Nat
    BY FS_CardinalityType
  <1> QED BY <1>1, <1>2

LEMMA AddedIsOneMore ==
  ASSUME NEW S, IsFiniteSet(S), NEW x
  PROVE  IsFiniteSet(S \cup {x}) /\ Cardinality(S \cup {x}) <= Cardinality(S) + 1
  <1>1. IsFiniteSet(S \cup {x})
        /\ Cardinality(S \cup {x}) = IF x \in S THEN Cardinality(S) ELSE Cardinality(S) + 1
    BY FS_AddElement
  <1>2. Cardinality(S) \in Nat
    BY FS_CardinalityType
  <1> QED BY <1>1, <1>2

LEMMA ImageIsNoMore ==
  ASSUME NEW S, IsFiniteSet(S), NEW T, NEW f \in [S -> T], T = {f[x] : x \in S}
  PROVE  IsFiniteSet(T) /\ Cardinality(T) <= Cardinality(S)
  <1>1. f \in Surjection(S, T)
    BY DEF Surjection
  <1> QED BY <1>1, FS_Surjection

\* What the page polls for, starts, or hears of is a request it made.
ProbesMade ==
    /\ starting.id <= Len(probes) /\ pollRef <= Len(probes)
    /\ orphan \subseteq DOMAIN probes /\ \A p \in polls : p.id \in DOMAIN probes
ProbeInv == ProbeTypeOK /\ ProbesMade /\ IsFiniteSet(polls)

LEMMA ProbeStarts == ProbeInit => ProbeInv
  <1> SUFFICES ASSUME ProbeInit PROVE ProbeInv
    OBVIOUS
  <1> USE ProbeAssumption DEF ProbeInit
  <1>1. IsFiniteSet(polls) /\ Cardinality(polls) = 0
    BY FS_EmptySet
  <1>2. NoStart \in ProbeStart /\ NoStart.id = 0
    BY DEF NoStart, ProbeStart
  <1>3. probes \in Seq(Underway \cup Ended) /\ Len(probes) = 0
    OBVIOUS
  <1>4. /\ Len(probes) <= MaxProbes /\ pollRef \in 0..MaxProbes /\ Cardinality(polls) <= MaxPolls
        /\ failures \in 0..MaxFailures
    BY <1>1, <1>3
  <1>5. ProbeTypeOK
    BY <1>2, <1>3, <1>4 DEF ProbeTypeOK
  <1> QED BY <1>1, <1>2, <1>3, <1>5 DEF ProbeInv, ProbesMade

\* The button and its answer.
LEMMA StartStep ==
  ASSUME ProbeInv, Begins \/ Started \/ StartFails \/ ClearsStatus
  PROVE  ProbeInv'
  <1> USE ProbeAssumption DEF ProbeInv
  <1>1. NoStart \in ProbeStart /\ NoStart.id = 0
    BY DEF NoStart, ProbeStart
  <1>2. starting.id \in 0..MaxProbes /\ starting.live \in BOOLEAN /\ Len(probes) \in Nat
    BY DEF ProbeTypeOK, ProbeStart
  <1>3. CASE Begins
    <2>1. /\ probes' \in Seq(Underway \cup Ended) /\ Len(probes') = Len(probes) + 1
          /\ Len(probes') <= MaxProbes
      BY <1>3 DEF Begins, ProbeTypeOK, Underway
    <2>2. starting' \in ProbeStart /\ starting'.id = Len(probes')
      BY <1>2, <1>3, <2>1 DEF Begins, ProbeStart
    <2>3. probeCrossed' \in BOOLEAN
      BY <1>3 DEF Begins
    <2>4. ProbeTypeOK'
      BY <1>3, <2>1, <2>2, <2>3 DEF Begins, ProbeTypeOK, Underway
    <2>5. DOMAIN probes \subseteq DOMAIN probes'
      BY <1>2, <2>1 DEF ProbeTypeOK
    <2>6. ProbesMade'
      BY <1>3, <2>1, <2>2, <2>5 DEF Begins, ProbesMade
    <2> QED BY <1>3, <2>4, <2>6 DEF Begins
  <1>4. CASE Started
    <2>0. starting.id \in 1..MaxProbes /\ starting.id \in DOMAIN probes /\ starting.id <= Len(probes)
      BY <1>2, <1>4 DEF Started, ProbeTypeOK, ProbesMade
    <2>1. /\ pollRef' \in 0..MaxProbes /\ pollRef' <= Len(probes)
          /\ orphan' \subseteq 1..MaxProbes /\ orphan' \subseteq DOMAIN probes
      <3>1. pollRef' \in {pollRef, starting.id} /\ orphan' \subseteq orphan \cup {starting.id}
        BY <1>4 DEF Started
      <3>2. pollRef' \in 0..MaxProbes /\ pollRef' <= Len(probes)
        BY <2>0, <3>1 DEF ProbeTypeOK, ProbesMade
      <3>3. orphan' \subseteq 1..MaxProbes /\ orphan' \subseteq DOMAIN probes
        BY <2>0, <3>1 DEF ProbeTypeOK, ProbesMade
      <3> QED BY <3>2, <3>3
    <2>2. ProbeTypeOK'
      BY <1>1, <1>4, <2>1 DEF Started, ProbeTypeOK
    <2>3. ProbesMade'
      BY <1>1, <1>2, <1>4, <2>1 DEF Started, ProbesMade
    <2> QED BY <1>4, <2>2, <2>3 DEF Started
  <1>5. CASE StartFails
    <2>1. failures' \in 0..MaxFailures
      BY <1>5 DEF StartFails, ProbeTypeOK
    <2>2. status' \in Underway \cup Ended \cup {"none"} /\ testing' \in BOOLEAN
      BY <1>5 DEF StartFails, ProbeTypeOK, Ended
    <2>3. ProbeTypeOK'
      BY <1>1, <1>5, <2>1, <2>2 DEF StartFails, ProbeTypeOK
    <2>4. ProbesMade'
      BY <1>1, <1>2, <1>5 DEF StartFails, ProbesMade
    <2> QED BY <1>5, <2>3, <2>4 DEF StartFails
  <1>6. CASE ClearsStatus
    <2>1. ProbeTypeOK'
      BY <1>6 DEF ClearsStatus, ProbeTypeOK
    <2> QED BY <1>6, <2>1 DEF ClearsStatus, ProbesMade
  <1> QED BY <1>3, <1>4, <1>5, <1>6

\* The server ends a request, or another runtime is shown.
LEMMA ProceedStep ==
  ASSUME ProbeInv, Proceeds \/ Leaves
  PROVE  ProbeInv'
  <1> USE ProbeAssumption DEF ProbeInv
  <1>1. CASE Proceeds
    <2>1. PICK r \in DOMAIN probes, s \in Ended \cup {"running"} : probes' = [probes EXCEPT ![r] = s]
      BY <1>1 DEF Proceeds
    <2>2. /\ probes' \in Seq(Underway \cup Ended) /\ Len(probes') = Len(probes)
          /\ DOMAIN probes' = DOMAIN probes
      BY <2>1 DEF ProbeTypeOK, Underway
    <2>3. ProbeTypeOK'
      BY <1>1, <2>2 DEF Proceeds, ProbeTypeOK
    <2> QED BY <1>1, <2>2, <2>3 DEF Proceeds, ProbesMade
  <1>2. CASE Leaves
    <2>1. IsFiniteSet(polls') /\ Cardinality(polls') <= Cardinality(polls)
      <3>1. polls' = {[p EXCEPT !.live = FALSE] : p \in polls}
        BY <1>2 DEF Leaves
      <3>2. PICK f : f = [p \in polls |-> [p EXCEPT !.live = FALSE]]
        OBVIOUS
      <3>3. f \in [polls -> polls'] /\ polls' = {f[p] : p \in polls}
        BY <3>1, <3>2
      <3> QED BY <3>3, ImageIsNoMore
    <2>2. \A p \in polls' : p \in PollCall /\ \E q \in polls : p.id = q.id
      <3> SUFFICES ASSUME NEW p \in polls' PROVE p \in PollCall /\ \E q \in polls : p.id = q.id
        OBVIOUS
      <3>1. PICK q \in polls : p = [q EXCEPT !.live = FALSE]
        BY <1>2 DEF Leaves
      <3>2. q \in PollCall
        BY DEF ProbeTypeOK
      <3>3. p \in PollCall /\ p.id = q.id
        BY <3>1, <3>2 DEF PollCall
      <3> QED BY <3>3
    <2>3. starting' \in ProbeStart /\ starting'.id = starting.id
      BY <1>2 DEF Leaves, ProbeTypeOK, ProbeStart
    <2>4. Cardinality(polls) \in Nat /\ Cardinality(polls') \in Nat
      BY <2>1, FS_CardinalityType
    <2>5. ProbeTypeOK'
      <3>1. polls' \subseteq PollCall
        BY <2>2
      <3>2. Cardinality(polls') <= MaxPolls
        BY <2>1, <2>4 DEF ProbeTypeOK
      <3>3. /\ status' = "none" /\ testing' = FALSE /\ pollRef' = 0
            /\ UNCHANGED <<section, probes, orphan, failures, probeCrossed>>
        BY <1>2 DEF Leaves
      <3>4. /\ probes' \in Seq(Underway \cup Ended) /\ Len(probes') <= MaxProbes
            /\ orphan' \subseteq 1..MaxProbes /\ failures' \in 0..MaxFailures /\ probeCrossed' \in BOOLEAN
        BY <3>3 DEF ProbeTypeOK
      <3>5. status' \in Underway \cup Ended \cup {"none"}
        BY <3>3
      <3>6. testing' \in BOOLEAN
        BY <3>3
      <3>7. pollRef' \in 0..MaxProbes
        BY <3>3
      <3> QED BY <2>3, <3>1, <3>2, <3>4, <3>5, <3>6, <3>7 DEF ProbeTypeOK
    <2>6. ProbesMade'
      BY <1>2, <2>2, <2>3 DEF Leaves, ProbesMade, ProbeTypeOK
    <2> QED BY <2>1, <2>5, <2>6
  <1> QED BY <1>1, <1>2

\* Ticks, and polls that are answered, land or fail.
LEMMA PollsStep ==
  ASSUME ProbeInv, NEW r \in 1..MaxProbes, Tick(r) \/ PollServed(r) \/ PollLands(r) \/ PollFails(r)
  PROVE  ProbeInv'
  <1> USE ProbeAssumption DEF ProbeInv
  <1>0. /\ Cardinality(polls) \in Nat /\ Len(probes) \in Nat /\ polls \subseteq PollCall
        /\ Cardinality(polls) <= MaxPolls
        /\ \A p \in polls : p.id \in DOMAIN probes /\ probes[p.id] \in Underway \cup Ended
    BY FS_CardinalityType DEF ProbeTypeOK, ProbesMade
  <1>1. CASE Tick(r)
    <2>1. PICK p : p = [id |-> r, live |-> r = pollRef, answer |-> "none"]
      OBVIOUS
    <2>2. p \in PollCall /\ p.id = r
      BY <2>1 DEF PollCall
    <2>3. r \in DOMAIN probes
      BY <1>0, <1>1 DEF Tick, ProbeTypeOK, ProbesMade
    <2>4. polls' = polls \cup {p} /\ Cardinality(polls) < MaxPolls
      BY <1>1, <2>1 DEF Tick
    <2>5. IsFiniteSet(polls') /\ Cardinality(polls') <= MaxPolls
      <3>1. IsFiniteSet(polls') /\ Cardinality(polls') <= Cardinality(polls) + 1
        BY <2>4, AddedIsOneMore
      <3>2. Cardinality(polls') \in Nat
        BY <3>1, FS_CardinalityType
      <3> QED BY <1>0, <2>4, <3>1, <3>2
    <2>6. UNCHANGED <<section, probes, status, testing, pollRef, orphan, starting, failures, probeCrossed>>
      BY <1>1 DEF Tick
    <2>7. ProbeTypeOK'
      BY <1>0, <2>2, <2>4, <2>5, <2>6 DEF ProbeTypeOK
    <2>8. ProbesMade'
      BY <2>2, <2>3, <2>4, <2>6 DEF ProbesMade
    <2> QED BY <2>5, <2>7, <2>8
  <1>2. CASE PollServed(r)
    <2>1. PICK p \in polls : polls' = (polls \ {p}) \cup {[p EXCEPT !.answer = probes[p.id]]}
      BY <1>2 DEF PollServed
    <2>2. PICK q : q = [p EXCEPT !.answer = probes[p.id]]
      OBVIOUS
    <2>3. q \in PollCall /\ q.id = p.id
      BY <1>0, <2>2 DEF PollCall
    <2>4. polls' = (polls \ {p}) \cup {q}
      BY <2>1, <2>2
    <2>5. IsFiniteSet(polls') /\ Cardinality(polls') <= MaxPolls
      <3>1. IsFiniteSet(polls') /\ Cardinality(polls') <= Cardinality(polls)
        BY <2>4, ReplacedIsNoMore
      <3>2. Cardinality(polls') \in Nat
        BY <3>1, FS_CardinalityType
      <3> QED BY <1>0, <3>1, <3>2
    <2>6. UNCHANGED <<section, probes, status, testing, pollRef, orphan, starting, failures, probeCrossed>>
      BY <1>2 DEF PollServed
    <2>7. ProbeTypeOK'
      BY <1>0, <2>3, <2>4, <2>5, <2>6 DEF ProbeTypeOK
    <2>8. ProbesMade'
      BY <2>3, <2>4, <2>6 DEF ProbesMade
    <2> QED BY <2>5, <2>7, <2>8
  <1>3. CASE PollLands(r) \/ PollFails(r)
    <2>1. PICK p \in polls : polls' = polls \ {p}
      BY <1>3 DEF PollLands, PollFails
    <2>2. IsFiniteSet(polls') /\ Cardinality(polls') <= MaxPolls
      <3>1. IsFiniteSet(polls') /\ Cardinality(polls') <= Cardinality(polls)
        BY <2>1, RemovedIsNoMore
      <3>2. Cardinality(polls') \in Nat
        BY <3>1, FS_CardinalityType
      <3> QED BY <1>0, <3>1, <3>2
    <2>3. /\ UNCHANGED <<section, probes, starting>>
          /\ pollRef' \in {pollRef, 0} /\ orphan' \subseteq orphan
          /\ testing' \in {testing, FALSE}
      BY <1>3 DEF PollLands, PollFails
    <2>4. failures' \in 0..MaxFailures /\ probeCrossed' \in BOOLEAN
      <3>1. CASE PollLands(r)
        BY <3>1 DEF PollLands, ProbeTypeOK
      <3>2. CASE PollFails(r)
        BY <3>2 DEF PollFails, ProbeTypeOK
      <3> QED BY <1>3, <3>1, <3>2
    <2>5. status' \in Underway \cup Ended \cup {"none"}
      BY <1>0, <1>3 DEF PollLands, PollFails, ProbeTypeOK, PollCall
    <2>6. pollRef' \in 0..MaxProbes /\ testing' \in BOOLEAN /\ orphan' \subseteq 1..MaxProbes
      <3>1. pollRef' \in 0..MaxProbes
        BY <2>3 DEF ProbeTypeOK
      <3>2. testing' \in BOOLEAN /\ orphan' \subseteq 1..MaxProbes
        BY <2>3 DEF ProbeTypeOK
      <3> QED BY <3>1, <3>2
    <2>8. ProbeTypeOK'
      BY <1>0, <2>1, <2>2, <2>3, <2>4, <2>5, <2>6 DEF ProbeTypeOK
    <2>7. ProbesMade'
      BY <1>0, <2>1, <2>3 DEF ProbesMade
    <2> QED BY <2>2, <2>7, <2>8
  <1> QED BY <1>1, <1>2, <1>3

LEMMA ProbeStep == ProbeInv /\ [ProbeNext]_probeVars => ProbeInv'
  <1> SUFFICES ASSUME ProbeInv, [ProbeNext]_probeVars PROVE ProbeInv'
    OBVIOUS
  <1>1. CASE UNCHANGED probeVars
    <2>1. ProbeTypeOK' /\ ProbesMade'
      BY <1>1 DEF ProbeInv, ProbeTypeOK, ProbesMade, probeVars
    <2> QED BY <1>1, <2>1 DEF ProbeInv, probeVars
  <1> QED BY <1>1, StartStep, ProceedStep, PollsStep DEF ProbeNext

\* Every variable of the sections keeps its type: what is polled for is a
\* request of this page, and polls in flight stay within their bound.
THEOREM ProbesTyped == ProbeSpec => []ProbeTypeOK
  <1>1. ProbeInv => ProbeTypeOK
    BY DEF ProbeInv
  <1>2. ProbeSpec => []ProbeInv
    BY ProbeStarts, ProbeStep, PTL DEF ProbeSpec
  <1> QED BY <1>1, <1>2, PTL

-----------------------------------------------------------------------------
(* Conversations *)

\* Requests in flight, and what their answers list, are of the conversations;
\* messages on their way have their place in the bound.
Msg == Convs \X (1..MaxMsgs)
Asked == [op : {"fetch", "send"}, conv : Convs, st : {"sent", "done"}, page : Seq(Msg), live : BOOLEAN]
Unsent(S, c) == {r \in S : r.op = "send" /\ r.st = "sent" /\ r.conv = c}
AskedInv ==
    /\ asked \subseteq Asked /\ IsFiniteSet(asked) /\ Cardinality(asked) <= MaxAsked
    /\ \A c \in Convs : msgs[c] + Cardinality(Unsent(asked, c)) <= MaxMsgs
ConvInv == ConvTypeOK /\ view \in Seq(Msg) /\ AskedInv

LEMMA ConvBounds == /\ MaxMsgs \in Nat /\ PageLimit \in Nat /\ MaxAsked \in Nat
                    /\ MaxVisits \in Nat /\ MaxFails \in Nat /\ NoConv \notin Convs
  BY ConvAssumption

\* What the server lists of a conversation are messages of it.
LEMMA ListedTyped ==
  ASSUME msgs \in [Convs -> 0..MaxMsgs], NEW c \in Convs
  PROVE  Listed(c) \in Seq(Msg)
  <1>1. PICK m : m = IF msgs[c] < PageLimit THEN msgs[c] ELSE PageLimit
    OBVIOUS
  <1>2. m \in 0..MaxMsgs
    BY <1>1, ConvBounds
  <1>3. \A n \in 1..m : <<c, n>> \in Msg
    BY <1>2, ConvBounds DEF Msg
  <1>4. Listed(c) = [n \in 1..m |-> <<c, n>>]
    BY <1>1 DEF Listed
  <1> QED BY <1>2, <1>3, <1>4

LEMMA FetchTyped ==
  ASSUME NEW c \in Convs, NEW b \in BOOLEAN
  PROVE  /\ [Fetch(c) EXCEPT !.live = b] \in Asked /\ Fetch(c) \in Asked /\ SendTo(c) \in Asked
         /\ Fetch(c).op = "fetch" /\ [Fetch(c) EXCEPT !.live = b].op = "fetch"
         /\ SendTo(c).op = "send" /\ SendTo(c).conv = c
  <1>1. <<>> \in Seq(Msg)
    OBVIOUS
  <1>2. Fetch(c) = [op |-> "fetch", conv |-> c, st |-> "sent", page |-> <<>>, live |-> TRUE]
    BY DEF Fetch
  <1>3. [Fetch(c) EXCEPT !.live = b] = [op |-> "fetch", conv |-> c, st |-> "sent", page |-> <<>>, live |-> b]
    BY <1>2
  <1>4. Fetch(c) \in Asked /\ Fetch(c).op = "fetch"
    BY <1>1, <1>2 DEF Asked
  <1>5. [Fetch(c) EXCEPT !.live = b] \in Asked /\ [Fetch(c) EXCEPT !.live = b].op = "fetch"
    BY <1>1, <1>3 DEF Asked
  <1>6. SendTo(c) \in Asked /\ SendTo(c).op = "send" /\ SendTo(c).conv = c
    <2>1. PICK f \in Asked : f = Fetch(c)
      BY <1>4
    <2>2. f.conv = c
      BY <1>2, <2>1
    <2>3. SendTo(c) = [f EXCEPT !.op = "send"]
      BY <2>1 DEF SendTo
    <2>4. [f EXCEPT !.op = "send"] \in Asked /\ [f EXCEPT !.op = "send"].op = "send"
      BY DEF Asked
    <2>5. [f EXCEPT !.op = "send"].conv = f.conv
      BY DEF Asked
    <2> QED BY <2>2, <2>3, <2>4, <2>5
  <1> QED BY <1>4, <1>5, <1>6

\* Less on its way of each conversation leaves it its place in the bound.
LEMMA FewerUnsent ==
  ASSUME AskedInv, msgs \in [Convs -> 0..MaxMsgs], NEW S, S \subseteq Asked, IsFiniteSet(S),
         \A c \in Convs : Cardinality(Unsent(S, c)) <= Cardinality(Unsent(asked, c))
  PROVE  \A c \in Convs : msgs[c] + Cardinality(Unsent(S, c)) <= MaxMsgs
  <1> SUFFICES ASSUME NEW c \in Convs PROVE msgs[c] + Cardinality(Unsent(S, c)) <= MaxMsgs
    OBVIOUS
  <1>1. IsFiniteSet(Unsent(S, c)) /\ IsFiniteSet(Unsent(asked, c))
    BY FS_Subset DEF Unsent, AskedInv
  <1>2. Cardinality(Unsent(S, c)) \in Nat /\ Cardinality(Unsent(asked, c)) \in Nat
    BY <1>1, FS_CardinalityType
  <1>3. msgs[c] \in 0..MaxMsgs /\ msgs[c] + Cardinality(Unsent(asked, c)) <= MaxMsgs
    BY DEF AskedInv
  <1>4. Cardinality(Unsent(S, c)) <= Cardinality(Unsent(asked, c))
    OBVIOUS
  <1> QED BY <1>2, <1>3, <1>4, ConvBounds

LEMMA SubsetUnsent ==
  ASSUME NEW S, IsFiniteSet(S), NEW T, NEW c, Unsent(T, c) \subseteq Unsent(S, c)
  PROVE  Cardinality(Unsent(T, c)) <= Cardinality(Unsent(S, c))
  <1>1. IsFiniteSet(Unsent(S, c))
    BY FS_Subset DEF Unsent
  <1> QED BY <1>1, FS_Subset

\* The component is gone: its requests go on, for nobody.
LEMMA OrphanedKept ==
  ASSUME AskedInv, msgs \in [Convs -> 0..MaxMsgs]
  PROVE  /\ Orphaned \subseteq Asked /\ IsFiniteSet(Orphaned) /\ Cardinality(Orphaned) <= Cardinality(asked)
         /\ \A c \in Convs : Cardinality(Unsent(Orphaned, c)) <= Cardinality(Unsent(asked, c))
  <1>1. PICK f : f = [r \in asked |-> [r EXCEPT !.live = FALSE]]
    OBVIOUS
  <1>2. f \in [asked -> Orphaned] /\ Orphaned = {f[r] : r \in asked}
    BY <1>1 DEF Orphaned
  <1>3. Orphaned \subseteq Asked
    BY DEF AskedInv, Asked, Orphaned
  <1>4. IsFiniteSet(Orphaned) /\ Cardinality(Orphaned) <= Cardinality(asked)
    BY <1>2, ImageIsNoMore DEF AskedInv
  <1>5. ASSUME NEW c \in Convs PROVE Cardinality(Unsent(Orphaned, c)) <= Cardinality(Unsent(asked, c))
    <2>1. PICK g : g = [r \in Unsent(asked, c) |-> [r EXCEPT !.live = FALSE]]
      OBVIOUS
    <2>2. \A r \in asked : /\ [r EXCEPT !.live = FALSE].op = r.op
                           /\ [r EXCEPT !.live = FALSE].st = r.st
                           /\ [r EXCEPT !.live = FALSE].conv = r.conv
      BY DEF AskedInv, Asked
    <2>3. \A q \in Unsent(Orphaned, c) : \E r \in Unsent(asked, c) : q = [r EXCEPT !.live = FALSE]
      <3> SUFFICES ASSUME NEW q \in Unsent(Orphaned, c)
                   PROVE  \E r \in Unsent(asked, c) : q = [r EXCEPT !.live = FALSE]
        OBVIOUS
      <3>1. q \in Orphaned /\ q.op = "send" /\ q.st = "sent" /\ q.conv = c
        BY DEF Unsent
      <3>2. PICK r \in asked : q = [r EXCEPT !.live = FALSE]
        BY <3>1 DEF Orphaned
      <3>3. r \in Unsent(asked, c)
        BY <2>2, <3>1, <3>2 DEF Unsent
      <3> QED BY <3>2, <3>3
    <2>4. \A r \in Unsent(asked, c) : [r EXCEPT !.live = FALSE] \in Unsent(Orphaned, c)
      <3> SUFFICES ASSUME NEW r \in Unsent(asked, c)
                   PROVE  [r EXCEPT !.live = FALSE] \in Unsent(Orphaned, c)
        OBVIOUS
      <3>1. r \in asked /\ r.op = "send" /\ r.st = "sent" /\ r.conv = c
        BY DEF Unsent
      <3>2. [r EXCEPT !.live = FALSE] \in Orphaned
        BY <3>1 DEF Orphaned
      <3> QED BY <2>2, <3>1, <3>2 DEF Unsent
    <2>5. g \in [Unsent(asked, c) -> Unsent(Orphaned, c)]
          /\ Unsent(Orphaned, c) = {g[r] : r \in Unsent(asked, c)}
      BY <2>1, <2>3, <2>4
    <2>6. IsFiniteSet(Unsent(asked, c))
      BY FS_Subset DEF AskedInv, Unsent
    <2> QED BY <2>5, <2>6, ImageIsNoMore
  <1> QED BY <1>3, <1>4, <1>5

LEMMA ConvStart == ConvInit => ConvInv
  <1> SUFFICES ASSUME ConvInit PROVE ConvInv
    OBVIOUS
  <1> USE DEF ConvInit
  <1>1. IsFiniteSet(asked) /\ Cardinality(asked) = 0
    BY FS_EmptySet
  <1>2. AskedInv
    <2>1. \A c \in Convs : Cardinality(Unsent(asked, c)) = 0
      BY FS_EmptySet DEF Unsent
    <2> QED BY <1>1, <2>1, ConvBounds DEF AskedInv
  <1>3. msgs \in [Convs -> 0..MaxMsgs] /\ visits \in 0..MaxVisits /\ fails \in 0..MaxFails
    BY ConvBounds
  <1>4. view \in Seq(Msg)
    OBVIOUS
  <1>5. Cardinality(asked) <= MaxAsked + 1
    BY <1>1, ConvBounds
  <1> QED BY <1>2, <1>3, <1>4, <1>5 DEF ConvInv, ConvTypeOK

\* What of the invariant is left to show of a step, given its requests.
LEMMA ConvFrame ==
  ASSUME AskedInv', view' \in Seq(Msg), convKind' \in Kinds,
         open' \in Convs \cup {NoConv}, interval' \in Convs \cup {NoConv},
         msgs' \in [Convs -> 0..MaxMsgs], visits' \in 0..MaxVisits, fails' \in 0..MaxFails
  PROVE  ConvInv'
  <1>1. Cardinality(asked') \in Nat
    BY FS_CardinalityType DEF AskedInv
  <1>2. Cardinality(asked') <= MaxAsked + 1
    BY <1>1, ConvBounds DEF AskedInv
  <1>3. \A k \in DOMAIN view' : view'[k] \in Convs \X (1..MaxMsgs)
    BY DEF Msg
  <1> QED BY <1>2, <1>3 DEF ConvInv, ConvTypeOK

\* Requests may be dropped, orphaned or replaced, and a fetch or, where there
\* is room, a message added.
LEMMA AskedFewer ==
  ASSUME AskedInv, msgs \in [Convs -> 0..MaxMsgs], UNCHANGED msgs,
         NEW S, asked' = S, S \subseteq Asked, IsFiniteSet(S), Cardinality(S) <= MaxAsked,
         \A c \in Convs : Cardinality(Unsent(S, c)) <= Cardinality(Unsent(asked, c))
  PROVE  AskedInv'
  <1>1. \A c \in Convs : msgs[c] + Cardinality(Unsent(S, c)) <= MaxMsgs
    BY FewerUnsent
  <1> QED BY <1>1 DEF AskedInv

LEMMA AddedFetch ==
  ASSUME NEW S, IsFiniteSet(S), NEW x, x.op = "fetch"
  PROVE  /\ IsFiniteSet(S \cup {x}) /\ Cardinality(S \cup {x}) <= Cardinality(S) + 1
         /\ \A c : Unsent(S \cup {x}, c) = Unsent(S, c)
  <1>1. \A c : Unsent(S \cup {x}, c) = Unsent(S, c)
    BY DEF Unsent
  <1> QED BY <1>1, AddedIsOneMore

LEMMA AskingStep ==
  ASSUME ConvInv, Select \/ Leave \/ IntervalFires
  PROVE  ConvInv'
  <1> USE DEF ConvInv, ConvTypeOK
  <1>0. /\ IsFiniteSet(asked) /\ Cardinality(asked) \in Nat /\ asked \subseteq Asked
        /\ IsFiniteSet(Orphaned) /\ Cardinality(Orphaned) \in Nat /\ Orphaned \subseteq Asked
        /\ Cardinality(Orphaned) <= Cardinality(asked) /\ Cardinality(asked) <= MaxAsked
        /\ \A c \in Convs : Cardinality(Unsent(Orphaned, c)) <= Cardinality(Unsent(asked, c))
    BY OrphanedKept, FS_CardinalityType DEF AskedInv
  <1>1. CASE Select
    <2>1. PICK c \in Convs : /\ visits < MaxVisits /\ visits' = visits + 1 /\ Cardinality(asked) < MaxAsked
                             /\ open' = c /\ interval' = c
                             /\ asked' = (IF convKind = "chat" THEN asked ELSE Orphaned) \cup {Fetch(c)}
                             /\ view' = IF convKind = "channel" THEN <<>> ELSE view
                             /\ UNCHANGED <<convKind, msgs, fails>>
      BY <1>1 DEF Select, Ticking
    <2>2. PICK S \in {asked, Orphaned} : asked' = S \cup {Fetch(c)}
      BY <2>1
    <2>3. PICK x : x = Fetch(c)
      OBVIOUS
    <2>4. x \in Asked /\ x.op = "fetch"
      BY <2>3, FetchTyped
    <2>5. IsFiniteSet(S) /\ Cardinality(S) \in Nat /\ S \subseteq Asked /\ Cardinality(S) < MaxAsked
      BY <1>0, <2>1, ConvBounds
    <2>6. PICK T : T = S \cup {x}
      OBVIOUS
    <2>7. IsFiniteSet(T) /\ Cardinality(T) <= Cardinality(S) + 1 /\ T \subseteq Asked
      BY <2>4, <2>5, <2>6, AddedFetch
    <2>8. Cardinality(T) \in Nat
      BY <2>7, FS_CardinalityType
    <2>9. Cardinality(T) <= MaxAsked
      BY <2>5, <2>7, <2>8, ConvBounds
    <2>10. \A d \in Convs : Cardinality(Unsent(T, d)) <= Cardinality(Unsent(asked, d))
      <3>1. \A d : Unsent(T, d) = Unsent(S, d)
        BY <2>4, <2>5, <2>6, AddedFetch
      <3>2. \A d \in Convs : Cardinality(Unsent(asked, d)) <= Cardinality(Unsent(asked, d))
        BY <1>0, SubsetUnsent
      <3> QED BY <1>0, <3>1, <3>2
    <2>11. AskedInv'
      BY <2>1, <2>2, <2>3, <2>6, <2>7, <2>9, <2>10, AskedFewer
    <2>12. view' \in Seq(Msg) /\ open' \in Convs /\ interval' \in Convs
      BY <2>1
    <2>13. visits' \in 0..MaxVisits
      BY <2>1, ConvBounds
    <2> QED BY <2>1, <2>11, <2>12, <2>13, ConvFrame
  <1>2. CASE Leave
    <2>1. asked' = Orphaned /\ visits' = visits + 1 /\ visits < MaxVisits
      BY <1>2 DEF Leave
    <2>2. Cardinality(Orphaned) <= MaxAsked
      BY <1>0, ConvBounds
    <2>3. UNCHANGED msgs
      BY <1>2 DEF Leave
    <2>4. PICK T : T = Orphaned
      OBVIOUS
    <2>5. AskedInv'
      BY <1>0, <2>1, <2>2, <2>3, <2>4, AskedFewer
    <2>6. visits' \in 0..MaxVisits
      BY <2>1, ConvBounds
    <2> QED BY <1>2, <2>5, <2>6, ConvFrame DEF Leave
  <1>3. CASE IntervalFires
    <2>1. interval \in Convs /\ asked' = asked \cup {Fetch(interval)} /\ Cardinality(asked) < MaxAsked
      BY <1>3 DEF IntervalFires
    <2>2. PICK x : x = Fetch(interval)
      OBVIOUS
    <2>3. x \in Asked /\ x.op = "fetch"
      BY <2>1, <2>2, FetchTyped
    <2>4. PICK T : T = asked \cup {x}
      OBVIOUS
    <2>5. IsFiniteSet(T) /\ Cardinality(T) <= Cardinality(asked) + 1 /\ T \subseteq Asked
      BY <1>0, <2>3, <2>4, AddedFetch
    <2>6. Cardinality(T) <= MaxAsked
      <3>1. Cardinality(T) \in Nat
        BY <2>5, FS_CardinalityType
      <3> QED BY <1>0, <2>1, <2>5, <3>1, ConvBounds
    <2>7. \A d \in Convs : Cardinality(Unsent(T, d)) <= Cardinality(Unsent(asked, d))
      <3>1. \A d : Unsent(T, d) = Unsent(asked, d)
        BY <1>0, <2>3, <2>4, AddedFetch
      <3>2. \A d \in Convs : Cardinality(Unsent(asked, d)) <= Cardinality(Unsent(asked, d))
        BY <1>0, SubsetUnsent
      <3> QED BY <3>1, <3>2
    <2>8. UNCHANGED msgs
      BY <1>3 DEF IntervalFires
    <2>9. AskedInv'
      BY <2>1, <2>2, <2>4, <2>5, <2>6, <2>7, <2>8, AskedFewer
    <2> QED BY <1>3, <2>9, ConvFrame DEF IntervalFires
  <1> QED BY <1>1, <1>2, <1>3

\* A message is sent, or another one written, only where there is room.
LEMMA RoomStep ==
  ASSUME ConvInv, SendText \/ PeerWrites
  PROVE  ConvInv'
  <1> USE DEF ConvInv, ConvTypeOK
  <1>0. /\ IsFiniteSet(asked) /\ Cardinality(asked) \in Nat /\ asked \subseteq Asked
        /\ \A c \in Convs : IsFiniteSet(Unsent(asked, c)) /\ Cardinality(Unsent(asked, c)) \in Nat
    <2>1. \A c \in Convs : IsFiniteSet(Unsent(asked, c))
      BY FS_Subset DEF AskedInv, Unsent
    <2> QED BY <2>1, FS_CardinalityType DEF AskedInv
  <1>1. CASE SendText
    <2>1. /\ open \in Convs /\ msgs[open] + Cardinality(Unsent(asked, open)) < MaxMsgs
          /\ Cardinality(asked) < MaxAsked /\ asked' = asked \cup {SendTo(open)}
          /\ UNCHANGED <<convKind, open, interval, view, msgs, visits, fails>>
      BY <1>1 DEF SendText, HasRoom, Unsent
    <2>2. PICK x : x = SendTo(open)
      OBVIOUS
    <2>3. x \in Asked /\ x.conv = open
      BY <2>1, <2>2, FetchTyped
    <2>4. PICK T : T = asked \cup {x}
      OBVIOUS
    <2>5. IsFiniteSet(T) /\ T \subseteq Asked /\ Cardinality(T) <= MaxAsked
      <3>1. IsFiniteSet(T) /\ Cardinality(T) <= Cardinality(asked) + 1
        BY <1>0, <2>4, AddedIsOneMore
      <3>2. Cardinality(T) \in Nat
        BY <3>1, FS_CardinalityType
      <3> QED BY <1>0, <2>1, <2>3, <2>4, <3>1, <3>2, ConvBounds
    <2>6. ASSUME NEW c \in Convs PROVE msgs[c] + Cardinality(Unsent(T, c)) <= MaxMsgs
      <3>1. CASE c # open
        <4>1. Unsent(T, c) = Unsent(asked, c)
          BY <2>3, <2>4, <3>1 DEF Unsent
        <4> QED BY <4>1 DEF AskedInv
      <3>2. CASE c = open
        <4>1. Unsent(T, c) \subseteq Unsent(asked, c) \cup {x}
          BY <2>4 DEF Unsent
        <4>2. IsFiniteSet(Unsent(asked, c) \cup {x})
              /\ Cardinality(Unsent(asked, c) \cup {x}) <= Cardinality(Unsent(asked, c)) + 1
          BY <1>0, AddedIsOneMore
        <4>3. IsFiniteSet(Unsent(T, c)) /\ Cardinality(Unsent(T, c)) <= Cardinality(Unsent(asked, c) \cup {x})
          BY <4>1, <4>2, FS_Subset
        <4>4. Cardinality(Unsent(T, c)) \in Nat /\ Cardinality(Unsent(asked, c) \cup {x}) \in Nat
          BY <4>2, <4>3, FS_CardinalityType
        <4>5. msgs[c] \in Nat
          BY ConvBounds
        <4> QED BY <1>0, <2>1, <3>2, <4>2, <4>3, <4>4, <4>5, ConvBounds
      <3> QED BY <3>1, <3>2
    <2>7. AskedInv'
      BY <2>1, <2>2, <2>4, <2>5, <2>6 DEF AskedInv
    <2> QED BY <2>1, <2>7, ConvFrame
  <1>2. CASE PeerWrites
    <2>1. PICK c \in Convs : /\ msgs[c] + Cardinality(Unsent(asked, c)) < MaxMsgs
                             /\ msgs' = [msgs EXCEPT ![c] = @ + 1]
      BY <1>2 DEF PeerWrites, HasRoom, Unsent
    <2>2. UNCHANGED <<convKind, open, interval, view, asked, visits, fails>>
      BY <1>2 DEF PeerWrites
    <2>3. \A d \in Convs : msgs[d] \in 0..MaxMsgs /\ msgs'[d] = IF d = c THEN msgs[c] + 1 ELSE msgs[d]
      BY <2>1
    <2>4. ASSUME NEW d \in Convs PROVE msgs'[d] + Cardinality(Unsent(asked, d)) <= MaxMsgs
      <3>1. CASE d = c
        BY <1>0, <2>1, <2>3, <3>1, ConvBounds
      <3>2. CASE d # c
        BY <2>3, <3>2 DEF AskedInv
      <3> QED BY <3>1, <3>2
    <2>5. msgs' \in [Convs -> 0..MaxMsgs]
      <3>1. msgs[c] + 1 \in 0..MaxMsgs
        BY <1>0, <2>1, <2>3, ConvBounds
      <3> QED BY <2>1, <3>1
    <2>6. AskedInv'
      BY <2>2, <2>4 DEF AskedInv
    <2> QED BY <2>2, <2>5, <2>6, ConvFrame
  <1> QED BY <1>1, <1>2

\* Answers: of one request each, which is dropped, or replaced by what the
\* answer makes of it.
LEMMA Answered ==
  ASSUME ConvInv, NEW r \in asked, NEW q \in Asked, q.st = "done" \/ q.op = "fetch",
         NEW S, asked' = S, S = asked \ {r} \/ S = (asked \ {r}) \cup {q}
  PROVE  /\ S \subseteq Asked /\ IsFiniteSet(S) /\ Cardinality(S) <= MaxAsked
         /\ \A c \in Convs : Unsent(S, c) = Unsent(asked, c) \ {r}
         /\ UNCHANGED msgs => AskedInv'
  <1> USE DEF ConvInv, ConvTypeOK, AskedInv
  <1>1. IsFiniteSet(S) /\ Cardinality(S) <= Cardinality(asked)
    <2>1. CASE S = asked \ {r}
      BY <2>1, RemovedIsNoMore
    <2>2. CASE S = (asked \ {r}) \cup {q}
      BY <2>2, ReplacedIsNoMore
    <2> QED BY <2>1, <2>2
  <1>2. Cardinality(S) \in Nat /\ Cardinality(asked) \in Nat
    BY <1>1, FS_CardinalityType
  <1>3. S \subseteq Asked /\ Cardinality(S) <= MaxAsked
    BY <1>1, <1>2, ConvBounds
  <1>4. \A c \in Convs : Unsent(S, c) = Unsent(asked, c) \ {r}
    BY DEF Unsent
  <1>5. \A c \in Convs : Cardinality(Unsent(S, c)) <= Cardinality(Unsent(asked, c))
    BY <1>4, SubsetUnsent
  <1>6. UNCHANGED msgs => AskedInv'
    BY <1>1, <1>3, <1>5, AskedFewer
  <1> QED BY <1>1, <1>3, <1>4, <1>6

LEMMA FetchingStep ==
  ASSUME ConvInv, FetchAnswered \/ Fails \/ FetchLands \/ SendLands
  PROVE  ConvInv'
  <1> USE DEF ConvInv, ConvTypeOK
  <1>0. asked \subseteq Asked /\ \A r \in asked : r \in Asked /\ r.conv \in Convs /\ r.page \in Seq(Msg) /\ r.live \in BOOLEAN
    BY DEF AskedInv, Asked
  <1>1. CASE FetchAnswered
    <2>1. PICK r \in asked : asked' = (asked \ {r}) \cup {[r EXCEPT !.st = "done", !.page = Listed(r.conv)]}
      BY <1>1 DEF FetchAnswered
    <2>2. PICK p : p = Listed(r.conv)
      OBVIOUS
    <2>3. p \in Seq(Msg)
      BY <1>0, <2>2, ListedTyped
    <2>4. PICK q : q = [r EXCEPT !.st = "done", !.page = p]
      OBVIOUS
    <2>5. q \in Asked /\ q.st = "done"
      BY <1>0, <2>3, <2>4 DEF Asked
    <2>6. PICK S : S = (asked \ {r}) \cup {q}
      OBVIOUS
    <2>7. asked' = S
      BY <2>1, <2>2, <2>4, <2>6
    <2>8. UNCHANGED <<convKind, open, interval, view, msgs, visits, fails>>
      BY <1>1 DEF FetchAnswered
    <2>9. AskedInv'
      BY <2>5, <2>6, <2>7, <2>8, Answered
    <2> QED BY <2>8, <2>9, ConvFrame
  <1>2. CASE Fails
    <2>1. PICK r \in asked : asked' = asked \ {r}
      BY <1>2 DEF Fails
    <2>2. PICK S, q : S = asked \ {r} /\ q = [r EXCEPT !.st = "done"]
      OBVIOUS
    <2>3. q \in Asked /\ q.st = "done"
      BY <1>0, <2>2 DEF Asked
    <2>4. fails' \in 0..MaxFails /\ UNCHANGED <<convKind, open, interval, view, msgs, visits>>
      BY <1>2, ConvBounds DEF Fails
    <2>5. AskedInv'
      BY <2>1, <2>2, <2>3, <2>4, Answered
    <2> QED BY <2>4, <2>5, ConvFrame
  <1>3. CASE FetchLands
    <2>1. PICK r \in asked : asked' = asked \ {r} /\ view' = IF Kept(r) THEN r.page ELSE view
      BY <1>3 DEF FetchLands
    <2>2. PICK S, q : S = asked \ {r} /\ q = [r EXCEPT !.st = "done"]
      OBVIOUS
    <2>3. q \in Asked /\ q.st = "done"
      BY <1>0, <2>2 DEF Asked
    <2>4. UNCHANGED <<convKind, open, interval, msgs, visits, fails>>
      BY <1>3 DEF FetchLands
    <2>5. AskedInv'
      BY <2>1, <2>2, <2>3, <2>4, Answered
    <2>6. view' \in Seq(Msg)
      BY <1>0, <2>1
    <2> QED BY <2>4, <2>5, <2>6, ConvFrame
  <1>4. CASE SendLands
    <2>1. PICK r \in asked :
            \/ asked' = (asked \ {r}) \cup {[Fetch(r.conv) EXCEPT !.live = r.live]} /\ UNCHANGED view
            \/ asked' = asked \ {r} /\ view' = IF Kept(r) THEN view \o r.page ELSE view
      BY <1>4 DEF SendLands
    <2>2. PICK q : q = [Fetch(r.conv) EXCEPT !.live = r.live]
      OBVIOUS
    <2>3. q \in Asked /\ q.op = "fetch"
      BY <1>0, <2>2, FetchTyped
    <2>4. PICK S : asked' = S /\ (S = asked \ {r} \/ S = (asked \ {r}) \cup {q})
      BY <2>1, <2>2
    <2>5. UNCHANGED <<convKind, open, interval, msgs, visits, fails>>
      BY <1>4 DEF SendLands
    <2>6. AskedInv'
      BY <2>3, <2>4, <2>5, Answered
    <2>7. r.page \in Seq(Msg) /\ view \in Seq(Msg) /\ view \o r.page \in Seq(Msg)
      BY <1>0
    <2>8. view' \in Seq(Msg)
      BY <2>1, <2>7
    <2> QED BY <2>5, <2>6, <2>8, ConvFrame
  <1> QED BY <1>1, <1>2, <1>3, <1>4

\* The server writes a message that was on its way.
LEMMA SentStep ==
  ASSUME ConvInv, SendAnswered
  PROVE  ConvInv'
  <1> USE DEF ConvInv, ConvTypeOK
  <1>1. PICK r \in asked :
          /\ r.op = "send" /\ r.st = "sent" /\ msgs' = [msgs EXCEPT ![r.conv] = @ + 1]
          /\ asked' = (asked \ {r}) \cup {[r EXCEPT !.st = "done", !.page = <<<<r.conv, msgs[r.conv] + 1>>>>]}
    BY DEF SendAnswered
  <1>2. r \in Asked /\ r.conv \in Convs
    BY DEF AskedInv, Asked
  <1>3. PICK c \in Convs : c = r.conv
    BY <1>2
  <1>4. IsFiniteSet(Unsent(asked, c)) /\ r \in Unsent(asked, c)
    BY <1>1, <1>3, FS_Subset DEF AskedInv, Unsent
  <1>5. /\ Cardinality(Unsent(asked, c)) \in Nat
        /\ Cardinality(Unsent(asked, c) \ {r}) = Cardinality(Unsent(asked, c)) - 1
        /\ Cardinality(Unsent(asked, c) \ {r}) \in Nat
    <2>1. IsFiniteSet(Unsent(asked, c) \ {r})
          /\ Cardinality(Unsent(asked, c) \ {r}) = Cardinality(Unsent(asked, c)) - 1
      BY <1>4, FS_RemoveElement
    <2> QED BY <1>4, <2>1, FS_CardinalityType
  <1>6. msgs[c] \in Nat /\ msgs[c] + Cardinality(Unsent(asked, c)) <= MaxMsgs
    BY ConvBounds DEF AskedInv
  <1>7. msgs[c] + 1 \in 1..MaxMsgs
    BY <1>5, <1>6, ConvBounds
  <1>8. PICK p : p = <<<<c, msgs[c] + 1>>>>
    OBVIOUS
  <1>9. p \in Seq(Msg)
    <2>1. PICK m : m = <<c, msgs[c] + 1>>
      OBVIOUS
    <2>2. m \in Msg
      BY <1>7, <2>1 DEF Msg
    <2>3. p = <<m>>
      BY <1>8, <2>1
    <2> QED BY <2>2, <2>3
  <1>10. PICK q : q = [r EXCEPT !.st = "done", !.page = p]
    OBVIOUS
  <1>11. q \in Asked /\ q.st = "done"
    BY <1>2, <1>9, <1>10 DEF Asked
  <1>12. PICK S : S = (asked \ {r}) \cup {q}
    OBVIOUS
  <1>13. asked' = S
    BY <1>1, <1>3, <1>8, <1>10, <1>12
  <1>14. /\ S \subseteq Asked /\ IsFiniteSet(S) /\ Cardinality(S) <= MaxAsked
         /\ \A d \in Convs : Unsent(S, d) = Unsent(asked, d) \ {r}
    BY <1>11, <1>12, <1>13, Answered
  <1>15. msgs' \in [Convs -> 0..MaxMsgs]
    <2>1. msgs[c] + 1 \in 0..MaxMsgs
      BY <1>7, ConvBounds
    <2> QED BY <1>1, <1>3, <2>1
  <1>16. ASSUME NEW d \in Convs PROVE msgs'[d] + Cardinality(Unsent(S, d)) <= MaxMsgs
    <2>1. CASE d = c
      <3>1. msgs'[d] = msgs[c] + 1 /\ Cardinality(Unsent(S, d)) = Cardinality(Unsent(asked, c)) - 1
        BY <1>1, <1>3, <1>5, <1>14, <2>1
      <3> QED BY <1>5, <1>6, <3>1, ConvBounds
    <2>2. CASE d # c
      <3>1. msgs'[d] = msgs[d]
        BY <1>1, <1>3, <2>2
      <3>2. Unsent(S, d) = Unsent(asked, d)
        BY <1>3, <1>14, <2>2 DEF Unsent
      <3> QED BY <3>1, <3>2 DEF AskedInv
    <2> QED BY <2>1, <2>2
  <1>17. AskedInv'
    BY <1>13, <1>14, <1>16 DEF AskedInv
  <1>18. UNCHANGED <<convKind, open, interval, view, visits, fails>>
    BY DEF SendAnswered
  <1> QED BY <1>15, <1>17, <1>18, ConvFrame

LEMMA ConvStep == ConvInv /\ [ConvNext]_convVars => ConvInv'
  <1> SUFFICES ASSUME ConvInv, [ConvNext]_convVars PROVE ConvInv'
    OBVIOUS
  <1>1. CASE UNCHANGED convVars
    <2>1. AskedInv'
      BY <1>1 DEF ConvInv, AskedInv, convVars
    <2> QED BY <1>1, <2>1, ConvFrame DEF ConvInv, ConvTypeOK, convVars
  <1> QED BY <1>1, AskingStep, RoomStep, FetchingStep, SentStep DEF ConvNext

\* Every variable of the page keeps its type: what is shown are messages of a
\* conversation, and requests in flight stay within their bound.
THEOREM ConversationsTyped == ConvSpec => []ConvTypeOK
  <1>1. ConvInv => ConvTypeOK
    BY DEF ConvInv
  <1>2. ConvSpec => []ConvInv
    BY ConvStart, ConvStep, PTL DEF ConvSpec
  <1> QED BY <1>1, <1>2, PTL

-----------------------------------------------------------------------------
(* The parts together *)

\* One part moves at a time, so that each keeps what is proved of it alone.
LEMMA EndsAreEach ==
  EndsSpec => HubSpec /\ LinkSpec /\ ConvSpec /\ ProbeSpec /\ WatchSpec
  <1>1. EndsInit => HubInit /\ LinkInit /\ ConvInit /\ ProbeInit /\ WatchInit
    BY DEF EndsInit
  <1>2. [EndsNext]_endsVars => /\ [HubNext]_hubVars /\ [LinkNext]_linkVars /\ [ConvNext]_convVars
                               /\ [ProbeNext]_probeVars /\ [WatchNext]_watchVars
    BY DEF EndsNext, MovesHub, MovesLink, MovesConversation, MovesProbes, MovesWatch, endsVars
  <1> QED BY <1>1, <1>2, PTL DEF EndsSpec, HubSpec, LinkSpec, ConvSpec, ProbeSpec, WatchSpec

\* Who is where agrees on both sides, whichever part moves: the hub's rooms with
\* its connections, what a daemon serves with what its file lists.
THEOREM EndsRoomsAndWatches == EndsSpec => []RoomsAndWatches
  <1>1. HubTypeOK /\ LinkTypeOK /\ ConvTypeOK /\ ProbeTypeOK /\ WatchTypeOK => EndsTypeOK
    BY DEF EndsTypeOK
  <1>2. EndsTypeOK /\ RoomsAndChannels /\ FollowsConfig => RoomsAndWatches
    BY DEF RoomsAndWatches
  <1> QED BY <1>1, <1>2, EndsAreEach, HubTyped, HubRoomsAndChannels, LinkTyped, ConversationsTyped,
             ProbesTyped, WatchFollowsConfig, PTL
=============================================================================
